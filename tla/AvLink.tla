------------------------------- MODULE AvLink -------------------------------
(***************************************************************************)
(* av_conn.cc: the main thread says hello to the audio/video module every  *)
(* second, counts the hellos in a row that went wrong, and gives the module*)
(* its configuration when it comes back.  The module itself, on the other  *)
(* end of the SOAP channel, is modelled from this use: it numbers its      *)
(* answers, from the start again when it restarts, and then has lost its   *)
(* configuration.                                                          *)
(***************************************************************************)
EXTENDS Integers

VARIABLES
    av_status, \* av_module_status
    av_lost,   \* av_module_lost, which is only compared with 1: no count above 2 here
    sn,        \* hello_sn: "zero", the module's "last" number, or "other"
    av_up,     \* the module answers
    av_ip,     \* its peerIp is this device's
    av_cfg,    \* it has the current configuration
    av_reboot, \* it has been told to reboot
    unseen,    \* history: it restarted while it counted as connected, or a push was lost
    calm       \* from now on the module stops only when told to, and no call fails

link == <<av_status, av_lost, sn>>
module == <<av_up, av_ip, av_cfg, av_reboot, unseen, calm>>
av == <<link, module>>

AvInit ==
    /\ av_status = 1 /\ av_lost = 2 /\ sn = "zero"
    /\ av_up \in BOOLEAN /\ av_ip \in BOOLEAN
    /\ av_cfg = FALSE
    /\ av_reboot = FALSE
    /\ unseen = FALSE
    /\ calm \in BOOLEAN

\* av_server_status_update(0)
StatusDown ==
    /\ av_lost' = IF av_lost < 2 THEN av_lost + 1 ELSE 2
    /\ av_status' = IF av_lost + 1 > 1 THEN 0 ELSE av_status

\* No answer, or none that can be read; the module may have counted it.
HelloFails ==
    /\ ~av_up \/ ~calm
    /\ StatusDown
    /\ sn' \in {sn, IF av_up /\ sn = "last" THEN "other" ELSE sn}
    /\ UNCHANGED module

\* Mutant: the number expected is kept.
HelloWrongSnKept ==
    /\ av_up
    /\ sn = "other"
    /\ StatusDown
    /\ UNCHANGED <<sn, module>>

\* The number is not the next one.
HelloWrongSn ==
    /\ av_up
    /\ sn = "other"
    /\ sn' = "last"
    /\ StatusDown
    /\ UNCHANGED module

HelloAnswered == av_up /\ sn # "other" /\ sn' = "last"

\* The module has been there all along, or is taken to have been.
HelloConnected ==
    /\ HelloAnswered
    /\ av_status = 1
    /\ av_lost' = 0
    /\ UNCHANGED <<av_status, module>>

\* av_peerip_update: a module with another address gets this one, and is told to
\* reboot; until it answers again it does not count as connected.
AvReboot ==
    /\ HelloAnswered
    /\ av_status = 0
    /\ ~av_ip
    /\ av_ip' = TRUE \/ (~calm /\ UNCHANGED av_ip)
    /\ av_reboot' = TRUE
    /\ UNCHANGED <<av_status, av_lost, av_up, av_cfg, unseen, calm>>

\* The module is back: it is given the configuration, and nobody looks whether it
\* got it.  (An address that cannot be read counts as right.)
AvConfigure ==
    /\ HelloAnswered
    /\ av_status = 0
    /\ av_ip \/ ~calm
    /\ av_status' = 1 /\ av_lost' = 0
    /\ \/ av_cfg' = TRUE /\ UNCHANGED unseen
       \/ ~calm /\ unseen' = TRUE /\ UNCHANGED av_cfg
    /\ UNCHANGED <<av_up, av_ip, av_reboot, calm>>

av_module_conn_check == HelloFails \/ HelloWrongSn \/ HelloConnected \/ AvReboot \/ AvConfigure

\* The statics of a new process, and its av_server_status_update(0).
AvRestart == av_status' = 0 /\ av_lost' = 2 /\ sn' = "zero" /\ UNCHANGED module

-----------------------------------------------------------------------------
(* The module.                                                               *)

AvStops ==
    /\ av_up
    /\ ~calm \/ av_reboot
    /\ av_up' = FALSE
    /\ av_reboot' = FALSE
    /\ UNCHANGED <<link, av_ip, av_cfg, unseen, calm>>

AvStarts ==
    /\ ~av_up
    /\ av_up' = TRUE
    /\ av_cfg' = FALSE
    /\ sn' = IF sn = "zero" THEN sn ELSE "other"
    /\ unseen' = (av_status = 1)
    /\ UNCHANGED <<av_status, av_lost, av_ip, av_reboot, calm>>

AvCalms ==
    /\ ~calm
    /\ calm' = TRUE
    /\ UNCHANGED <<link, av_up, av_ip, av_cfg, av_reboot, unseen>>

AvModule == AvStops \/ AvStarts \/ AvCalms

AvTypeOK ==
    /\ av_status \in {0, 1}
    /\ av_lost \in 0..2
    /\ sn \in {"zero", "last", "other"}
    /\ {av_up, av_ip, av_cfg, av_reboot, unseen, calm} \subseteq BOOLEAN

\* The module is connected, and has its configuration if the link saw it go and no
\* push was lost.
AvReady == av_status = 1 /\ (av_cfg \/ unseen)
=============================================================================
