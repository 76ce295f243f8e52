------------------------------ MODULE MeshLink ------------------------------
(***************************************************************************)
(* What the mesh signalling client promises the connection controller: a   *)
(* link that is off, being signed in, or on.  It is never on without having*)
(* been signed in, an unwanted link stays off, and a wanted link that is   *)
(* lost is reported.  report lists the callbacks of the last step.         *)
(***************************************************************************)
EXTENDS Naturals, Sequences

VARIABLES
    link,    \* "off", "trying" or "on"
    wanted,  \* the upper layer has logged in and not out
    report   \* callbacks of the last step, in order

vars == <<link, wanted, report>>

Failures == {<<"SignFailed">>, <<"Busy">>, <<"LoginFail">>, <<"DisconnInd">>}

Init ==
    /\ link = "off"
    /\ wanted = FALSE
    /\ report = <<>>

Login ==
    /\ link = "off"
    /\ wanted' = TRUE
    /\ \/ link' = "trying" /\ report' = <<>>
       \/ link' = "off" /\ report' = <<"SignFailed">>

Logout ==
    /\ link' = "off"
    /\ wanted' = FALSE
    /\ report' = <<>>

SignedIn ==
    /\ link = "trying"
    /\ link' = "on"
    /\ report' \in {<<>>, <<"SignedIn">>, <<"SignedIn", "PeerConnected">>}
    /\ UNCHANGED wanted

\* A request of a link that is already off, a sign out, may fail as well.
Lost ==
    /\ link' = "off"
    /\ report' \in Failures
    /\ link = "off" => report' = <<"SignFailed">>
    /\ UNCHANGED wanted

\* A message that cannot be sent at all takes the link with it, silently.
Vanish ==
    /\ link = "on"
    /\ link' = "off"
    /\ report' = <<>>
    /\ UNCHANGED wanted

\* A delayed message signs in again, whatever the link was.
Retry ==
    /\ wanted
    /\ \/ link' = "trying" /\ report' = <<>>
       \/ link' = "off" /\ report' = <<"SignFailed">>
    /\ UNCHANGED wanted

\* News of a peer, or from one, over a link that is on.
Notify ==
    /\ link = "on"
    /\ report' \in {<<"PeerConnected">>, <<"PeerDisconnected">>, <<"PeerMessage">>}
    /\ UNCHANGED <<link, wanted>>

Quiet ==
    /\ report' = <<>>
    /\ UNCHANGED <<link, wanted>>

Next == Login \/ Logout \/ SignedIn \/ Lost \/ Vanish \/ Retry \/ Notify \/ Quiet

Spec == Init /\ [][Next]_vars
=============================================================================
