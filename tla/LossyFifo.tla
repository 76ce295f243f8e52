------------------------------ MODULE LossyFifo ------------------------------
(***************************************************************************)
(* What a queue between processes promises its users: messages may be      *)
(* lost, but those that arrive do so once each, and in the order they were *)
(* sent.                                                                   *)
(***************************************************************************)
EXTENDS Naturals, Sequences, SequencesExt

CONSTANT Messages

VARIABLES
    content, \* messages under way, oldest first
    got      \* the last message that arrived

Init == content = <<>> /\ got = "none"

Send(m) == content' = Append(content, m) /\ UNCHANGED got

Get ==
    /\ content # <<>>
    /\ got' = Head(content)
    /\ content' = Tail(content)

Lose == \E i \in 1..Len(content) : content' = RemoveAt(content, i) /\ UNCHANGED got

\* A receiver that starts anew has lost what was on its way out.
LoseOldest ==
    /\ \E n \in 0..Len(content) : content' = SubSeq(content, n + 1, Len(content))
    /\ UNCHANGED got

Next == (\E m \in Messages : Send(m)) \/ Get \/ Lose \/ LoseOldest

Spec == Init /\ [][Next]_<<content, got>>
=============================================================================
