------------------------------- MODULE Channel -------------------------------
(***************************************************************************)
(* What a transmitter promises its user: the characters it has accepted    *)
(* leave it in their order, each of them once, and none stays behind.      *)
(***************************************************************************)
EXTENDS Naturals, Sequences

CONSTANT Message

VARIABLES
  accepted,     \* everything the user has handed over
  sent          \* everything that has left

Init == accepted = <<>> /\ sent = <<>>

Accept == \E m \in Message : accepted' = Append(accepted, m) /\ UNCHANGED sent

Send ==
  /\ Len(sent) < Len(accepted)
  /\ sent' = Append(sent, accepted[Len(sent) + 1])
  /\ UNCHANGED accepted

Behaviour == Init /\ [][Accept \/ Send]_<<accepted, sent>>

Progress == WF_<<accepted, sent>>(Send)
==============================================================================
