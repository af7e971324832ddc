----------------------------- MODULE MessageFifo ------------------------------
(***************************************************************************)
(* What the message queue promises its users (README: "a FIFO queue"): a   *)
(* message that was accepted stays queued, unchanged and in order, until   *)
(* it is received, once, from the front.                                   *)
(***************************************************************************)
EXTENDS Naturals, Sequences

CONSTANT Message

VARIABLES queue, received

Init ==
  /\ queue = << >>
  /\ received = << >>

Send ==
  /\ UNCHANGED received
  /\ Len(queue') = Len(queue) + 1
  /\ \E m \in Message : queue' = Append(queue, m)

Receive ==
  /\ queue # << >>
  /\ received' = Append(received, Head(queue))
  /\ queue' = Tail(queue)

Next == Send \/ Receive

Spec == Init /\ [][Next]_<<queue, received>>
===============================================================================
