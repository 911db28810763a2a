---------------------------- MODULE ServiceQueues ----------------------------
(***************************************************************************)
(* What a FIFO or a collection of the UVM services promises: a queue to    *)
(* which items are added at the end, and from which they are taken at the  *)
(* head, or read and removed at an index.                                  *)
(***************************************************************************)
EXTENDS Naturals, Sequences

CONSTANTS Queues, Items

VARIABLES
  queues,  \* the items of each queue
  answer   \* what the last call returned

\* Answers about queues; other answers, and exceptions, are not.
About(a) == a[1] \in {"item", "empty", "size"}
Silent == answer' = answer \/ ~About(answer')

Init == queues = [q \in Queues |-> <<>>] /\ ~About(answer)

Push(q, v) == queues' = [queues EXCEPT ![q] = Append(@, v)] /\ Silent

Take(q) ==
  /\ queues[q] # <<>>
  /\ queues' = [queues EXCEPT ![q] = Tail(@)]
  /\ answer' = <<"item", q, 0, Head(queues[q])>>

Nothing(q) == queues[q] = <<>> /\ answer' = <<"empty", q>> /\ UNCHANGED queues

Read(q) ==
  /\ \E i \in 1..Len(queues[q]) : answer' = <<"item", q, i - 1, queues[q][i]>>
  /\ UNCHANGED queues

Measure(q) == answer' = <<"size", q, Len(queues[q])>> /\ UNCHANGED queues

Without(s, i) == SubSeq(s, 1, i - 1) \o SubSeq(s, i + 1, Len(s))

Remove(q) ==
  /\ \E i \in 1..Len(queues[q]) : queues' = [queues EXCEPT ![q] = Without(@, i)]
  /\ Silent

Clear == queues' = [q \in Queues |-> <<>>] /\ Silent

Other == UNCHANGED queues /\ Silent

Next ==
  \/ Other \/ Clear
  \/ \E q \in Queues :
       \/ Take(q) \/ Nothing(q) \/ Read(q) \/ Measure(q) \/ Remove(q)
       \/ \E v \in Items : Push(q, v)

Spec == Init /\ [][Next]_<<queues, answer>>
=============================================================================
