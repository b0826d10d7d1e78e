--------------------------------- MODULE Queues ---------------------------------
(***************************************************************************)
(* Rows in order: what a SELECT lists, and what a DELETE leaves of a table *)
(* that is read in the order of its rows.                                  *)
(***************************************************************************)
EXTENDS Integers, Sequences, FiniteSets

\* What stands in a queue.
Entries(queue) == {queue[i] : i \in DOMAIN queue}

\* A finite set of numbers, in order.
Ranked(S) ==
    [n \in 1 .. Cardinality(S) |-> CHOOSE i \in S : Cardinality({j \in S : j < i}) = n - 1]

\* The entries of a queue that are kept, in their order; kept is a set of places.
Picked(queue, kept) == [n \in 1 .. Cardinality(kept) |-> queue[Ranked(kept)[n]]]
=============================================================================
