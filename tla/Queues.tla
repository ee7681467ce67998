-------------------------------- MODULE Queues --------------------------------
(***************************************************************************)
(* What the proofs about messages say of a queue.                            *)
(***************************************************************************)
EXTENDS Naturals, Sequences, FiniteSets

\* How often message m waits in queue q; whether every a is ahead of every b.
Count(q, m) == Cardinality({i \in DOMAIN q : q[i] = m})
Ahead(q, a, b) == \A i, j \in DOMAIN q : q[i] = a /\ q[j] = b => i < j
===============================================================================
