------------------------------ MODULE MCOutbox ------------------------------
(***************************************************************************)
(* Small instances of Outbox.                                              *)
(***************************************************************************)
EXTENDS Outbox, TLC

\* Event 1 has a retry left after its first failure, event 2 has not.
MCMaxAttempts == [e \in Events |-> IF e = 1 THEN 2 ELSE 1]

\* Every event may be tried twice.
MCTwice == [e \in Events |-> 2]

\* OccurredAt now.
MCNow == {0}

\* OccurredAt one unit in the past, now, or one unit ahead.
MCAround == {-1, 0, 1}

MCSymmetry == Permutations(Dispatchers)
=============================================================================
