----------------------------- MODULE MCJobQueue -----------------------------
(* Instances of JobQueue small enough for TLC. *)
EXTENDS JobQueue

Alone == [r \in Run |-> r]          \* every run its own root
OneBatch == [r \in Run |-> 1]       \* a probe batch: all runs share a root
=============================================================================
