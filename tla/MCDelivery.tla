----------------------------- MODULE MCDelivery -----------------------------
(***************************************************************************)
(* Instances of Delivery for TLC.                                          *)
(***************************************************************************)
EXTENDS Delivery, TLC

\* Workers, dispatchers and task ids are interchangeable: no action and no
\* invariant names one of them.  Not used where liveness is checked.
Interchangeable == Permutations(Workers) \union Permutations(TaskIds)
                     \union Permutations(Dispatchers)
=============================================================================
