--------------------------- MODULE MCJobLifecycle ---------------------------
(* JobLifecycle on small instances: the configurations give the constants    *)
(* model values; a run without liveness reduces by these symmetries.  A run   *)
(* with liveness reduces by a view: no guard reads posted, deleted or raced,  *)
(* so states that differ in these alone have the same steps ahead of them,    *)
(* and the properties of that run do not read them either.                    *)
EXTENDS JobLifecycle, TLC

HandlerSymmetry == Permutations(Handlers)
Symmetry == Permutations(Handlers) \union Permutations(Jobs)

WithoutCounts == <<records, tomb, entry, disk, control, lists, run, client, faults,
                   abandoned, struck>>
=============================================================================
