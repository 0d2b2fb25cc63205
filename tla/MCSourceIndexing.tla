-------------------------- MODULE MCSourceIndexing --------------------------
(* Two URLs; page a2 is a later version of a1, b1 belongs to the other URL.   *)
EXTENDS SourceIndexing, TLC
CONSTANTS a, b, a1, a2, b1, f1, f2, f3, jobA, jobB

MCPageUrl == (a1 :> a) @@ (a2 :> a) @@ (b1 :> b)
MCJob     == (f1 :> jobA) @@ (f2 :> jobA) @@ (f3 :> jobB)
=============================================================================
