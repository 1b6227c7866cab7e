----------------------------- MODULE MCBrowser -----------------------------
(* An instance of Browser: an executor and a reviewer, one browser at a     *)
(* time, two calls in flight, and two browsers in all.                    *)
EXTENDS Browser, TLC

Symmetry == Permutations(Calls)
=============================================================================
