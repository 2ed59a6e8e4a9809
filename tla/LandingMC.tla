----------------------------- MODULE LandingMC -----------------------------
(* A small repository for model checking Landing. *)
EXTENDS Landing, TLC

CONSTANTS w1, w2, f1, f2

(* The commits touch different files, as those of parallel tasks do. *)
OneFileEach == (w1 :> {f1}) @@ (w2 :> {f2})

(* One of the tasks is tried again when its attempt fails. *)
TwoAndOne == (w1 :> 2) @@ (w2 :> 1)

OneEach == [w \in {w1, w2} |-> 1]
=============================================================================
