---------------------------- MODULE TaskQueueMC ----------------------------
(* Small plans for model checking TaskQueue. *)
EXTENDS TaskQueue, TLC

CONSTANTS a, b, c, w1, w2, w3

DepChain == (a :> {}) @@ (b :> {a})

(* c waits for a; b does not. *)
ThirdWaits == (a :> {}) @@ (b :> {}) @@ (c :> {a})

TwoIndependent == (a :> {}) @@ (b :> {})

(* a and b touch a common file, c another one. *)
ClashingOfThree == (a :> {b}) @@ (b :> {a}) @@ (c :> {})

(* Workers are interchangeable. *)
Alike == Permutations(Workers)
=============================================================================
