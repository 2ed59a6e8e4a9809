-------------------------- MODULE BriefPlanningMC --------------------------
(* Small sets of briefs for model checking BriefPlanning.                    *)
EXTENDS BriefPlanning, TLC

CONSTANTS a, b, t1, t2

OneBrief == (t1 :> a) @@ (t2 :> a)

(* Briefs whose plans have no tasks, as an epic's.                           *)
NoTasks == <<>>

(* The tasks of one brief are interchangeable.                               *)
Alike == Permutations(Tasks)
=============================================================================
