----------------------------- MODULE MCCronJobs -----------------------------
(* Instances of CronJobs.                                                  *)
EXTENDS CronJobs, TLC

CONSTANTS j1, j2, j3, o1, o2

TwoJobs == {j1, j2}
ThreeJobs == {j1, j2, j3}
TwoOps == {o1, o2}
NoOps == {}

SymmetricJobs == Permutations(Jobs) \cup Permutations(Ops)
=============================================================================
