-------------------------- MODULE MCSessionHistory --------------------------
(* Instances of SessionHistory.                                            *)
EXTENDS SessionHistory, TLC

CONSTANTS m1, m2, m3, r1, n1, d1, s1, c1, c2, c3

ThreeTasks == {m1, m2, m3}
TwoTasks == {m1, m2}
TwoConvs == {c1, c2}
ThreeConvs == {c1, c2, c3}

AllMessages == [t \in Tasks |-> "message"]
OnlyMessageTasks == {AllMessages}

(* Only messages; or one task of each kind.                                *)
EveryKind ==
  {AllMessages} \cup {k \in [Tasks -> {"message", "early", "job"}] :
                       {k[t] : t \in Tasks} = {"message", "early", "job"}}

AllCommands == {r1, n1, d1, s1}
ResetOnly == {r1}
CommandFor == [c \in Cmds |-> CASE c = r1 -> "reset" [] c = n1 -> "new"
                            [] c = d1 -> "delete" [] c = s1 -> "stop"]

SymmetricTasks == Permutations(Tasks) \cup Permutations(Convs)
=============================================================================
