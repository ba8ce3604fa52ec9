---------------------------- MODULE MCAgentLoop ----------------------------
(* Instances of AgentLoop: the settings an administrator can choose and    *)
(* the conversations a run can start from.                                 *)
EXTENDS AgentLoop, TLC

CONSTANTS m1, m2, m3

ThreeModels == {m1, m2, m3}
TwoFallbacks == <<m2, m3>>

Setting(turns, tokens) ==
  [turns |-> turns, drop |-> 1, tokens |-> tokens, recent |-> 2,
   skills |-> FALSE, streaming |-> FALSE]

System == <<Message("system", "persona", <<>>)>>
Turn   == <<User("earlier"), Assistant("answer")>>
ToolTurn ==
  <<User("earlier"), Message("assistant", "call", <<<<0, 1>>>>),
    ToolResult(<<0, 1>>), Assistant("answer")>>

(* Its tool had nothing to tell.                                           *)
SilentTurn ==
  <<User("earlier"), Message("assistant", "call", <<<<0, 2>>>>),
    Assistant("answer")>>

From(setting, history) ==
  [limits |-> setting, history |-> history, unheard |-> {<<0, 2>>}]

(* skills_like and streaming where the context stays as it is; one and two *)
(* turns; both strategies for the context window.                          *)
AllStarts ==
  {From([Setting(-1, "none") EXCEPT !.skills = TRUE], System \o Turn),
   From([Setting(-1, "none") EXCEPT !.streaming = TRUE], <<>>),
   From(Setting(1, "none"), System \o ToolTurn),
   From(Setting(2, "none"), Turn \o Turn),
   From(Setting(-1, "truncate"), System \o Turn \o ToolTurn),
   From(Setting(-1, "summary"), System \o SilentTurn)}

OneTurn == {From(Setting(1, "none"), System \o Turn)}
=============================================================================
