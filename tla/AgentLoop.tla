------------------------------ MODULE AgentLoop ------------------------------
(***************************************************************************)
(* One run of the tool-loop agent: run_agent driving                       *)
(* ToolLoopAgentRunner.step, the requests to the provider with retries and *)
(* fallbacks, the tool calls, the shortening of the context before every   *)
(* request, and the stop a user asks for while all this happens.           *)
(*                                                                         *)
(*   pc        between steps, asking a provider, asking again for the      *)
(*             arguments (skills_like), calling a tool: before it, in its  *)
(*             start hook, in it; ended                                    *)
(*   limits    the settings of this run                                    *)
(*   messages  run_context.messages                                        *)
(*   step      step_idx of run_agent                                       *)
(*   provider  self.provider                                               *)
(*   idx, attempt, streamed                                                *)
(*             the candidate, its attempt, has_stream_output               *)
(*   calls     the tool calls of the answer in hand, those to come first   *)
(*   todo      the calls of the answer still to be made                    *)
(*   blocks    tool_call_result_blocks, as the calls they answer           *)
(*   state     the runner's _state, "aborted" for DONE with _aborted and   *)
(*             "raised" when step() left with an exception                 *)
(*   stopReq   the event is stopped or has "agent_stop_requested"          *)
(*   abort     the runner's _abort_signal                                  *)
(*   unheard   history variable: the calls whose tool gave no result       *)
(*   asked     history variable: the models asked in this step             *)
(*   lateTools, lateSteps                                                  *)
(*             history variables: what began after the user's stop         *)
(***************************************************************************)
EXTENDS ContextTruncator

CONSTANTS Models, Primary, Fallbacks,
                                \* the model of the session, its fallbacks
          MaxStep,              \* max_step of run_agent
          MaxAttempts,          \* EMPTY_OUTPUT_RETRY_ATTEMPTS
          MaxCalls, MaxResults, \* bounds: calls of an answer, results of a call
          Starts                \* settings and the history a run starts from,
                                \* with those of its calls that had no result

ASSUME BoundsAssumption ==
  /\ MaxStep \in Nat \ {0} /\ MaxAttempts \in Nat \ {0}
  /\ MaxCalls \in Nat /\ MaxResults \in Nat
ASSUME ModelsAssumption == Primary \in Models /\ Fallbacks \in Seq(Models)

-----------------------------------------------------------------------------
(* Legal conversations.                                                    *)

OnlyAssistantsCall(msgs) ==
  \A i \in DOMAIN msgs : msgs[i].calls # <<>> => msgs[i].role = "assistant"

AnsweredAt(msgs, i, c) ==
  \E j \in (i + 1)..Len(msgs) :
    /\ msgs[j].role = "tool" /\ msgs[j].name = c
    /\ \A k \in (i + 1)..j : msgs[k].role = "tool"

(* Each call that had a result is followed by it.                          *)
CallsAnswered(msgs, silent) ==
  \A i \in DOMAIN msgs : \A c \in ToSet(msgs[i].calls) :
    c \in silent \/ AnsweredAt(msgs, i, c)

PlacedAt(msgs, j) ==
  \E i \in 1..(j - 1) :
    /\ msgs[j].name \in ToSet(msgs[i].calls)
    /\ \A k \in (i + 1)..j : msgs[k].role = "tool"

(* No result stands without its call.                                      *)
ResultsPlaced(msgs) == \A j \in Positions(msgs, "tool") : PlacedAt(msgs, j)

(* The settings an administrator can choose, and a history that an earlier *)
(* run may have left: it is legal and starts with a user's message.        *)
ASSUME StartsAssumption ==
  \A s \in Starts :
    /\ s.limits.turns \in Int /\ s.limits.drop \in Nat \ {0}
    /\ Len(s.history) \in Nat
    /\ s.history = [i \in 1..Len(s.history) |-> s.history[i]]
    /\ OnlyAssistantsCall(s.history)
    /\ CallsAnswered(s.history, s.unheard)
    /\ ResultsPlaced(s.history)
    /\ Rest(s.history) # <<>> => Rest(s.history)[1].role = "user"

-----------------------------------------------------------------------------
VARIABLES pc, limits, messages, step, provider, idx, attempt, streamed,
          calls, todo, blocks, state, stopReq, abort, unheard, asked,
          lateTools, lateSteps

askVars  == <<provider, idx, attempt, streamed, asked>>
toolVars == <<calls, todo, blocks, unheard, lateTools>>
stopVars == <<stopReq, abort>>
vars == <<pc, limits, messages, step, askVars, toolVars, state, stopVars,
          lateSteps>>

PCs == {"between", "asking", "arguments", "tools", "hook", "tool", "ended"}
States == {"running", "done", "error", "aborted", "raised"}

LastCandidate == Len(Fallbacks) + 1

(* func_tool is there until the forced last step.                          *)
HasTools == step <= MaxStep

Init ==
  /\ pc = "between"
  /\ \E s \in Starts :
       /\ limits = s.limits /\ unheard = s.unheard
       /\ messages = s.history \o <<User("question")>>
  /\ step = 0
  /\ provider = Primary
  /\ idx = 1 /\ attempt = 1 /\ streamed = FALSE
  /\ calls = <<>> /\ todo = <<>> /\ blocks = <<>>
  /\ state = "running"
  /\ stopReq = FALSE /\ abort = FALSE
  /\ asked = {} /\ lateTools = {} /\ lateSteps = 0

-----------------------------------------------------------------------------
(* The stop.                                                               *)

AskStop ==
  /\ pc # "ended"
  /\ ~stopReq
  /\ stopReq' = TRUE
  /\ UNCHANGED <<pc, limits, messages, step, askVars, toolVars, state, abort,
                 lateSteps>>

(* _watch_agent_stop_signal polls while a step runs.                       *)
Watch ==
  /\ pc \notin {"between", "ended"}
  /\ stopReq /\ ~abort
  /\ abort' = TRUE
  /\ UNCHANGED <<pc, limits, messages, step, askVars, toolVars, state, stopReq,
                 lateSteps>>

(* _finalize_aborted_step: what the answer says so far may be recorded.    *)
FinalizeAborted ==
  /\ state' = "aborted"
  /\ pc' = "ended"
  /\ \E part \in {<<>>, <<Assistant("partial")>>} : messages' = messages \o part
  /\ UNCHANGED <<limits, step, askVars, toolVars, stopReq, lateSteps>>

-----------------------------------------------------------------------------
(* A step up to its request.                                               *)

(* run_agent begins a step: the last one has no tools and a prompt to      *)
(* conclude.  The context is shortened; while the step first waits the     *)
(* stop watcher has its first look.                                        *)
BeginStep ==
  /\ pc = "between"
  /\ step' = step + 1
  /\ \E m \in Process(IF step = MaxStep THEN Append(messages, User("conclude"))
                      ELSE messages, limits) : messages' = m
  /\ idx' = 1 /\ attempt' = 1 /\ streamed' = FALSE
  /\ asked' = {provider}
  /\ abort' = stopReq
  /\ lateSteps' = IF stopReq THEN lateSteps + 1 ELSE lateSteps
  /\ pc' = "asking"
  /\ UNCHANGED <<limits, provider, toolVars, state, stopReq>>

EndStep == pc' = IF step > MaxStep THEN "ended" ELSE "between"

-----------------------------------------------------------------------------
(* _iter_llm_responses_with_fallback and what step() does with its answer. *)

(* A piece of a streamed answer is shown, and run_agent looks for a stop.  *)
Chunk ==
  /\ pc = "asking"
  /\ limits.streaming
  /\ IF stopReq
     THEN abort' = TRUE /\ FinalizeAborted
     ELSE /\ ~streamed
          /\ streamed' = TRUE
          /\ UNCHANGED <<pc, limits, messages, step, provider, idx, attempt,
                         asked, toolVars, state, stopVars, lateSteps>>

(* An answer without tool calls ends the run.                              *)
AnswerText ==
  /\ pc = "asking"
  /\ IF abort
     THEN FinalizeAborted /\ UNCHANGED abort
     ELSE /\ messages' = Append(messages, Assistant("answer"))
          /\ state' = "done"
          /\ pc' = "ended"
          /\ UNCHANGED <<limits, step, askVars, toolVars, stopVars, lateSteps>>

(* The iteration over the candidates is over.                              *)
GotAnswer ==
  /\ idx' = 1 /\ attempt' = 1 /\ streamed' = FALSE /\ asked' = {}
  /\ UNCHANGED provider

(* The n tool calls of an answer: numbered by step and place.              *)
CallsOf(n) == [k \in 1..n |-> <<step, k>>]

AnswerCalls(n) ==
  /\ pc = "asking"
  /\ IF abort
     THEN FinalizeAborted /\ UNCHANGED abort
     ELSE /\ calls' = CallsOf(n)
          /\ todo' = CallsOf(n)
          /\ blocks' = <<>>
          /\ pc' = IF limits.skills /\ HasTools THEN "arguments" ELSE "tools"
          /\ GotAnswer
          /\ UNCHANGED <<limits, messages, step, state, stopVars, unheard,
                         lateTools, lateSteps>>

(* Every candidate has failed, or an error came after the answer had begun.*)
Fail ==
  IF abort
  THEN FinalizeAborted /\ UNCHANGED abort
  ELSE /\ state' = "error"
       /\ pc' = "ended"
       /\ UNCHANGED <<limits, messages, step, askVars, toolVars, stopVars,
                      lateSteps>>

(* Mutant of NextCandidate: the first fallback is skipped.                 *)
SkipCandidate ==
  IF idx = LastCandidate THEN Fail
  ELSE /\ idx' = LastCandidate
       /\ provider' = Fallbacks[LastCandidate - 1]
       /\ asked' = asked \cup {provider'}
       /\ attempt' = 1 /\ streamed' = FALSE
       /\ UNCHANGED <<pc, limits, messages, step, toolVars, state, stopVars,
                      lateSteps>>

NextCandidate ==
  IF idx = LastCandidate THEN Fail
  ELSE /\ idx' = idx + 1
       /\ provider' = Fallbacks[idx]
       /\ asked' = asked \cup {provider'}
       /\ attempt' = 1 /\ streamed' = FALSE
       /\ UNCHANGED <<pc, limits, messages, step, toolVars, state, stopVars,
                      lateSteps>>

(* An answer of role "err".                                                *)
ErrorResponse ==
  /\ pc = "asking"
  /\ IF streamed THEN Fail ELSE NextCandidate

(* The provider raises, once its own retries are over.                     *)
Raise == pc = "asking" /\ NextCandidate

(* Mutant of EmptyOutput: one attempt too many.                            *)
RetryOnceMore ==
  /\ pc = "asking"
  /\ IF attempt <= MaxAttempts
     THEN /\ attempt' = attempt + 1
          /\ streamed' = FALSE
          /\ UNCHANGED <<pc, limits, messages, step, provider, idx, asked,
                         toolVars, state, stopVars, lateSteps>>
     ELSE NextCandidate

(* EmptyModelOutputError: the same provider again, also when pieces of the *)
(* answer were shown.                                                      *)
EmptyOutput ==
  /\ pc = "asking"
  /\ IF attempt < MaxAttempts
     THEN /\ attempt' = attempt + 1
          /\ streamed' = FALSE
          /\ UNCHANGED <<pc, limits, messages, step, provider, idx, asked,
                         toolVars, state, stopVars, lateSteps>>
     ELSE NextCandidate

(* A stream that ends without a final answer: the step is over if pieces   *)
(* were shown.                                                             *)
StreamEnds ==
  /\ pc = "asking"
  /\ limits.streaming
  /\ IF ~streamed THEN NextCandidate
     ELSE IF abort THEN FinalizeAborted /\ UNCHANGED abort
     ELSE /\ EndStep
          /\ GotAnswer
          /\ UNCHANGED <<limits, messages, step, toolVars, state, stopVars,
                         lateSteps>>

(* _resolve_tool_exec: the arguments are asked for with a second request,  *)
(* or a third; the answer replaces the first one.                          *)
ArgumentCalls(n) ==
  /\ pc = "arguments"
  /\ calls' = CallsOf(n)
  /\ todo' = CallsOf(n)
  /\ pc' = "tools"
  /\ UNCHANGED <<limits, messages, step, askVars, blocks, unheard, lateTools,
                 state, stopVars, lateSteps>>

ArgumentText ==
  /\ pc = "arguments"
  /\ messages' = Append(messages, Assistant("answer"))
  /\ state' = "done"
  /\ pc' = "ended"
  /\ UNCHANGED <<limits, step, askVars, toolVars, stopVars, lateSteps>>

(* No fallback here: the exception leaves step() and ends the run.         *)
ArgumentRaise ==
  /\ pc = "arguments"
  /\ state' = "raised"
  /\ pc' = "ended"
  /\ UNCHANGED <<limits, messages, step, askVars, toolVars, stopVars,
                 lateSteps>>

-----------------------------------------------------------------------------
(* _handle_function_tools.                                                 *)

(* A call is announced; run_agent looks for a stop.  Without tools the     *)
(* calls are left there and no result is handed over; a tool nobody knows  *)
(* is answered with an error.                                              *)
Announce ==
  /\ pc = "tools"
  /\ todo # <<>>
  /\ abort' = (abort \/ stopReq)
  /\ \/ /\ ~HasTools
        /\ todo' = <<>>
        /\ blocks' = <<>>
        /\ UNCHANGED pc
     \/ /\ HasTools
        /\ todo' = Tail(todo)
        /\ blocks' = Append(blocks, Head(todo))
        /\ UNCHANGED pc
     \/ /\ HasTools
        /\ pc' = "hook"
        /\ UNCHANGED <<todo, blocks>>
  /\ UNCHANGED <<limits, messages, step, askVars, calls, state, stopReq,
                 unheard, lateTools, lateSteps>>

(* Mutant of StartTool: the signal is not looked at before the tool runs.  *)
StartAnyway ==
  /\ pc = "hook"
  /\ pc' = "tool"
  /\ lateTools' = IF stopReq THEN lateTools \cup {Head(todo)} ELSE lateTools
  /\ UNCHANGED <<limits, messages, step, askVars, calls, todo, blocks, state,
                 stopVars, unheard, lateSteps>>

(* The start hook is over: the tool runs, unless the signal is set.        *)
StartTool ==
  /\ pc = "hook"
  /\ IF abort
     THEN FinalizeAborted /\ UNCHANGED abort
     ELSE /\ pc' = "tool"
          /\ lateTools' = IF stopReq THEN lateTools \cup {Head(todo)}
                          ELSE lateTools
          /\ UNCHANGED <<limits, messages, step, askVars, calls, todo, blocks,
                         state, stopVars, unheard, lateSteps>>

ResultsOf(id) == Cardinality({k \in DOMAIN blocks : blocks[k] = id})

(* A result, or nothing to tell because the tool has answered the user.    *)
ToolYields(direct) ==
  /\ pc = "tool" /\ ~abort
  /\ ResultsOf(Head(todo)) < MaxResults
  /\ blocks' = Append(blocks, Head(todo))
  /\ state' = IF direct THEN "done" ELSE state
  /\ UNCHANGED <<pc, limits, messages, step, askVars, calls, todo, stopVars,
                 unheard, lateTools, lateSteps>>

(* The tool is through.  It may have yielded nothing, or only what the     *)
(* runner does not understand.                                             *)
ToolEnds ==
  /\ pc = "tool" /\ ~abort
  /\ unheard' = IF ResultsOf(Head(todo)) = 0 THEN unheard \cup {Head(todo)}
                ELSE unheard
  /\ todo' = Tail(todo)
  /\ pc' = "tools"
  /\ UNCHANGED <<limits, messages, step, askVars, calls, blocks, state,
                 stopVars, lateTools, lateSteps>>

(* It raises, or takes too long.                                           *)
ToolFails ==
  /\ pc = "tool" /\ ~abort
  /\ blocks' = Append(blocks, Head(todo))
  /\ todo' = Tail(todo)
  /\ pc' = "tools"
  /\ UNCHANGED <<limits, messages, step, askVars, calls, state, stopVars,
                 unheard, lateTools, lateSteps>>

(* Mutant of InterruptTool: the signal is only looked at once the tool has *)
(* given something.                                                        *)
InterruptLater ==
  /\ pc = "tool" /\ abort /\ ResultsOf(Head(todo)) > 0
  /\ FinalizeAborted
  /\ UNCHANGED abort

(* _ToolExecutionInterrupted: the tool is cancelled and the results of     *)
(* this step are dropped.                                                  *)
InterruptTool ==
  /\ pc = "tool" /\ abort
  /\ FinalizeAborted
  /\ UNCHANGED abort

(* The assistant message with its calls, then their results.               *)
Recorded ==
  <<Message("assistant", "call", calls)>>
  \o [k \in DOMAIN blocks |-> ToolResult(blocks[k])]

(* After the last call the calls and their results are recorded, and the   *)
(* pictures among the results are shown to the model in a user message.    *)
RecordCalls(pictures) ==
  /\ pc = "tools" /\ todo = <<>>
  /\ pictures # <<>> => blocks # <<>>
  /\ messages' = messages \o Recorded \o pictures
  /\ calls' = <<>> /\ blocks' = <<>>
  /\ IF state = "done" THEN pc' = "ended" ELSE EndStep
  /\ UNCHANGED <<limits, step, askVars, todo, state, stopVars, unheard,
                 lateTools, lateSteps>>

-----------------------------------------------------------------------------
Answer ==
  \/ Chunk \/ AnswerText \/ (\E n \in 1..MaxCalls : AnswerCalls(n))
  \/ ErrorResponse \/ Raise \/ EmptyOutput \/ StreamEnds
  \/ (\E n \in 1..MaxCalls : ArgumentCalls(n)) \/ ArgumentText \/ ArgumentRaise

Tool == (\E direct \in BOOLEAN : ToolYields(direct)) \/ ToolEnds \/ ToolFails

Work ==
  \/ Announce \/ StartTool \/ InterruptTool
  \/ \E pictures \in {<<>>, <<User("pictures")>>} : RecordCalls(pictures)

Next == AskStop \/ Watch \/ BeginStep \/ Answer \/ Tool \/ Work

Spec == Init /\ [][Next]_vars

(* A provider answers or fails, the runner goes on when it can, and the    *)
(* watcher polls.  Nothing is assumed of a tool.  The last conjunct is     *)
(* WF_vars(BeginStep): BeginStep is enabled, and the only step, between    *)
(* two steps of the agent.                                                 *)
FairSpec ==
  /\ Spec
  /\ WF_vars(Answer) /\ WF_vars(Work) /\ WF_vars(Watch)
  /\ []<>(pc # "between")
-----------------------------------------------------------------------------
(* Properties.                                                             *)

CallIds == (1..(MaxStep + 1)) \X (1..MaxCalls)

(* The types of the variables but the transcript.                          *)
ControlOK ==
  /\ pc \in PCs
  /\ limits \in {s.limits : s \in Starts}
  /\ step \in 0..(MaxStep + 1)
  /\ provider \in Models
  /\ idx \in 1..LastCandidate
  /\ attempt \in 1..MaxAttempts
  /\ streamed \in BOOLEAN
  /\ calls \in Seq(CallIds) /\ todo \in Seq(CallIds) /\ blocks \in Seq(CallIds)
  /\ state \in States
  /\ stopReq \in BOOLEAN /\ abort \in BOOLEAN
  /\ asked \subseteq Models
  /\ unheard \subseteq CallIds \cup UNION {s.unheard : s \in Starts}
  /\ lateTools \subseteq CallIds
  /\ lateSteps \in Nat

(* The types of the variables.                                             *)
TypeOK == ControlOK /\ DOMAIN messages = 1..Len(messages)

(* _save_to_history saves what there is to save of a run that is done or   *)
(* was aborted, and nothing of any other.                                  *)
Saved == pc = "ended" /\ state \in {"done", "aborted"}

(* Every request a provider gets is a legal conversation, whatever was cut *)
(* out of it: each tool call that had a result is followed by it, and no   *)
(* result stands without its call.  So is what a run leaves to the next.   *)
RequestsPaired ==
  pc = "asking" \/ Saved =>
    CallsAnswered(messages, unheard) /\ ResultsPlaced(messages)

(* The first message after the system prompt of every request is a user's, *)
(* and of what a run leaves to the next.                                   *)
UserFirst ==
  pc = "asking" \/ Saved =>
    Rest(messages) # <<>> /\ Rest(messages)[1].role = "user"

(* After the user has asked to stop, the run starts at most one more tool  *)
(* and begins at most one more step, wherever it was when he asked.        *)
StopHeeded == Cardinality(lateTools) <= 1 /\ lateSteps <= 1

(* The user is told of an error only when every fallback has been asked in *)
(* the same step, or when the failing model had begun to answer.           *)
FailureIsTotal ==
  state = "error" => streamed \/ Range(Fallbacks) \subseteq asked

(* A run that is asked to stop ends, also when its tools never answer.     *)
StopEnds == stopReq ~> pc = "ended"

(* "the oldest parts are discarded": what the user asks now is part of     *)
(* every request.                                                          *)
QuestionAsked ==
  pc = "asking" =>
    \E i \in Positions(messages, "user") : messages[i].name = "question"
=============================================================================
