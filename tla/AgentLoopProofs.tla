--------------------------- MODULE AgentLoopProofs ---------------------------
(***************************************************************************)
(* For every choice of models, fallbacks, limits and starting transcripts: *)
(* the state of a run keeps its types, a stop is heeded after at most one  *)
(* more tool and one more step, an error is only shown when every fallback *)
(* has been asked, and every request is a legal conversation that starts   *)
(* with a user's message, whatever the context manager cut out of it.      *)
(*                                                                         *)
(* The last two rest on what fix_messages does: places that stay keep      *)
(* their order (AscendingFacts), and those in a row stay in a row          *)
(* (FixRun), so a call and its results stay together.                      *)
(***************************************************************************)
EXTENDS AgentLoop, TLAPS, FiniteSetTheorems, SequenceTheorems,
        WellFoundedInduction

(* Where a run is in its answer.                                           *)
PlaceInv ==
  /\ pc = "between" => step <= MaxStep
  /\ pc \notin {"between", "ended"} => step >= 1
  /\ pc \in {"hook", "tool"} => todo # <<>>

ControlInv == ControlOK /\ PlaceInv

(* Once something has begun after the stop, no answer is awaited and no    *)
(* start hook runs without the signal; a step that began late never gets   *)
(* past its request.                                                       *)
StopInv ==
  /\ abort => stopReq
  /\ lateTools # {} =>
       /\ stopReq /\ pc # "arguments"
       /\ pc \in {"asking", "hook"} => abort
  /\ \E c : lateTools \subseteq {c}
  /\ lateSteps \in {0, 1}
  /\ lateSteps = 1 => abort /\ pc \in {"asking", "ended"}

(* The fallbacks before the current candidate have been asked.             *)
AskedInv ==
  /\ pc = "asking" => \A k \in 1..(idx - 1) : Fallbacks[k] \in asked
  /\ state = "error" => pc = "ended" /\ FailureIsTotal

-----------------------------------------------------------------------------
(* Types.                                                                  *)

LEMMA Starting ==
  1 \in 1..LastCandidate /\ 1 \in 1..MaxAttempts /\ 0 \in 0..(MaxStep + 1)
<1>1. Len(Fallbacks) \in Nat
  BY ModelsAssumption
<1>2. 1 \in 1..LastCandidate
  BY <1>1 DEF LastCandidate
<1> QED BY <1>2, BoundsAssumption

LEMMA CallsType ==
  ASSUME ControlOK, step >= 1, NEW n \in 1..MaxCalls
  PROVE  CallsOf(n) \in Seq(CallIds)
<1>1. step \in 1..(MaxStep + 1)
  BY BoundsAssumption DEF ControlOK
<1>2. \A k \in 1..n : <<step, k>> \in CallIds
  BY <1>1, BoundsAssumption DEF CallIds
<1>3. n \in Nat
  BY BoundsAssumption
<1> QED BY <1>2, <1>3 DEF CallsOf

LEMMA InitControl == Init => ControlInv
<1> SUFFICES ASSUME Init PROVE ControlInv
  OBVIOUS
<1>1. limits \in {s.limits : s \in Starts}
  BY DEF Init
<1>2. 0 \in Nat /\ 0 <= MaxStep
  BY BoundsAssumption
<1>3. calls \in Seq(CallIds) /\ todo \in Seq(CallIds)
         /\ blocks \in Seq(CallIds)
  BY DEF Init
<1>4. ControlOK
  BY <1>1, <1>2, <1>3, Starting, ModelsAssumption
  DEF Init, ControlOK, PCs, States
<1> QED BY <1>2, <1>4 DEF Init, ControlInv, PlaceInv

LEMMA FinalizeControl ==
  ASSUME ControlInv, FinalizeAborted, abort' \in BOOLEAN
  PROVE  ControlInv'
BY DEF FinalizeAborted, ControlInv, ControlOK, PlaceInv, PCs, States,
       askVars, toolVars

LEMMA FailControl ==
  ASSUME ControlInv, Fail
  PROVE  ControlInv'
<1>1. CASE abort
  <2>1. FinalizeAborted /\ abort' \in BOOLEAN
    BY <1>1 DEF Fail, ControlInv, ControlOK
  <2> QED BY <2>1, FinalizeControl
<1>2. CASE ~abort
  BY <1>2 DEF Fail, ControlInv, ControlOK, PlaceInv, PCs, States,
              askVars, toolVars, stopVars
<1> QED BY <1>1, <1>2

LEMMA CandidateControl ==
  ASSUME ControlInv, NextCandidate
  PROVE  ControlInv'
<1>1. CASE idx = LastCandidate
  <2>1. Fail
    BY <1>1 DEF NextCandidate
  <2> QED BY <2>1, FailControl
<1>2. CASE idx # LastCandidate
  <2>1. idx \in 1..Len(Fallbacks) /\ Len(Fallbacks) \in Nat
    BY <1>2, ModelsAssumption DEF LastCandidate, ControlInv, ControlOK
  <2>2. Fallbacks[idx] \in Models
    BY <2>1, ModelsAssumption
  <2>3. idx + 1 \in 1..LastCandidate
    BY <2>1 DEF LastCandidate
  <2>4. /\ idx' = idx + 1 /\ provider' = Fallbacks[idx]
        /\ asked' = asked \cup {provider'}
        /\ attempt' = 1 /\ streamed' = FALSE
        /\ UNCHANGED <<pc, limits, messages, step, toolVars, state, stopVars,
                       lateSteps>>
    BY <1>2 DEF NextCandidate
  <2> QED BY <2>2, <2>3, <2>4, Starting
      DEF ControlInv, ControlOK, PlaceInv, toolVars, stopVars
<1> QED BY <1>1, <1>2

LEMMA EndStepFacts ==
  ASSUME ControlInv, EndStep
  PROVE  pc' \in {"between", "ended"} /\ (pc' = "between" => step <= MaxStep)
BY BoundsAssumption DEF EndStep, ControlInv, ControlOK

LEMMA AnswerControl ==
  ASSUME ControlInv, Answer
  PROVE  ControlInv'
<1> USE DEF askVars, toolVars, stopVars
<1>1. CASE Chunk
  <2>1. CASE stopReq
    BY <1>1, <2>1, FinalizeControl DEF Chunk
  <2>2. CASE ~stopReq
    BY <1>1, <2>2 DEF Chunk, ControlInv, ControlOK, PlaceInv
  <2> QED BY <2>1, <2>2
<1>2. CASE AnswerText
  <2>1. CASE abort
    BY <1>2, <2>1, FinalizeControl DEF AnswerText, ControlInv, ControlOK
  <2>2. CASE ~abort
    BY <1>2, <2>2 DEF AnswerText, ControlInv, ControlOK, PlaceInv, PCs, States
  <2> QED BY <2>1, <2>2
<1>3. ASSUME NEW n \in 1..MaxCalls, AnswerCalls(n) PROVE ControlInv'
  <2>1. CASE abort
    BY <1>3, <2>1, FinalizeControl DEF AnswerCalls, ControlInv, ControlOK
  <2>2. CASE ~abort
    <3>1. step >= 1
      BY <1>3 DEF AnswerCalls, ControlInv, PlaceInv
    <3>2. CallsOf(n) \in Seq(CallIds)
      BY <1>3, <3>1, CallsType DEF ControlInv
    <3>3. /\ calls' = CallsOf(n) /\ todo' = CallsOf(n) /\ blocks' = <<>>
          /\ pc' \in {"arguments", "tools"}
          /\ idx' = 1 /\ attempt' = 1 /\ streamed' = FALSE /\ asked' = {}
          /\ UNCHANGED <<provider, limits, messages, step, state, stopReq,
                         abort, unheard, lateTools, lateSteps>>
      BY <1>3, <2>2 DEF AnswerCalls, GotAnswer
    <3>4. blocks' \in Seq(CallIds)
      BY <3>3
    <3>5. PlaceInv'
      BY <3>1, <3>3 DEF PlaceInv
    <3>6. ControlOK'
      BY <3>2, <3>3, <3>4, Starting DEF ControlInv, ControlOK, PCs
    <3> QED BY <3>5, <3>6 DEF ControlInv
  <2> QED BY <2>1, <2>2
<1>4. CASE ErrorResponse
  BY <1>4, FailControl, CandidateControl DEF ErrorResponse
<1>5. CASE Raise
  BY <1>5, CandidateControl DEF Raise
<1>6. CASE EmptyOutput
  <2>1. CASE attempt < MaxAttempts
    <3>1. attempt + 1 \in 1..MaxAttempts
      BY <2>1, BoundsAssumption DEF ControlInv, ControlOK
    <3> QED BY <1>6, <2>1, <3>1
    DEF EmptyOutput, ControlInv, ControlOK, PlaceInv
  <2>2. CASE ~(attempt < MaxAttempts)
    BY <1>6, <2>2, CandidateControl DEF EmptyOutput
  <2> QED BY <2>1, <2>2
<1>7. CASE StreamEnds
  <2>1. CASE ~streamed
    BY <1>7, <2>1, CandidateControl DEF StreamEnds
  <2>2. CASE streamed /\ abort
    BY <1>7, <2>2, FinalizeControl DEF StreamEnds, ControlInv, ControlOK
  <2>3. CASE streamed /\ ~abort
    <3>1. EndStep /\ GotAnswer
          /\ UNCHANGED <<limits, messages, step, toolVars, state, stopVars,
                         lateSteps>>
      BY <1>7, <2>3 DEF StreamEnds
    <3>2. pc' \in {"between", "ended"} /\ (pc' = "between" => step <= MaxStep)
      BY <3>1, EndStepFacts
    <3> QED BY <3>1, <3>2, Starting
        DEF GotAnswer, ControlInv, ControlOK, PlaceInv, PCs
  <2> QED BY <2>1, <2>2, <2>3
<1>8. ASSUME NEW n \in 1..MaxCalls, ArgumentCalls(n) PROVE ControlInv'
  <2>1. CallsOf(n) \in Seq(CallIds)
    BY <1>8, CallsType DEF ArgumentCalls, ControlInv, PlaceInv
  <2> QED BY <1>8, <2>1
      DEF ArgumentCalls, ControlInv, ControlOK, PlaceInv, PCs
<1>9. CASE ArgumentText
  BY <1>9 DEF ArgumentText, ControlInv, ControlOK, PlaceInv, PCs, States
<1>10. CASE ArgumentRaise
  BY <1>10 DEF ArgumentRaise, ControlInv, ControlOK, PlaceInv, PCs, States
<1> QED BY <1>1, <1>2, <1>3, <1>4, <1>5, <1>6, <1>7, <1>8, <1>9, <1>10
    DEF Answer

LEMMA ToolControl ==
  ASSUME ControlInv, Tool
  PROVE  ControlInv'
<1> USE DEF askVars, toolVars, stopVars
<1>1. ASSUME pc = "tool"
      PROVE  /\ Head(todo) \in CallIds /\ Tail(todo) \in Seq(CallIds)
             /\ Append(blocks, Head(todo)) \in Seq(CallIds)
  BY <1>1 DEF ControlInv, ControlOK, PlaceInv
<1>2. ASSUME NEW direct \in BOOLEAN, ToolYields(direct) PROVE ControlInv'
  BY <1>1, <1>2 DEF ToolYields, ControlInv, ControlOK, PlaceInv, States
<1>3. CASE ToolEnds
  BY <1>1, <1>3 DEF ToolEnds, ControlInv, ControlOK, PlaceInv, PCs
<1>4. CASE ToolFails
  BY <1>1, <1>4 DEF ToolFails, ControlInv, ControlOK, PlaceInv, PCs
<1> QED BY <1>2, <1>3, <1>4 DEF Tool

LEMMA WorkControl ==
  ASSUME ControlInv, Work
  PROVE  ControlInv'
<1> USE DEF askVars, toolVars, stopVars
<1>1. CASE Announce
  <2>1. /\ Head(todo) \in CallIds /\ Tail(todo) \in Seq(CallIds)
        /\ Append(blocks, Head(todo)) \in Seq(CallIds)
    BY <1>1 DEF Announce, ControlInv, ControlOK
  <2>2. \/ todo' = <<>> /\ blocks' = <<>> /\ pc' = pc
        \/ todo' = Tail(todo) /\ blocks' = Append(blocks, Head(todo))
            /\ pc' = pc
        \/ todo' = todo /\ blocks' = blocks /\ pc' = "hook"
    BY <1>1 DEF Announce
  <2>3. /\ todo' \in Seq(CallIds) /\ blocks' \in Seq(CallIds)
        /\ pc' \in {"tools", "hook"}
        /\ pc' = "hook" => todo' # <<>>
    <3>1. /\ todo \in Seq(CallIds) /\ blocks \in Seq(CallIds)
          /\ todo # <<>> /\ pc = "tools"
      BY <1>1 DEF Announce, ControlInv, ControlOK
    <3>2. <<>> \in Seq(CallIds)
      OBVIOUS
    <3> QED BY <2>1, <2>2, <3>1, <3>2
  <2> QED BY <1>1, <2>3 DEF Announce, ControlInv, ControlOK, PlaceInv, PCs
<1>2. CASE StartTool
  <2>1. CASE abort
    BY <1>2, <2>1, FinalizeControl DEF StartTool, ControlInv, ControlOK
  <2>2. CASE ~abort
    <3>1. Head(todo) \in CallIds
      BY <1>2 DEF StartTool, ControlInv, ControlOK, PlaceInv
    <3> QED BY <1>2, <2>2, <3>1
        DEF StartTool, ControlInv, ControlOK, PlaceInv, PCs
  <2> QED BY <2>1, <2>2
<1>3. CASE InterruptTool
  BY <1>3, FinalizeControl DEF InterruptTool, ControlInv, ControlOK
<1>4. ASSUME NEW pictures, RecordCalls(pictures) PROVE ControlInv'
  <2>1. pc' \in {"between", "ended"} /\ (pc' = "between" => step <= MaxStep)
    BY <1>4, EndStepFacts DEF RecordCalls
  <2> QED BY <1>4, <2>1 DEF RecordCalls, ControlInv, ControlOK, PlaceInv, PCs
<1> QED BY <1>1, <1>2, <1>3, <1>4 DEF Work

LEMMA ControlStep == ControlInv /\ [Next]_vars => ControlInv'
<1> SUFFICES ASSUME ControlInv, [Next]_vars PROVE ControlInv'
  OBVIOUS
<1> USE DEF askVars, toolVars, stopVars
<1>1. CASE AskStop
  BY <1>1 DEF AskStop, ControlInv, ControlOK, PlaceInv
<1>2. CASE Watch
  BY <1>2 DEF Watch, ControlInv, ControlOK, PlaceInv
<1>3. CASE BeginStep
  <2>1. step' \in 0..(MaxStep + 1) /\ step' >= 1
    BY <1>3, BoundsAssumption DEF BeginStep, ControlInv, ControlOK, PlaceInv
  <2>2. asked' \subseteq Models /\ lateSteps' \in Nat
    BY <1>3 DEF BeginStep, ControlInv, ControlOK
  <2> QED BY <1>3, <2>1, <2>2, Starting
      DEF BeginStep, ControlInv, ControlOK, PlaceInv, PCs
<1>4. CASE UNCHANGED vars
  BY <1>4 DEF vars, ControlInv, ControlOK, PlaceInv
<1> QED BY <1>1, <1>2, <1>3, <1>4, AnswerControl, ToolControl, WorkControl
    DEF Next

(* The control state of a run keeps its types whatever the providers, the  *)
(* tools and the user do: run_agent and ToolLoopAgentRunner.step.          *)
THEOREM ControlTypes == Spec => []ControlOK
<1>1. ControlInv => ControlOK
  BY DEF ControlInv
<1> QED BY <1>1, InitControl, ControlStep, PTL DEF Spec
-----------------------------------------------------------------------------
(* The stop.                                                               *)

LEMMA FinalizeStop ==
  ASSUME StopInv, FinalizeAborted, abort' \in BOOLEAN, abort'
  PROVE  stopReq => StopInv'
BY DEF FinalizeAborted, StopInv, askVars, toolVars

LEMMA FailStop ==
  ASSUME ControlInv, StopInv, Fail
  PROVE  StopInv'
BY FinalizeStop DEF Fail, StopInv, askVars, toolVars, stopVars,
                    ControlInv, ControlOK

LEMMA CandidateStop ==
  ASSUME ControlInv, StopInv, NextCandidate
  PROVE  StopInv'
BY FailStop DEF NextCandidate, StopInv, toolVars, stopVars

LEMMA AnswerStop ==
  ASSUME ControlInv, StopInv, Answer
  PROVE  StopInv'
<1> USE DEF askVars, toolVars, stopVars
<1>1. abort \in BOOLEAN /\ (abort => stopReq)
  BY DEF ControlInv, ControlOK, StopInv
<1>2. CASE Chunk
  BY <1>1, <1>2, FinalizeStop DEF Chunk, StopInv
<1>3. CASE AnswerText
  BY <1>1, <1>3, FinalizeStop DEF AnswerText, StopInv
<1>4. ASSUME NEW n \in 1..MaxCalls, AnswerCalls(n) PROVE StopInv'
  <2>1. CASE abort
    BY <1>1, <1>4, <2>1, FinalizeStop DEF AnswerCalls
  <2>2. CASE ~abort
    <3>1. pc = "asking"
      BY <1>4 DEF AnswerCalls
    <3>2. lateTools = {} /\ lateSteps = 0
      BY <2>2, <3>1 DEF StopInv
    <3>3. UNCHANGED <<stopReq, abort, lateTools, lateSteps>>
      BY <1>4, <2>2 DEF AnswerCalls
    <3> QED BY <3>2, <3>3 DEF StopInv
  <2> QED BY <2>1, <2>2
<1>5. CASE ErrorResponse
  BY <1>5, FailStop, CandidateStop DEF ErrorResponse
<1>6. CASE Raise
  BY <1>6, CandidateStop DEF Raise
<1>7. CASE EmptyOutput
  BY <1>7, CandidateStop DEF EmptyOutput, StopInv
<1>8. CASE StreamEnds
  <2>1. CASE ~streamed
    BY <1>8, <2>1, CandidateStop DEF StreamEnds
  <2>2. CASE streamed /\ abort
    BY <1>1, <1>8, <2>2, FinalizeStop DEF StreamEnds
  <2>3. CASE streamed /\ ~abort
    <3>1. pc = "asking"
      BY <1>8 DEF StreamEnds
    <3>2. lateTools = {} /\ lateSteps = 0
      BY <2>3, <3>1 DEF StopInv
    <3>3. UNCHANGED <<stopReq, abort, lateTools, lateSteps>>
      BY <1>8, <2>3 DEF StreamEnds
    <3> QED BY <3>2, <3>3 DEF StopInv
  <2> QED BY <2>1, <2>2, <2>3
<1>9. ASSUME NEW n \in 1..MaxCalls, ArgumentCalls(n) PROVE StopInv'
  BY <1>9 DEF ArgumentCalls, StopInv
<1>10. CASE ArgumentText
  BY <1>10 DEF ArgumentText, StopInv
<1>11. CASE ArgumentRaise
  BY <1>11 DEF ArgumentRaise, StopInv
<1> QED BY <1>2, <1>3, <1>4, <1>5, <1>6, <1>7, <1>8, <1>9, <1>10, <1>11
    DEF Answer

LEMMA WorkStop ==
  ASSUME ControlInv, StopInv, Work
  PROVE  StopInv'
<1> USE DEF askVars, toolVars, stopVars
<1>1. abort \in BOOLEAN /\ (abort => stopReq)
  BY DEF ControlInv, ControlOK, StopInv
<1>2. CASE Announce
  BY <1>1, <1>2 DEF Announce, StopInv
<1>3. CASE StartTool
  <2>1. CASE abort
    BY <1>1, <1>3, <2>1, FinalizeStop DEF StartTool
  <2>2. CASE ~abort
    <3>1. /\ pc = "hook" /\ pc' = "tool"
          /\ lateTools' = IF stopReq THEN lateTools \cup {Head(todo)}
                          ELSE lateTools
          /\ UNCHANGED <<stopReq, abort, lateSteps>>
      BY <1>3, <2>2 DEF StartTool
    <3>2. lateTools = {} /\ lateSteps = 0
      BY <2>2, <3>1 DEF StopInv
    <3> QED BY <2>2, <3>1, <3>2 DEF StopInv
  <2> QED BY <2>1, <2>2
<1>4. CASE InterruptTool
  BY <1>1, <1>4, FinalizeStop DEF InterruptTool
<1>5. ASSUME NEW pictures, RecordCalls(pictures) PROVE StopInv'
  <2>1. pc = "tools" /\ pc' \in {"between", "ended"}
    BY <1>5, EndStepFacts DEF RecordCalls
  <2> QED BY <1>5, <2>1 DEF RecordCalls, StopInv
<1> QED BY <1>2, <1>3, <1>4, <1>5 DEF Work

LEMMA ToolStop ==
  ASSUME ControlInv, StopInv, Tool
  PROVE  StopInv'
<1>1. /\ pc = "tool" /\ ~abort
      /\ UNCHANGED <<stopReq, abort, lateTools, lateSteps>>
      /\ pc' \in {"tool", "tools"}
  BY DEF Tool, ToolYields, ToolEnds, ToolFails, stopVars
<1> QED BY <1>1 DEF StopInv

LEMMA StopStep == ControlInv /\ StopInv /\ [Next]_vars => StopInv'
<1> SUFFICES ASSUME ControlInv, StopInv, [Next]_vars PROVE StopInv'
  OBVIOUS
<1> USE DEF askVars, toolVars, stopVars
<1>1. CASE AskStop
  BY <1>1 DEF AskStop, StopInv
<1>2. CASE Watch
  BY <1>2 DEF Watch, StopInv
<1>3. CASE BeginStep
  <2>1. lateSteps = 0 /\ pc = "between" /\ pc' = "asking"
    BY <1>3 DEF BeginStep, StopInv
  <2>2. /\ abort' = stopReq /\ UNCHANGED <<stopReq, lateTools>>
        /\ lateSteps' = IF stopReq THEN 1 ELSE 0
    BY <1>3, <2>1 DEF BeginStep
  <2> QED BY <2>1, <2>2 DEF StopInv, ControlInv, ControlOK
<1>4. CASE UNCHANGED vars
  BY <1>4 DEF vars, StopInv
<1> QED BY <1>1, <1>2, <1>3, <1>4, AnswerStop, ToolStop, WorkStop DEF Next

(* Wherever a run is when the user asks to stop, at most one more tool is  *)
(* started and at most one more step begun: the polled flag of run_agent,  *)
(* the watcher and the runner's abort signal.                              *)
THEOREM StopTheorem == Spec => []StopHeeded
<1>1. Init => StopInv
  BY DEF Init, StopInv
<1>2. StopInv => StopHeeded
  <2> SUFFICES ASSUME StopInv PROVE StopHeeded
    OBVIOUS
  <2>1. PICK c : lateTools \subseteq {c}
    BY DEF StopInv
  <2>2. lateTools = {} \/ lateTools = {c}
    BY <2>1
  <2>3. Cardinality({}) = 0 /\ Cardinality({c}) = 1
    BY FS_EmptySet, FS_Singleton
  <2>4. Cardinality(lateTools) <= 1
    BY <2>2, <2>3
  <2> QED BY <2>4 DEF StopInv, StopHeeded
<1> QED BY <1>1, <1>2, InitControl, ControlStep, StopStep, PTL DEF Spec

-----------------------------------------------------------------------------
(* The error.                                                              *)

LEMMA FinalizeAsked ==
  ASSUME FinalizeAborted
  PROVE  AskedInv'
BY DEF FinalizeAborted, AskedInv

LEMMA CandidateAsked ==
  ASSUME ControlInv, AskedInv, NextCandidate, pc = "asking"
  PROVE  AskedInv'
<1>1. Len(Fallbacks) \in Nat /\ DOMAIN Fallbacks = 1..Len(Fallbacks)
  BY ModelsAssumption
<1>2. \A k \in 1..(idx - 1) : Fallbacks[k] \in asked
  BY DEF AskedInv
<1>3. CASE idx = LastCandidate
  <2>1. Range(Fallbacks) \subseteq asked
    BY <1>1, <1>2, <1>3 DEF LastCandidate, Range
  <2>2. CASE abort
    BY <1>3, <2>2, FinalizeAsked DEF NextCandidate, Fail
  <2>3. CASE ~abort
    BY <1>3, <2>1, <2>3 DEF NextCandidate, Fail, AskedInv, FailureIsTotal,
                            askVars
  <2> QED BY <2>2, <2>3
<1>4. CASE idx # LastCandidate
  <2>1. /\ idx' = idx + 1 /\ asked' = asked \cup {Fallbacks[idx]}
        /\ UNCHANGED <<pc, state>>
    BY <1>4 DEF NextCandidate
  <2>2. idx \in Nat /\ \A k \in 1..idx : k = idx \/ k \in 1..(idx - 1)
    BY <1>1 DEF ControlInv, ControlOK, LastCandidate
  <2>3. \A k \in 1..(idx' - 1) : Fallbacks[k] \in asked'
    BY <1>2, <2>1, <2>2
  <2>4. state # "error"
    BY DEF AskedInv
  <2> QED BY <2>1, <2>3, <2>4 DEF AskedInv
<1> QED BY <1>3, <1>4

LEMMA FailAsked ==
  ASSUME Fail, streamed
  PROVE  AskedInv'
BY FinalizeAsked DEF Fail, AskedInv, FailureIsTotal, askVars

LEMMA AnswerAsked ==
  ASSUME ControlInv, AskedInv, Answer
  PROVE  AskedInv'
<1> USE DEF askVars, toolVars, stopVars
<1>1. state = "error" => pc = "ended"
  BY DEF AskedInv
<1>2. CASE Chunk
  BY <1>1, <1>2, FinalizeAsked DEF Chunk, AskedInv
<1>3. CASE AnswerText
  BY <1>1, <1>3, FinalizeAsked DEF AnswerText, AskedInv
<1>4. ASSUME NEW n \in 1..MaxCalls, AnswerCalls(n) PROVE AskedInv'
  BY <1>1, <1>4, FinalizeAsked DEF AnswerCalls, AskedInv
<1>5. CASE ErrorResponse
  BY <1>5, FailAsked, CandidateAsked DEF ErrorResponse, ControlInv, ControlOK
<1>6. CASE Raise
  BY <1>6, CandidateAsked DEF Raise
<1>7. CASE EmptyOutput
  BY <1>1, <1>7, CandidateAsked DEF EmptyOutput, AskedInv
<1>8. CASE StreamEnds
  <2>1. CASE ~streamed
    BY <1>8, <2>1, CandidateAsked DEF StreamEnds
  <2>2. CASE streamed /\ abort
    BY <1>8, <2>2, FinalizeAsked DEF StreamEnds
  <2>3. CASE streamed /\ ~abort
    BY <1>1, <1>8, <2>3, EndStepFacts DEF StreamEnds, AskedInv
  <2> QED BY <2>1, <2>2, <2>3 DEF ControlInv, ControlOK
<1>9. ASSUME NEW n \in 1..MaxCalls, ArgumentCalls(n) PROVE AskedInv'
  BY <1>1, <1>9 DEF ArgumentCalls, AskedInv
<1>10. CASE ArgumentText
  BY <1>10 DEF ArgumentText, AskedInv
<1>11. CASE ArgumentRaise
  BY <1>11 DEF ArgumentRaise, AskedInv
<1> QED BY <1>2, <1>3, <1>4, <1>5, <1>6, <1>7, <1>8, <1>9, <1>10, <1>11
    DEF Answer

LEMMA ToolAsked ==
  ASSUME AskedInv, Tool
  PROVE  AskedInv'
BY DEF Tool, ToolYields, ToolEnds, ToolFails, AskedInv

LEMMA WorkAsked ==
  ASSUME ControlInv, AskedInv, Work
  PROVE  AskedInv'
<1> USE DEF askVars, toolVars, stopVars
<1>1. state = "error" => pc = "ended"
  BY DEF AskedInv
<1>2. CASE Announce
  BY <1>1, <1>2 DEF Announce, AskedInv
<1>3. CASE StartTool
  BY <1>1, <1>3, FinalizeAsked DEF StartTool, AskedInv
<1>4. CASE InterruptTool
  BY <1>4, FinalizeAsked DEF InterruptTool
<1>5. ASSUME NEW pictures, RecordCalls(pictures) PROVE AskedInv'
  BY <1>1, <1>5, EndStepFacts DEF RecordCalls, AskedInv
<1> QED BY <1>2, <1>3, <1>4, <1>5 DEF Work

LEMMA AskedStep == ControlInv /\ AskedInv /\ [Next]_vars => AskedInv'
<1> SUFFICES ASSUME ControlInv, AskedInv, [Next]_vars PROVE AskedInv'
  OBVIOUS
<1> USE DEF askVars, toolVars, stopVars
<1>1. CASE AskStop
  BY <1>1 DEF AskStop, AskedInv
<1>2. CASE Watch
  BY <1>2 DEF Watch, AskedInv
<1>3. CASE BeginStep
  BY <1>3 DEF BeginStep, AskedInv
<1>4. CASE UNCHANGED vars
  BY <1>4 DEF vars, AskedInv, FailureIsTotal
<1> QED BY <1>1, <1>2, <1>3, <1>4, AnswerAsked, ToolAsked, WorkAsked DEF Next

(* A run ends in an error only when the failing model had begun to answer  *)
(* or every fallback was asked in that step:                               *)
(* _iter_llm_responses_with_fallback.                                      *)
THEOREM FailureTheorem == Spec => []FailureIsTotal
<1>1. Init => AskedInv
  BY DEF Init, AskedInv
<1>2. AskedInv => FailureIsTotal
  BY DEF AskedInv, FailureIsTotal
<1> QED BY <1>1, <1>2, InitControl, ControlStep, AskedStep, PTL DEF Spec

-----------------------------------------------------------------------------
(* Least numbers.                                                          *)

(* A non-empty set of naturals has a least element.                        *)
LEMMA LeastNatural ==
  ASSUME NEW T \in SUBSET Nat, T # {}
  PROVE  \E n \in T : \A m \in T : n <= m
<1> DEFINE R == OpToRel(<, Nat)
<1>1. IsWellFoundedOn(R, Nat)
  BY NatLessThanWellFounded
<1>2. \E x \in T : \A y \in T : ~(<<y, x>> \in R)
  <2> HIDE DEF R
  <2> QED BY <1>1, WFMin
<1>3. PICK x \in T : \A y \in T : ~(<<y, x>> \in R)
  BY <1>2
<1>4. \A y \in T : ~(y < x)
  BY <1>3 DEF OpToRel
<1> QED BY <1>4

LEMMA LeastIs ==
  ASSUME NEW T \in SUBSET Nat, T # {}
  PROVE  Least(T) \in T /\ \A m \in T : Least(T) <= m
BY LeastNatural DEF Least

-----------------------------------------------------------------------------
(* A set of places in their order.                                         *)

(* The places of S up to i: their number is the rank of i.                 *)
Upto(S, i) == {j \in S : j <= i}

LEMMA UptoFinite ==
  ASSUME NEW n \in Nat, NEW S \in SUBSET (1..n), NEW i
  PROVE  /\ IsFiniteSet(S) /\ Cardinality(S) \in Nat
         /\ IsFiniteSet(Upto(S, i)) /\ Cardinality(Upto(S, i)) \in Nat
         /\ Cardinality(Upto(S, i)) <= Cardinality(S)
<1>1. IsFiniteSet(1..n)
  BY FS_Interval
<1>2. IsFiniteSet(S)
  BY <1>1, FS_Subset
<1> DEFINE T == Upto(S, i)
<1>3. T \in SUBSET S
  BY DEF Upto
<1> HIDE DEF T
<1>4. IsFiniteSet(T) /\ Cardinality(T) <= Cardinality(S)
  BY <1>2, <1>3, FS_Subset
<1>5. Cardinality(S) \in Nat /\ Cardinality(T) \in Nat
  BY <1>2, <1>4, FS_CardinalityType
<1> QED BY <1>2, <1>4, <1>5 DEF T

LEMMA RankGrows ==
  ASSUME NEW n \in Nat, NEW S \in SUBSET (1..n), NEW i \in S,
         NEW j \in S, i < j
  PROVE  Cardinality(Upto(S, i)) < Cardinality(Upto(S, j))
<1> DEFINE A == Upto(S, i)
           B == Upto(S, j)
<1>1. A \in SUBSET B /\ A # B
  <2>1. j \in B /\ j \notin A
    BY DEF Upto
  <2>2. \A k \in S : k <= i => k <= j
    OBVIOUS
  <2>3. A \subseteq B
    BY <2>2 DEF Upto
  <2> HIDE DEF A, B
  <2> QED BY <2>1, <2>3
<1>2. IsFiniteSet(B) /\ Cardinality(B) \in Nat /\ Cardinality(A) \in Nat
  BY UptoFinite
<1> HIDE DEF A, B
<1>3. Cardinality(A) <= Cardinality(B) /\ Cardinality(A) # Cardinality(B)
  BY <1>1, <1>2, FS_Subset
<1>4. Cardinality(A) < Cardinality(B)
  BY <1>2, <1>3
<1> QED BY <1>4 DEF A, B

LEMMA RankType ==
  ASSUME NEW n \in Nat, NEW S \in SUBSET (1..n), NEW i \in S
  PROVE  Cardinality(Upto(S, i)) \in 1..Cardinality(S)
<1> DEFINE A == Upto(S, i)
<1>1. A # {}
  <2>1. i \in A
    BY DEF Upto
  <2> QED BY <2>1
<1>2. /\ IsFiniteSet(A) /\ Cardinality(A) \in Nat /\ Cardinality(S) \in Nat
      /\ Cardinality(A) <= Cardinality(S)
  BY UptoFinite
<1> HIDE DEF A
<1>3. Cardinality(A) # 0
  BY <1>1, <1>2, FS_EmptySet
<1>4. Cardinality(A) \in 1..Cardinality(S)
  BY <1>2, <1>3
<1> QED BY <1>4 DEF A

(* Places in a row have ranks in a row.                                    *)
LEMMA RankRun ==
  ASSUME NEW n \in Nat, NEW S \in SUBSET (1..n), NEW i \in Nat, NEW m \in Nat,
         (i + 1)..(i + m) \subseteq S
  PROVE  Cardinality(Upto(S, i + m)) = Cardinality(Upto(S, i)) + m
<1> DEFINE A == Upto(S, i)
           B == (i + 1)..(i + m)
           C == Upto(S, i + m)
<1>1. C = A \cup B
  <2>1. \A x \in S : x \in Int /\ (x <= i + m <=> x <= i \/ x \in B)
    OBVIOUS
  <2>2. \A x : x \in C <=> x \in A \/ x \in B
    BY <2>1 DEF Upto
  <2> HIDE DEF A, B, C
  <2> QED BY <2>2
<1>2. A \cap B = {}
  BY DEF Upto
<1>3. IsFiniteSet(A) /\ Cardinality(A) \in Nat
  BY UptoFinite
<1>4. IsFiniteSet(B) /\ Cardinality(B) = m
  <2>1. i + 1 \in Int /\ i + m \in Int
    OBVIOUS
  <2>2. IsFiniteSet(B)
        /\ Cardinality(B) = IF i + 1 > i + m THEN 0 ELSE (i + m) - (i + 1) + 1
    BY <2>1, FS_Interval
  <2>3. (IF i + 1 > i + m THEN 0 ELSE (i + m) - (i + 1) + 1) = m
    OBVIOUS
  <2> QED BY <2>2, <2>3
<1> HIDE DEF A, B, C
<1>5. Cardinality(A \cup B)
        = Cardinality(A) + Cardinality(B) - Cardinality(A \cap B)
  BY <1>3, <1>4, FS_Union
<1>6. Cardinality(C) = Cardinality(A) + m - 0
  BY <1>1, <1>2, <1>4, <1>5, FS_EmptySet
<1>7. Cardinality(C) = Cardinality(A) + m
  BY <1>3, <1>6
<1> QED BY <1>7 DEF A, C

LEMMA RankFront ==
  ASSUME NEW n \in Nat, NEW S \in SUBSET (1..n),
         NEW m \in Nat, 1..m \subseteq S
  PROVE  Cardinality(Upto(S, m)) = m
<1>1. (0 + 1)..(0 + m) \subseteq S /\ 0 \in Nat
  OBVIOUS
<1>2. Cardinality(Upto(S, 0 + m)) = Cardinality(Upto(S, 0)) + m
  BY <1>1, RankRun
<1>3. Upto(S, 0) = {}
  <2>1. \A j \in S : ~(j <= 0)
    OBVIOUS
  <2> QED BY <2>1 DEF Upto
<1>4. 0 + m = m
  OBVIOUS
<1>5. Cardinality({}) = 0
  BY FS_EmptySet
<1> QED BY <1>2, <1>3, <1>4, <1>5

LEMMA AscendingFacts ==
  ASSUME NEW n \in Nat, NEW S \in SUBSET (1..n)
  PROVE  /\ Cardinality(S) \in Nat
         /\ Ascending(S) \in [1..Cardinality(S) -> S]
         /\ \A i \in S : /\ Cardinality(Upto(S, i)) \in 1..Cardinality(S)
                         /\ Ascending(S)[Cardinality(Upto(S, i))] = i
         /\ \A k \in 1..Cardinality(S) :
              Cardinality(Upto(S, Ascending(S)[k])) = k
<1> DEFINE c == Cardinality(S)
           f == [i \in S |-> Cardinality(Upto(S, i))]
<1>0. IsFiniteSet(S) /\ c \in Nat
  BY UptoFinite
<1>1. \A i \in S : Cardinality(Upto(S, i)) \in 1..c
  BY RankType
<1>2. \A i, j \in S :
            Cardinality(Upto(S, i)) = Cardinality(Upto(S, j)) => i = j
  <2>1. \A i, j \in S :
              i < j => Cardinality(Upto(S, i)) < Cardinality(Upto(S, j))
    BY RankGrows
  <2>2. \A i \in S : Cardinality(Upto(S, i)) \in Nat
    BY <1>0, <1>1
  <2>3. \A i, j \in S : i < j \/ j < i \/ i = j
    OBVIOUS
  <2>4. \A a, b \in Nat : a < b => a # b
    OBVIOUS
  <2> QED BY <2>1, <2>2, <2>3, <2>4
<1>3. f \in Injection(S, 1..c)
  BY <1>1, <1>2 DEF Injection, IsInjective
<1>4. IsFiniteSet(1..c) /\ Cardinality(1..c) = c
  BY <1>0, FS_Interval
<1>5. f \in Surjection(S, 1..c)
  <2> HIDE DEF f
  <2> QED BY <1>3, <1>4, FS_Injection
<1>6. \A k \in 1..c : \E i \in S : Cardinality(Upto(S, i)) = k
  BY <1>5 DEF Surjection
<1>7. \A k \in 1..c : Ascending(S)[k] \in S
                      /\ Cardinality(Upto(S, Ascending(S)[k])) = k
  BY <1>6 DEF Ascending, Upto
<1>8. Ascending(S) \in [1..c -> S]
  BY <1>7 DEF Ascending
<1>9. \A i \in S : Ascending(S)[Cardinality(Upto(S, i))] = i
  BY <1>1, <1>2, <1>7
<1> QED BY <1>0, <1>1, <1>7, <1>8, <1>9

-----------------------------------------------------------------------------
(* What fix_messages returns, place by place.                              *)
StaysOf(msgs) == {i \in DOMAIN msgs : Stays(msgs, i)}

RankOf(msgs, i) == Cardinality(Upto(StaysOf(msgs), i))

LEMMA FixFacts ==
  ASSUME NEW M, NEW e \in Seq(M)
  PROVE  LET F == FixMessages(e)
             S == StaysOf(e)
         IN /\ F \in Seq(M) /\ Len(F) = Cardinality(S) /\ Len(F) \in Nat
            /\ \A i \in S :
                   RankOf(e, i) \in 1..Len(F) /\ F[RankOf(e, i)] = e[i]
            /\ \A k \in 1..Len(F) :
                 \E i \in S : F[k] = e[i] /\ RankOf(e, i) = k
<1> DEFINE n == Len(e)
           S == StaysOf(e)
           c == Cardinality(S)
           asc == Ascending(S)
           F == [k \in 1..c |-> e[asc[k]]]
<1>1. n \in Nat /\ DOMAIN e = 1..n
  BY LenProperties
<1>2. S \in SUBSET (1..n)
  BY <1>1 DEF StaysOf
<1>3. /\ c \in Nat /\ asc \in [1..c -> S]
      /\ \A i \in S : /\ RankOf(e, i) \in 1..c
                      /\ asc[RankOf(e, i)] = i
      /\ \A k \in 1..c : RankOf(e, asc[k]) = k
  <2> HIDE DEF n, S, c, asc
  <2>1. /\ Cardinality(S) \in Nat
        /\ Ascending(S) \in [1..Cardinality(S) -> S]
        /\ \A i \in S : /\ Cardinality(Upto(S, i)) \in 1..Cardinality(S)
                        /\ Ascending(S)[Cardinality(Upto(S, i))] = i
        /\ \A k \in 1..Cardinality(S) :
             Cardinality(Upto(S, Ascending(S)[k])) = k
    BY <1>1, <1>2, AscendingFacts
  <2> QED BY <2>1 DEF RankOf, S, c, asc
<1>4. FixMessages(e) = F
  <2>1. DOMAIN asc = 1..c
    BY DEF Ascending
  <2>2. S = {i \in DOMAIN e : Stays(e, i)}
    BY DEF StaysOf
  <2> HIDE DEF S
  <2> QED BY <2>1, <2>2 DEF FixMessages, At
<1> HIDE DEF n, S, c, asc
<1>5. \A k \in 1..c : asc[k] \in S /\ e[asc[k]] \in M
  <2>1. \A i \in 1..n : e[i] \in M
    BY <1>1, ElementOfSeq DEF n
  <2> QED BY <1>2, <1>3, <2>1
<1>6. F \in Seq(M) /\ Len(F) = c
  BY <1>3, <1>5
<1>7. \A k \in 1..c : F[k] = e[asc[k]]
  OBVIOUS
<1> HIDE DEF F
<1>8. \A i \in S : RankOf(e, i) \in 1..c /\ F[RankOf(e, i)] = e[i]
  BY <1>3, <1>7
<1>9. \A k \in 1..c : \E i \in S : F[k] = e[i] /\ RankOf(e, i) = k
  BY <1>3, <1>5, <1>7
<1> QED BY <1>3, <1>4, <1>6, <1>8, <1>9 DEF S, c

(* Messages that stay next to each other are next to each other after it.  *)
LEMMA FixRun ==
  ASSUME NEW M, NEW e \in Seq(M), NEW i \in 1..Len(e), NEW j \in i..Len(e),
         i..j \subseteq StaysOf(e)
  PROVE  LET F == FixMessages(e)
             k == RankOf(e, i)
         IN /\ k \in 1..Len(F) /\ k + (j - i) \in 1..Len(F)
            /\ k + (j - i) = RankOf(e, j)
            /\ \A l \in k..(k + (j - i)) : F[l] = e[i + (l - k)]
<1> DEFINE n == Len(e)
           S == StaysOf(e)
           F == FixMessages(e)
           k == RankOf(e, i)
<1>1. n \in Nat /\ DOMAIN e = 1..n
  BY LenProperties
<1>2. S \in SUBSET (1..n)
  BY <1>1 DEF StaysOf
<1>3. /\ Len(F) \in Nat
      /\ \A m \in S : RankOf(e, m) \in 1..Len(F) /\ F[RankOf(e, m)] = e[m]
  BY FixFacts
<1> HIDE DEF n, S, F, k
<1>4. \A m \in Nat : i + m <= j => RankOf(e, i + m) = k + m
  <2> SUFFICES ASSUME NEW m \in Nat, i + m <= j PROVE RankOf(e, i + m) = k + m
    OBVIOUS
  <2>1. (i + 1)..(i + m) \subseteq S /\ i \in Nat
    BY DEF S
  <2>2. Cardinality(Upto(S, i + m)) = Cardinality(Upto(S, i)) + m
    BY <1>1, <1>2, <2>1, RankRun
  <2> QED BY <2>2 DEF RankOf, k, S
<1>5. i \in Nat /\ j \in Nat /\ j - i \in Nat /\ i \in S /\ j \in S
         /\ i + (j - i) = j
  BY <1>1 DEF S
<1>6. k \in 1..Len(F)
  BY <1>3, <1>5 DEF k
<1>7. RankOf(e, j) = k + (j - i)
  BY <1>4, <1>5
<1>8. \A l \in k..(k + (j - i)) : F[l] = e[i + (l - k)]
  <2> SUFFICES ASSUME NEW l \in k..(k + (j - i)) PROVE F[l] = e[i + (l - k)]
    OBVIOUS
  <2>1. l - k \in Nat /\ i + (l - k) <= j /\ i + (l - k) \in i..j
    BY <1>5, <1>6
  <2>2. RankOf(e, i + (l - k)) = k + (l - k)
    BY <1>4, <2>1
  <2>3. k + (l - k) = l
    BY <1>6
  <2>4. i + (l - k) \in S
    BY <2>1 DEF S
  <2> QED BY <1>3, <2>2, <2>3, <2>4
<1>9. RankOf(e, j) \in 1..Len(F)
  BY <1>3, <1>5
<1> QED BY <1>6, <1>7, <1>8, <1>9 DEF F, k

-----------------------------------------------------------------------------
(* A legal conversation: the calls that had a result are followed by it    *)
(* and no result is without its call.                                      *)
Legal(msgs, silent) ==
  OnlyAssistantsCall(msgs) /\ CallsAnswered(msgs, silent)
     /\ ResultsPlaced(msgs)

(* The same with results that lost their call right after place b.         *)
NearlyLegal(msgs, silent, b) ==
  /\ OnlyAssistantsCall(msgs) /\ CallsAnswered(msgs, silent)
  /\ \A i \in 1..b : msgs[i].calls = <<>> /\ msgs[i].role # "tool"
  /\ \A j \in Positions(msgs, "tool") :
       \/ PlacedAt(msgs, j)
       \/ \A k \in (b + 1)..j : msgs[k].role = "tool"

LEMMA Joined ==
  ASSUME NEW M, NEW silent, NEW w \in Seq(M), Legal(w, silent),
         NEW p \in Seq(M),
         \A i \in 1..Len(p) : p[i].calls = <<>> /\ p[i].role # "tool",
         NEW a \in 1..(Len(w) + 1)
  PROVE  LET e == p \o SubSeq(w, a, Len(w))
         IN /\ e \in Seq(M) /\ Len(e) = Len(p) + (Len(w) - a + 1)
            /\ \A i \in 1..Len(p) : e[i] = p[i]
            /\ \A i \in (Len(p) + 1)..Len(e) : e[i] = w[i + (a - 1 - Len(p))]
            /\ NearlyLegal(e, silent, Len(p))
<1> DEFINE b == Len(p)
           n == Len(w)
           t == SubSeq(w, a, n)
           d == a - 1 - b
           e == p \o t
<1>1. b \in Nat /\ n \in Nat /\ a \in Nat /\ a >= 1 /\ a <= n + 1
  BY LenProperties
<1>2. /\ t \in Seq(M) /\ Len(t) = n - a + 1
      /\ \A i \in 1..(n - a + 1) : t[i] = w[a + i - 1]
  <2>1. \A i \in a..n : w[i] \in M
    <3>1. \A i \in 1..n : w[i] \in M
      BY ElementOfSeq
    <3> QED BY <1>1, <3>1
  <2>2. a \in Int /\ n \in Int
    BY <1>1
  <2>3. t \in Seq(M) /\ Len(t) = (IF a <= n THEN n - a + 1 ELSE 0)
        /\ \A i \in 1..(n - a + 1) : t[i] = w[a + i - 1]
    <3> HIDE DEF n
    <3> QED BY <2>1, <2>2, SubSeqProperties
  <2> HIDE DEF t, n
  <2> QED BY <1>1, <2>3
<1>3. /\ e \in Seq(M) /\ Len(e) = b + (n - a + 1)
      /\ \A i \in 1..(b + (n - a + 1)) :
             e[i] = IF i <= b THEN p[i] ELSE t[i - b]
  <2>1. e \in Seq(M) /\ Len(e) = Len(p) + Len(t)
        /\ \A i \in 1..(Len(p) + Len(t)) :
               e[i] = IF i <= Len(p) THEN p[i] ELSE t[i - Len(p)]
    <3> HIDE DEF t
    <3> QED BY <1>2, ConcatProperties
  <2> HIDE DEF t, e
  <2> QED BY <1>2, <2>1
<1> HIDE DEF e, t
<1> DEFINE m == Len(e)
<1>4. \A i \in 1..b : e[i] = p[i]
  <2>1. \A i \in 1..b : i \in 1..(b + (n - a + 1)) /\ i <= b
    BY <1>1
  <2> QED BY <1>3, <2>1
<1>5. \A i \in (b + 1)..m : i + d \in a..n /\ i + d \in 1..n /\ e[i] = w[i + d]
  <2> SUFFICES ASSUME NEW i \in (b + 1)..m
               PROVE  i + d \in a..n /\ i + d \in 1..n /\ e[i] = w[i + d]
    OBVIOUS
  <2>1. i \in 1..(b + (n - a + 1)) /\ ~(i <= b) /\ i - b \in 1..(n - a + 1)
    BY <1>1, <1>3
  <2>2. e[i] = w[a + (i - b) - 1]
    BY <1>2, <1>3, <2>1
  <2>3. a + (i - b) - 1 = i + d
    BY <1>1, <2>1
  <2>4. i + d \in a..n /\ i + d \in 1..n
    BY <1>1, <2>1
  <2> QED BY <2>2, <2>3, <2>4
<1>6. DOMAIN e = 1..m /\ m \in Nat /\ DOMAIN w = 1..n /\ m = n - d /\ d \in Int
      /\ \A i \in 1..m : i \in 1..b \/ i \in (b + 1)..m
  BY <1>1, <1>3, LenProperties
<1> HIDE DEF m, d
<1>7. OnlyAssistantsCall(e)
  <2>1. \A i \in 1..n : w[i].calls # <<>> => w[i].role = "assistant"
    BY <1>6 DEF Legal, OnlyAssistantsCall
  <2>2. \A i \in 1..m : e[i].calls # <<>> => e[i].role = "assistant"
    <3> SUFFICES ASSUME NEW i \in 1..m, e[i].calls # <<>>
                 PROVE  e[i].role = "assistant"
      OBVIOUS
    <3>1. i \in (b + 1)..m
      BY <1>4, <1>6
    <3>2. i + d \in 1..n /\ e[i] = w[i + d]
      BY <1>5, <3>1
    <3> QED BY <2>1, <3>2
  <2> QED BY <1>6, <2>2 DEF OnlyAssistantsCall
<1>8. CallsAnswered(e, silent)
  <2> SUFFICES ASSUME NEW i \in 1..m,
                      NEW c \in ToSet(e[i].calls), c \notin silent
               PROVE  AnsweredAt(e, i, c)
    BY <1>6 DEF CallsAnswered
  <2>1. CASE i \in 1..b
    <3>1. e[i].calls = <<>>
      BY <1>4, <2>1
    <3> QED BY <3>1 DEF ToSet
  <2>2. CASE i \in (b + 1)..m
    <3>1. AnsweredAt(w, i + d, c)
      <4>1. i + d \in 1..n /\ e[i] = w[i + d]
        BY <1>5, <2>2
      <4> QED BY <1>6, <4>1 DEF Legal, CallsAnswered
    <3>2. PICK j \in (i + d + 1)..n :
            /\ w[j].role = "tool" /\ w[j].name = c
            /\ \A k \in (i + d + 1)..j : w[k].role = "tool"
      BY <3>1 DEF AnsweredAt
    <3>3. j - d \in (i + 1)..m /\ j - d \in (b + 1)..m /\ j - d + d = j
      BY <1>1, <1>6, <2>2
    <3>4. e[j - d] = w[j]
      BY <1>5, <3>3
    <3>5. \A k \in (i + 1)..(j - d) : e[k].role = "tool"
      <4> SUFFICES ASSUME NEW k \in (i + 1)..(j - d) PROVE e[k].role = "tool"
        OBVIOUS
      <4>1. k \in (b + 1)..m /\ k + d \in (i + d + 1)..j
        BY <1>1, <1>6, <2>2, <3>3
      <4> QED BY <1>5, <3>2, <4>1
    <3> QED BY <3>2, <3>3, <3>4, <3>5 DEF AnsweredAt, m
  <2> QED BY <1>6, <2>1, <2>2
<1>9. ASSUME NEW j \in 1..m, e[j].role = "tool"
      PROVE  PlacedAt(e, j) \/ \A k \in (b + 1)..j : e[k].role = "tool"
  <2>1. j \in (b + 1)..m
    BY <1>4, <1>6, <1>9
  <2>2. PICK x \in 1..n : x = j + d /\ e[j] = w[x]
    BY <1>5, <2>1
  <2>3. PICK i \in 1..(x - 1) :
          /\ w[x].name \in ToSet(w[i].calls)
          /\ \A k \in (i + 1)..x : w[k].role = "tool"
    <3>1. x \in Positions(w, "tool")
      BY <1>6, <1>9, <2>2 DEF Positions
    <3>2. PlacedAt(w, x)
      BY <3>1 DEF Legal, ResultsPlaced, PlacedAt
    <3> QED BY <3>2 DEF PlacedAt
  <2>4. CASE i - d >= b + 1
    <3>1. i - d \in 1..(j - 1) /\ i - d \in (b + 1)..m /\ i - d + d = i
      BY <1>1, <1>6, <2>1, <2>2, <2>4
    <3>2. e[i - d] = w[i]
      BY <1>5, <3>1
    <3>3. \A k \in (i - d + 1)..j : e[k].role = "tool"
      <4> SUFFICES ASSUME NEW k \in (i - d + 1)..j PROVE e[k].role = "tool"
        OBVIOUS
      <4>1. k \in (b + 1)..m /\ k + d \in (i + 1)..x
        BY <1>1, <1>6, <2>1, <2>2, <2>4
      <4> QED BY <1>5, <2>3, <4>1
    <3> QED BY <2>2, <2>3, <3>1, <3>2, <3>3 DEF PlacedAt
  <2>5. CASE ~(i - d >= b + 1)
    <3>1. ASSUME NEW k \in (b + 1)..j PROVE e[k].role = "tool"
      <4>1. k \in (b + 1)..m /\ k + d \in (i + 1)..x
        BY <1>1, <1>6, <2>1, <2>2, <2>3, <2>5
      <4> QED BY <1>5, <2>3, <4>1
    <3> QED BY <3>1
  <2> QED BY <2>4, <2>5
<1>10. NearlyLegal(e, silent, b)
  <2>1. \A i \in 1..b : e[i].calls = <<>> /\ e[i].role # "tool"
    BY <1>4
  <2> QED BY <1>6, <1>7, <1>8, <1>9, <2>1 DEF NearlyLegal, Positions
<1> QED BY <1>3, <1>4, <1>5, <1>10 DEF e, t, m, d

LEMMA LegalNearly ==
  ASSUME NEW M, NEW e \in Seq(M), NEW silent,
         NEW b \in Nat, NearlyLegal(e, silent, b),
         b < Len(e) => e[b + 1].role # "tool"
  PROVE  Legal(e, silent)
<1>1. ASSUME NEW j \in Positions(e, "tool") PROVE PlacedAt(e, j)
  <2>1. CASE \A k \in (b + 1)..j : e[k].role = "tool"
    <3>1. j \in 1..Len(e) /\ Len(e) \in Nat
      BY LenProperties DEF Positions
    <3>2. e[j].role = "tool"
      BY DEF Positions
    <3>3. j \notin 1..b
      BY <3>2 DEF NearlyLegal
    <3>4. b + 1 \in (b + 1)..j /\ b < Len(e)
      BY <3>1, <3>3
    <3> QED BY <2>1, <3>4
  <2> QED BY <2>1 DEF NearlyLegal
<1> QED BY <1>1 DEF Legal, NearlyLegal, ResultsPlaced, PlacedAt

-----------------------------------------------------------------------------
(* fix_messages on a conversation that is cut.                             *)

LEMMA CallsStay ==
  ASSUME NEW M, NEW e \in Seq(M), OnlyAssistantsCall(e),
         NEW i \in 1..Len(e), e[i].calls # <<>>, NEW j \in (i + 1)..Len(e),
         \A k \in (i + 1)..j : e[k].role = "tool"
  PROVE  i..j \subseteq StaysOf(e)
<1>1. Len(e) \in Nat /\ DOMAIN e = 1..Len(e)
  BY LenProperties
<1>2. HasToolCalls(e[i]) /\ e[i].role # "tool"
  BY <1>1 DEF OnlyAssistantsCall, HasToolCalls
<1>3. i \in StaysOf(e)
  <2>1. i < Len(e) /\ i + 1 \in (i + 1)..j
    BY <1>1
  <2>2. e[i + 1].role = "tool"
    BY <2>1
  <2> QED BY <1>1, <1>2, <2>1, <2>2 DEF StaysOf, Stays
<1>4. ASSUME NEW k \in (i + 1)..j PROVE k \in StaysOf(e)
  <2>1. /\ k \in 1..Len(e) /\ i \in 1..(k - 1)
        /\ \A l \in (i + 1)..k : l \in (i + 1)..j
    BY <1>1
  <2>2. e[k].role = "tool" /\ \A l \in (i + 1)..k : e[l].role = "tool"
    BY <2>1
  <2> QED BY <1>1, <1>2, <2>1, <2>2 DEF StaysOf, Stays
<1>5. \A k \in i..j : k = i \/ k \in (i + 1)..j
  BY <1>1
<1> QED BY <1>3, <1>4, <1>5

(* What fix_messages is for.                                               *)
LEMMA FixLegal ==
  ASSUME NEW M, NEW e \in Seq(M), NEW silent, NEW b \in Nat,
         NearlyLegal(e, silent, b)
  PROVE  Legal(FixMessages(e), silent)
<1> DEFINE F == FixMessages(e)
           n == Len(e)
<1>1. n \in Nat /\ DOMAIN e = 1..n
  BY LenProperties
<1>2. /\ F \in Seq(M) /\ Len(F) \in Nat
      /\ \A k \in 1..Len(F) :
           \E i \in StaysOf(e) : F[k] = e[i] /\ RankOf(e, i) = k
  BY FixFacts
<1>3. DOMAIN F = 1..Len(F)
  BY <1>2, LenProperties
<1>4. StaysOf(e) \subseteq 1..n
  BY <1>1 DEF StaysOf
<1>5. OnlyAssistantsCall(e)
  BY DEF NearlyLegal
<1>6. ASSUME NEW i \in 1..n, NEW j \in (i + 1)..n, e[i].calls # <<>>,
             \A k \in (i + 1)..j : e[k].role = "tool"
      PROVE  LET k == RankOf(e, i)
             IN /\ k \in 1..Len(F) /\ k + (j - i) \in 1..Len(F)
                /\ k + (j - i) = RankOf(e, j)
                /\ \A l \in k..(k + (j - i)) : F[l] = e[i + (l - k)]
  <2>1. i..j \subseteq StaysOf(e)
    BY <1>5, <1>6, CallsStay
  <2>2. j \in i..n
    BY <1>1
  <2> QED BY <2>1, <2>2, FixRun
<1> HIDE DEF F
<1>7. OnlyAssistantsCall(F)
  BY <1>1, <1>2, <1>3, <1>4, <1>5 DEF OnlyAssistantsCall
<1>8. CallsAnswered(F, silent)
  <2> SUFFICES ASSUME NEW k \in 1..Len(F),
                      NEW c \in ToSet(F[k].calls), c \notin silent
               PROVE  AnsweredAt(F, k, c)
    BY <1>3 DEF CallsAnswered
  <2>1. PICK i \in StaysOf(e) : F[k] = e[i] /\ RankOf(e, i) = k
    BY <1>2
  <2>2. i \in 1..n /\ e[i].calls # <<>>
    <3>1. F[k].calls # <<>>
      BY DEF ToSet
    <3> QED BY <1>4, <2>1, <3>1
  <2>3. AnsweredAt(e, i, c)
    <3>1. CallsAnswered(e, silent)
      BY DEF NearlyLegal
    <3> QED BY <1>1, <2>1, <2>2, <3>1 DEF CallsAnswered
  <2>4. PICK j \in (i + 1)..n :
          /\ e[j].role = "tool" /\ e[j].name = c
          /\ \A l \in (i + 1)..j : e[l].role = "tool"
    BY <2>3 DEF AnsweredAt
  <2>5. /\ k \in 1..Len(F) /\ k + (j - i) \in 1..Len(F)
        /\ \A l \in k..(k + (j - i)) : F[l] = e[i + (l - k)]
    BY <1>6, <2>1, <2>2, <2>4
  <2> DEFINE h == k + (j - i)
  <2>11. i \in Nat /\ j \in Nat /\ k \in Nat /\ i < j
    BY <1>1, <1>2, <2>2, <2>4
  <2>6. h \in (k + 1)..Len(F)
    BY <1>2, <2>5, <2>11
  <2>7. ASSUME NEW l \in (k + 1)..h
        PROVE  F[l] = e[i + (l - k)] /\ i + (l - k) \in (i + 1)..j
    <3>1. l \in k..h /\ i + (l - k) \in (i + 1)..j
      BY <2>11
    <3> QED BY <2>5, <3>1
  <2>8. F[h] = e[j]
    <3>1. h \in k..h /\ i + (h - k) = j
      BY <2>11
    <3> QED BY <2>5, <3>1
  <2>9. \A l \in (k + 1)..h : F[l].role = "tool"
    BY <2>4, <2>7
  <2> HIDE DEF h
  <2> QED BY <2>4, <2>6, <2>8, <2>9 DEF AnsweredAt
<1>9. ResultsPlaced(F)
  <2> SUFFICES ASSUME NEW k \in 1..Len(F), F[k].role = "tool"
               PROVE  PlacedAt(F, k)
    BY <1>3 DEF ResultsPlaced, PlacedAt, Positions
  <2>1. PICK j \in StaysOf(e) : F[k] = e[j] /\ RankOf(e, j) = k
    BY <1>2
  <2>2. j \in 1..n /\ e[j].role = "tool"
    BY <1>4, <2>1
  <2>3. PlacedAt(e, j)
    <3>1. PICK i \in 1..(j - 1) :
            HasToolCalls(e[i]) /\ \A l \in (i + 1)..j : e[l].role = "tool"
      BY <2>1, <2>2 DEF StaysOf, Stays
    <3>2. CASE \A l \in (b + 1)..j : e[l].role = "tool"
      <4>1. i \notin 1..b
        BY <3>1 DEF NearlyLegal, HasToolCalls
      <4>2. i \in (b + 1)..j
        BY <4>1, <2>2, <1>1
      <4>3. e[i].role = "tool"
        BY <3>2, <4>2
      <4> QED BY <3>1, <4>3 DEF HasToolCalls
    <3>3. j \in Positions(e, "tool")
      BY <1>1, <2>2 DEF Positions
    <3> QED BY <3>2, <3>3 DEF NearlyLegal
  <2>4. PICK i \in 1..(j - 1) :
          /\ e[j].name \in ToSet(e[i].calls)
          /\ \A l \in (i + 1)..j : e[l].role = "tool"
    BY <2>3 DEF PlacedAt
  <2>5. i \in 1..n /\ j \in (i + 1)..n /\ e[i].calls # <<>>
    BY <1>1, <2>2, <2>4 DEF ToSet
  <2> DEFINE h == RankOf(e, i)
  <2>6. /\ h \in 1..Len(F) /\ h + (j - i) = k
        /\ \A l \in h..k : F[l] = e[i + (l - h)]
    BY <1>6, <2>1, <2>4, <2>5
  <2> HIDE DEF h
  <2>7. h \in 1..(k - 1) /\ F[h] = e[i]
    <3>1. h \in h..k /\ i + (h - h) = i /\ h \in 1..(k - 1)
      BY <1>1, <1>2, <2>5, <2>6
    <3> QED BY <2>6, <3>1
  <2>8. ASSUME NEW l \in (h + 1)..k PROVE F[l].role = "tool"
    <3>1. l \in h..k /\ i + (l - h) \in (i + 1)..j
      BY <1>1, <1>2, <2>5, <2>6
    <3> QED BY <2>4, <2>6, <3>1
  <2> QED BY <2>1, <2>4, <2>7, <2>8 DEF PlacedAt
<1> QED BY <1>7, <1>8, <1>9 DEF Legal, F

(* A system prompt and then a user's message.                              *)
Led(msgs, n) ==
  /\ n \in Nat /\ n < Len(msgs)
  /\ \A i \in 1..n : msgs[i].role = "system"
  /\ msgs[n + 1].role = "user"

LEMMA FixLed ==
  ASSUME NEW M, NEW e \in Seq(M), NEW n, Led(e, n), OnlyAssistantsCall(e)
  PROVE  Led(FixMessages(e), n)
<1> DEFINE F == FixMessages(e)
<1>1. Len(e) \in Nat /\ DOMAIN e = 1..Len(e) /\ n \in Nat /\ n + 1 <= Len(e)
  BY LenProperties DEF Led
<1>2. ASSUME NEW i \in 1..(n + 1) PROVE i \in StaysOf(e)
  <2>1. e[i].role \in {"system", "user"}
    <3>1. i \in 1..n \/ i = n + 1
      BY <1>1
    <3> QED BY <3>1 DEF Led
  <2> QED BY <1>1, <2>1 DEF StaysOf, Stays, HasToolCalls
<1>3. ASSUME NEW i \in 1..(n + 1) PROVE RankOf(e, i) = i
  <2>1. StaysOf(e) \in SUBSET (1..Len(e))
    BY <1>1 DEF StaysOf
  <2>2. i \in Nat /\ 1..i \subseteq StaysOf(e)
    BY <1>1, <1>2
  <2> DEFINE S == StaysOf(e)
             l == Len(e)
  <2> HIDE DEF S, l
  <2>3. Cardinality(Upto(S, i)) = i
    BY <1>1, <2>1, <2>2, RankFront DEF S, l
  <2> QED BY <2>3 DEF RankOf, S
<1>4. /\ Len(F) \in Nat
      /\ \A i \in StaysOf(e) :
             RankOf(e, i) \in 1..Len(F) /\ F[RankOf(e, i)] = e[i]
  BY FixFacts
<1> HIDE DEF F
<1>5. \A i \in 1..(n + 1) : i \in 1..Len(F) /\ F[i] = e[i]
  BY <1>2, <1>3, <1>4
<1>6. n + 1 \in 1..(n + 1) /\ \A i \in 1..n : i \in 1..(n + 1)
  BY <1>1
<1>7. n < Len(F)
  BY <1>1, <1>4, <1>5, <1>6
<1> QED BY <1>1, <1>5, <1>6, <1>7 DEF Led, F

-----------------------------------------------------------------------------
(* Conversations a request can be made from.                               *)

Sound(msgs, M, silent) ==
  msgs \in Seq(M) /\ Legal(msgs, silent) /\ \E n : Led(msgs, n)

LEMMA TailFacts ==
  ASSUME NEW M, NEW w \in Seq(M), NEW a \in 1..(Len(w) + 1)
  PROVE  LET t == SubSeq(w, a, Len(w))
         IN /\ t \in Seq(M) /\ Len(t) = Len(w) - a + 1
            /\ \A i \in 1..Len(t) : t[i] = w[a + i - 1]
<1> DEFINE n == Len(w)
           t == SubSeq(w, a, n)
<1>1. n \in Nat /\ a \in Nat /\ a >= 1 /\ a <= n + 1
  BY LenProperties
<1>2. \A i \in a..n : w[i] \in M
  <2>1. \A i \in 1..n : w[i] \in M
    BY ElementOfSeq
  <2> QED BY <1>1, <2>1
<1>3. t \in Seq(M) /\ Len(t) = (IF a <= n THEN n - a + 1 ELSE 0)
      /\ \A i \in 1..(n - a + 1) : t[i] = w[a + i - 1]
  <2>1. a \in Int /\ n \in Int
    BY <1>1
  <2> HIDE DEF n
  <2> QED BY <1>2, <2>1, SubSeqProperties
<1> HIDE DEF t, n
<1>4. Len(t) = n - a + 1
  BY <1>1, <1>3
<1> QED BY <1>3, <1>4 DEF t, n

LEMMA TailOfTail ==
  ASSUME NEW M, NEW w \in Seq(M), NEW a \in 1..(Len(w) + 1),
         NEW u \in 1..(Len(w) - a + 2)
  PROVE  LET t == SubSeq(w, a, Len(w))
         IN  SubSeq(t, u, Len(t)) = SubSeq(w, a + u - 1, Len(w))
<1> DEFINE n == Len(w)
           t == SubSeq(w, a, n)
           m == Len(t)
           x == SubSeq(t, u, m)
           y == SubSeq(w, a + u - 1, n)
<1>1. n \in Nat /\ a \in Nat
  BY LenProperties
<1>2. t \in Seq(M) /\ m = n - a + 1 /\ \A i \in 1..m : t[i] = w[a + i - 1]
  BY TailFacts
<1> HIDE DEF t, m
<1>3. u \in 1..(m + 1) /\ a + u - 1 \in 1..(n + 1)
  BY <1>1, <1>2
<1>4. /\ x \in Seq(M) /\ Len(x) = m - u + 1
      /\ \A i \in 1..Len(x) : x[i] = t[u + i - 1]
  <2>1. u \in 1..(Len(t) + 1)
    BY <1>3 DEF m
  <2> QED BY <1>2, <2>1, TailFacts DEF m
<1>5. /\ y \in Seq(M) /\ Len(y) = n - (a + u - 1) + 1
      /\ \A i \in 1..Len(y) : y[i] = w[(a + u - 1) + i - 1]
  BY <1>3, TailFacts
<1> HIDE DEF x, y, n
<1>6. Len(x) = Len(y) /\ Len(x) \in Nat
  BY <1>1, <1>2, <1>3, <1>4, <1>5
<1>7. ASSUME NEW i \in 1..Len(x) PROVE x[i] = y[i]
  <2>1. u + i - 1 \in 1..m /\ a + (u + i - 1) - 1 = (a + u - 1) + i - 1
    BY <1>1, <1>2, <1>3, <1>4, <1>6
  <2> QED BY <1>2, <1>4, <1>5, <1>6, <2>1
<1>8. x = y
  BY <1>4, <1>5, <1>6, <1>7, SeqEqual
<1> QED BY <1>8 DEF x, y, t, m, n

LEMMA LedFacts ==
  ASSUME NEW M, NEW w \in Seq(M), NEW n, Led(w, n)
  PROVE  /\ SystemLength(w) = n
         /\ SystemPart(w) = SubSeq(w, 1, n)
         /\ Rest(w) = SubSeq(w, n + 1, Len(w))
<1> DEFINE T == DOMAIN w \ Positions(w, "system")
<1>1. Len(w) \in Nat /\ DOMAIN w = 1..Len(w) /\ n \in Nat /\ n < Len(w)
  BY LenProperties DEF Led
<1>2. n + 1 \in T
  BY <1>1 DEF Led, Positions
<1>3. ASSUME NEW i \in T PROVE n + 1 <= i
  <2>1. i \in 1..Len(w) /\ w[i].role # "system"
    BY <1>1 DEF Positions
  <2>2. i \notin 1..n
    BY <2>1 DEF Led
  <2> QED BY <1>1, <2>1, <2>2
<1>4. T \subseteq Nat
  BY <1>1
<1> HIDE DEF T
<1>5. Least(T) = n + 1
  <2>1. Least(T) \in T /\ \A m \in T : Least(T) <= m
    BY <1>2, <1>4, LeastIs
  <2>2. PICK l \in T : l = Least(T)
    BY <2>1
  <2>3. l \in Nat /\ l <= n + 1 /\ n + 1 <= l
    BY <1>2, <1>3, <1>4, <2>1, <2>2
  <2> QED BY <1>1, <2>2, <2>3
<1>6. SystemLength(w) = n
  BY <1>1, <1>2, <1>5 DEF SystemLength, T
<1> QED BY <1>6 DEF SystemPart, Rest

(* The system messages in front say nothing of calls.                      *)
LEMMA FrontFacts ==
  ASSUME NEW M, NEW w \in Seq(M), NEW n, Led(w, n), OnlyAssistantsCall(w)
  PROVE  LET s == SystemPart(w)
         IN /\ s \in Seq(M) /\ Len(s) = n
            /\ \A i \in 1..n : s[i].role = "system" /\ s[i].calls = <<>>
<1> DEFINE s == SubSeq(w, 1, n)
<1>1. Len(w) \in Nat /\ DOMAIN w = 1..Len(w) /\ n \in Nat /\ n < Len(w)
  BY LenProperties DEF Led
<1>2. \A i \in 1..n : w[i] \in M
  BY <1>1, ElementOfSeq
<1>3. s \in Seq(M) /\ Len(s) = (IF 1 <= n THEN n - 1 + 1 ELSE 0)
      /\ \A i \in 1..(n - 1 + 1) : s[i] = w[1 + i - 1]
  <2>1. 1 \in Int /\ n \in Int
    BY <1>1
  <2> QED BY <1>2, <2>1, SubSeqProperties
<1>4. \A i \in 1..n : w[i].role = "system" /\ w[i].calls = <<>>
  BY <1>1 DEF Led, OnlyAssistantsCall
<1>5. SystemPart(w) = s
  BY LedFacts
<1> HIDE DEF s
<1>6. Len(s) = n /\ \A i \in 1..n : s[i] = w[i]
  BY <1>1, <1>3
<1> QED BY <1>3, <1>4, <1>5, <1>6

LEMMA FromFirstUserTail ==
  ASSUME NEW M, NEW w \in Seq(M), NEW a \in 1..(Len(w) + 1)
  PROVE  \E o \in a..(Len(w) + 1) :
           FromFirstUser(SubSeq(w, a, Len(w))) = SubSeq(w, o, Len(w))
<1> DEFINE t == SubSeq(w, a, Len(w))
           users == Positions(t, "user")
<1>1. Len(w) \in Nat /\ a \in Nat
  BY LenProperties
<1>2. t \in Seq(M) /\ Len(t) = Len(w) - a + 1
  BY TailFacts
<1>3. DOMAIN t = 1..Len(t)
  BY <1>2, LenProperties
<1>4. CASE users = {}
  <2>1. FromFirstUser(t) = t
    BY <1>4 DEF FromFirstUser
  <2>2. a \in a..(Len(w) + 1)
    BY <1>1
  <2> QED BY <2>1, <2>2
<1>5. CASE users # {}
  <2>1. FromFirstUser(t) = SubSeq(t, Least(users), Len(t))
    BY <1>5 DEF FromFirstUser
  <2>2. Least(users) \in users
    <3>1. users \subseteq Nat
      BY <1>3 DEF Positions
    <3> HIDE DEF users
    <3> QED BY <1>5, <3>1, LeastIs
  <2>3. PICK u \in 1..Len(t) : u = Least(users)
    BY <1>3, <2>2 DEF Positions
  <2>4. u \in 1..(Len(w) - a + 2) /\ a + u - 1 \in a..(Len(w) + 1)
    BY <1>1, <1>2, <2>3
  <2>5. SubSeq(t, u, Len(t)) = SubSeq(w, a + u - 1, Len(w))
    BY <2>4, TailOfTail
  <2> QED BY <2>1, <2>3, <2>4, <2>5
<1> QED BY <1>4, <1>5

LEMMA ShortenedSound ==
  ASSUME NEW M, NEW silent, NEW w, Sound(w, M, silent), NEW n, Led(w, n),
         NEW a \in (n + 1)..(Len(w) + 1)
  PROVE  Sound(Shortened(w, SubSeq(w, a, Len(w))), M, silent)
<1>1. w \in Seq(M) /\ Legal(w, silent) /\ OnlyAssistantsCall(w)
  BY DEF Sound, Legal
<1>2. Len(w) \in Nat /\ DOMAIN w = 1..Len(w) /\ n \in Nat /\ n < Len(w)
  BY <1>1, LenProperties DEF Led
<1>3. a \in 1..(Len(w) + 1)
  BY <1>2
<1>4. PICK o \in a..(Len(w) + 1) :
        FromFirstUser(SubSeq(w, a, Len(w))) = SubSeq(w, o, Len(w))
  BY <1>1, <1>3, FromFirstUserTail
<1>5. o \in 1..(Len(w) + 1)
  BY <1>2, <1>3
<1> DEFINE users == Positions(w, "user")
           s == SystemPart(w)
           t == SubSeq(w, o, Len(w))
           x == w[Least(users)]
<1>6. users # {}
  <2>1. n + 1 \in users
    BY <1>2 DEF Led, Positions
  <2> QED BY <2>1
<1>7. x \in M /\ x.role = "user" /\ x.calls = <<>>
  <2>1. Least(users) \in users
    <3>1. users \subseteq Nat
      BY <1>2 DEF Positions
    <3> HIDE DEF users
    <3> QED BY <1>6, <3>1, LeastIs
  <2>2. Least(users) \in 1..Len(w) /\ w[Least(users)].role = "user"
    BY <1>2, <2>1 DEF Positions
  <2> QED BY <1>1, <1>2, <2>2, ElementOfSeq DEF OnlyAssistantsCall
<1>8. /\ s \in Seq(M) /\ Len(s) = n
      /\ \A i \in 1..n : s[i].role = "system" /\ s[i].calls = <<>>
  BY <1>1, FrontFacts
<1>9. ASSUME NEW p \in Seq(M), Len(p) = n \/ Len(p) = n + 1,
             \A i \in 1..n : p[i] = s[i],
             Len(p) = n => t # <<>> /\ t[1].role = "user",
             Len(p) = n + 1 => p[n + 1] = x
      PROVE  Sound(FixMessages(p \o t), M, silent)
  <2> DEFINE e == p \o t
  <2>1. \A i \in 1..Len(p) : p[i].calls = <<>> /\ p[i].role # "tool"
    <3> SUFFICES ASSUME NEW i \in 1..Len(p)
                 PROVE  p[i].calls = <<>> /\ p[i].role # "tool"
      OBVIOUS
    <3>1. i \in 1..n \/ (i = n + 1 /\ Len(p) = n + 1)
      BY <1>2, <1>9
    <3> QED BY <1>7, <1>8, <1>9, <3>1
  <2>2. /\ e \in Seq(M) /\ Len(e) = Len(p) + (Len(w) - o + 1)
        /\ \A i \in 1..Len(p) : e[i] = p[i]
        /\ \A i \in (Len(p) + 1)..Len(e) : e[i] = w[i + (o - 1 - Len(p))]
        /\ NearlyLegal(e, silent, Len(p))
    BY <1>1, <1>5, <2>1, Joined
  <2> HIDE DEF e
  <2>3. Len(p) \in Nat
    BY <1>2, <1>9
  <2>4. Led(e, n)
    <3>1. \A i \in 1..n : e[i].role = "system"
      <4>1. \A i \in 1..n : i \in 1..Len(p)
        BY <1>2, <1>9
      <4> QED BY <1>8, <1>9, <2>2, <4>1
    <3>2. CASE Len(p) = n + 1
      <4>1. n + 1 \in 1..Len(p) /\ n < Len(e)
        BY <1>2, <1>5, <2>2, <3>2
      <4> QED BY <1>2, <1>7, <1>9, <2>2, <3>1, <3>2, <4>1 DEF Led
    <3>3. CASE Len(p) = n
      <4>1. t \in Seq(M) /\ Len(t) = Len(w) - o + 1
            /\ \A i \in 1..Len(t) : t[i] = w[o + i - 1]
        BY <1>1, <1>5, TailFacts
      <4>2. t # <<>> /\ t[1].role = "user"
        BY <1>9, <3>3
      <4> HIDE DEF t
      <4>3. Len(t) >= 1
        BY <4>1, <4>2, EmptySeq
      <4>4. 1 \in 1..Len(t) /\ t[1] = w[o] /\ n + 1 \in (Len(p) + 1)..Len(e)
            /\ n + 1 + (o - 1 - Len(p)) = o
        BY <1>2, <1>5, <2>2, <3>3, <4>1, <4>3
      <4>5. e[n + 1] = w[o]
        BY <2>2, <4>4
      <4>6. n < Len(e)
        BY <1>2, <2>2, <3>3, <4>4
      <4> QED BY <1>2, <3>1, <4>2, <4>4, <4>5, <4>6 DEF Led
    <3> QED BY <1>9, <3>2, <3>3
  <2>5. OnlyAssistantsCall(e)
    BY <2>2 DEF NearlyLegal
  <2>6. Led(FixMessages(e), n) /\ Legal(FixMessages(e), silent)
    BY <2>2, <2>3, <2>4, <2>5, FixLed, FixLegal
  <2>7. FixMessages(e) \in Seq(M)
    BY <2>2, FixFacts
  <2> QED BY <2>6, <2>7 DEF Sound, e
<1>10. CASE t # <<>> /\ t[1].role = "user"
  <2>1. Shortened(w, SubSeq(w, a, Len(w))) = FixMessages(s \o t)
    BY <1>4, <1>10 DEF Shortened, EnsureUserMessage
  <2>2. Len(s) # n + 1
    BY <1>2, <1>8
  <2> HIDE DEF s, t, x
  <2> QED BY <1>8, <1>9, <1>10, <2>1, <2>2
<1>11. CASE ~(t # <<>> /\ t[1].role = "user")
  <2>1. Shortened(w, SubSeq(w, a, Len(w))) = FixMessages((s \o <<x>>) \o t)
    BY <1>4, <1>6, <1>11 DEF Shortened, EnsureUserMessage
  <2> HIDE DEF s, t, x
  <2> DEFINE p == s \o <<x>>
  <2>2. /\ p \in Seq(M) /\ Len(p) = n + 1 /\ p[n + 1] = x
        /\ \A i \in 1..n : p[i] = s[i]
    <3>1. p = Append(s, x)
      BY <1>7, <1>8, AppendIsConcat
    <3> QED BY <1>7, <1>8, <3>1, AppendProperties
  <2>3. Len(p) # n
    BY <1>2, <2>2
  <2> HIDE DEF p
  <2>4. Sound(FixMessages(p \o t), M, silent)
    BY <1>9, <2>2, <2>3
  <2> QED BY <2>1, <2>4 DEF p
<1> QED BY <1>10, <1>11

LEMMA RestFacts ==
  ASSUME NEW M, NEW w \in Seq(M), NEW n, Led(w, n)
  PROVE  /\ Rest(w) = SubSeq(w, n + 1, Len(w)) /\ n + 1 \in 1..Len(w)
         /\ Rest(w) \in Seq(M) /\ Len(Rest(w)) = Len(w) - n
         /\ \A i \in 1..Len(Rest(w)) : Rest(w)[i] = w[n + i]
<1>1. Rest(w) = SubSeq(w, n + 1, Len(w))
  BY LedFacts
<1>2. Len(w) \in Nat /\ n \in Nat /\ n < Len(w)
  BY LenProperties DEF Led
<1>3. n + 1 \in 1..Len(w) /\ n + 1 \in 1..(Len(w) + 1)
  BY <1>2
<1> DEFINE t == SubSeq(w, n + 1, Len(w))
<1>4. t \in Seq(M) /\ Len(t) = Len(w) - (n + 1) + 1
      /\ \A i \in 1..Len(t) : t[i] = w[(n + 1) + i - 1]
  BY <1>3, TailFacts
<1> HIDE DEF t
<1>5. Len(t) = Len(w) - n /\ \A i \in 1..Len(t) : t[i] = w[n + i]
  BY <1>2, <1>4
<1> QED BY <1>1, <1>3, <1>4, <1>5 DEF t

(* What is kept of the rest is a tail of the whole.                        *)
LEMMA RestTail ==
  ASSUME NEW M, NEW w \in Seq(M), NEW n, Led(w, n),
         NEW u \in 1..(Len(Rest(w)) + 1)
  PROVE  /\ SubSeq(Rest(w), u, Len(Rest(w))) = SubSeq(w, n + u, Len(w))
         /\ n + u \in (n + 1)..(Len(w) + 1)
<1>1. Rest(w) = SubSeq(w, n + 1, Len(w)) /\ Len(Rest(w)) = Len(w) - n
      /\ n + 1 \in 1..Len(w)
  BY RestFacts
<1>2. Len(w) \in Nat /\ n \in Nat
  BY LenProperties DEF Led
<1>3. n + 1 \in 1..(Len(w) + 1) /\ u \in 1..(Len(w) - (n + 1) + 2)
      /\ (n + 1) + u - 1 = n + u
  BY <1>1, <1>2
<1> DEFINE t == SubSeq(w, n + 1, Len(w))
<1>4. SubSeq(t, u, Len(t)) = SubSeq(w, (n + 1) + u - 1, Len(w))
  BY <1>3, TailOfTail
<1>5. n + u \in (n + 1)..(Len(w) + 1)
  BY <1>1, <1>2
<1> QED BY <1>1, <1>3, <1>4, <1>5

LEMMA KeptSound ==
  ASSUME NEW M, NEW silent, NEW w, Sound(w, M, silent), NEW kept,
         \/ kept = <<>>
         \/ \E u \in 1..(Len(Rest(w)) + 1) :
                kept = SubSeq(Rest(w), u, Len(Rest(w)))
  PROVE  Sound(Shortened(w, kept), M, silent)
<1>1. PICK n : Led(w, n)
  BY DEF Sound
<1>2. w \in Seq(M)
  BY DEF Sound
<1>3. Len(w) \in Nat /\ n \in Nat /\ n < Len(w)
  BY <1>1, <1>2, LenProperties DEF Led
<1>4. CASE kept = <<>>
  <2>1. Len(w) + 1 \in Int /\ Len(w) \in Int /\ Len(w) < Len(w) + 1
    BY <1>3
  <2>2. SubSeq(w, Len(w) + 1, Len(w)) = <<>>
    BY <2>1, SubSeqEmpty
  <2>3. Len(w) + 1 \in (n + 1)..(Len(w) + 1)
    BY <1>3
  <2> QED BY <1>1, <1>4, <2>2, <2>3, ShortenedSound
<1>5. CASE \E u \in 1..(Len(Rest(w)) + 1) :
            kept = SubSeq(Rest(w), u, Len(Rest(w)))
  <2>1. PICK u \in 1..(Len(Rest(w)) + 1) :
          kept = SubSeq(Rest(w), u, Len(Rest(w)))
    BY <1>5
  <2>2. kept = SubSeq(w, n + u, Len(w)) /\ n + u \in (n + 1)..(Len(w) + 1)
    BY <1>1, <1>2, <2>1, RestTail
  <2> QED BY <1>1, <2>2, ShortenedSound
<1> QED BY <1>4, <1>5

LEMMA RestLength ==
  ASSUME NEW M, NEW silent, NEW w, Sound(w, M, silent)
  PROVE  Len(Rest(w)) \in Nat
<1>1. PICK n : Led(w, n)
  BY DEF Sound
<1>2. w \in Seq(M)
  BY DEF Sound
<1>3. Rest(w) \in Seq(M)
  BY <1>1, <1>2, RestFacts
<1> QED BY <1>3, LenProperties

LEMMA TruncateSound ==
  ASSUME NEW M, NEW silent, NEW w, Sound(w, M, silent),
         NEW keep \in Int, NEW drop \in Nat \ {0}
  PROVE  Sound(TruncateByTurns(w, keep, drop), M, silent)
<1> DEFINE r == Len(Rest(w))
           k == 2 * (keep - drop + 1)
           kept == IF k <= 0 THEN <<>> ELSE SubSeq(Rest(w), r - k + 1, r)
<1>1. r \in Nat
  BY RestLength
<1>2. CASE keep = -1 \/ r \div 2 <= keep
  BY <1>2 DEF TruncateByTurns
<1>3. CASE ~(keep = -1 \/ r \div 2 <= keep)
  <2>1. TruncateByTurns(w, keep, drop) = Shortened(w, kept)
    BY <1>3 DEF TruncateByTurns
  <2>2. k \in Int /\ k <= 2 * keep
    OBVIOUS
  <2>3. r \div 2 \in Nat /\ 2 * (r \div 2) <= r
    BY <1>1
  <2> HIDE DEF r, k
  <2>4. keep < r \div 2
    BY <1>3, <2>3
  <2>5. ~(k <= 0) => r - k + 1 \in 1..(r + 1)
    BY <1>1, <2>2, <2>3, <2>4
  <2>6. \/ kept = <<>>
        \/ \E u \in 1..(Len(Rest(w)) + 1) :
               kept = SubSeq(Rest(w), u, Len(Rest(w)))
    BY <2>5 DEF r
  <2> HIDE DEF kept
  <2> QED BY <2>1, <2>6, KeptSound
<1> QED BY <1>2, <1>3

LEMMA DropSound ==
  ASSUME NEW M, NEW silent, NEW w, Sound(w, M, silent), NEW drop \in Nat \ {0}
  PROVE  Sound(DropOldestTurns(w, drop), M, silent)
<1> DEFINE r == Len(Rest(w))
           kept == IF r \div 2 <= drop THEN <<>>
                   ELSE SubSeq(Rest(w), 2 * drop + 1, r)
<1>1. r \in Nat
  BY RestLength
<1>2. ~(drop <= 0)
  OBVIOUS
<1>3. DropOldestTurns(w, drop) = Shortened(w, kept)
  BY <1>2 DEF DropOldestTurns
<1>4. r \div 2 \in Nat /\ 2 * (r \div 2) <= r
  BY <1>1
<1> HIDE DEF r
<1>5. ~(r \div 2 <= drop) => 2 * drop + 1 \in 1..(r + 1)
  BY <1>1, <1>4
<1>6. \/ kept = <<>>
      \/ \E u \in 1..(Len(Rest(w)) + 1) :
             kept = SubSeq(Rest(w), u, Len(Rest(w)))
  BY <1>5 DEF r
<1> HIDE DEF kept
<1> QED BY <1>3, <1>6, KeptSound

LEMMA HalveSound ==
  ASSUME NEW M, NEW silent, NEW w, Sound(w, M, silent)
  PROVE  Sound(Halve(w), M, silent)
<1> DEFINE r == Len(Rest(w))
           u == r \div 2 + 1
           kept == SubSeq(Rest(w), u, r)
<1>1. r \in Nat
  BY RestLength
<1>2. r \div 2 \in Nat /\ 2 * (r \div 2) <= r
  BY <1>1
<1>3. Halve(w) = w \/ Halve(w) = Shortened(w, kept)
  BY DEF Halve
<1>4. u \in 1..(r + 1)
  <2> HIDE DEF r
  <2> QED BY <1>1, <1>2
<1>5. \E x \in 1..(Len(Rest(w)) + 1) : kept = SubSeq(Rest(w), x, Len(Rest(w)))
  <2> HIDE DEF u
  <2> QED BY <1>4
<1> HIDE DEF kept
<1>6. Sound(Shortened(w, kept), M, silent)
  BY <1>5, KeptSound
<1> QED BY <1>3, <1>6

LEMMA Greatest ==
  ASSUME NEW r \in Nat, NEW S \in SUBSET (1..r), S # {}
  PROVE  \E i \in S : \A j \in S : j <= i
<1> DEFINE T == {r - i : i \in S}
<1>1. T \in SUBSET Nat /\ T # {}
  <2>1. \A i \in S : r - i \in Nat
    OBVIOUS
  <2>2. PICK i \in S : TRUE
    OBVIOUS
  <2>3. r - i \in T
    OBVIOUS
  <2> QED BY <2>1, <2>3
<1> HIDE DEF T
<1>2. PICK x \in T : \A y \in T : x <= y
  BY <1>1, LeastNatural
<1>3. PICK i \in S : x = r - i
  BY DEF T
<1>4. ASSUME NEW j \in S PROVE j <= i
  <2>1. r - j \in T
    BY DEF T
  <2>2. x <= r - j
    BY <1>2, <2>1
  <2> QED BY <1>3, <2>2
<1> QED BY <1>4

LEMMA TwoMore ==
  ASSUME NEW M, NEW s \in Seq(M), NEW q \in Seq(M), Len(q) = 2
  PROVE  LET p == s \o q
         IN /\ p \in Seq(M) /\ Len(p) = Len(s) + 2
            /\ \A i \in 1..Len(s) : p[i] = s[i]
            /\ p[Len(s) + 1] = q[1] /\ p[Len(s) + 2] = q[2]
<1> DEFINE p == s \o q
           n == Len(s)
<1>1. n \in Nat
  BY LenProperties
<1>2. p \in Seq(M) /\ Len(p) = n + 2
      /\ \A i \in 1..(n + 2) : p[i] = IF i <= n THEN s[i] ELSE q[i - n]
  <2>1. p \in Seq(M) /\ Len(p) = Len(s) + Len(q)
        /\ \A i \in 1..(Len(s) + Len(q)) :
             p[i] = IF i <= Len(s) THEN s[i] ELSE q[i - Len(s)]
    BY ConcatProperties
  <2> HIDE DEF p
  <2> QED BY <2>1
<1> HIDE DEF p, n
<1>3. \A i \in 1..n : i \in 1..(n + 2) /\ i <= n
  BY <1>1
<1>4. ASSUME NEW k \in 1..2 PROVE p[n + k] = q[k]
  <2>1. PICK j \in 1..(n + 2) : j = n + k
    BY <1>1
  <2>2. ~(j <= n) /\ j - n = k
    BY <1>1, <2>1
  <2> QED BY <1>2, <2>1, <2>2
<1>5. p[n + 1] = q[1] /\ p[n + 2] = q[2]
  BY <1>4
<1> QED BY <1>2, <1>3, <1>5 DEF p, n

LEMMA SummarySound ==
  ASSUME NEW M, NEW silent, NEW w, Sound(w, M, silent), NEW keep,
         User("summary") \in M, Assistant("acknowledged") \in M
  PROVE  Sound(SummaryOf(w, keep), M, silent)
<1>1. PICK n : Led(w, n)
  BY DEF Sound
<1>2. w \in Seq(M) /\ Legal(w, silent) /\ OnlyAssistantsCall(w)
  BY DEF Sound, Legal
<1>3. Len(w) \in Nat /\ n \in Nat /\ n < Len(w)
  BY <1>1, <1>2, LenProperties DEF Led
<1> DEFINE rest == Rest(w)
           r == Len(rest)
           splits == {i \in Positions(rest, "user") :
                        i > 1 /\ i <= r - keep + 1}
           split == CHOOSE i \in splits : \A j \in splits : j <= i
           s == SystemPart(w)
           q == <<User("summary"), Assistant("acknowledged")>>
           t == SubSeq(rest, split, r)
<1>4. CASE splits = {} \/ r <= keep
  BY <1>4 DEF SummaryOf
<1>5. CASE ~(splits = {} \/ r <= keep)
  <2>1. SummaryOf(w, keep) = (s \o q) \o t
    BY <1>5 DEF SummaryOf
  <2>2. rest \in Seq(M) /\ r \in Nat /\ DOMAIN rest = 1..r /\ r = Len(w) - n
        /\ \A i \in 1..r : rest[i] = w[n + i]
    BY <1>1, <1>2, RestFacts, LenProperties
  <2>3. split \in splits
    <3>1. splits \in SUBSET (1..r)
      BY <2>2 DEF Positions
    <3> HIDE DEF splits
    <3>2. \E i \in splits : \A j \in splits : j <= i
      BY <1>5, <2>2, <3>1, Greatest
    <3> QED BY <3>2
  <2>4. PICK u \in 1..r : u = split /\ rest[u].role = "user"
    BY <2>2, <2>3 DEF Positions
  <2> HIDE DEF split, splits
  <2> DEFINE o == n + u
  <2>5. t = SubSeq(w, o, Len(w)) /\ o \in (n + 1)..(Len(w) + 1)
    <3>1. u \in 1..(Len(Rest(w)) + 1)
      BY <2>2
    <3>2. SubSeq(Rest(w), u, Len(Rest(w))) = SubSeq(w, n + u, Len(w))
          /\ n + u \in (n + 1)..(Len(w) + 1)
      BY <1>1, <1>2, <3>1, RestTail
    <3> QED BY <2>4, <3>2
  <2>6. /\ s \in Seq(M) /\ Len(s) = n
        /\ \A i \in 1..n : s[i].role = "system" /\ s[i].calls = <<>>
    BY <1>1, <1>2, FrontFacts
  <2>7. /\ q \in Seq(M) /\ Len(q) = 2
        /\ q[1].role = "user" /\ q[1].calls = <<>>
        /\ q[2].role = "assistant" /\ q[2].calls = <<>>
    BY DEF User, Assistant, Message
  <2>8. w[o].role = "user" /\ o \in 1..Len(w)
    BY <1>3, <2>2, <2>4
  <2> HIDE DEF s, q, t, rest, r
  <2> DEFINE p == s \o q
  <2>9. /\ p \in Seq(M) /\ Len(p) = Len(s) + 2
        /\ \A i \in 1..Len(s) : p[i] = s[i]
        /\ p[Len(s) + 1] = q[1] /\ p[Len(s) + 2] = q[2]
    BY <2>6, <2>7, TwoMore
  <2> HIDE DEF p
  <2>10. /\ p \in Seq(M) /\ Len(p) = n + 2
         /\ \A i \in 1..n : p[i] = s[i]
         /\ p[n + 1] = q[1] /\ p[n + 2] = q[2]
    BY <2>6, <2>9
  <2>11. \A i \in 1..Len(p) : p[i].calls = <<>> /\ p[i].role # "tool"
    <3> SUFFICES ASSUME NEW i \in 1..Len(p)
                 PROVE  p[i].calls = <<>> /\ p[i].role # "tool"
      OBVIOUS
    <3>1. i \in 1..n \/ i = n + 1 \/ i = n + 2
      BY <1>3, <2>10
    <3> QED BY <2>6, <2>7, <2>10, <3>1
  <2>12. o \in 1..(Len(w) + 1)
    BY <1>3, <2>8
  <2> DEFINE e == p \o SubSeq(w, o, Len(w))
  <2>13. /\ e \in Seq(M) /\ Len(e) = Len(p) + (Len(w) - o + 1)
         /\ \A i \in 1..Len(p) : e[i] = p[i]
         /\ \A i \in (Len(p) + 1)..Len(e) : e[i] = w[i + (o - 1 - Len(p))]
         /\ NearlyLegal(e, silent, Len(p))
    <3> HIDE DEF o
    <3> QED BY <1>2, <2>10, <2>11, <2>12, Joined
  <2> HIDE DEF e
  <2>14. e[Len(p) + 1].role = "user"
    <3>1. Len(p) + 1 \in (Len(p) + 1)..Len(e)
          /\ (Len(p) + 1) + (o - 1 - Len(p)) = o
      BY <1>3, <2>8, <2>10, <2>13
    <3> QED BY <2>8, <2>13, <3>1
  <2>15. Legal(e, silent)
    <3>1. Len(p) \in Nat /\ e[Len(p) + 1].role # "tool"
      BY <1>3, <2>10, <2>14
    <3> QED BY <2>13, <3>1, LegalNearly
  <2>16. Led(e, n)
    <3>1. n < Len(e) /\ \A i \in 1..n : i \in 1..Len(p)
      BY <1>3, <2>8, <2>10, <2>13
    <3>2. n + 1 \in 1..Len(p)
      BY <1>3, <2>10
    <3>3. \A i \in 1..n : e[i].role = "system"
      BY <2>6, <2>10, <2>13, <3>1
    <3>4. e[n + 1].role = "user"
      BY <2>7, <2>10, <2>13, <3>2
    <3> QED BY <1>3, <3>1, <3>3, <3>4 DEF Led
  <2>17. Sound(e, M, silent)
    BY <2>13, <2>15, <2>16 DEF Sound
  <2> QED BY <2>1, <2>5, <2>17 DEF e, p
<1> QED BY <1>4, <1>5

(* Whatever the context manager does, the conversation stays a legal one.  *)
LEMMA ProcessSound ==
  ASSUME NEW M, NEW silent, NEW w, Sound(w, M, silent), NEW l,
         l.turns \in Int, l.drop \in Nat \ {0},
         User("summary") \in M, Assistant("acknowledged") \in M,
         NEW m \in Process(w, l)
  PROVE  Sound(m, M, silent)
<1> DEFINE cut == TruncateByTurns(w, l.turns, l.drop)
<1>1. Sound(cut, M, silent)
  BY TruncateSound
<1> HIDE DEF cut
<1>2. ASSUME NEW x \in Compressed(cut, l) PROVE Sound(x, M, silent)
  <2>1. Sound(DropOldestTurns(cut, l.drop), M, silent)
    BY <1>1, DropSound
  <2>2. Sound(SummaryOf(cut, l.recent), M, silent)
    BY <1>1, SummarySound
  <2>3. x \in {cut, SummaryOf(cut, l.recent), DropOldestTurns(cut, l.drop)}
    BY <1>2 DEF Compressed
  <2> QED BY <1>1, <2>1, <2>2, <2>3
<1>3. ASSUME NEW x \in Compressions(cut, l) PROVE Sound(x, M, silent)
  <2>1. \E y \in Compressed(cut, l) : x = y \/ x = Halve(y)
    BY <1>3 DEF Compressions
  <2>2. PICK y \in Compressed(cut, l) : x = y \/ x = Halve(y)
    BY <2>1
  <2>3. Sound(y, M, silent)
    BY <1>2
  <2>4. Sound(Halve(y), M, silent)
    BY <2>3, HalveSound
  <2> QED BY <2>2, <2>3, <2>4
<1>4. m = cut \/ m \in Compressions(cut, l)
  BY DEF Process, cut
<1> QED BY <1>1, <1>3, <1>4

-----------------------------------------------------------------------------
(* What is added to a conversation.                                        *)

LEMMA ConcatLegal ==
  ASSUME NEW M, NEW silent, NEW w \in Seq(M), NEW q \in Seq(M),
         Legal(w, silent), Legal(q, silent)
  PROVE  LET e == w \o q
         IN /\ e \in Seq(M) /\ Legal(e, silent)
            /\ \A i \in 1..Len(w) : e[i] = w[i]
            /\ Len(e) = Len(w) + Len(q)
            /\ \A i \in 1..Len(q) : e[Len(w) + i] = q[i]
<1> DEFINE e == w \o q
           b == Len(w)
           m == Len(q)
<1>1. e \in Seq(M) /\ Len(e) = b + m
      /\ \A i \in 1..(b + m) : e[i] = IF i <= b THEN w[i] ELSE q[i - b]
  BY ConcatProperties
<1>2. b \in Nat /\ m \in Nat /\ DOMAIN w = 1..b /\ DOMAIN q = 1..m
      /\ DOMAIN e = 1..(b + m)
  BY <1>1, LenProperties
<1> HIDE DEF e, b, m
<1>3. \A i \in 1..b : e[i] = w[i]
  <2>1. \A i \in 1..b : i \in 1..(b + m) /\ i <= b
    BY <1>2
  <2> QED BY <1>1, <2>1
<1>4. ASSUME NEW k \in 1..m PROVE b + k \in 1..(b + m) /\ e[b + k] = q[k]
  <2>1. PICK j \in 1..(b + m) : j = b + k
    BY <1>2
  <2>2. ~(j <= b) /\ j - b = k
    BY <1>2, <2>1
  <2> QED BY <1>1, <2>1, <2>2
<1>5. ASSUME NEW i \in 1..(b + m) PROVE i \in 1..b \/ \E k \in 1..m : i = b + k
  <2>1. ~(i <= b) => i - b \in 1..m /\ i = b + (i - b)
    BY <1>2
  <2>2. i <= b => i \in 1..b
    BY <1>2
  <2> QED BY <2>1, <2>2
<1>6. OnlyAssistantsCall(e)
  <2> SUFFICES ASSUME NEW i \in 1..(b + m), e[i].calls # <<>>
               PROVE  e[i].role = "assistant"
    BY <1>2 DEF OnlyAssistantsCall
  <2>1. CASE i \in 1..b
    <3>1. e[i] = w[i]
      BY <1>3, <2>1
    <3> QED BY <1>2, <2>1, <3>1 DEF Legal, OnlyAssistantsCall
  <2>2. CASE \E k \in 1..m : i = b + k
    <3>1. PICK k \in 1..m : i = b + k
      BY <2>2
    <3>2. e[i] = q[k]
      BY <1>4, <3>1
    <3> QED BY <1>2, <3>2 DEF Legal, OnlyAssistantsCall
  <2> QED BY <1>5, <2>1, <2>2
<1>7. CallsAnswered(e, silent)
  <2> SUFFICES ASSUME NEW i \in 1..(b + m),
                      NEW c \in ToSet(e[i].calls), c \notin silent
               PROVE  AnsweredAt(e, i, c)
    BY <1>2 DEF CallsAnswered
  <2>1. CASE i \in 1..b
    <3>1. e[i] = w[i]
      BY <1>3, <2>1
    <3>2. AnsweredAt(w, i, c)
      BY <1>2, <2>1, <3>1 DEF Legal, CallsAnswered
    <3>3. PICK j \in (i + 1)..b :
            /\ w[j].role = "tool" /\ w[j].name = c
            /\ \A k \in (i + 1)..j : w[k].role = "tool"
      BY <3>2 DEF AnsweredAt, b
    <3>4. j \in (i + 1)..(b + m) /\ \A k \in (i + 1)..j : k \in 1..b
      BY <1>2, <2>1
    <3>5. j \in 1..b
      BY <1>2, <2>1
    <3> QED BY <1>1, <1>3, <3>3, <3>4, <3>5 DEF AnsweredAt
  <2>2. CASE \E k \in 1..m : i = b + k
    <3>1. PICK x \in 1..m : i = b + x
      BY <2>2
    <3>2. e[i] = q[x]
      BY <1>4, <3>1
    <3>3. AnsweredAt(q, x, c)
      BY <1>2, <3>2 DEF Legal, CallsAnswered
    <3>4. PICK j \in (x + 1)..m :
            /\ q[j].role = "tool" /\ q[j].name = c
            /\ \A k \in (x + 1)..j : q[k].role = "tool"
      BY <3>3 DEF AnsweredAt, m
    <3>5. j \in 1..m /\ b + j \in (i + 1)..(b + m)
      BY <1>2, <3>1
    <3>6. ASSUME NEW l \in (i + 1)..(b + j) PROVE e[l].role = "tool"
      <4>1. l - b \in (x + 1)..j /\ l - b \in 1..m /\ b + (l - b) = l
        BY <1>2, <3>1
      <4> QED BY <1>4, <3>4, <4>1
    <3> QED BY <1>1, <1>4, <3>4, <3>5, <3>6 DEF AnsweredAt
  <2> QED BY <1>5, <2>1, <2>2
<1>8. ResultsPlaced(e)
  <2> SUFFICES ASSUME NEW j \in 1..(b + m), e[j].role = "tool"
               PROVE  PlacedAt(e, j)
    BY <1>2 DEF ResultsPlaced, PlacedAt, Positions
  <2>1. CASE j \in 1..b
    <3>1. e[j] = w[j]
      BY <1>3, <2>1
    <3>2. PlacedAt(w, j)
      <4>1. j \in Positions(w, "tool")
        BY <1>2, <2>1, <3>1 DEF Positions
      <4> QED BY <4>1 DEF Legal, ResultsPlaced, PlacedAt
    <3>3. PICK i \in 1..(j - 1) :
            /\ w[j].name \in ToSet(w[i].calls)
            /\ \A k \in (i + 1)..j : w[k].role = "tool"
      BY <3>2 DEF PlacedAt
    <3>4. i \in 1..b /\ \A k \in (i + 1)..j : k \in 1..b
      BY <1>2, <2>1
    <3> QED BY <1>3, <3>1, <3>3, <3>4 DEF PlacedAt
  <2>2. CASE \E k \in 1..m : j = b + k
    <3>1. PICK x \in 1..m : j = b + x
      BY <2>2
    <3>2. e[j] = q[x]
      BY <1>4, <3>1
    <3>3. PlacedAt(q, x)
      <4>1. x \in Positions(q, "tool")
        BY <1>2, <3>2 DEF Positions
      <4> QED BY <4>1 DEF Legal, ResultsPlaced, PlacedAt
    <3>4. PICK i \in 1..(x - 1) :
            /\ q[x].name \in ToSet(q[i].calls)
            /\ \A k \in (i + 1)..x : q[k].role = "tool"
      BY <3>3 DEF PlacedAt
    <3>5. i \in 1..m /\ b + i \in 1..(j - 1)
      BY <1>2, <3>1
    <3>6. ASSUME NEW l \in (b + i + 1)..j PROVE e[l].role = "tool"
      <4>1. l - b \in (i + 1)..x /\ l - b \in 1..m /\ b + (l - b) = l
        BY <1>2, <3>1
      <4> QED BY <1>4, <3>4, <4>1
    <3>7. e[b + i] = q[i]
      BY <1>4, <3>5
    <3> QED BY <3>2, <3>4, <3>5, <3>6, <3>7 DEF PlacedAt
  <2> QED BY <1>5, <2>1, <2>2
<1>9. Legal(e, silent)
  BY <1>6, <1>7, <1>8 DEF Legal
<1>10. \A k \in 1..m : e[b + k] = q[k]
  BY <1>4
<1> QED BY <1>1, <1>3, <1>9, <1>10 DEF e, b, m

LEMMA ConcatSound ==
  ASSUME NEW M, NEW silent, NEW w, Sound(w, M, silent),
         NEW q \in Seq(M), Legal(q, silent)
  PROVE  Sound(w \o q, M, silent)
<1> DEFINE e == w \o q
<1>1. w \in Seq(M) /\ Legal(w, silent)
  BY DEF Sound
<1>2. /\ e \in Seq(M) /\ Legal(e, silent)
      /\ \A i \in 1..Len(w) : e[i] = w[i]
      /\ Len(e) = Len(w) + Len(q)
  BY <1>1, ConcatLegal
<1>3. Len(w) \in Nat /\ Len(q) \in Nat
  BY <1>1, LenProperties
<1>4. PICK n : Led(w, n)
  BY DEF Sound
<1> HIDE DEF e
<1>5. Led(e, n)
  <2>1. n \in Nat /\ n < Len(w)
    BY <1>4 DEF Led
  <2>2. n + 1 \in 1..Len(w) /\ n < Len(e) /\ \A i \in 1..n : i \in 1..Len(w)
    BY <1>2, <1>3, <2>1
  <2> QED BY <1>2, <1>4, <2>1, <2>2 DEF Led
<1> QED BY <1>2, <1>5 DEF Sound, e

LEMMA PlainLegal ==
  ASSUME NEW M, NEW silent, NEW q \in Seq(M),
         \A i \in 1..Len(q) : q[i].calls = <<>> /\ q[i].role # "tool"
  PROVE  Legal(q, silent)
<1>1. DOMAIN q = 1..Len(q)
  BY LenProperties
<1> QED BY <1>1 DEF Legal, OnlyAssistantsCall, CallsAnswered, ResultsPlaced,
                    Positions, ToSet

LEMMA AppendSound ==
  ASSUME NEW M, NEW silent, NEW w, Sound(w, M, silent), NEW x \in M,
         x.calls = <<>>, x.role # "tool"
  PROVE  Sound(Append(w, x), M, silent)
<1>1. Append(w, x) = w \o <<x>>
  BY AppendIsConcat DEF Sound
<1> DEFINE q == <<x>>
<1>2. q \in Seq(M) /\ Len(q) = 1 /\ q[1] = x
  OBVIOUS
<1> HIDE DEF q
<1>3. \A i \in 1..Len(q) : q[i].calls = <<>> /\ q[i].role # "tool"
  BY <1>2
<1>4. Legal(q, silent)
  BY <1>2, <1>3, PlainLegal
<1>5. Sound(w \o q, M, silent)
  BY <1>2, <1>4, ConcatSound
<1> QED BY <1>1, <1>5 DEF q

LEMMA SoundMore ==
  ASSUME NEW M, NEW silent, NEW more, silent \subseteq more,
         NEW w, Sound(w, M, silent)
  PROVE  Sound(w, M, more)
BY DEF Sound, Legal, CallsAnswered

(* The message with the calls and the results after it.                    *)
LEMMA RecordedLegal ==
  ASSUME NEW M, NEW silent, NEW C, NEW cs \in Seq(C), NEW bs \in Seq(C),
         Message("assistant", "call", cs) \in M,
         \A c \in C : ToolResult(c) \in M,
         ToSet(bs) \subseteq ToSet(cs),
         ToSet(cs) \subseteq silent \cup ToSet(bs)
  PROVE  LET r == <<Message("assistant", "call", cs)>>
                  \o [k \in DOMAIN bs |-> ToolResult(bs[k])]
         IN  r \in Seq(M) /\ Legal(r, silent)
<1> DEFINE h == <<Message("assistant", "call", cs)>>
           t == [k \in DOMAIN bs |-> ToolResult(bs[k])]
           r == h \o t
           m == Len(bs)
<1>1. m \in Nat /\ DOMAIN bs = 1..m /\ DOMAIN cs = 1..Len(cs)
      /\ \A k \in 1..m : bs[k] \in C
  BY LenProperties, ElementOfSeq
<1>2. t \in Seq(M) /\ Len(t) = m /\ \A k \in 1..m : t[k] = ToolResult(bs[k])
  BY <1>1
<1>3. h \in Seq(M) /\ Len(h) = 1 /\ h[1] = Message("assistant", "call", cs)
  OBVIOUS
<1> HIDE DEF h, t, m
<1>4. r \in Seq(M) /\ Len(r) = 1 + m
      /\ \A i \in 1..(1 + m) : r[i] = IF i <= 1 THEN h[i] ELSE t[i - 1]
  <2>1. r \in Seq(M) /\ Len(r) = Len(h) + Len(t)
        /\ \A i \in 1..(Len(h) + Len(t)) :
               r[i] = IF i <= Len(h) THEN h[i] ELSE t[i - Len(h)]
    BY <1>2, <1>3, ConcatProperties
  <2> HIDE DEF r
  <2> QED BY <1>2, <1>3, <2>1
<1>5. DOMAIN r = 1..(1 + m)
  BY <1>4, LenProperties
<1> HIDE DEF r
<1>6. r[1].role = "assistant" /\ r[1].calls = cs
  <2>1. 1 \in 1..(1 + m) /\ 1 <= 1
    BY <1>1
  <2>2. r[1] = h[1]
    BY <1>4, <2>1
  <2> QED BY <1>3, <2>2 DEF Message
<1>7. ASSUME NEW i \in 2..(1 + m)
      PROVE  /\ i - 1 \in 1..m /\ r[i].role = "tool" /\ r[i].calls = <<>>
             /\ r[i].name = bs[i - 1]
  <2>1. PICK k \in 1..m : k = i - 1
    BY <1>1
  <2>2. i \in 1..(1 + m) /\ ~(i <= 1)
    BY <1>1
  <2>3. r[i] = t[k]
    BY <1>4, <2>1, <2>2
  <2> QED BY <1>2, <2>1, <2>3 DEF ToolResult, Message
<1>8. \A i \in 1..(1 + m) : i = 1 \/ i \in 2..(1 + m)
  BY <1>1
<1>9. OnlyAssistantsCall(r)
  BY <1>5, <1>6, <1>7, <1>8 DEF OnlyAssistantsCall
<1>10. CallsAnswered(r, silent)
  <2> SUFFICES ASSUME NEW i \in 1..(1 + m),
                      NEW c \in ToSet(r[i].calls), c \notin silent
               PROVE  AnsweredAt(r, i, c)
    BY <1>5 DEF CallsAnswered
  <2>1. i = 1
    BY <1>7, <1>8 DEF ToSet
  <2>2. c \in ToSet(bs)
    BY <1>6, <2>1
  <2>3. PICK k \in 1..m : bs[k] = c
    BY <1>1, <2>2 DEF ToSet
  <2>4. PICK j \in 2..(1 + m) : j - 1 = k
    BY <1>1
  <2>5. j \in (1 + 1)..Len(r) /\ \A l \in (1 + 1)..j : l \in 2..(1 + m)
    BY <1>1, <1>4
  <2>6. r[j].role = "tool" /\ r[j].name = c
    BY <1>7, <2>3, <2>4
  <2>7. \A l \in (1 + 1)..j : r[l].role = "tool"
    BY <1>7, <2>5
  <2> QED BY <2>1, <2>5, <2>6, <2>7 DEF AnsweredAt
<1>11. ResultsPlaced(r)
  <2> SUFFICES ASSUME NEW j \in 1..(1 + m), r[j].role = "tool"
               PROVE  PlacedAt(r, j)
    BY <1>5 DEF ResultsPlaced, PlacedAt, Positions
  <2>1. j \in 2..(1 + m)
    BY <1>6, <1>8
  <2>2. r[j].name \in ToSet(r[1].calls)
    <3>1. PICK k \in 1..m : r[j].name = bs[k]
      BY <1>7, <2>1
    <3>2. bs[k] \in ToSet(bs)
      BY <1>1 DEF ToSet
    <3> QED BY <1>6, <3>1, <3>2
  <2>3. 1 \in 1..(j - 1) /\ \A l \in (1 + 1)..j : l \in 2..(1 + m)
    BY <1>1, <2>1
  <2>4. \A l \in (1 + 1)..j : r[l].role = "tool"
    BY <1>7, <2>3
  <2> QED BY <2>2, <2>3, <2>4 DEF PlacedAt
<1> QED BY <1>4, <1>9, <1>10, <1>11 DEF Legal, r, h, t

-----------------------------------------------------------------------------
(* What a transcript is made of.                                           *)
AllMessages ==
  {User("question"), User("conclude"), User("pictures"), User("summary"),
   Assistant("answer"), Assistant("partial"), Assistant("acknowledged")}
  \cup {Message("assistant", "call", cs) : cs \in Seq(CallIds)}
  \cup {ToolResult(c) : c \in CallIds}
  \cup UNION {ToSet(s.history) : s \in Starts}

(* The transcript of a run that goes on, or is saved, is a legal           *)
(* conversation.                                                           *)
TalkInv ==
  /\ messages \in Seq(AllMessages)
  /\ pc # "ended" \/ Saved => Sound(messages, AllMessages, unheard)

(* A tool runs only in a step that has tools, and a run that goes on is    *)
(* done only once a tool has answered the user.                            *)
StateInv ==
  /\ pc \in {"hook", "tool"} => HasTools
  /\ pc # "ended" =>
       \/ state = "running"
       \/ state = "done" /\ pc \in {"tools", "hook", "tool"} /\ HasTools

(* While the tools run, the results are those of calls of the answer, and  *)
(* each call is still to be made, has a result, or gave none.              *)
CallsInv ==
  /\ pc = "arguments" => blocks = <<>>
  /\ pc \in {"tools", "hook", "tool"} =>
       /\ ToSet(todo) \subseteq ToSet(calls)
       /\ ToSet(blocks) \subseteq ToSet(calls)
       /\ HasTools =>
            ToSet(calls) \subseteq ToSet(todo) \cup unheard \cup ToSet(blocks)

-----------------------------------------------------------------------------
LEMMA SeqSets ==
  ASSUME NEW C, NEW s \in Seq(C)
  PROVE  /\ ToSet(<<>>) = {}
         /\ \A c \in C : ToSet(Append(s, c)) = ToSet(s) \cup {c}
         /\ s # <<>> => /\ ToSet(s) = {Head(s)} \cup ToSet(Tail(s))
                        /\ Head(s) \in C /\ Tail(s) \in Seq(C)
<1>1. ToSet(<<>>) = {}
  BY DEF ToSet
<1>2. ASSUME NEW c \in C PROVE ToSet(Append(s, c)) = ToSet(s) \cup {c}
  <2> DEFINE t == Append(s, c)
  <2>1. /\ Len(s) \in Nat /\ DOMAIN s = 1..Len(s) /\ DOMAIN t = 1..(Len(s) + 1)
        /\ \A i \in 1..Len(s) : t[i] = s[i]
        /\ t[Len(s) + 1] = c
    BY AppendProperties, LenProperties
  <2> HIDE DEF t
  <2>2. \A i \in 1..(Len(s) + 1) : i \in 1..Len(s) \/ i = Len(s) + 1
    BY <2>1
  <2>3. \A i \in 1..Len(s) : i \in 1..(Len(s) + 1)
    BY <2>1
  <2>4. Len(s) + 1 \in 1..(Len(s) + 1)
    BY <2>1
  <2>5. \A x : x \in ToSet(t) <=> x \in ToSet(s) \/ x = c
    BY <2>1, <2>2, <2>3, <2>4 DEF ToSet
  <2>6. ToSet(t) = ToSet(s) \cup {c}
    BY <2>5
  <2> QED BY <2>6 DEF t
<1>3. ASSUME s # <<>>
      PROVE  /\ ToSet(s) = {Head(s)} \cup ToSet(Tail(s))
             /\ Head(s) \in C /\ Tail(s) \in Seq(C)
  <2> DEFINE t == Tail(s)
             n == Len(s)
  <2>1. /\ Head(s) \in C /\ t \in Seq(C) /\ Len(t) = n - 1
        /\ n \in Nat /\ n >= 1
        /\ DOMAIN s = 1..n /\ DOMAIN t = 1..(n - 1)
        /\ \A i \in 1..(n - 1) : t[i] = s[i + 1]
        /\ Head(s) = s[1]
    BY <1>3, HeadTailProperties, LenProperties, EmptySeq
  <2> HIDE DEF t, n
  <2>2. \A i \in 1..n : i = 1 \/ (i - 1 \in 1..(n - 1) /\ (i - 1) + 1 = i)
    BY <2>1
  <2>3. \A i \in 1..(n - 1) : i + 1 \in 1..n
    BY <2>1
  <2>4. 1 \in 1..n
    BY <2>1
  <2>5. \A x \in ToSet(s) : x = Head(s) \/ x \in ToSet(t)
    <3> SUFFICES ASSUME NEW i \in 1..n
                 PROVE  s[i] = Head(s) \/ s[i] \in ToSet(t)
      BY <2>1 DEF ToSet
    <3>1. CASE i = 1
      BY <2>1, <3>1
    <3>2. CASE i - 1 \in 1..(n - 1) /\ (i - 1) + 1 = i
      <4>1. t[i - 1] = s[i]
        BY <2>1, <3>2
      <4> QED BY <2>1, <3>2, <4>1 DEF ToSet
    <3> QED BY <2>2, <3>1, <3>2
  <2>6. \A x \in ToSet(t) : x \in ToSet(s)
    BY <2>1, <2>3 DEF ToSet
  <2>7. Head(s) \in ToSet(s)
    BY <2>1, <2>4 DEF ToSet
  <2>8. ToSet(s) = {Head(s)} \cup ToSet(t)
    BY <2>5, <2>6, <2>7
  <2> QED BY <2>1, <2>8 DEF t
<1> QED BY <1>1, <1>2, <1>3

-----------------------------------------------------------------------------
(* The calls in hand.                                                      *)

LEMMA CallsFrame ==
  ASSUME CallsInv, UNCHANGED <<step, calls, todo, blocks, unheard>>,
         pc' = "arguments" => pc = "arguments",
         pc' \in {"tools", "hook", "tool"} => pc \in {"tools", "hook", "tool"}
  PROVE  CallsInv'
BY DEF CallsInv, HasTools

LEMMA CallsEnded ==
  ASSUME pc' \in {"between", "asking", "ended"}
  PROVE  CallsInv'
BY DEF CallsInv

LEMMA FailCalls ==
  ASSUME Fail
  PROVE  pc' = "ended"
BY DEF Fail, FinalizeAborted

LEMMA CandidateCalls ==
  ASSUME CallsInv, pc = "asking", NextCandidate
  PROVE  CallsInv'
<1>1. CASE idx = LastCandidate
  BY <1>1, FailCalls, CallsEnded DEF NextCandidate
<1>2. CASE idx # LastCandidate
  BY <1>2, CallsEnded DEF NextCandidate
<1> QED BY <1>1, <1>2

LEMMA AnswerCallsInv ==
  ASSUME ControlInv, CallsInv, Answer
  PROVE  CallsInv'
<1> USE DEF askVars, toolVars, stopVars
<1>1. CASE Chunk
  BY <1>1, CallsEnded DEF Chunk, FinalizeAborted
<1>2. CASE AnswerText
  BY <1>2, CallsEnded DEF AnswerText, FinalizeAborted
<1>3. ASSUME NEW n \in 1..MaxCalls, AnswerCalls(n) PROVE CallsInv'
  <2>1. CASE abort
    BY <1>3, <2>1, CallsEnded DEF AnswerCalls, FinalizeAborted
  <2>2. CASE ~abort
    <3>1. calls' = CallsOf(n) /\ todo' = calls' /\ blocks' = <<>>
      BY <1>3, <2>2 DEF AnswerCalls
    <3>2. ToSet(blocks') = {} /\ ToSet(todo') = ToSet(calls')
      BY <3>1 DEF ToSet
    <3> QED BY <3>1, <3>2 DEF CallsInv
  <2> QED BY <2>1, <2>2
<1>4. CASE ErrorResponse
  BY <1>4, FailCalls, CallsEnded, CandidateCalls DEF ErrorResponse
<1>5. CASE Raise
  BY <1>5, CandidateCalls DEF Raise
<1>6. CASE EmptyOutput
  BY <1>6, CandidateCalls, CallsEnded DEF EmptyOutput
<1>7. CASE StreamEnds
  BY <1>7, CandidateCalls, CallsEnded, EndStepFacts
  DEF StreamEnds, FinalizeAborted
<1>8. ASSUME NEW n \in 1..MaxCalls, ArgumentCalls(n) PROVE CallsInv'
  <2>1. calls' = CallsOf(n) /\ todo' = calls' /\ blocks' = <<>>
           /\ pc' = "tools"
    BY <1>8 DEF ArgumentCalls, CallsInv
  <2>2. ToSet(blocks') = {} /\ ToSet(todo') = ToSet(calls')
    BY <2>1 DEF ToSet
  <2> QED BY <2>1, <2>2 DEF CallsInv
<1>9. CASE ArgumentText
  BY <1>9, CallsEnded DEF ArgumentText
<1>10. CASE ArgumentRaise
  BY <1>10, CallsEnded DEF ArgumentRaise
<1> QED BY <1>1, <1>2, <1>3, <1>4, <1>5, <1>6, <1>7, <1>8, <1>9, <1>10
    DEF Answer

(* The first call of todo gets a result.                                   *)
LEMMA HeadAnswered ==
  ASSUME ControlInv, CallsInv, pc \in {"tools", "hook", "tool"}, todo # <<>>,
         UNCHANGED <<step, calls, unheard>>,
         blocks' = Append(blocks, Head(todo)),
         todo' \in {todo, Tail(todo)},
         pc' \in {"tools", "hook", "tool"}
  PROVE  CallsInv'
<1> DEFINE c == Head(todo)
<1>1. /\ ToSet(todo) = {c} \cup ToSet(Tail(todo)) /\ c \in CallIds
      /\ ToSet(blocks') = ToSet(blocks) \cup {c}
  BY SeqSets DEF ControlInv, ControlOK
<1> HIDE DEF c
<1>2. /\ ToSet(todo') \subseteq ToSet(todo) /\ c \in ToSet(todo)
      /\ ToSet(todo) \subseteq ToSet(todo') \cup {c}
  BY <1>1
<1> QED BY <1>1, <1>2 DEF CallsInv, HasTools

LEMMA ToolCallsInv ==
  ASSUME ControlInv, CallsInv, Tool
  PROVE  CallsInv'
<1> USE DEF askVars, toolVars, stopVars
<1>1. pc = "tool" /\ todo # <<>>
  BY DEF Tool, ToolYields, ToolEnds, ToolFails, ControlInv, PlaceInv
<1>2. ASSUME NEW direct \in BOOLEAN, ToolYields(direct) PROVE CallsInv'
  <2>1. /\ UNCHANGED <<step, calls, unheard, pc, todo>>
        /\ blocks' = Append(blocks, Head(todo))
    BY <1>2 DEF ToolYields
  <2> QED BY <1>1, <2>1, HeadAnswered
<1>3. CASE ToolFails
  <2>1. /\ UNCHANGED <<step, calls, unheard>>
        /\ blocks' = Append(blocks, Head(todo)) /\ todo' = Tail(todo)
        /\ pc' = "tools"
    BY <1>3 DEF ToolFails
  <2> QED BY <1>1, <2>1, HeadAnswered
<1>4. CASE ToolEnds
  <2> DEFINE c == Head(todo)
  <2>1. /\ UNCHANGED <<step, calls, blocks>> /\ todo' = Tail(todo)
        /\ pc' = "tools"
        /\ unheard' = IF ResultsOf(c) = 0 THEN unheard \cup {c} ELSE unheard
    BY <1>4 DEF ToolEnds
  <2>2. ToSet(todo) = {c} \cup ToSet(todo')
    BY <1>1, <2>1, SeqSets DEF ControlInv, ControlOK
  <2> HIDE DEF c
  <2>3. c \in unheard' \/ c \in ToSet(blocks)
    <3>1. CASE {k \in DOMAIN blocks : blocks[k] = c} = {}
      <4>1. ResultsOf(c) = 0
        BY <3>1, FS_EmptySet DEF ResultsOf
      <4> QED BY <2>1, <4>1
    <3>2. CASE {k \in DOMAIN blocks : blocks[k] = c} # {}
      BY <3>2 DEF ToSet
    <3> QED BY <3>1, <3>2
  <2>4. unheard \subseteq unheard'
    BY <2>1
  <2> QED BY <1>1, <2>1, <2>2, <2>3, <2>4 DEF CallsInv, HasTools
<1> QED BY <1>2, <1>3, <1>4 DEF Tool

LEMMA WorkCallsInv ==
  ASSUME ControlInv, CallsInv, Work
  PROVE  CallsInv'
<1> USE DEF askVars, toolVars, stopVars
<1>1. CASE Announce
  <2>1. /\ pc = "tools" /\ todo # <<>> /\ UNCHANGED <<step, calls, unheard>>
    BY <1>1 DEF Announce
  <2>2. CASE ~HasTools /\ todo' = <<>> /\ blocks' = <<>> /\ pc' = pc
    BY <2>1, <2>2 DEF CallsInv, HasTools, ToSet
  <2>3. CASE todo' = Tail(todo) /\ blocks' = Append(blocks, Head(todo))
           /\ pc' = pc
    BY <2>1, <2>3, HeadAnswered
  <2>4. CASE pc' = "hook" /\ UNCHANGED <<todo, blocks>>
    BY <2>1, <2>4, CallsFrame
  <2> QED BY <1>1, <2>2, <2>3, <2>4 DEF Announce
<1>2. CASE StartTool
  BY <1>2, CallsEnded, CallsFrame DEF StartTool, FinalizeAborted
<1>3. CASE InterruptTool
  BY <1>3, CallsEnded DEF InterruptTool, FinalizeAborted
<1>4. ASSUME NEW pictures, RecordCalls(pictures) PROVE CallsInv'
  BY <1>4, CallsEnded, EndStepFacts DEF RecordCalls
<1> QED BY <1>1, <1>2, <1>3, <1>4 DEF Work

LEMMA CallsStep == ControlInv /\ CallsInv /\ [Next]_vars => CallsInv'
<1> SUFFICES ASSUME ControlInv, CallsInv, [Next]_vars PROVE CallsInv'
  OBVIOUS
<1> USE DEF askVars, toolVars, stopVars
<1>1. CASE AskStop
  BY <1>1, CallsFrame DEF AskStop
<1>2. CASE Watch
  BY <1>2, CallsFrame DEF Watch
<1>3. CASE BeginStep
  BY <1>3, CallsEnded DEF BeginStep
<1>4. CASE UNCHANGED vars
  BY <1>4, CallsFrame DEF vars
<1> QED BY <1>1, <1>2, <1>3, <1>4, AnswerCallsInv, ToolCallsInv, WorkCallsInv
    DEF Next

-----------------------------------------------------------------------------
(* The transcript.                                                         *)

LEMMA OwnMessages ==
  /\ \A name \in {"question", "conclude", "pictures", "summary"} :
       /\ User(name) \in AllMessages
       /\ User(name).calls = <<>> /\ User(name).role # "tool"
  /\ \A name \in {"answer", "partial", "acknowledged"} :
       /\ Assistant(name) \in AllMessages
       /\ Assistant(name).calls = <<>> /\ Assistant(name).role # "tool"
  /\ \A cs \in Seq(CallIds) : Message("assistant", "call", cs) \in AllMessages
  /\ \A c \in CallIds : ToolResult(c) \in AllMessages
<1>1. \A name \in {"question", "conclude", "pictures", "summary"} :
        User(name) \in AllMessages
  BY DEF AllMessages
<1>2. \A name \in {"answer", "partial", "acknowledged"} :
        Assistant(name) \in AllMessages
  BY DEF AllMessages
<1>3. \A cs \in Seq(CallIds) : Message("assistant", "call", cs) \in AllMessages
  BY DEF AllMessages
<1>4. \A c \in CallIds : ToolResult(c) \in AllMessages
  BY DEF AllMessages
<1>5. \A name : /\ User(name).calls = <<>> /\ User(name).role # "tool"
                /\ Assistant(name).calls = <<>>
                /\ Assistant(name).role # "tool"
  BY DEF User, Assistant, Message
<1> QED BY <1>1, <1>2, <1>3, <1>4, <1>5

LEMMA SystemLengthFacts ==
  ASSUME NEW M, NEW w \in Seq(M)
  PROVE  LET n == SystemLength(w)
         IN \/ n = 0
            \/ /\ n \in Nat /\ n < Len(w)
               /\ \A i \in 1..n : w[i].role = "system"
<1> DEFINE T == DOMAIN w \ Positions(w, "system")
<1>1. Len(w) \in Nat /\ DOMAIN w = 1..Len(w)
  BY LenProperties
<1>2. CASE T = {}
  BY <1>2 DEF SystemLength
<1>3. CASE T # {}
  <2>1. T \subseteq Nat
    BY <1>1
  <2>2. Least(T) \in T /\ \A m \in T : Least(T) <= m
    <3> HIDE DEF T
    <3> QED BY <1>3, <2>1, LeastIs
  <2>3. PICK l \in 1..Len(w) : l = Least(T)
    BY <1>1, <2>2
  <2>4. SystemLength(w) = l - 1
    BY <1>3, <2>3 DEF SystemLength
  <2>5. ASSUME NEW i \in 1..(l - 1) PROVE w[i].role = "system"
    <3>1. i \in 1..Len(w) /\ ~(l <= i)
      BY <1>1
    <3>2. i \notin T
      BY <2>2, <2>3, <3>1
    <3> QED BY <1>1, <3>1, <3>2 DEF Positions
  <2>6. l - 1 \in Nat /\ l - 1 < Len(w)
    BY <1>1
  <2> QED BY <2>4, <2>5, <2>6
<1> QED BY <1>2, <1>3

LEMMA StartTalk ==
  ASSUME NEW s \in Starts
  PROVE  Sound(s.history \o <<User("question")>>, AllMessages, s.unheard)
<1> DEFINE h == s.history
           q == <<User("question")>>
           e == h \o q
           m == Len(h)
           M == AllMessages
           U == s.unheard
<1>1. /\ m \in Nat /\ h = [i \in 1..m |-> h[i]]
      /\ Legal(h, U)
      /\ Rest(h) # <<>> => Rest(h)[1].role = "user"
  BY StartsAssumption DEF Legal
<1>2. ToSet(h) \subseteq M
  BY DEF AllMessages
<1>3. q \in Seq(M) /\ Len(q) = 1 /\ q[1] = User("question")
  BY OwnMessages
<1>4. User("question").role = "user"
  BY DEF User, Message
<1> HIDE DEF h, q, M, U
<1>5. h \in Seq(M)
  <2>1. DOMAIN h = 1..m
    BY <1>1
  <2>2. \A i \in 1..m : h[i] \in M
    BY <1>2, <2>1 DEF ToSet
  <2> HIDE DEF m
  <2> QED BY <1>1, <2>2
<1>6. Legal(q, U)
  <2>1. \A i \in 1..Len(q) : q[i].calls = <<>> /\ q[i].role # "tool"
    BY <1>3, OwnMessages
  <2> QED BY <1>3, <2>1, PlainLegal
<1>7. /\ e \in Seq(M) /\ Legal(e, U)
      /\ \A i \in 1..m : e[i] = h[i]
      /\ Len(e) = m + Len(q)
      /\ \A i \in 1..Len(q) : e[m + i] = q[i]
  <2>1. Legal(h, U) /\ q \in Seq(M)
    BY <1>1, <1>3
  <2> QED BY <1>5, <1>6, <2>1, ConcatLegal
<1> HIDE DEF e
<1>8. e[m + 1] = User("question") /\ Len(e) = m + 1
  BY <1>3, <1>7
<1>9. \E n : Led(e, n)
  <2> DEFINE n == SystemLength(h)
  <2>1. \/ n = 0
        \/ /\ n \in Nat /\ n < m
           /\ \A i \in 1..n : h[i].role = "system"
    BY <1>5, SystemLengthFacts
  <2>2. Rest(h) = SubSeq(h, n + 1, m)
    BY DEF Rest
  <2> HIDE DEF n, m
  <2>3. CASE m = 0
    <3>1. Led(e, 0)
      BY <1>4, <1>8, <2>3 DEF Led
    <3> QED BY <3>1
  <2>4. CASE m # 0
    <3>1. n \in Nat /\ n < m /\ \A i \in 1..n : h[i].role = "system"
      <4>1. n = 0 => /\ n \in Nat /\ n < m
                     /\ \A i \in 1..n : h[i].role = "system"
        BY <1>1, <2>4
      <4> QED BY <2>1, <4>1
    <3>2. n + 1 \in 1..(Len(h) + 1) /\ n + 1 \in 1..m
      BY <1>1, <3>1 DEF m
    <3>3. Len(Rest(h)) = m - (n + 1) + 1
          /\ \A i \in 1..Len(Rest(h)) : Rest(h)[i] = h[(n + 1) + i - 1]
      BY <1>5, <2>2, <3>2, TailFacts DEF m
    <3>4. Len(Rest(h)) \in Nat /\ Len(Rest(h)) >= 1 /\ (n + 1) + 1 - 1 = n + 1
      BY <1>1, <3>1, <3>3
    <3>5. Rest(h) # <<>> /\ Rest(h)[1] = h[n + 1]
      BY <3>3, <3>4
    <3>6. e[n + 1].role = "user"
      BY <1>1, <1>7, <3>2, <3>5
    <3>7. n < Len(e) /\ \A i \in 1..n : i \in 1..m
      BY <1>1, <1>8, <3>1
    <3>8. Led(e, n)
      BY <1>7, <3>1, <3>6, <3>7 DEF Led
    <3> QED BY <3>8
  <2> QED BY <2>3, <2>4
<1> QED BY <1>7, <1>9 DEF Sound, e, h, q, M, U

LEMMA InitTalk == Init => TalkInv /\ CallsInv
<1> SUFFICES ASSUME Init PROVE TalkInv /\ CallsInv
  OBVIOUS
<1>1. PICK s \in Starts :
        unheard = s.unheard /\ messages = s.history \o <<User("question")>>
  BY DEF Init
<1>2. Sound(messages, AllMessages, unheard)
  BY <1>1, StartTalk
<1>3. pc = "between"
  BY DEF Init
<1> QED BY <1>2, <1>3 DEF TalkInv, CallsInv, Sound

-----------------------------------------------------------------------------
(* How far the run is.                                                     *)

LEMMA CandidateState ==
  ASSUME pc = "asking", StateInv, NextCandidate \/ Fail
  PROVE  StateInv'
BY DEF NextCandidate, Fail, FinalizeAborted, StateInv

LEMMA StateStep == StateInv /\ [Next]_vars => StateInv'
<1> SUFFICES ASSUME StateInv, [Next]_vars PROVE StateInv'
  OBVIOUS
<1> USE DEF StateInv, HasTools
<1>1. CASE AskStop \/ Watch \/ BeginStep
  BY <1>1 DEF AskStop, Watch, BeginStep
<1>2. CASE Answer
  <2>1. CASE Chunk \/ AnswerText \/ ArgumentText \/ ArgumentRaise
    BY <2>1 DEF Chunk, AnswerText, ArgumentText, ArgumentRaise, FinalizeAborted
  <2>2. ASSUME NEW n \in 1..MaxCalls, AnswerCalls(n) \/ ArgumentCalls(n)
        PROVE  StateInv'
    BY <2>2 DEF AnswerCalls, ArgumentCalls, FinalizeAborted
  <2>3. CASE ErrorResponse \/ Raise \/ EmptyOutput
    BY <2>3, CandidateState DEF ErrorResponse, Raise, EmptyOutput
  <2>4. CASE StreamEnds
    BY <2>4, CandidateState DEF StreamEnds, EndStep, FinalizeAborted
  <2> QED BY <1>2, <2>1, <2>2, <2>3, <2>4 DEF Answer
<1>3. CASE Tool
  <2>1. ASSUME NEW direct \in BOOLEAN, ToolYields(direct) PROVE StateInv'
    BY <2>1 DEF ToolYields
  <2>2. CASE ToolEnds \/ ToolFails
    BY <2>2 DEF ToolEnds, ToolFails
  <2> QED BY <1>3, <2>1, <2>2 DEF Tool
<1>4. CASE Work
  <2>1. CASE Announce \/ StartTool \/ InterruptTool
    BY <2>1 DEF Announce, StartTool, InterruptTool, FinalizeAborted
  <2>2. ASSUME NEW pictures, RecordCalls(pictures) PROVE StateInv'
    BY <2>2 DEF RecordCalls, EndStep
  <2> QED BY <1>4, <2>1, <2>2 DEF Work
<1>5. CASE UNCHANGED vars
  BY <1>5 DEF vars
<1> QED BY <1>1, <1>2, <1>3, <1>4, <1>5 DEF Next

-----------------------------------------------------------------------------
LEMMA TalkFrame ==
  ASSUME TalkInv, UNCHANGED messages, unheard \subseteq unheard',
         pc # "ended" \/ UNCHANGED <<pc, state>>
  PROVE  TalkInv'
<1>1. pc # "ended" \/ Saved => Sound(messages, AllMessages, unheard')
  BY SoundMore DEF TalkInv
<1> QED BY <1>1 DEF TalkInv, Saved

(* A run that goes on records one more message as it ends.                 *)
LEMMA TextTalk ==
  ASSUME TalkInv, pc # "ended", UNCHANGED unheard,
         NEW name \in {"answer", "partial"},
         messages' = Append(messages, Assistant(name))
  PROVE  TalkInv'
<1>1. Assistant(name) \in AllMessages
      /\ Assistant(name).calls = <<>> /\ Assistant(name).role # "tool"
  BY OwnMessages
<1>2. Sound(Append(messages, Assistant(name)), AllMessages, unheard)
  BY <1>1, AppendSound DEF TalkInv
<1> QED BY <1>2 DEF TalkInv, Sound

LEMMA FinalizeTalk ==
  ASSUME TalkInv, pc # "ended", FinalizeAborted
  PROVE  TalkInv'
<1>1. PICK part \in {<<>>, <<Assistant("partial")>>} :
        messages' = messages \o part
  BY DEF FinalizeAborted
<1>2. unheard' = unheard /\ messages \in Seq(AllMessages)
  BY DEF FinalizeAborted, toolVars, TalkInv
<1>3. CASE part = <<>>
  <2>1. messages' = messages
    BY <1>1, <1>2, <1>3
  <2> QED BY <1>2, <2>1, TalkFrame
<1>4. CASE part = <<Assistant("partial")>>
  <2>1. Assistant("partial") \in AllMessages
    BY OwnMessages
  <2>2. messages' = Append(messages, Assistant("partial"))
    BY <1>1, <1>2, <1>4, <2>1, AppendIsConcat
  <2> QED BY <1>2, <2>2, TextTalk
<1> QED BY <1>1, <1>3, <1>4

LEMMA CandidateTalk ==
  ASSUME TalkInv, pc = "asking", NextCandidate \/ Fail
  PROVE  TalkInv'
<1> USE DEF askVars, toolVars, stopVars
<1>1. CASE FinalizeAborted
  BY <1>1, FinalizeTalk
<1>2. CASE ~FinalizeAborted
  <2>1. messages' = messages /\ unheard' = unheard
    BY <1>2 DEF NextCandidate, Fail
  <2> QED BY <2>1, TalkFrame
<1> QED BY <1>1, <1>2

LEMMA AnswerTalk ==
  ASSUME TalkInv, Answer
  PROVE  TalkInv'
<1> USE DEF askVars, toolVars, stopVars
<1>0. pc # "ended"
  BY DEF Answer, Chunk, AnswerText, AnswerCalls, ErrorResponse, Raise,
         EmptyOutput, StreamEnds, ArgumentCalls, ArgumentText, ArgumentRaise
<1>1. CASE Chunk
  BY <1>0, <1>1, FinalizeTalk, TalkFrame DEF Chunk
<1>2. CASE AnswerText
  BY <1>0, <1>2, FinalizeTalk, TextTalk DEF AnswerText
<1>3. ASSUME NEW n \in 1..MaxCalls, AnswerCalls(n) PROVE TalkInv'
  BY <1>0, <1>3, FinalizeTalk, TalkFrame DEF AnswerCalls
<1>4. CASE ErrorResponse
  BY <1>4, CandidateTalk DEF ErrorResponse
<1>5. CASE Raise
  BY <1>5, CandidateTalk DEF Raise
<1>6. CASE EmptyOutput
  BY <1>0, <1>6, CandidateTalk, TalkFrame DEF EmptyOutput
<1>7. CASE StreamEnds
  BY <1>0, <1>7, CandidateTalk, FinalizeTalk, TalkFrame DEF StreamEnds
<1>8. ASSUME NEW n \in 1..MaxCalls, ArgumentCalls(n) PROVE TalkInv'
  BY <1>0, <1>8, TalkFrame DEF ArgumentCalls
<1>9. CASE ArgumentText
  BY <1>0, <1>9, TextTalk DEF ArgumentText
<1>10. CASE ArgumentRaise
  BY <1>0, <1>10, TalkFrame DEF ArgumentRaise
<1> QED BY <1>1, <1>2, <1>3, <1>4, <1>5, <1>6, <1>7, <1>8, <1>9, <1>10
    DEF Answer

LEMMA ToolTalk ==
  ASSUME TalkInv, Tool
  PROVE  TalkInv'
<1>1. messages' = messages /\ unheard \subseteq unheard' /\ pc = "tool"
  BY DEF Tool, ToolYields, ToolEnds, ToolFails
<1> QED BY <1>1, TalkFrame

LEMMA RecordTalk ==
  ASSUME ControlInv, CallsInv, StateInv, TalkInv,
         NEW pictures \in {<<>>, <<User("pictures")>>}, RecordCalls(pictures)
  PROVE  TalkInv'
<1> DEFINE M == AllMessages
<1>1. /\ pc = "tools" /\ todo = <<>> /\ unheard' = unheard
      /\ messages' = (messages \o Recorded) \o pictures
      /\ pc' # "ended" \/ Saved' => HasTools
  <2>1. step \in Int /\ MaxStep \in Int
    BY BoundsAssumption DEF ControlInv, ControlOK
  <2>2. EndStep /\ pc' # "ended" => HasTools
    BY <2>1 DEF EndStep, HasTools
  <2>3. pc = "tools" /\ state' = state
    BY DEF RecordCalls
  <2>4. Saved' => HasTools
    BY <2>3 DEF Saved, StateInv
  <2> QED BY <2>2, <2>3, <2>4 DEF RecordCalls, toolVars, StateInv
<1>2. messages \in Seq(M) /\ Sound(messages, M, unheard)
  BY <1>1 DEF TalkInv
<1>3. calls \in Seq(CallIds) /\ blocks \in Seq(CallIds)
  BY DEF ControlInv, ControlOK
<1>4. /\ Message("assistant", "call", calls) \in M
      /\ \A c \in CallIds : ToolResult(c) \in M
  BY <1>3, OwnMessages
<1>5. pictures \in Seq(M)
  <2>1. <<>> \in Seq(M) /\ <<User("pictures")>> \in Seq(M)
    BY OwnMessages
  <2> QED BY <2>1
<1>6. Recorded \in Seq(M)
  <2> DEFINE h == <<Message("assistant", "call", calls)>>
             t == [k \in DOMAIN blocks |-> ToolResult(blocks[k])]
  <2>1. h \in Seq(M)
    BY <1>4
  <2>2. t \in Seq(M)
    <3>1. Len(blocks) \in Nat /\ DOMAIN blocks = 1..Len(blocks)
          /\ \A k \in 1..Len(blocks) : blocks[k] \in CallIds
      BY <1>3, LenProperties, ElementOfSeq
    <3> QED BY <1>4, <3>1
  <2> HIDE DEF h, t
  <2>3. h \o t \in Seq(M)
    BY <2>1, <2>2, ConcatProperties
  <2> QED BY <2>3 DEF h, t, Recorded
<1> HIDE DEF M
<1>7. messages' \in Seq(M)
  <2>1. messages \o Recorded \in Seq(M)
    BY <1>2, <1>6, ConcatProperties
  <2>2. (messages \o Recorded) \o pictures \in Seq(M)
    BY <1>5, <2>1, ConcatProperties
  <2> QED BY <1>1, <2>2
<1>8. ASSUME pc' # "ended" \/ Saved' PROVE Sound(messages', M, unheard')
  <2>1. ToSet(blocks) \subseteq ToSet(calls)
        /\ ToSet(calls) \subseteq unheard \cup ToSet(blocks)
    <3>1. ToSet(todo) = {}
      BY <1>1 DEF ToSet
    <3> QED BY <1>1, <1>8, <3>1 DEF CallsInv
  <2>2. Legal(Recorded, unheard)
    BY <1>3, <1>4, <2>1, RecordedLegal DEF Recorded
  <2>3. Sound(messages \o Recorded, M, unheard)
    BY <1>2, <1>6, <2>2, ConcatSound
  <2>4. Legal(pictures, unheard)
    <3>1. \A i \in 1..Len(pictures) :
                pictures[i].calls = <<>> /\ pictures[i].role # "tool"
      BY OwnMessages
    <3> QED BY <1>5, <3>1, PlainLegal
  <2>5. Sound((messages \o Recorded) \o pictures, M, unheard)
    BY <1>5, <2>3, <2>4, ConcatSound
  <2> QED BY <1>1, <2>5
<1> QED BY <1>7, <1>8 DEF TalkInv, M

LEMMA WorkTalk ==
  ASSUME ControlInv, CallsInv, StateInv, TalkInv, Work
  PROVE  TalkInv'
<1> USE DEF askVars, toolVars, stopVars
<1>0. pc # "ended"
  BY DEF Work, Announce, StartTool, InterruptTool, RecordCalls
<1>1. CASE Announce
  BY <1>0, <1>1, TalkFrame DEF Announce
<1>2. CASE StartTool
  BY <1>0, <1>2, FinalizeTalk, TalkFrame DEF StartTool
<1>3. CASE InterruptTool
  BY <1>0, <1>3, FinalizeTalk DEF InterruptTool
<1>4. CASE \E pictures \in {<<>>, <<User("pictures")>>} : RecordCalls(pictures)
  BY <1>4, RecordTalk
<1> QED BY <1>1, <1>2, <1>3, <1>4 DEF Work

LEMMA BeginTalk ==
  ASSUME ControlInv, TalkInv, BeginStep
  PROVE  TalkInv'
<1> DEFINE w == IF step = MaxStep THEN Append(messages, User("conclude"))
                ELSE messages
           M == AllMessages
<1>1. Sound(messages, M, unheard)
  BY DEF BeginStep, TalkInv
<1>2. User("conclude") \in M /\ User("conclude").calls = <<>>
      /\ User("conclude").role # "tool"
      /\ User("summary") \in M /\ Assistant("acknowledged") \in M
  BY OwnMessages
<1>3. PICK s \in Starts : limits = s.limits
  BY DEF ControlInv, ControlOK
<1>4. limits.turns \in Int /\ limits.drop \in Nat \ {0}
  BY <1>3, StartsAssumption
<1>5. messages' \in Process(w, limits) /\ unheard' = unheard
  BY DEF BeginStep, toolVars
<1> HIDE DEF M
<1>6. Sound(w, M, unheard)
  <2>1. Sound(Append(messages, User("conclude")), M, unheard)
    BY <1>1, <1>2, AppendSound
  <2> QED BY <1>1, <2>1
<1> HIDE DEF w
<1>7. \A m \in Process(w, limits) : Sound(m, M, unheard)
  BY <1>2, <1>4, <1>6, ProcessSound
<1>8. Sound(messages', M, unheard')
  BY <1>5, <1>7
<1> QED BY <1>8 DEF TalkInv, Sound, M

LEMMA TalkStep ==
  ControlInv /\ CallsInv /\ StateInv /\ TalkInv /\ [Next]_vars => TalkInv'
<1> SUFFICES ASSUME ControlInv, CallsInv, StateInv, TalkInv, [Next]_vars
             PROVE  TalkInv'
  OBVIOUS
<1> USE DEF askVars, toolVars, stopVars
<1>1. CASE AskStop
  BY <1>1, TalkFrame DEF AskStop
<1>2. CASE Watch
  BY <1>2, TalkFrame DEF Watch
<1>3. CASE UNCHANGED vars
  BY <1>3, TalkFrame DEF vars
<1> QED BY <1>1, <1>2, <1>3, AnswerTalk, ToolTalk, WorkTalk, BeginTalk DEF Next

LEMMA TalkAlways == Spec => [](ControlInv /\ CallsInv /\ StateInv /\ TalkInv)
<1>1. Init => StateInv
  BY DEF Init, StateInv
<1> QED BY <1>1, InitControl, ControlStep, InitTalk, CallsStep, StateStep,
           TalkStep, PTL DEF Spec

(* The control state and the transcript keep their types.                  *)
THEOREM TypeCorrect == Spec => []TypeOK
<1>1. ControlInv /\ TalkInv => TypeOK
  BY LenProperties DEF ControlInv, TalkInv, TypeOK
<1> QED BY <1>1, TalkAlways, PTL

(* Every request, and what a run leaves to the next, is a legal            *)
(* conversation, whatever ContextManager.process cut out of it and         *)
(* whatever the tools did: _handle_function_tools and fix_messages.        *)
THEOREM PairingTheorem == Spec => []RequestsPaired
<1>1. TalkInv => RequestsPaired
  BY DEF TalkInv, Sound, Legal, RequestsPaired
<1> QED BY <1>1, TalkAlways, PTL

(* Every request, and what a run leaves to the next, starts with a user's  *)
(* message after the system prompt: _ensure_user_message.                  *)
THEOREM UserTheorem == Spec => []UserFirst
<1>1. TalkInv => UserFirst
  <2> SUFFICES ASSUME TalkInv, pc = "asking" \/ Saved
               PROVE  Rest(messages) # <<>> /\ Rest(messages)[1].role = "user"
    BY DEF UserFirst
  <2>1. messages \in Seq(AllMessages) /\ \E n : Led(messages, n)
    BY DEF TalkInv, Sound
  <2>2. PICK n : Led(messages, n)
    BY <2>1
  <2> DEFINE r == Rest(messages)
  <2>3. /\ r \in Seq(AllMessages) /\ Len(r) = Len(messages) - n
        /\ \A i \in 1..Len(r) : r[i] = messages[n + i]
    BY <2>1, <2>2, RestFacts
  <2>4. Len(messages) \in Nat /\ n \in Nat /\ n < Len(messages)
        /\ messages[n + 1].role = "user"
    BY <2>1, <2>2, LenProperties DEF Led
  <2> HIDE DEF r
  <2>5. 1 \in 1..Len(r)
    BY <2>3, <2>4
  <2>6. r # <<>> /\ r[1].role = "user"
    BY <2>3, <2>4, <2>5
  <2> QED BY <2>6 DEF r
<1> QED BY <1>1, TalkAlways, PTL
=============================================================================
