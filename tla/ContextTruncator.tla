--------------------------- MODULE ContextTruncator ---------------------------
(***************************************************************************)
(* How the context of a request is shortened: ContextManager.process, the  *)
(* ContextTruncator and the two compressors (core/agent/context/).  A      *)
(* message keeps its role, a name that says where it comes from, and the   *)
(* tool calls an assistant message makes; a tool message is named by the   *)
(* call it answers.  Token counts are not modelled: whenever a limit on    *)
(* tokens is set, both answers of should_compress are possible.            *)
(***************************************************************************)
EXTENDS Integers, Sequences, SequencesExt, FiniteSets

Message(role, name, calls) == [role |-> role, name |-> name, calls |-> calls]

User(name)      == Message("user", name, <<>>)
Assistant(name) == Message("assistant", name, <<>>)
ToolResult(id)  == Message("tool", id, <<>>)

HasToolCalls(m) == m.role = "assistant" /\ m.calls # <<>>

Positions(msgs, role) == {i \in DOMAIN msgs : msgs[i].role = role}

Least(S) == CHOOSE i \in S : \A j \in S : i <= j

-----------------------------------------------------------------------------
(* fix_messages.                                                           *)

(* What stays: a tool message of a run of tool messages that follows an    *)
(* assistant message with calls, an assistant message with calls that such *)
(* a run follows, and every other message.                                 *)
Stays(msgs, i) ==
  IF msgs[i].role = "tool"
  THEN \E j \in 1..(i - 1) :
         HasToolCalls(msgs[j]) /\ \A k \in (j + 1)..i : msgs[k].role = "tool"
  ELSE HasToolCalls(msgs[i]) =>
         i < Len(msgs) /\ msgs[i + 1].role = "tool"

At(msgs, places) == [k \in DOMAIN places |-> msgs[places[k]]]

(* Mutant of FixMessages: nothing is repaired.                             *)
FixNothing(msgs) == msgs

(* The numbers of a finite set in their order.                             *)
Ascending(S) ==
  [k \in 1..Cardinality(S) |->
     CHOOSE i \in S : Cardinality({j \in S : j <= i}) = k]

FixMessages(msgs) ==
  At(msgs, Ascending({i \in DOMAIN msgs : Stays(msgs, i)}))

-----------------------------------------------------------------------------
(* The system messages in front, and the rest.                             *)
SystemLength(msgs) ==
  LET others == DOMAIN msgs \ Positions(msgs, "system")
  IN IF others = {} THEN 0 ELSE Least(others) - 1

SystemPart(msgs) == SubSeq(msgs, 1, SystemLength(msgs))
Rest(msgs)       == SubSeq(msgs, SystemLength(msgs) + 1, Len(msgs))

(* What is kept starts at its first user message, when it has one.         *)
FromFirstUser(msgs) ==
  LET users == Positions(msgs, "user")
  IN IF users = {} THEN msgs ELSE SubSeq(msgs, Least(users), Len(msgs))

(* Mutant of EnsureUserMessage: nothing is put in front.                   *)
EnsureNothing(kept, original) == SystemPart(original) \o kept

(* _ensure_user_message: otherwise the first user message of the original  *)
(* list goes in front.                                                     *)
EnsureUserMessage(kept, original) ==
  LET users == Positions(original, "user")
  IN IF users = {} \/ (kept # <<>> /\ kept[1].role = "user")
     THEN SystemPart(original) \o kept
     ELSE SystemPart(original) \o <<original[Least(users)]>> \o kept

Shortened(msgs, kept) ==
  FixMessages(EnsureUserMessage(FromFirstUser(kept), msgs))

(* A turn is two messages for the code, whatever they are.                 *)
TruncateByTurns(msgs, keep, drop) ==
  LET rest == Rest(msgs)
      kept == 2 * (keep - drop + 1)
  IN IF keep = -1 \/ Len(rest) \div 2 <= keep THEN msgs
     ELSE Shortened(msgs, IF kept <= 0 THEN <<>>
                          ELSE SubSeq(rest, Len(rest) - kept + 1, Len(rest)))

DropOldestTurns(msgs, drop) ==
  LET rest == Rest(msgs)
  IN IF drop <= 0 THEN msgs
     ELSE Shortened(msgs, IF Len(rest) \div 2 <= drop THEN <<>>
                          ELSE SubSeq(rest, 2 * drop + 1, Len(rest)))

Halve(msgs) ==
  LET rest == Rest(msgs)
      gone == Len(rest) \div 2
  IN IF Len(msgs) <= 2 \/ gone = 0 THEN msgs
     ELSE Shortened(msgs, SubSeq(rest, gone + 1, Len(rest)))

-----------------------------------------------------------------------------
(* LLMSummaryCompressor: what is older than the recent messages becomes a  *)
(* summary; the split moves back to a user message.                        *)
SummaryOf(msgs, keep) ==
  LET rest   == Rest(msgs)
      splits == {i \in Positions(rest, "user") : i > 1 /\ i <= Len(rest) - keep + 1}
      split  == CHOOSE i \in splits : \A j \in splits : j <= i
  IN IF Len(rest) <= keep \/ splits = {} THEN msgs
     ELSE SystemPart(msgs)
          \o <<User("summary"), Assistant("acknowledged")>>
          \o SubSeq(rest, split, Len(rest))

(* The compressor in use; the model that summarises may fail.              *)
Compressed(msgs, limits) ==
  IF limits.tokens = "summary"
  THEN {msgs, IF Len(msgs) <= limits.recent + 1 THEN msgs
              ELSE SummaryOf(msgs, limits.recent)}
  ELSE {DropOldestTurns(msgs, limits.drop)}

(* The compression, and halving when the context is still too long.        *)
Compressions(msgs, limits) ==
  LET small == Compressed(msgs, limits)
  IN small \cup {Halve(m) : m \in small}

(* ContextManager.process: the outcomes it may have.                       *)
Process(msgs, limits) ==
  LET cut == {TruncateByTurns(msgs, limits.turns, limits.drop)}
  IN IF limits.tokens = "none" THEN cut
     ELSE cut \cup UNION {Compressions(m, limits) : m \in cut}
=============================================================================
