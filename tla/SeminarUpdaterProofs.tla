------------------------ MODULE SeminarUpdaterProofs ------------------------
(***************************************************************************)
(* TypeOK, OneRowPerPaper, PlanFits and MeetingsKept hold in every         *)
(* behaviour of SeminarUpdater, for any users, messages, documents and     *)
(* tables.                                                                 *)
(***************************************************************************)
EXTENDS SeminarUpdater, TLAPS, FiniteSetTheorems, WellFoundedInduction

(* The tasks inside _write_lock, and those that wait for it too.           *)
Inside(m) == pc[m] \in {"loading", "writing", "written"}
Queued(m) == pc[m] = "lock" \/ Inside(m)

LockInv == \A m \in Messages : Inside(m) => lockq # <<>> /\ Head(lockq) = m

(* A state that asks when to present a paper knows the paper.              *)
KnowsPaper(s) ==
  s.pending \in {"same_meeting_confirmation", "custom_meeting_date"}
    => s.title \in Titles

(* A task that goes for the lock with a paper knows its title; one that    *)
(* goes there with new slides has no question open.                        *)
TitleOK(m) ==
  /\ pc[m] = "reading" => st[m].pending = ""
  /\ pc[m] \in {"checking", "confirming"} => st[m].title \in Titles
  /\ Queued(m) /\ job[m] = "paper" => st[m].title \in Titles
  /\ Queued(m) /\ job[m] = "slides" => st[m].pending = ""

TitleInv ==
  /\ \A u \in Users : KnowsPaper(file[u])
  /\ \A m \in Messages : TitleOK(m)

(* The plan of a task that is about to write: slides go to a row there is, *)
(* and a time only to a row without one.                                   *)
PlanOK(m) ==
  /\ job[m] = "paper" =>
       /\ RowsOf(table, st[m].title) = IF row[m] = 0 THEN {} ELSE {row[m]}
       /\ row[m] # 0 /\ time[m] # NoTime => table[row[m]].time = NoTime
  /\ job[m] # "paper" => row[m] \in DOMAIN table

PlanInv == \A m \in Messages : pc[m] = "writing" => PlanOK(m)

IInv == TypeOK /\ LockInv /\ TitleInv /\ PlanInv /\ OneRowPerPaper

-----------------------------------------------------------------------------
(* Least and greatest naturals.                                            *)

(* A non-empty set of naturals has a least element.                        *)
LEMMA LeastElement ==
  ASSUME NEW T \in SUBSET Nat, T # {}
  PROVE  \E n \in T : \A m \in T : n <= m
<1> DEFINE R == OpToRel(<, Nat)
<1>1. IsWellFoundedOn(R, Nat)
  BY NatLessThanWellFounded
<1>2. \E x \in T : \A y \in T : ~(<<y, x>> \in R)
  <2> HIDE DEF R
  <2> QED
    BY <1>1, WFMin
<1>3. PICK x \in T : \A y \in T : ~(<<y, x>> \in R)
  BY <1>2
<1>4. \A y \in T : ~(y < x)
  BY <1>3 DEF OpToRel
<1> QED
  BY <1>4

(* MinOf returns a member.                                                 *)
LEMMA MinOfType ==
  ASSUME NEW T \in SUBSET Nat, T # {}
  PROVE  MinOf(T) \in T
BY LeastElement DEF MinOf

(* A finite non-empty set of naturals has a greatest element: a smallest   *)
(* set without one would have one, its own without an element of it.       *)
LEMMA GreatestElement ==
  ASSUME NEW T \in SUBSET Nat, IsFiniteSet(T), T # {}
  PROVE  \E n \in T : \A m \in T : m <= n
<1> DEFINE Good(U) == \E n \in U : \A m \in U : m <= n
           Bad == {U \in SUBSET T : U # {} /\ ~Good(U)}
           Sizes == {Cardinality(U) : U \in Bad}
<1>1. \A U \in SUBSET T : U \in SUBSET Nat /\ IsFiniteSet(U)
  BY FS_Subset
<1>2. Sizes \in SUBSET Nat
  BY <1>1, FS_CardinalityType
<1>3. SUFFICES ASSUME Bad # {} PROVE FALSE
  OBVIOUS
<1>4. PICK n \in Sizes : \A m \in Sizes : n <= m
  <2>1. Sizes # {}
    BY <1>3
  <2> HIDE DEF Sizes
  <2> QED
    BY <1>2, <2>1, LeastElement
<1>5. PICK U \in Bad : Cardinality(U) = n
  BY <1>4
<1>6. PICK x \in U : TRUE
  BY <1>5
<1> DEFINE V == U \ {x}
<1>7. IsFiniteSet(V) /\ Cardinality(V) = Cardinality(U) - 1 /\ Cardinality(U) \in Nat
  BY <1>1, <1>5, <1>6, FS_RemoveElement, FS_CardinalityType
<1>8. V \notin Bad
  <2>1. V \in Bad => n <= Cardinality(V)
    BY <1>4
  <2> HIDE DEF V, Bad
  <2> QED
    BY <2>1, <1>5, <1>7
<1>9. V = {} \/ Good(V)
  BY <1>8
<1>10. CASE V = {}
  <2>1. U = {x}
    BY <1>10
  <2>2. x \in Nat
    BY <1>1, <1>5, <1>6
  <2> QED
    BY <1>5, <2>1, <2>2
<1>11. CASE Good(V)
  <2>1. PICK y \in V : \A m \in V : m <= y
    BY <1>11
  <2>2. U = V \cup {x} /\ x \in Nat /\ y \in Nat /\ \A m \in U : m \in Nat
    BY <1>1, <1>5, <1>6, <2>1
  <2>3. CASE x <= y
    BY <1>5, <2>1, <2>2, <2>3
  <2>4. CASE y <= x
    <3>1. \A m \in U : m <= x
      BY <2>1, <2>2, <2>4
    <3> QED
      BY <1>5, <1>6, <3>1
  <2> QED
    BY <2>2, <2>3, <2>4
<1> QED
  BY <1>9, <1>10, <1>11

(* MaxOf returns a member.                                                 *)
LEMMA MaxOfType ==
  ASSUME NEW T \in SUBSET Nat, IsFiniteSet(T), T # {}
  PROVE  MaxOf(T) \in T
BY GreatestElement DEF MaxOf

-----------------------------------------------------------------------------
(* Reading the table.                                                      *)

(* A row of the table.                                                     *)
LEMMA RowType ==
  ASSUME NEW t \in Seq(Rows), NEW i \in DOMAIN t
  PROVE  /\ t[i] \in Rows
         /\ t[i].title \in Titles
         /\ t[i].time \in Nat
         /\ i \in Nat \ {0}
<1>1. t[i] \in Rows /\ i \in Nat \ {0}
  OBVIOUS
<1> QED
  BY <1>1 DEF Rows

(* The next meeting is a time, or none.                                    *)
LEMMA NextMeetingType ==
  ASSUME NEW t \in Seq(Rows)
  PROVE  NextMeeting(t) \in Nat
<1> DEFINE future == {t[i].time : i \in {j \in Timed(t) : t[j].time > now}}
<1>1. future \in SUBSET Nat
  BY RowType DEF Timed
<1>2. future # {} => MinOf(future) \in future
  BY <1>1, MinOfType
<1>3. NextMeeting(t) = IF future = {} THEN NoTime ELSE MinOf(future)
  BY DEF NextMeeting
<1> HIDE DEF future
<1>4. MinOf(future) \in Nat \/ future = {}
  BY <1>1, <1>2
<1> QED
  BY <1>3, <1>4 DEF NoTime

(* A table with a meeting gives every paper a time.                        *)
LEMMA ScheduledType ==
  ASSUME NEW t \in Seq(Rows), NEW o \in Nat, Timed(t) # {}
  PROVE  Scheduled(t, o) \in Nat
<1> DEFINE times == {t[i].time : i \in Timed(t)}
<1>1. times \in SUBSET Nat /\ times # {}
  BY RowType DEF Timed
<1>2. IsFiniteSet(times)
  <2>1. IsFiniteSet(DOMAIN t)
    BY FS_Interval
  <2>2. IsFiniteSet(Timed(t))
    BY <2>1, FS_Subset DEF Timed
  <2> DEFINE f == [i \in Timed(t) |-> t[i].time]
  <2>3. f \in Surjection(Timed(t), times)
    BY DEF Surjection
  <2> QED
    BY <2>2, <2>3, FS_Surjection
<1>3. MaxOf(times) \in Nat
  BY <1>1, <1>2, MaxOfType
<1>4. Scheduled(t, o) = IF o # NoTime THEN o
                        ELSE IF NextMeeting(t) # NoTime THEN NextMeeting(t)
                        ELSE MaxOf(times) + Week
  BY DEF Scheduled
<1> HIDE DEF times
<1> QED
  BY <1>3, <1>4, NextMeetingType, TimeAssumption

-----------------------------------------------------------------------------
(* Types.                                                                  *)

(* The initial state has the types.                                        *)
LEMMA InitType == Init => TypeOK
<1> SUFFICES ASSUME Init PROVE TypeOK
  OBVIOUS
<1>1. Fresh(NoTitle) \in States
  BY DEF Fresh, States, Questions, NoTime, Fields
<1>2. /\ file \in [Users -> States]
      /\ st \in [Messages -> States]
      /\ table \in Seq(Rows)
  BY <1>1, TableAssumption DEF Init
<1>3. lockq \in Seq(Messages)
  <2>1. lockq = <<>>
    BY DEF Init
  <2> QED
    BY <2>1
<1>4. pdfs \subseteq Contents /\ now \in Nat /\ pc \in [Messages -> PCs]
  BY DEF Init, PCs
<1>5. /\ job \in [Messages -> {"", "paper", "slides", "pending_slides"}]
      /\ over \in [Messages -> Nat]
      /\ row \in [Messages -> Nat]
      /\ time \in [Messages -> Nat]
  BY DEF Init, NoTime
<1> QED
  BY <1>2, <1>3, <1>4, <1>5 DEF TypeOK

(* The fields of a state.                                                  *)
LEMMA FieldTypes ==
  ASSUME NEW s \in States
  PROVE  /\ s.pending \in Questions
         /\ s.title \in Titles \cup {NoTitle}
         /\ s.lacks \in SUBSET Fields
         /\ s.proposed \in Nat
         /\ s.last \in Titles \cup {NoTitle}
         /\ s.pdf \in Contents \cup {NoPdf}
         /\ s.source \in {"", "url", "pdf"}
BY DEF States

(* A state with other values in its fields.                                *)
LEMMA StateTypes ==
  ASSUME NEW s \in States
  PROVE  /\ \A q \in Questions : [s EXCEPT !.pending = q] \in States
         /\ \A x \in Titles \cup {NoTitle} : [s EXCEPT !.title = x] \in States
         /\ \A x \in SUBSET Fields : [s EXCEPT !.lacks = x] \in States
         /\ \A x \in Nat : [s EXCEPT !.proposed = x] \in States
         /\ \A x \in Titles \cup {NoTitle} : [s EXCEPT !.last = x] \in States
         /\ \A x \in Contents \cup {NoPdf} : [s EXCEPT !.pdf = x] \in States
         /\ \A x \in {"", "url", "pdf"} : [s EXCEPT !.source = x] \in States
BY DEF States

(* A new state, with or without the title of a paper.                      *)
LEMMA FreshType ==
  ASSUME NEW x \in Titles \cup {NoTitle}
  PROVE  Fresh(x) \in States
BY DEF Fresh, States, Questions, NoTime, Fields

(* The questions of the code.                                              *)
LEMMA QuestionTypes ==
  /\ {"", "title", "same_meeting_confirmation", "custom_meeting_date",
      "pdf_kind", "ppt_title"} \subseteq Questions
  /\ Fields \subseteq Questions
  /\ \A s : Missing(s) \in Questions
BY DEF Questions, Fields, Missing

(* What the messages carry.                                                *)
LEMMA MessageTypes ==
  ASSUME NEW m \in Messages
  PROVE  /\ UserOf[m] \in Users
         /\ KindOf[m] \in {"url", "pdf", "text"}
         /\ PaperOf[m] \in Titles
         /\ PdfOf[m] \in Contents
BY KindAssumption, UserAssumption, TitleAssumption DEF Contents

(* The types of what a task works with.                                    *)
TaskType ==
  /\ file \in [Users -> States]
  /\ pc \in [Messages -> PCs]
  /\ st \in [Messages -> States]

PlanType ==
  /\ lockq \in Seq(Messages)
  /\ job \in [Messages -> {"", "paper", "slides", "pending_slides"}]
  /\ over \in [Messages -> Nat]
  /\ row \in [Messages -> Nat]
  /\ time \in [Messages -> Nat]

WorldType ==
  /\ pdfs \subseteq Contents
  /\ table \in Seq(Rows)
  /\ now \in Nat

(* The three parts are the type invariant.                                 *)
LEMMA TypeParts == TypeOK <=> TaskType /\ PlanType /\ WorldType
BY DEF TypeOK, TaskType, PlanType, WorldType

(* Saving a state and ending keeps the types of the tasks.                 *)
LEMMA SaveType ==
  ASSUME TaskType, NEW m \in Messages, NEW s \in States, SaveAndEnd(m, s)
  PROVE  TaskType'
BY MessageTypes DEF TaskType, SaveAndEnd, Save, Goto, PCs

(* Finishing a paper (a question, or the end) keeps them.                  *)
LEMMA FinishType ==
  ASSUME TaskType, NEW m \in Messages, NEW s \in States, FinishPaper(m, s)
  PROVE  TaskType'
<1>1. CASE Missing(s) # ""
  <2>1. [s EXCEPT !.pending = Missing(s)] \in States
    BY StateTypes, QuestionTypes
  <2>2. SaveAndEnd(m, [s EXCEPT !.pending = Missing(s)])
    BY <1>1 DEF FinishPaper
  <2> QED
    BY <2>1, <2>2, SaveType
<1>2. CASE Missing(s) = ""
  BY <1>2 DEF FinishPaper, TaskType, Keep, Goto, PCs
<1> QED
  BY <1>1, <1>2

(* Ending without saving keeps them.                                       *)
LEMMA GiveUpType ==
  ASSUME TaskType, NEW m \in Messages, GiveUp(m)
  PROVE  TaskType'
BY DEF TaskType, GiveUp, Goto, PCs

(* Going on with a changed copy of the state keeps them.                   *)
LEMMA KeepType ==
  ASSUME TaskType, NEW m \in Messages, NEW s \in States, NEW label \in PCs,
         Keep(m, s), Goto(m, label), UNCHANGED file
  PROVE  TaskType'
BY DEF TaskType, Keep, Goto

(* A step away from the lock keeps the types of the plans.                 *)
LEMMA NoLockType ==
  ASSUME PlanType, NoLockYet
  PROVE  PlanType'
BY DEF PlanType, NoLockYet, planVars

(* Going for the lock keeps the types.                                     *)
LEMMA WaitType ==
  ASSUME TaskType, PlanType, NEW m \in Messages, NEW s \in States,
         NEW what \in {"paper", "slides", "pending_slides"}, NEW o \in Nat,
         WaitForLock(m, s, what, o)
  PROVE  TaskType' /\ PlanType'
<1>1. TaskType'
  BY DEF TaskType, WaitForLock, Keep, Goto, PCs
<1>2. lockq' = Append(lockq, m) /\ lockq \in Seq(Messages)
  BY DEF PlanType, WaitForLock, Lock!Request
<1>3. lockq' \in Seq(Messages)
  BY <1>2
<1>4. PlanType'
  BY <1>3 DEF PlanType, WaitForLock
<1> QED
  BY <1>1, <1>4

(* Leaving the lock keeps the types of the plans.                          *)
LEMMA ReleaseType ==
  ASSUME PlanType, NEW m \in Messages, Lock!Release(m), UNCHANGED planVars
  PROVE  PlanType'
<1>1. lockq # <<>> /\ lockq' = Tail(lockq) /\ lockq \in Seq(Messages)
  BY DEF Lock!Release, Lock!Owns, PlanType
<1>2. lockq' \in Seq(Messages)
  BY <1>1
<1> QED
  BY <1>2 DEF PlanType, planVars

(* A message that arrives.                                                 *)
LEMMA ArriveType ==
  ASSUME TypeOK, NEW m \in Messages, Arrive(m)
  PROVE  TypeOK'
<1>1. TaskType /\ PlanType /\ WorldType
  BY TypeParts
<1> DEFINE s == Arrived(m)
<1>2. s \in States
  BY <1>1, MessageTypes DEF Arrived, TaskType
<1>3. s.last \in Titles \cup {NoTitle} /\ s.pending \in Questions
      /\ s.lacks \in SUBSET Fields
  BY <1>2, FieldTypes
<1>4. Fresh(s.last) \in States
  BY <1>3, FreshType
<1>5. /\ KindOf[m] \in {"url", "pdf", "text"}
      /\ PaperOf[m] \in Titles
      /\ UserOf[m] \in Users
  BY MessageTypes
<1>6. SUFFICES TaskType' /\ PlanType' /\ WorldType'
  BY TypeParts DEF TypeOK, TaskType, PlanType, WorldType
<1>7. ASSUME NoLockYet, pdfs' \subseteq pdfs, UNCHANGED <<table, now>>
      PROVE  PlanType' /\ WorldType'
  BY <1>1, <1>7, NoLockType DEF WorldType
<1>8. ASSUME NEW z \in States, FinishPendingPpt(m, z), UNCHANGED <<table, now>>
      PROVE  TaskType' /\ PlanType' /\ WorldType'
  <2>1. CASE z.pdf \in pdfs
    BY <1>1, <1>8, <2>1, WaitType DEF FinishPendingPpt, NoTime, WorldType
  <2>2. CASE z.pdf \notin pdfs
    <3>1. [z EXCEPT !.pdf = NoPdf] \in States
      BY StateTypes
    <3>2. [[z EXCEPT !.pdf = NoPdf] EXCEPT !.pending = ""] \in States
      BY <3>1, StateTypes, QuestionTypes
    <3>3. [z EXCEPT !.pdf = NoPdf, !.pending = ""] \in States
      BY <3>2
    <3> QED
      BY <1>1, <1>7, <1>8, <2>2, <3>3, SaveType DEF FinishPendingPpt
  <2> QED
    BY <2>1, <2>2
<1>9. CASE Cancel(m)
  BY <1>1, <1>4, <1>7, <1>9, SaveType DEF Cancel
<1>10. CASE NewSubmission(m)
  <2>1. [Fresh(s.last) EXCEPT !.source = KindOf[m]] \in States
    BY <1>4, <1>10, StateTypes DEF NewSubmission
  <2>2. TaskType'
    BY <1>1, <1>4, <1>5, <1>10, <2>1
       DEF NewSubmission, TaskType, Save, Keep, Goto, PCs
  <2> QED
    BY <1>7, <1>10, <2>2 DEF NewSubmission
<1>11. CASE NoAnswer(m)
  BY <1>1, <1>7, <1>11, GiveUpType DEF NoAnswer
<1>12. CASE AnswerField(m)
  <2> DEFINE title == IF s.pending = "title" THEN PaperOf[m] ELSE s.title
             lacks == s.lacks \ {s.pending}
  <2>1. [s EXCEPT !.title = title] \in States
    BY <1>2, <1>5, FieldTypes, StateTypes
  <2>2. [[s EXCEPT !.title = title] EXCEPT !.lacks = lacks] \in States
    BY <1>3, <2>1, StateTypes
  <2>3. [[[s EXCEPT !.title = title] EXCEPT !.lacks = lacks]
          EXCEPT !.pending = ""] \in States
    BY <2>2, StateTypes, QuestionTypes
  <2>4. FinishPaper(m, [[[s EXCEPT !.title = title] EXCEPT !.lacks = lacks]
                         EXCEPT !.pending = ""])
    BY <1>2, <1>12 DEF AnswerField, States
  <2> QED
    BY <1>1, <1>7, <1>12, <2>3, <2>4, FinishType DEF AnswerField
<1>13. CASE AnswerConfirmation(m)
  BY <1>1, <1>2, <1>7, <1>13, KeepType DEF AnswerConfirmation, PCs
<1>14. CASE AnswerDate(m)
  <2>1. PICK d \in Dates : WaitForLock(m, [s EXCEPT !.pending = ""], "paper", d)
    BY <1>14 DEF AnswerDate
  <2>2. d \in Nat /\ [s EXCEPT !.pending = ""] \in States
    BY <1>2, StateTypes, QuestionTypes, TimeAssumption
  <2> QED
    BY <1>1, <1>14, <2>1, <2>2, WaitType DEF AnswerDate, WorldType
<1>15. CASE AnswerPaper(m)
  BY <1>1, <1>2, <1>7, <1>15, KeepType DEF AnswerPaper, PCs
<1>16. CASE AnswerSlides(m)
  <2> DEFINE z == [s EXCEPT !.pending = "ppt_title"]
  <2>1. z \in States /\ z.last = s.last
    BY <1>2, StateTypes, QuestionTypes DEF States
  <2>2. CASE s.last # NoTitle
    <3>1. [z EXCEPT !.title = s.last] \in States
      BY <1>3, <2>1, StateTypes
    <3>2. FinishPendingPpt(m, [z EXCEPT !.title = s.last])
      BY <1>16, <2>1, <2>2 DEF AnswerSlides
    <3> QED
      BY <1>8, <1>16, <3>1, <3>2 DEF AnswerSlides
  <2>3. CASE s.last = NoTitle
    <3>1. SaveAndEnd(m, z) /\ NoLockYet /\ UNCHANGED <<pdfs, table, now>>
      BY <1>16, <2>1, <2>3 DEF AnswerSlides
    <3> QED
      BY <1>1, <1>7, <2>1, <3>1, SaveType
  <2> QED
    BY <2>2, <2>3
<1>17. CASE AnswerSlidesTitle(m)
  <2>1. [s EXCEPT !.title = PaperOf[m]] \in States
    BY <1>2, <1>5, StateTypes
  <2> QED
    BY <1>8, <1>17, <2>1 DEF AnswerSlidesTitle
<1> QED
  BY <1>9, <1>10, <1>11, <1>12, <1>13, <1>14, <1>15, <1>16, <1>17 DEF Arrive

(* What was read of a document, put into a state.                          *)
LEMMA MetadataType ==
  ASSUME NEW m \in Messages, NEW s \in States, NEW lacks \in Lacking(m)
  PROVE  /\ WithMetadata(m, s, lacks) \in States
         /\ lacks \ {"title"} \in SUBSET Fields
<1>1. lacks \ {"title"} \in SUBSET Fields
  BY LackAssumption DEF Lacking, Fields
<1> DEFINE title == IF "title" \in lacks THEN NoTitle ELSE PaperOf[m]
<1>2. [s EXCEPT !.title = title] \in States
  BY MessageTypes, StateTypes
<1>3. [[s EXCEPT !.title = title] EXCEPT !.lacks = lacks \ {"title"}] \in States
  BY <1>1, <1>2, StateTypes
<1>4. [[[s EXCEPT !.title = title] EXCEPT !.lacks = lacks \ {"title"}]
        EXCEPT !.pending = ""] \in States
  BY <1>3, StateTypes, QuestionTypes
<1> QED
  BY <1>1, <1>4 DEF WithMetadata

(* A document has been read.                                               *)
LEMMA ReadType ==
  ASSUME TypeOK, NEW m \in Messages,
         ReadPaper(m) \/ ReadAgain(m) \/ ReadSlides(m) \/ ReadUnknown(m)
  PROVE  TypeOK'
<1>1. TaskType /\ PlanType /\ WorldType
  BY TypeParts
<1>2. st[m] \in States
  BY <1>1 DEF TaskType
<1>3. SUFFICES TaskType' /\ PlanType' /\ WorldType'
  BY TypeParts DEF TypeOK, TaskType, PlanType, WorldType
<1>4. ASSUME NEW lacks \in Lacking(m)
      PROVE  SpeakerKnown(m, lacks) \in States
  BY <1>2, StateTypes DEF SpeakerKnown
<1>5. ASSUME NEW z \in States, NEW q \in Questions, AskAboutPdf(m, z, q),
             NoLockYet, UNCHANGED <<table, now>>
      PROVE  TaskType' /\ PlanType' /\ WorldType'
  <2>1. [z EXCEPT !.pdf = PdfOf[m]] \in States
    BY MessageTypes, StateTypes
  <2>2. [[z EXCEPT !.pdf = PdfOf[m]] EXCEPT !.pending = q] \in States
    BY <2>1, StateTypes
  <2>3. [z EXCEPT !.pdf = PdfOf[m], !.pending = q] \in States
    BY <2>2
  <2> QED
    BY <1>1, <1>5, <2>3, SaveType, NoLockType, MessageTypes
       DEF AskAboutPdf, WorldType
<1>6. CASE ReadPaper(m)
  BY <1>1, <1>2, <1>6, MetadataType, FinishType, NoLockType
     DEF ReadPaper, WorldType
<1>7. CASE ReadAgain(m)
  <2>1. PICK lacks \in Lacking(m) :
          LET s == WithMetadata(m, st[m], lacks)
              kept == st[m].lacks \cap {"speaker"}
          IN  FinishPaper(m, [s EXCEPT !.lacks = (@ \ {"speaker"}) \cup kept,
                                       !.pdf = NoPdf])
    BY <1>7 DEF ReadAgain
  <2> DEFINE s == WithMetadata(m, st[m], lacks)
             left == (s.lacks \ {"speaker"}) \cup (st[m].lacks \cap {"speaker"})
  <2>2. s \in States
    BY <1>2, MetadataType
  <2>3. left \in SUBSET Fields
    BY <1>2, <2>2, FieldTypes
  <2>4. [s EXCEPT !.lacks = left] \in States
    BY <2>2, <2>3, StateTypes
  <2>5. [[s EXCEPT !.lacks = left] EXCEPT !.pdf = NoPdf] \in States
    BY <2>4, StateTypes
  <2>6. FinishPaper(m, [[s EXCEPT !.lacks = left] EXCEPT !.pdf = NoPdf])
    BY <2>1, <2>2 DEF States
  <2> QED
    BY <1>1, <1>7, <2>5, <2>6, FinishType, NoLockType DEF ReadAgain, WorldType
<1>8. CASE ReadSlides(m)
  <2>1. PICK lacks \in Lacking(m) :
          LET s == SpeakerKnown(m, lacks)
              title == IF s.last # NoTitle THEN s.last
                       ELSE WithMetadata(m, s, lacks).title
          IN  IF title # NoTitle
              THEN /\ WaitForLock(m, [s EXCEPT !.title = title], "slides", NoTime)
                   /\ UNCHANGED pdfs
              ELSE AskAboutPdf(m, s, "ppt_title") /\ NoLockYet
    BY <1>8 DEF ReadSlides
  <2> DEFINE s == SpeakerKnown(m, lacks)
             title == IF s.last # NoTitle THEN s.last
                      ELSE WithMetadata(m, s, lacks).title
  <2>2. s \in States
    BY <1>4
  <2>3. title \in Titles \cup {NoTitle}
    BY <2>2, MetadataType, FieldTypes
  <2>4. [s EXCEPT !.title = title] \in States
    BY <2>2, <2>3, StateTypes
  <2>5. CASE title # NoTitle
    BY <1>1, <1>8, <2>1, <2>4, <2>5, WaitType DEF ReadSlides, WorldType, NoTime
  <2>6. CASE title = NoTitle
    <3>1. AskAboutPdf(m, s, "ppt_title") /\ NoLockYet
      BY <2>1, <2>6
    <3> QED
      BY <1>5, <1>8, <2>2, <3>1, QuestionTypes DEF ReadSlides
  <2> QED
    BY <2>5, <2>6
<1>9. CASE ReadUnknown(m)
  BY <1>4, <1>5, <1>9, QuestionTypes DEF ReadUnknown
<1> QED
  BY <1>6, <1>7, <1>8, <1>9

(* The check for a second paper and its confirmation.                      *)
LEMMA CheckType ==
  ASSUME TypeOK, NEW m \in Messages,
         \/ ReadingFails(m) \/ Check(m)
         \/ ConfirmStale(m) \/ ConfirmYes(m) \/ ConfirmNo(m)
  PROVE  TypeOK'
<1>1. TaskType /\ PlanType /\ WorldType
  BY TypeParts
<1>2. st[m] \in States /\ NextMeeting(table) \in Nat
  BY <1>1, NextMeetingType DEF TaskType, WorldType
<1>3. SUFFICES TaskType' /\ PlanType' /\ WorldType'
  BY TypeParts DEF TypeOK, TaskType, PlanType, WorldType
<1>4. CASE ReadingFails(m)
  BY <1>1, <1>4, GiveUpType, NoLockType DEF ReadingFails, WorldType
<1>5. CASE Check(m)
  <2> DEFINE z == [st[m] EXCEPT !.pending = "same_meeting_confirmation"]
  <2>1. z \in States
    BY <1>2, StateTypes, QuestionTypes
  <2>2. [z EXCEPT !.proposed = NextMeeting(table)] \in States
    BY <1>2, <2>1, StateTypes
  <2>3. [st[m] EXCEPT !.pending = "same_meeting_confirmation",
                      !.proposed = NextMeeting(table)] \in States
    BY <2>2
  <2> QED
    BY <1>1, <1>2, <1>5, <2>3, SaveType, NoLockType, WaitType
       DEF Check, WorldType, NoTime
<1>6. CASE ConfirmStale(m)
  BY <1>1, <1>2, <1>6, StateTypes, SaveType, NoLockType
     DEF ConfirmStale, WorldType
<1>7. CASE ConfirmYes(m)
  <2>1. [st[m] EXCEPT !.pending = ""] \in States /\ st[m].proposed \in Nat
    BY <1>2, StateTypes, FieldTypes, QuestionTypes
  <2> QED
    BY <1>1, <1>7, <2>1, WaitType DEF ConfirmYes, WorldType
<1>8. CASE ConfirmNo(m)
  <2>1. [st[m] EXCEPT !.pending = "custom_meeting_date"] \in States
    BY <1>2, StateTypes, QuestionTypes
  <2> QED
    BY <1>1, <1>8, <2>1, SaveType, NoLockType DEF ConfirmNo, WorldType
<1> QED
  BY <1>4, <1>5, <1>6, <1>7, <1>8

(* A task that is about to write a paper, under the title it knows.        *)
LEMMA WriteType ==
  ASSUME TypeOK, TitleInv, PlanInv, NEW m \in Messages, WritePaper(m)
  PROVE  table' \in Seq(Rows)
<1>1. /\ table \in Seq(Rows)
      /\ st[m].title \in Titles
      /\ UserOf[m] \in Users
      /\ time[m] \in Nat
      /\ (over[m] # NoTime) \in BOOLEAN
  BY MessageTypes DEF WritePaper, TypeOK, TitleInv, TitleOK, Queued, Inside
<1>2. CASE row[m] = 0
  <2> DEFINE r == [title |-> st[m].title, speaker |-> UserOf[m],
                   time |-> time[m], asked |-> over[m] # NoTime,
                   slides |-> FALSE]
  <2>1. r \in Rows
    BY <1>1 DEF Rows
  <2>2. table' = Append(table, r)
    BY <1>2 DEF WritePaper
  <2> HIDE DEF r
  <2> QED
    BY <1>1, <2>1, <2>2
<1>3. CASE row[m] # 0
  <2> DEFINE i == row[m]
             when == IF time[m] = NoTime THEN table[i].time ELSE time[m]
  <2>1. RowsOf(table, st[m].title) = {i}
    BY <1>3 DEF WritePaper, PlanInv, PlanOK
  <2>2. i \in DOMAIN table
    BY <2>1 DEF RowsOf
  <2>3. table[i] \in Rows /\ when \in Nat
    BY <1>1, <2>2, RowType
  <2> DEFINE r == [[[table[i] EXCEPT !.title = st[m].title]
                     EXCEPT !.speaker = UserOf[m]] EXCEPT !.time = when]
  <2>4. r \in Rows
    BY <1>1, <2>3 DEF Rows
  <2>5. table' = [table EXCEPT ![i] = r]
    BY <1>1, <1>3, <2>2, <2>3 DEF WritePaper, Rows
  <2> HIDE DEF r, i
  <2> QED
    BY <1>1, <2>2, <2>4, <2>5
<1> QED
  BY <1>2, <1>3

(* The part of a handler under the lock.                                   *)
LEMMA CommitType ==
  ASSUME TypeOK, TitleInv, PlanInv, NEW m \in Messages,
         \/ Acquire(m) \/ PlanPaper(m) \/ PlanSlides(m)
         \/ WritePaper(m) \/ WriteSlides(m) \/ WritingFails(m)
         \/ PaperDone(m) \/ SlidesDone(m)
  PROVE  TypeOK'
<1>1. TaskType /\ PlanType /\ WorldType
  BY TypeParts
<1>2. st[m] \in States
  BY <1>1 DEF TaskType
<1>3. SUFFICES TaskType' /\ PlanType' /\ WorldType'
  BY TypeParts DEF TypeOK, TaskType, PlanType, WorldType
<1>4. CASE Acquire(m)
  BY <1>1, <1>4 DEF Acquire, TaskType, PlanType, WorldType, Goto, PCs, planVars
<1>5. CASE PlanPaper(m)
  <2>1. PICK i \in IF RowsOf(table, st[m].title) = {} THEN {0}
                   ELSE RowsOf(table, st[m].title) :
          /\ NeedsTime(table, i) => Timed(table) # {}
          /\ row' = [row EXCEPT ![m] = i]
          /\ time' = [time EXCEPT ![m] = IF NeedsTime(table, i)
                                         THEN Scheduled(table, over[m]) ELSE NoTime]
    BY <1>5 DEF PlanPaper
  <2>2. i \in Nat
    BY <1>1, <2>1, RowType DEF WorldType, RowsOf
  <2>3. (IF NeedsTime(table, i) THEN Scheduled(table, over[m]) ELSE NoTime) \in Nat
    BY <1>1, <2>1, ScheduledType DEF WorldType, PlanType, NoTime
  <2>4. PlanType'
    BY <1>1, <1>5, <2>1, <2>2, <2>3 DEF PlanType, PlanPaper
  <2> QED
    BY <1>1, <1>5, <2>4 DEF PlanPaper, TaskType, WorldType, Goto, PCs
<1>6. CASE PlanSlides(m)
  <2>1. PICK i \in SlidesRows(table, st[m].title, UserOf[m]) :
          row' = [row EXCEPT ![m] = i]
    BY <1>6 DEF PlanSlides
  <2>2. i \in Nat
    BY <1>1, <2>1, RowType DEF WorldType, SlidesRows, RowsOf
  <2>3. PlanType'
    BY <1>1, <1>6, <2>1, <2>2 DEF PlanType, PlanSlides
  <2> QED
    BY <1>1, <1>6, <2>3 DEF PlanSlides, TaskType, WorldType, Goto, PCs
<1>7. CASE WritePaper(m)
  <2>1. table' \in Seq(Rows)
    BY <1>7, WriteType
  <2> QED
    BY <1>1, <1>7, <2>1
       DEF WritePaper, TaskType, PlanType, WorldType, Goto, PCs, planVars
<1>8. CASE WriteSlides(m)
  <2> DEFINE r == [table[row[m]] EXCEPT !.slides = TRUE]
  <2>1. row[m] \in DOMAIN table
    BY <1>8 DEF WriteSlides, PlanInv, PlanOK
  <2>2. r \in Rows
    BY <1>1, <2>1, RowType DEF WorldType, Rows
  <2>3. table' = [table EXCEPT ![row[m]] = r]
    BY <1>8 DEF WriteSlides
  <2>4. table' \in Seq(Rows)
    <3> HIDE DEF r
    <3> QED
      BY <1>1, <2>1, <2>2, <2>3 DEF WorldType
  <2> QED
    BY <1>1, <1>8, <2>4
       DEF WriteSlides, TaskType, PlanType, WorldType, Goto, PCs, planVars
<1>9. CASE WritingFails(m)
  BY <1>1, <1>9, GiveUpType, ReleaseType DEF WritingFails, WorldType
<1>10. CASE PaperDone(m)
  <2>1. [Fresh(st[m].title) EXCEPT !.pdf = st[m].pdf] \in States
    BY <1>2, FieldTypes, FreshType, StateTypes
  <2> QED
    BY <1>1, <1>10, <2>1, SaveType, ReleaseType DEF PaperDone, WorldType
<1>11. CASE SlidesDone(m)
  <2> DEFINE z == [st[m] EXCEPT !.last = st[m].title]
  <2>1. z \in States
    BY <1>2, FieldTypes, StateTypes
  <2>2. [z EXCEPT !.title = NoTitle] \in States
    BY <2>1, StateTypes
  <2> DEFINE s == [st[m] EXCEPT !.last = st[m].title, !.title = NoTitle]
  <2>3. s \in States
    BY <2>2
  <2>4. [s EXCEPT !.pending = ""] \in States
    BY <2>3, StateTypes, QuestionTypes
  <2>5. [[s EXCEPT !.pending = ""] EXCEPT !.pdf = NoPdf] \in States
    BY <2>4, StateTypes
  <2>6. [s EXCEPT !.pending = "", !.pdf = NoPdf] \in States
    BY <2>5
  <2>7. /\ \/ SaveAndEnd(m, s)
           \/ SaveAndEnd(m, [s EXCEPT !.pending = "", !.pdf = NoPdf])
        /\ pdfs' \subseteq pdfs
    BY <1>11 DEF SlidesDone
  <2> QED
    BY <1>1, <1>11, <2>3, <2>6, <2>7, SaveType, ReleaseType
       DEF SlidesDone, WorldType
<1> QED
  BY <1>4, <1>5, <1>6, <1>7, <1>8, <1>9, <1>10, <1>11

(* The types are inductive with the titles and the plans.                  *)
LEMMA TypeStep ==
  ASSUME TypeOK, TitleInv, PlanInv, [Next]_vars
  PROVE  TypeOK'
<1>1. CASE UNCHANGED vars
  BY <1>1 DEF vars, taskVars, planVars, TypeOK
<1>2. CASE Tick
  <2>1. now' \in Nat
    <3>1. now \in Nat
      BY DEF TypeOK
    <3>2. now' = now + 1
      BY <1>2 DEF Tick
    <3> QED
      BY <3>1, <3>2
  <2> QED
    BY <1>2, <2>1 DEF Tick, taskVars, planVars, TypeOK
<1>3. ASSUME NEW m \in Messages, Arrive(m) \/ Continue(m)
      PROVE  TypeOK'
  BY <1>3, ArriveType, ReadType, CheckType, CommitType DEF Continue
<1> QED
  BY <1>1, <1>2, <1>3 DEF Next

-----------------------------------------------------------------------------
(* The lock.                                                               *)

(* In the beginning nobody is inside.                                      *)
LEMMA InitLock == Init => LockInv
BY DEF Init, LockInv, Inside

(* At most one task is inside.                                             *)
LEMMA Alone ==
  ASSUME LockInv, NEW m \in Messages, NEW n \in Messages, Inside(m), Inside(n)
  PROVE  m = n
BY DEF LockInv

(* The task inside leaves.                                                 *)
LEMMA LeaveLock ==
  ASSUME TypeOK, LockInv, NEW m \in Messages, Inside(m),
         pc' = [pc EXCEPT ![m] = "done"]
  PROVE  LockInv'
<1> SUFFICES ASSUME NEW n \in Messages, Inside(n)' PROVE FALSE
  BY DEF LockInv
<1>1. n # m /\ Inside(n)
  BY DEF TypeOK, Inside
<1> QED
  BY <1>1, Alone

(* A task queues up.                                                       *)
LEMMA RequestLock ==
  ASSUME TypeOK, LockInv, NEW m \in Messages, Lock!Request(m),
         pc' = [pc EXCEPT ![m] = "lock"]
  PROVE  LockInv'
<1> SUFFICES ASSUME NEW n \in Messages, Inside(n)'
             PROVE  lockq' # <<>> /\ Head(lockq') = n
  BY DEF LockInv
<1>1. Inside(n)
  BY DEF TypeOK, Inside
<1>2. lockq \in Seq(Messages) /\ lockq # <<>> /\ Head(lockq) = n
  BY <1>1 DEF TypeOK, LockInv
<1>3. lockq' = Append(lockq, m)
  BY DEF Lock!Request
<1> QED
  BY <1>2, <1>3

(* A step that keeps the queue and lets nobody in.                         *)
LEMMA LockFrame ==
  ASSUME LockInv, lockq' = lockq, \A n \in Messages : Inside(n)' => Inside(n)
  PROVE  LockInv'
BY DEF LockInv

(* Nobody is inside without being the head of the queue.                   *)
LEMMA LockStep ==
  ASSUME TypeOK, LockInv, [Next]_vars
  PROVE  LockInv'
<1>1. CASE UNCHANGED vars
  BY <1>1, LockFrame DEF vars, taskVars, Inside
<1>2. CASE Tick
  BY <1>2, LockFrame DEF Tick, taskVars, Inside
<1>3. ASSUME NEW m \in Messages, NEW label,
             pc' = [pc EXCEPT ![m] = label],
             label \notin {"loading", "writing", "written"}, lockq' = lockq
      PROVE  LockInv'
  BY <1>3, LockFrame DEF TypeOK, Inside
<1>4. ASSUME NEW m \in Messages, Inside(m), NEW label, lockq' = lockq,
             pc' = [pc EXCEPT ![m] = label]
      PROVE  LockInv'
  BY <1>4, LockFrame DEF TypeOK, Inside
<1>5. ASSUME NEW m \in Messages, NEW s, NEW what, NEW o, WaitForLock(m, s, what, o)
      PROVE  LockInv'
  BY <1>5, RequestLock DEF WaitForLock, Goto
<1>6. ASSUME NEW m \in Messages, NEW s, SaveAndEnd(m, s), NoLockYet
      PROVE  LockInv'
  BY <1>3, <1>6 DEF SaveAndEnd, Goto, NoLockYet
<1>7. ASSUME NEW m \in Messages, NEW s, FinishPaper(m, s), NoLockYet
      PROVE  LockInv'
  BY <1>3, <1>6, <1>7 DEF FinishPaper, Goto, NoLockYet
<1>8. ASSUME NEW m \in Messages, NEW s, FinishPendingPpt(m, s)
      PROVE  LockInv'
  BY <1>5, <1>6, <1>8 DEF FinishPendingPpt
<1>9. ASSUME NEW m \in Messages, Arrive(m) PROVE LockInv'
  <2>1. CASE Cancel(m)
    BY <1>6, <2>1 DEF Cancel
  <2>2. CASE NewSubmission(m) \/ NoAnswer(m) \/ AnswerConfirmation(m)
             \/ AnswerPaper(m)
    BY <1>3, <2>2 DEF NewSubmission, NoAnswer, GiveUp, AnswerConfirmation,
                      AnswerPaper, Goto, NoLockYet
  <2>3. CASE AnswerField(m)
    BY <1>7, <2>3 DEF AnswerField
  <2>4. CASE AnswerDate(m)
    BY <1>5, <2>4 DEF AnswerDate
  <2>5. CASE AnswerSlides(m)
    BY <1>6, <1>8, <2>5 DEF AnswerSlides
  <2>6. CASE AnswerSlidesTitle(m)
    BY <1>8, <2>6 DEF AnswerSlidesTitle
  <2> QED
    BY <1>9, <2>1, <2>2, <2>3, <2>4, <2>5, <2>6 DEF Arrive
<1>10. ASSUME NEW m \in Messages, Continue(m) PROVE LockInv'
  <2>1. CASE ReadPaper(m)
    BY <1>7, <2>1 DEF ReadPaper
  <2>2. CASE ReadAgain(m)
    BY <1>7, <2>2 DEF ReadAgain
  <2>3. CASE ReadSlides(m)
    BY <1>5, <1>6, <2>3 DEF ReadSlides, AskAboutPdf
  <2>4. CASE ReadUnknown(m)
    BY <1>6, <2>4 DEF ReadUnknown, AskAboutPdf
  <2>5. CASE ReadingFails(m)
    BY <1>3, <2>5 DEF ReadingFails, GiveUp, Goto, NoLockYet
  <2>6. CASE Check(m)
    BY <1>5, <1>6, <2>6 DEF Check
  <2>7. CASE ConfirmStale(m) \/ ConfirmNo(m)
    BY <1>6, <2>7 DEF ConfirmStale, ConfirmNo
  <2>8. CASE ConfirmYes(m)
    BY <1>5, <2>8 DEF ConfirmYes
  <2>9. CASE Acquire(m)
    BY <2>9 DEF Acquire, Lock!Owns, LockInv, Inside, Goto, TypeOK
  <2>10. CASE PlanPaper(m) \/ PlanSlides(m)
    BY <1>4, <2>10 DEF PlanPaper, PlanSlides, Goto, Inside
  <2>11. CASE WritePaper(m) \/ WriteSlides(m)
    BY <1>4, <2>11 DEF WritePaper, WriteSlides, Goto, Inside
  <2>12. CASE WritingFails(m)
    BY <2>12, LeaveLock DEF WritingFails, GiveUp, Goto, Inside
  <2>13. CASE PaperDone(m)
    BY <2>13, LeaveLock DEF PaperDone, SaveAndEnd, Goto, Inside
  <2>14. CASE SlidesDone(m)
    BY <2>14, LeaveLock DEF SlidesDone, SaveAndEnd, Goto, Inside
  <2> QED
    BY <1>10, <2>1, <2>2, <2>3, <2>4, <2>5, <2>6, <2>7, <2>8, <2>9, <2>10,
       <2>11, <2>12, <2>13, <2>14 DEF Continue
<1> QED
  BY <1>1, <1>2, <1>9, <1>10 DEF Next

-----------------------------------------------------------------------------
(* The titles.                                                             *)

(* In the beginning no state has a question.                               *)
LEMMA InitTitle == Init => TitleInv
<1> SUFFICES ASSUME Init PROVE TitleInv
  OBVIOUS
<1>1. ASSUME NEW u \in Users PROVE KnowsPaper(file[u])
  <2>1. file[u].pending = ""
    BY DEF Init, Fresh
  <2> QED
    BY <2>1 DEF KnowsPaper
<1>2. ASSUME NEW m \in Messages PROVE TitleOK(m)
  <2>1. pc[m] = "idle"
    BY DEF Init
  <2> QED
    BY <2>1 DEF TitleOK, Queued, Inside
<1> QED
  BY <1>1, <1>2 DEF TitleInv

(* A step of the task of m.                                                *)
LEMMA TitleFrame ==
  ASSUME TitleInv, NEW m \in Messages, TitleOK(m)',
         \A u \in Users : KnowsPaper(file'[u]),
         \A n \in Messages \ {m} :
           pc'[n] = pc[n] /\ st'[n] = st[n] /\ job'[n] = job[n]
  PROVE  TitleInv'
BY DEF TitleInv, TitleOK, Queued, Inside

(* Saving a state that knows its paper, and ending.                        *)
LEMMA SaveTitle ==
  ASSUME TypeOK, TitleInv, NEW m \in Messages, NEW s, KnowsPaper(s),
         SaveAndEnd(m, s), UNCHANGED job
  PROVE  TitleInv'
<1>1. TitleOK(m)'
  BY DEF SaveAndEnd, Goto, TypeOK, TitleOK, Queued, Inside
<1>2. \A u \in Users : KnowsPaper(file'[u])
  BY MessageTypes DEF SaveAndEnd, Save, TypeOK, TitleInv
<1> QED
  BY <1>1, <1>2, TitleFrame DEF SaveAndEnd, Goto, TypeOK

(* Ending without saving.                                                  *)
LEMMA GiveUpTitle ==
  ASSUME TypeOK, TitleInv, NEW m \in Messages, GiveUp(m), UNCHANGED job
  PROVE  TitleInv'
<1>1. TitleOK(m)'
  BY DEF GiveUp, Goto, TypeOK, TitleOK, Queued, Inside
<1> QED
  BY <1>1, TitleFrame DEF GiveUp, Goto, TypeOK, TitleInv

(* Going on to the check with a title, or to read the document again.      *)
LEMMA KeepTitle ==
  ASSUME TypeOK, TitleInv, NEW m \in Messages, NEW s \in States,
         NEW label \in {"checking", "confirming", "rereading"},
         label # "rereading" => s.title \in Titles,
         Keep(m, s), Goto(m, label), UNCHANGED <<file, job>>
  PROVE  TitleInv'
<1>1. TitleOK(m)'
  BY DEF Keep, Goto, TypeOK, TitleOK, Queued, Inside
<1> QED
  BY <1>1, TitleFrame DEF Keep, Goto, TypeOK, TitleInv

(* Finishing a paper: a check needs the title, a question about it too.    *)
LEMMA FinishTitle ==
  ASSUME TypeOK, TitleInv, NEW m \in Messages, NEW s \in States,
         FinishPaper(m, s), UNCHANGED job
  PROVE  TitleInv'
<1>1. CASE Missing(s) # ""
  <2> DEFINE z == [s EXCEPT !.pending = Missing(s)]
  <2>1. Missing(s) \notin {"same_meeting_confirmation", "custom_meeting_date"}
    BY DEF Missing
  <2>2. z.pending = Missing(s)
    BY DEF States
  <2>3. KnowsPaper(z)
    BY <2>1, <2>2 DEF KnowsPaper
  <2>4. SaveAndEnd(m, z)
    BY <1>1 DEF FinishPaper
  <2> QED
    BY <2>3, <2>4, SaveTitle
<1>2. CASE Missing(s) = ""
  <2>1. s.title \in Titles
    BY <1>2, FieldTypes DEF Missing
  <2> QED
    BY <1>2, <2>1, KeepTitle DEF FinishPaper
<1> QED
  BY <1>1, <1>2

(* Going for the lock with a paper whose title is known.                   *)
LEMMA WaitTitle ==
  ASSUME TypeOK, TitleInv, NEW m \in Messages, NEW s \in States,
         NEW what, NEW o, WaitForLock(m, s, what, o),
         what = "paper" => s.title \in Titles,
         what = "slides" => s.pending = ""
  PROVE  TitleInv'
<1>1. TitleOK(m)'
  BY DEF WaitForLock, Keep, Goto, TypeOK, TitleOK, Queued, Inside
<1> QED
  BY <1>1, TitleFrame DEF WaitForLock, Keep, Goto, TypeOK, TitleInv

(* Going for the lock with slides that waited for their title.             *)
LEMMA PendingTitle ==
  ASSUME TypeOK, TitleInv, NEW m \in Messages, NEW s \in States,
         FinishPendingPpt(m, s)
  PROVE  TitleInv'
<1>1. CASE s.pdf \in pdfs
  BY <1>1, WaitTitle DEF FinishPendingPpt
<1>2. CASE s.pdf \notin pdfs
  <2> DEFINE z == [s EXCEPT !.pdf = NoPdf, !.pending = ""]
  <2>1. z.pending = ""
    BY DEF States
  <2>2. KnowsPaper(z)
    BY <2>1 DEF KnowsPaper
  <2>3. SaveAndEnd(m, z) /\ UNCHANGED job
    BY <1>2 DEF FinishPendingPpt, NoLockYet, planVars
  <2> HIDE DEF z
  <2> QED
    BY <2>2, <2>3, SaveTitle
<1> QED
  BY <1>1, <1>2

(* A message that arrives.                                                 *)
LEMMA ArriveTitle ==
  ASSUME TypeOK, TitleInv, NEW m \in Messages, Arrive(m)
  PROVE  TitleInv'
<1> DEFINE s == Arrived(m)
<1>1. s \in States /\ KnowsPaper(s)
  BY MessageTypes DEF Arrived, TypeOK, TitleInv
<1>2. Fresh(s.last) \in States /\ Fresh(s.last).pending = ""
  BY <1>1, FieldTypes, FreshType DEF Fresh
<1>3. KnowsPaper(Fresh(s.last))
  BY <1>2 DEF KnowsPaper
<1>4. NoLockYet => UNCHANGED job
  BY DEF NoLockYet, planVars
<1>5. CASE Cancel(m)
  BY <1>3, <1>4, <1>5, SaveTitle DEF Cancel
<1>6. CASE NewSubmission(m)
  <2> DEFINE z == [Fresh(s.last) EXCEPT !.source = KindOf[m]]
  <2>1. z.pending = ""
    BY <1>2 DEF States
  <2>2. Keep(m, z) /\ Goto(m, "reading") /\ Save(m, Fresh(s.last)) /\ UNCHANGED job
    BY <1>4, <1>6 DEF NewSubmission
  <2> HIDE DEF z
  <2>3. TitleOK(m)'
    BY <2>1, <2>2 DEF Keep, Goto, TypeOK, TitleOK, Queued, Inside
  <2>4. \A u \in Users : KnowsPaper(file'[u])
    BY <1>3, <2>2, MessageTypes DEF Save, TypeOK, TitleInv
  <2> QED
    BY <2>2, <2>3, <2>4, TitleFrame DEF Keep, Goto, TypeOK
<1>7. CASE NoAnswer(m)
  BY <1>4, <1>7, GiveUpTitle DEF NoAnswer
<1>8. CASE AnswerField(m)
  <2> DEFINE title == IF s.pending = "title" THEN PaperOf[m] ELSE s.title
             z == [[[s EXCEPT !.title = title] EXCEPT !.lacks = s.lacks \ {s.pending}]
                    EXCEPT !.pending = ""]
  <2>1. [s EXCEPT !.title = title] \in States
    BY <1>1, MessageTypes, FieldTypes, StateTypes
  <2>2. [[s EXCEPT !.title = title] EXCEPT !.lacks = s.lacks \ {s.pending}] \in States
    BY <1>1, <2>1, FieldTypes, StateTypes
  <2>3. z \in States
    BY <2>2, StateTypes, QuestionTypes
  <2>4. FinishPaper(m, z)
    BY <1>1, <1>8 DEF AnswerField, States
  <2> QED
    BY <1>4, <1>8, <2>3, <2>4, FinishTitle DEF AnswerField
<1>9. CASE AnswerConfirmation(m)
  <2>1. s.title \in Titles
    BY <1>1, <1>9 DEF AnswerConfirmation, Answers, KnowsPaper
  <2> QED
    BY <1>1, <1>4, <1>9, <2>1, KeepTitle DEF AnswerConfirmation
<1>10. CASE AnswerDate(m)
  <2> DEFINE z == [s EXCEPT !.pending = ""]
  <2>1. PICK d \in Dates : WaitForLock(m, z, "paper", d)
    BY <1>10 DEF AnswerDate
  <2>2. s.title \in Titles
    BY <1>1, <1>10 DEF AnswerDate, Answers, KnowsPaper
  <2>3. z \in States /\ z.title = s.title
    BY <1>1, StateTypes, QuestionTypes DEF States
  <2> HIDE DEF z
  <2> QED
    BY <2>1, <2>2, <2>3, WaitTitle
<1>11. CASE AnswerPaper(m)
  BY <1>1, <1>4, <1>11, KeepTitle DEF AnswerPaper
<1>12. CASE AnswerSlides(m)
  <2> DEFINE z == [s EXCEPT !.pending = "ppt_title"]
  <2>1. z \in States /\ z.last = s.last /\ z.pending = "ppt_title"
    BY <1>1, StateTypes, QuestionTypes DEF States
  <2>2. CASE s.last # NoTitle
    <3>1. [z EXCEPT !.title = s.last] \in States
      BY <1>1, <2>1, FieldTypes, StateTypes
    <3>2. FinishPendingPpt(m, [z EXCEPT !.title = s.last])
      BY <1>12, <2>1, <2>2 DEF AnswerSlides
    <3> QED
      BY <3>1, <3>2, PendingTitle
  <2>3. CASE s.last = NoTitle
    <3>1. SaveAndEnd(m, z) /\ UNCHANGED job
      BY <1>4, <1>12, <2>1, <2>3 DEF AnswerSlides
    <3>2. KnowsPaper(z)
      BY <2>1 DEF KnowsPaper
    <3> QED
      BY <3>1, <3>2, SaveTitle
  <2> QED
    BY <2>2, <2>3
<1>13. CASE AnswerSlidesTitle(m)
  <2>1. [s EXCEPT !.title = PaperOf[m]] \in States
    BY <1>1, MessageTypes, StateTypes
  <2> QED
    BY <1>13, <2>1, PendingTitle DEF AnswerSlidesTitle
<1> QED
  BY <1>5, <1>6, <1>7, <1>8, <1>9, <1>10, <1>11, <1>12, <1>13 DEF Arrive

(* A message that is being handled.                                        *)
LEMMA ContinueTitle ==
  ASSUME TypeOK, TitleInv, NEW m \in Messages, Continue(m)
  PROVE  TitleInv'
<1>1. st[m] \in States
  BY DEF TypeOK
<1>2. NoLockYet => UNCHANGED job
  BY DEF NoLockYet, planVars
<1>3. ASSUME NEW z \in States, NEW q \in {"pdf_kind", "ppt_title"},
             AskAboutPdf(m, z, q), NoLockYet
      PROVE  TitleInv'
  <2> DEFINE w == [z EXCEPT !.pdf = PdfOf[m], !.pending = q]
  <2>1. w.pending = q
    BY DEF States
  <2>2. KnowsPaper(w)
    BY <2>1 DEF KnowsPaper
  <2>3. SaveAndEnd(m, w)
    BY <1>3 DEF AskAboutPdf
  <2> HIDE DEF w
  <2> QED
    BY <1>2, <1>3, <2>2, <2>3, SaveTitle
<1>4. ASSUME NEW lacks \in Lacking(m), pc[m] = "reading"
      PROVE  /\ SpeakerKnown(m, lacks) \in States
             /\ SpeakerKnown(m, lacks).pending = ""
             /\ SpeakerKnown(m, lacks).last = st[m].last
  <2>1. SpeakerKnown(m, lacks) \in States
    BY <1>1, StateTypes DEF SpeakerKnown
  <2>2. /\ SpeakerKnown(m, lacks).pending = st[m].pending
        /\ SpeakerKnown(m, lacks).last = st[m].last
    BY <1>1 DEF SpeakerKnown, States
  <2>3. st[m].pending = ""
    BY <1>4 DEF TitleInv, TitleOK
  <2> QED
    BY <2>1, <2>2, <2>3
<1>5. ASSUME TitleOK(m)', file' = file, job' = job,
             \A n \in Messages \ {m} : pc'[n] = pc[n] /\ st'[n] = st[n]
      PROVE  TitleInv'
  BY <1>5, TitleFrame DEF TitleInv
<1>6. CASE ReadPaper(m)
  BY <1>1, <1>2, <1>6, MetadataType, FinishTitle DEF ReadPaper
<1>7. CASE ReadAgain(m)
  <2>1. PICK lacks \in Lacking(m) :
          LET s == WithMetadata(m, st[m], lacks)
              kept == st[m].lacks \cap {"speaker"}
          IN  FinishPaper(m, [s EXCEPT !.lacks = (@ \ {"speaker"}) \cup kept,
                                       !.pdf = NoPdf])
    BY <1>7 DEF ReadAgain
  <2> DEFINE s == WithMetadata(m, st[m], lacks)
             left == (s.lacks \ {"speaker"}) \cup (st[m].lacks \cap {"speaker"})
  <2>2. s \in States
    BY <1>1, MetadataType
  <2>3. left \in SUBSET Fields
    BY <1>1, <2>2, FieldTypes
  <2>4. [s EXCEPT !.lacks = left] \in States
    BY <2>2, <2>3, StateTypes
  <2>5. [[s EXCEPT !.lacks = left] EXCEPT !.pdf = NoPdf] \in States
    BY <2>4, StateTypes
  <2>6. FinishPaper(m, [[s EXCEPT !.lacks = left] EXCEPT !.pdf = NoPdf])
    BY <2>1, <2>2 DEF States
  <2> QED
    BY <1>2, <1>7, <2>5, <2>6, FinishTitle DEF ReadAgain
<1>8. CASE ReadSlides(m)
  <2>1. PICK lacks \in Lacking(m) :
          LET s == SpeakerKnown(m, lacks)
              title == IF s.last # NoTitle THEN s.last
                       ELSE WithMetadata(m, s, lacks).title
          IN  IF title # NoTitle
              THEN /\ WaitForLock(m, [s EXCEPT !.title = title], "slides", NoTime)
                   /\ UNCHANGED pdfs
              ELSE AskAboutPdf(m, s, "ppt_title") /\ NoLockYet
    BY <1>8 DEF ReadSlides
  <2> DEFINE s == SpeakerKnown(m, lacks)
             title == IF s.last # NoTitle THEN s.last
                      ELSE WithMetadata(m, s, lacks).title
             z == [s EXCEPT !.title = title]
  <2>2. s \in States /\ s.pending = ""
    BY <1>4, <1>8 DEF ReadSlides
  <2>3. title \in Titles \cup {NoTitle}
    BY <2>2, MetadataType, FieldTypes
  <2>4. z \in States /\ z.pending = ""
    BY <2>2, <2>3, StateTypes DEF States
  <2>5. CASE title # NoTitle
    <3>1. WaitForLock(m, z, "slides", NoTime)
      BY <2>1, <2>5
    <3> HIDE DEF z
    <3> QED
      BY <2>4, <3>1, WaitTitle
  <2>6. CASE title = NoTitle
    <3>1. AskAboutPdf(m, s, "ppt_title") /\ NoLockYet
      BY <2>1, <2>6
    <3> QED
      BY <1>3, <2>2, <3>1
  <2> QED
    BY <2>5, <2>6
<1>9. CASE ReadUnknown(m)
  BY <1>3, <1>4, <1>9 DEF ReadUnknown
<1>10. CASE ReadingFails(m)
  BY <1>2, <1>10, GiveUpTitle DEF ReadingFails
<1>11. ASSUME pc[m] \in {"checking", "confirming"}
       PROVE  st[m].title \in Titles
  BY <1>11 DEF TitleInv, TitleOK
<1>12. CASE Check(m)
  <2> DEFINE z == [st[m] EXCEPT !.pending = "same_meeting_confirmation",
                                !.proposed = NextMeeting(table)]
  <2>1. z.title \in Titles
    BY <1>1, <1>11, <1>12 DEF Check, States
  <2>2. KnowsPaper(z)
    BY <2>1 DEF KnowsPaper
  <2>3. \/ SaveAndEnd(m, z) /\ NoLockYet
        \/ WaitForLock(m, st[m], "paper", NoTime)
    BY <1>12 DEF Check
  <2> HIDE DEF z
  <2> QED
    BY <1>1, <1>2, <1>11, <1>12, <2>2, <2>3, SaveTitle, WaitTitle DEF Check
<1>13. CASE ConfirmStale(m)
  <2> DEFINE z == [st[m] EXCEPT !.proposed = NextMeeting(table)]
  <2>1. z.title \in Titles
    BY <1>1, <1>11, <1>13 DEF ConfirmStale, States
  <2>2. KnowsPaper(z) /\ SaveAndEnd(m, z) /\ UNCHANGED job
    BY <1>2, <1>13, <2>1 DEF KnowsPaper, ConfirmStale
  <2> HIDE DEF z
  <2> QED
    BY <2>2, SaveTitle
<1>14. CASE ConfirmYes(m)
  <2> DEFINE z == [st[m] EXCEPT !.pending = ""]
  <2>1. z \in States /\ z.title \in Titles
    BY <1>1, <1>11, <1>14, StateTypes, QuestionTypes DEF ConfirmYes, States
  <2>2. WaitForLock(m, z, "paper", st[m].proposed)
    BY <1>14 DEF ConfirmYes
  <2> HIDE DEF z
  <2> QED
    BY <2>1, <2>2, WaitTitle
<1>15. CASE ConfirmNo(m)
  <2> DEFINE z == [st[m] EXCEPT !.pending = "custom_meeting_date"]
  <2>1. z.title \in Titles
    BY <1>1, <1>11, <1>15 DEF ConfirmNo, States
  <2>2. KnowsPaper(z) /\ SaveAndEnd(m, z) /\ UNCHANGED job
    BY <1>2, <1>15, <2>1 DEF KnowsPaper, ConfirmNo
  <2> HIDE DEF z
  <2> QED
    BY <2>2, SaveTitle
<1>16. CASE Acquire(m)
  <2>1. TitleOK(m)'
    BY <1>16 DEF Acquire, Goto, TypeOK, TitleInv, TitleOK, Queued, Inside, planVars
  <2> QED
    BY <1>5, <1>16, <2>1 DEF Acquire, Goto, TypeOK, planVars
<1>17. CASE PlanPaper(m) \/ PlanSlides(m)
  <2>1. TitleOK(m)'
    BY <1>17 DEF PlanPaper, PlanSlides, Goto, TypeOK, TitleInv, TitleOK, Queued, Inside
  <2> QED
    BY <1>5, <1>17, <2>1 DEF PlanPaper, PlanSlides, Goto, TypeOK
<1>18. CASE WritePaper(m) \/ WriteSlides(m)
  <2>1. TitleOK(m)'
    BY <1>18 DEF WritePaper, WriteSlides, Goto, TypeOK, TitleInv, TitleOK,
                 Queued, Inside, planVars
  <2> QED
    BY <1>5, <1>18, <2>1 DEF WritePaper, WriteSlides, Goto, TypeOK, planVars
<1>19. CASE WritingFails(m)
  BY <1>19, GiveUpTitle DEF WritingFails, planVars
<1>20. CASE PaperDone(m)
  <2> DEFINE z == [Fresh(st[m].title) EXCEPT !.pdf = st[m].pdf]
  <2>1. z.pending = ""
    BY DEF Fresh
  <2>2. KnowsPaper(z) /\ SaveAndEnd(m, z) /\ UNCHANGED job
    BY <1>20, <2>1 DEF KnowsPaper, PaperDone, planVars
  <2> HIDE DEF z
  <2> QED
    BY <2>2, SaveTitle
<1>21. CASE SlidesDone(m)
  <2> DEFINE s == [st[m] EXCEPT !.last = st[m].title, !.title = NoTitle]
             z == [s EXCEPT !.pending = "", !.pdf = NoPdf]
  <2>1. z.pending = ""
    BY <1>1 DEF States
  <2>2. job[m] = "slides" => s.pending = ""
    BY <1>1, <1>21 DEF SlidesDone, States, TitleInv, TitleOK, Queued, Inside
  <2>3. /\ UNCHANGED job
        /\ IF job[m] = "slides" THEN SaveAndEnd(m, s) ELSE SaveAndEnd(m, z)
    BY <1>21 DEF SlidesDone, planVars
  <2>4. KnowsPaper(z) /\ (job[m] = "slides" => KnowsPaper(s))
    BY <2>1, <2>2 DEF KnowsPaper
  <2> HIDE DEF z, s
  <2> QED
    BY <2>3, <2>4, SaveTitle
<1> QED
  BY <1>6, <1>7, <1>8, <1>9, <1>10, <1>12, <1>13, <1>14, <1>15, <1>16, <1>17,
     <1>18, <1>19, <1>20, <1>21 DEF Continue

(* The titles are inductive with the types.                                *)
LEMMA TitleStep ==
  ASSUME TypeOK, TitleInv, [Next]_vars
  PROVE  TitleInv'
<1>1. CASE UNCHANGED vars
  BY <1>1 DEF vars, taskVars, planVars, TitleInv, TitleOK, Queued, Inside
<1>2. CASE Tick
  BY <1>2 DEF Tick, taskVars, planVars, TitleInv, TitleOK, Queued, Inside
<1>3. ASSUME NEW m \in Messages, Arrive(m) \/ Continue(m)
      PROVE  TitleInv'
  BY <1>3, ArriveTitle, ContinueTitle
<1> QED
  BY <1>1, <1>2, <1>3 DEF Next

-----------------------------------------------------------------------------
(* The plans and the table.                                                *)

(* In the beginning nobody writes.                                         *)
LEMMA InitPlan == Init => PlanInv /\ OneRowPerPaper
BY TableAssumption DEF Init, PlanInv, OneRowPerPaper

(* A step that leaves the table and the plans alone.                       *)
LEMMA PlanFrame ==
  ASSUME PlanInv, table' = table,
         \A n \in Messages : pc'[n] = "writing" =>
           /\ pc[n] = "writing" /\ st'[n] = st[n]
           /\ job'[n] = job[n] /\ row'[n] = row[n] /\ time'[n] = time[n]
  PROVE  PlanInv'
BY DEF PlanInv, PlanOK

(* A step of the task of m that does not end where it writes.              *)
LEMMA TaskFrame ==
  ASSUME TypeOK, PlanInv, table' = table, NEW m \in Messages,
         NEW label \in PCs \ {"writing"}, Goto(m, label),
         \A n \in Messages \ {m} :
           /\ st'[n] = st[n] /\ job'[n] = job[n]
           /\ row'[n] = row[n] /\ time'[n] = time[n]
  PROVE  PlanInv'
BY PlanFrame DEF Goto, TypeOK

(* Saving and ending touches no plan.                                      *)
LEMMA SavePlan ==
  ASSUME TypeOK, PlanInv, table' = table, NEW m \in Messages, NEW s,
         SaveAndEnd(m, s), UNCHANGED planVars
  PROVE  PlanInv'
BY TaskFrame DEF SaveAndEnd, planVars, PCs

(* Finishing a paper touches no plan.                                      *)
LEMMA FinishPlan ==
  ASSUME TypeOK, PlanInv, table' = table, NEW m \in Messages, NEW s,
         FinishPaper(m, s), UNCHANGED planVars
  PROVE  PlanInv'
<1>1. CASE Missing(s) # ""
  BY <1>1, SavePlan DEF FinishPaper
<1>2. CASE Missing(s) = ""
  BY <1>2, TaskFrame DEF FinishPaper, Keep, planVars, PCs, TypeOK
<1> QED
  BY <1>1, <1>2

(* A task that goes for the lock has no plan yet.                          *)
LEMMA WaitPlan ==
  ASSUME TypeOK, PlanInv, table' = table, NEW m \in Messages, NEW s, NEW what,
         NEW o, WaitForLock(m, s, what, o)
  PROVE  PlanInv'
BY TaskFrame DEF WaitForLock, Keep, PCs, TypeOK

(* Nor has one with slides that waited for their title.                    *)
LEMMA PendingPlan ==
  ASSUME TypeOK, PlanInv, table' = table, NEW m \in Messages, NEW s,
         FinishPendingPpt(m, s)
  PROVE  PlanInv'
BY SavePlan, WaitPlan DEF FinishPendingPpt, NoLockYet

(* A message that arrives.                                                 *)
LEMMA ArrivePlan ==
  ASSUME TypeOK, PlanInv, NEW m \in Messages, Arrive(m)
  PROVE  PlanInv' /\ table' = table
<1>1. CASE Cancel(m)
  BY <1>1, SavePlan DEF Cancel, NoLockYet
<1>2. CASE NewSubmission(m)
  BY <1>2, TaskFrame DEF NewSubmission, NoLockYet, Keep, planVars, PCs, TypeOK
<1>3. CASE NoAnswer(m)
  BY <1>3, TaskFrame DEF NoAnswer, GiveUp, NoLockYet, planVars, PCs
<1>4. CASE AnswerField(m)
  BY <1>4, FinishPlan DEF AnswerField, NoLockYet
<1>5. CASE AnswerConfirmation(m)
  BY <1>5, TaskFrame DEF AnswerConfirmation, NoLockYet, Keep, planVars, PCs, TypeOK
<1>6. CASE AnswerDate(m)
  BY <1>6, WaitPlan DEF AnswerDate
<1>7. CASE AnswerPaper(m)
  BY <1>7, TaskFrame DEF AnswerPaper, NoLockYet, Keep, planVars, PCs, TypeOK
<1>8. CASE AnswerSlides(m)
  BY <1>8, SavePlan, PendingPlan DEF AnswerSlides, NoLockYet
<1>9. CASE AnswerSlidesTitle(m)
  BY <1>9, PendingPlan DEF AnswerSlidesTitle
<1> QED
  BY <1>1, <1>2, <1>3, <1>4, <1>5, <1>6, <1>7, <1>8, <1>9 DEF Arrive

(* A message that is being handled, up to the lock and after it.           *)
LEMMA ContinuePlan ==
  ASSUME TypeOK, PlanInv, NEW m \in Messages,
         \/ ReadPaper(m) \/ ReadAgain(m) \/ ReadSlides(m) \/ ReadUnknown(m)
         \/ ReadingFails(m) \/ Check(m)
         \/ ConfirmStale(m) \/ ConfirmYes(m) \/ ConfirmNo(m)
         \/ Acquire(m) \/ WritingFails(m) \/ PaperDone(m) \/ SlidesDone(m)
  PROVE  PlanInv' /\ table' = table
<1>1. CASE ReadPaper(m)
  BY <1>1, FinishPlan DEF ReadPaper, NoLockYet
<1>2. CASE ReadAgain(m)
  BY <1>2, FinishPlan DEF ReadAgain, NoLockYet
<1>3. CASE ReadSlides(m)
  BY <1>3, WaitPlan, SavePlan DEF ReadSlides, AskAboutPdf, NoLockYet
<1>4. CASE ReadUnknown(m)
  BY <1>4, SavePlan DEF ReadUnknown, AskAboutPdf, NoLockYet
<1>5. CASE ReadingFails(m)
  BY <1>5, TaskFrame DEF ReadingFails, GiveUp, NoLockYet, planVars, PCs
<1>6. CASE Check(m)
  BY <1>6, WaitPlan, SavePlan DEF Check, NoLockYet
<1>7. CASE ConfirmStale(m)
  BY <1>7, SavePlan DEF ConfirmStale, NoLockYet
<1>8. CASE ConfirmYes(m)
  BY <1>8, WaitPlan DEF ConfirmYes
<1>9. CASE ConfirmNo(m)
  BY <1>9, SavePlan DEF ConfirmNo, NoLockYet
<1>10. CASE Acquire(m)
  BY <1>10, TaskFrame DEF Acquire, planVars, PCs
<1>11. CASE WritingFails(m)
  BY <1>11, TaskFrame DEF WritingFails, GiveUp, planVars, PCs
<1>12. CASE PaperDone(m)
  BY <1>12, SavePlan DEF PaperDone
<1>13. CASE SlidesDone(m)
  BY <1>13, SavePlan DEF SlidesDone
<1> QED
  BY <1>1, <1>2, <1>3, <1>4, <1>5, <1>6, <1>7, <1>8, <1>9, <1>10, <1>11, <1>12,
     <1>13

(* A plan is made on the table it will be written to: there is one row of  *)
(* the paper at most, so it is the row that is planned.                    *)
LEMMA MakePlan ==
  ASSUME TypeOK, PlanInv, OneRowPerPaper, NEW m \in Messages,
         PlanPaper(m) \/ PlanSlides(m)
  PROVE  PlanInv'
<1>1. ASSUME NEW n \in Messages \ {m}
      PROVE  /\ pc'[n] = pc[n] /\ st'[n] = st[n] /\ job'[n] = job[n]
             /\ row'[n] = row[n] /\ time'[n] = time[n] /\ table' = table
  BY DEF PlanPaper, PlanSlides, Goto, TypeOK
<1>2. PlanOK(m)'
  <2>1. CASE PlanPaper(m)
    <3>1. PICK i \in IF RowsOf(table, st[m].title) = {} THEN {0}
                     ELSE RowsOf(table, st[m].title) :
            /\ row' = [row EXCEPT ![m] = i]
            /\ time' = [time EXCEPT ![m] = IF NeedsTime(table, i)
                                           THEN Scheduled(table, over[m])
                                           ELSE NoTime]
      BY <2>1 DEF PlanPaper
    <3>2. row'[m] = i /\ (time'[m] # NoTime => NeedsTime(table, i))
      BY <3>1 DEF TypeOK
    <3>3. job'[m] = "paper" /\ st'[m] = st[m] /\ table' = table
      BY <2>1 DEF PlanPaper
    <3>4. CASE RowsOf(table, st[m].title) = {}
      <4>1. i = 0
        BY <3>1, <3>4
      <4> QED
        BY <3>2, <3>3, <3>4, <4>1 DEF PlanOK
    <3>5. CASE RowsOf(table, st[m].title) # {}
      <4>1. i \in RowsOf(table, st[m].title)
        BY <3>1, <3>5
      <4>2. i # 0
        BY <4>1, RowType DEF RowsOf, TypeOK
      <4>3. RowsOf(table, st[m].title) = {i}
        BY <4>1 DEF RowsOf, OneRowPerPaper, UniqueIn
      <4> QED
        BY <3>2, <3>3, <4>2, <4>3 DEF PlanOK, NeedsTime
    <3> QED
      BY <3>4, <3>5
  <2>2. CASE PlanSlides(m)
    <3>1. PICK i \in SlidesRows(table, st[m].title, UserOf[m]) :
            row' = [row EXCEPT ![m] = i]
      BY <2>2 DEF PlanSlides
    <3>2. i \in DOMAIN table
      BY <3>1 DEF SlidesRows, RowsOf
    <3>3. row'[m] = i
      BY <3>1 DEF TypeOK
    <3>4. job'[m] # "paper" /\ table' = table
      BY <2>2 DEF PlanSlides
    <3> QED
      BY <3>2, <3>3, <3>4 DEF PlanOK
  <2> QED
    BY <2>1, <2>2
<1>3. ASSUME NEW n \in Messages \ {m}, pc'[n] = "writing"
      PROVE  PlanOK(n)'
  BY <1>1, <1>3 DEF PlanInv, PlanOK
<1> QED
  BY <1>2, <1>3 DEF PlanInv

(* Nothing that a row holds is lost between two tables.                    *)
RowsKept(s, t) ==
  \A i \in DOMAIN s :
    /\ i \in DOMAIN t
    /\ t[i].title = s[i].title
    /\ s[i].time # NoTime => t[i].time = s[i].time
    /\ s[i].slides => t[i].slides

(* Writing a paper keeps what the rows hold, and adds no second row.       *)
LEMMA PaperWritten ==
  ASSUME IInv, NEW m \in Messages, WritePaper(m)
  PROVE  RowsKept(table, table') /\ UniqueIn(table')
<1> DEFINE i == row[m]
<1>1. table \in Seq(Rows) /\ PlanOK(m) /\ job[m] = "paper" /\ UniqueIn(table)
  BY DEF IInv, TypeOK, PlanInv, WritePaper, OneRowPerPaper
<1>2. CASE i = 0
  <2>1. RowsOf(table, st[m].title) = {}
    BY <1>1, <1>2 DEF PlanOK
  <2> DEFINE r == [title |-> st[m].title, speaker |-> UserOf[m],
                   time |-> time[m], asked |-> over[m] # NoTime,
                   slides |-> FALSE]
  <2>2. table' = Append(table, r) /\ r.title = st[m].title
    BY <1>2 DEF WritePaper
  <2> HIDE DEF r
  <2>3. /\ DOMAIN table' = DOMAIN table \cup {Len(table) + 1}
        /\ \A k \in DOMAIN table : table'[k] = table[k]
        /\ table'[Len(table) + 1] = r
    BY <1>1, <2>2
  <2>4. \A k \in DOMAIN table : table[k].title # st[m].title
    BY <2>1 DEF RowsOf
  <2> QED
    BY <1>1, <2>2, <2>3, <2>4 DEF RowsKept, UniqueIn
<1>3. CASE i # 0
  <2>1. RowsOf(table, st[m].title) = {i}
    BY <1>1, <1>3 DEF PlanOK
  <2>2. i \in DOMAIN table /\ table[i].title = st[m].title
    BY <2>1 DEF RowsOf
  <2>3. table[i] \in Rows
    BY <1>1, <2>2, RowType
  <2>4. table' = [table EXCEPT ![i].title = st[m].title,
                               ![i].speaker = UserOf[m],
                               ![i].time = IF time[m] = NoTime THEN @ ELSE time[m]]
    BY <1>3 DEF WritePaper
  <2>5. /\ DOMAIN table' = DOMAIN table
        /\ \A k \in DOMAIN table \ {i} : table'[k] = table[k]
        /\ table'[i].title = st[m].title
        /\ table'[i].time = IF time[m] = NoTime THEN table[i].time ELSE time[m]
        /\ table'[i].slides = table[i].slides
    BY <1>1, <2>2, <2>3, <2>4 DEF Rows
  <2>6. table[i].time # NoTime => table'[i].time = table[i].time
    BY <1>1, <1>3, <2>5 DEF PlanOK
  <2>7. \A k \in DOMAIN table : table'[k].title = table[k].title
    BY <2>2, <2>5
  <2> QED
    BY <1>1, <2>5, <2>6, <2>7 DEF RowsKept, UniqueIn
<1> QED
  BY <1>2, <1>3

(* So does attaching slides.                                               *)
LEMMA SlidesWritten ==
  ASSUME IInv, NEW m \in Messages, WriteSlides(m)
  PROVE  RowsKept(table, table') /\ UniqueIn(table')
<1> DEFINE i == row[m]
<1>1. table \in Seq(Rows) /\ PlanOK(m) /\ job[m] # "paper" /\ UniqueIn(table)
  BY DEF IInv, TypeOK, PlanInv, WriteSlides, OneRowPerPaper
<1>2. i \in DOMAIN table
  BY <1>1 DEF PlanOK
<1>3. table[i] \in Rows
  BY <1>1, <1>2, RowType
<1>4. /\ DOMAIN table' = DOMAIN table
      /\ \A k \in DOMAIN table \ {i} : table'[k] = table[k]
      /\ table'[i].title = table[i].title
      /\ table'[i].time = table[i].time
      /\ table'[i].slides
  BY <1>1, <1>2, <1>3 DEF WriteSlides, Rows
<1>5. \A k \in DOMAIN table : table'[k].title = table[k].title
  BY <1>4
<1> QED
  BY <1>1, <1>4, <1>5 DEF RowsKept, UniqueIn

(* Every step keeps the rows, and the plans fit what is there.             *)
LEMMA TableStep ==
  ASSUME IInv, [Next]_vars
  PROVE  PlanInv' /\ OneRowPerPaper' /\ RowsKept(table, table')
<1> USE DEF IInv
<1>1. ASSUME table' = table
      PROVE  OneRowPerPaper' /\ RowsKept(table, table')
  BY <1>1 DEF OneRowPerPaper, RowsKept
<1>2. CASE UNCHANGED vars \/ Tick
  BY <1>1, <1>2, PlanFrame DEF vars, taskVars, planVars, Tick
<1>3. ASSUME NEW m \in Messages, Arrive(m)
      PROVE  PlanInv' /\ OneRowPerPaper' /\ RowsKept(table, table')
  BY <1>1, <1>3, ArrivePlan
<1>4. ASSUME NEW m \in Messages, Continue(m)
      PROVE  PlanInv' /\ OneRowPerPaper' /\ RowsKept(table, table')
  <2>1. CASE PlanPaper(m) \/ PlanSlides(m)
    <3>1. table' = table
      BY <2>1 DEF PlanPaper, PlanSlides
    <3> QED
      BY <1>1, <2>1, <3>1, MakePlan
  <2>2. CASE WritePaper(m) \/ WriteSlides(m)
    <3>1. pc[m] = "writing" /\ pc' = [pc EXCEPT ![m] = "written"]
      BY <2>2 DEF WritePaper, WriteSlides, Goto
    <3>2. \A n \in Messages : pc'[n] # "writing"
      BY <3>1, Alone DEF Inside, TypeOK
    <3> QED
      BY <2>2, <3>2, PaperWritten, SlidesWritten DEF PlanInv, OneRowPerPaper
  <2>3. CASE ~(PlanPaper(m) \/ PlanSlides(m) \/ WritePaper(m) \/ WriteSlides(m))
    BY <1>1, <1>4, <2>3, ContinuePlan DEF Continue
  <2> QED
    BY <2>1, <2>2, <2>3
<1> QED
  BY <1>2, <1>3, <1>4 DEF Next

-----------------------------------------------------------------------------
(* The theorems.                                                           *)

(* The invariant that the others follow from: whoever is inside the lock   *)
(* is alone there, and its plan fits the table.                            *)
THEOREM Inductive == Spec => []IInv
<1>1. Init => IInv
  BY InitType, InitLock, InitTitle, InitPlan DEF IInv
<1>2. IInv /\ [Next]_vars => IInv'
  BY TypeStep, LockStep, TitleStep, TableStep DEF IInv
<1> QED
  BY <1>1, <1>2, PTL DEF Spec

(* Every variable keeps its type.                                          *)
THEOREM TypeCorrect == Spec => []TypeOK
<1>1. IInv => TypeOK
  BY DEF IInv
<1> QED
  BY <1>1, Inductive, PTL

(* No paper ever gets a second row, however many submissions, failures and *)
(* retries there are.                                                      *)
THEOREM NoSecondRow == Spec => []OneRowPerPaper
<1>1. IInv => OneRowPerPaper
  BY DEF IInv
<1> QED
  BY <1>1, Inductive, PTL

(* What was planned from the table fits the table that is written.         *)
THEOREM PlansFit == Spec => []PlanFits
<1>1. IInv => PlanFits
  BY DEF IInv, PlanInv, PlanOK, PlanFits
<1> QED
  BY <1>1, Inductive, PTL

(* A paper keeps its title, its meeting and its slides.                    *)
THEOREM NoMeetingLost == Spec => MeetingsKept
<1>1. IInv /\ [Next]_vars =>
        [\A i \in DOMAIN table :
           /\ i \in DOMAIN table'
           /\ table'[i].title = table[i].title
           /\ table[i].time # NoTime => table'[i].time = table[i].time
           /\ table[i].slides => table'[i].slides]_vars
  BY TableStep DEF RowsKept
<1> QED
  BY <1>1, Inductive, PTL DEF Spec, MeetingsKept
=============================================================================
