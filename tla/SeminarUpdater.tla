--------------------------- MODULE SeminarUpdater ---------------------------
(***************************************************************************)
(* The plugin seminar_excel_updater: private messages of the members of a  *)
(* seminar fill in the seminar's table.  Each message is handled by a task *)
(* of its own, and no lock keeps two messages of one user apart: a task    *)
(* loads the user's state when it starts and saves its own copy later.     *)
(* Only _write_lock orders the tasks, around loading the table, planning   *)
(* and writing.  The table and the conversion of dates are external.       *)
(*                                                                         *)
(*   file     the saved UserState of each user                             *)
(*   pdfs     the pending PDF files, named by their content                *)
(*   table    the rows of the table                                        *)
(*   now      the present: a meeting later than now is in the future       *)
(*   lockq    _write_lock                                                  *)
(*   pc, st   where the task of a message is, and its copy of the state    *)
(*   job      what a task wants the lock for                               *)
(*   over     scheduled_time_override, NoTime for None                     *)
(*   row, time    the plan: the row to write (0: a new one) and the time   *)
(*                that goes there (NoTime: the row keeps its own)          *)
(***************************************************************************)
EXTENDS Integers, Sequences, SequencesExt, FiniteSets

CONSTANTS
  Messages, UserOf,
  KindOf,      \* "url", "pdf" or "text"
  PaperOf,     \* the title that a message carries, or that its user types
  PdfOf,       \* the content of a PDF
  Users, Titles, NoTitle, NoPdf,
  LackSets,    \* what may be missing in what was found
  Dates,       \* the dates a user may ask for
  OldTable,    \* the table in the beginning
  Week, LastTick

MaxOf(S) == CHOOSE x \in S : \A y \in S : y <= x
MinOf(S) == CHOOSE x \in S : \A y \in S : x <= y

Fields == {"venue", "speaker", "paper_link"}
NoTime == 0

Rows == [title : Titles, speaker : Users, time : Nat, asked : BOOLEAN,
         slides : BOOLEAN]

UniqueIn(t) == \A i, j \in DOMAIN t : t[i].title = t[j].title => i = j

ASSUME KindAssumption == KindOf \in [Messages -> {"url", "pdf", "text"}]
ASSUME UserAssumption == UserOf \in [Messages -> Users]
ASSUME TitleAssumption == NoTitle \notin Titles /\ PaperOf \in [Messages -> Titles]
ASSUME LackAssumption == LackSets \subseteq SUBSET (Fields \cup {"title"})
ASSUME TimeAssumption ==
  Dates \subseteq Nat \ {NoTime} /\ Week \in Nat \ {0} /\ LastTick \in Nat
ASSUME TableAssumption == OldTable \in Seq(Rows) /\ UniqueIn(OldTable)

VARIABLES file, pdfs, table, now, lockq, pc, st, job, over, row, time

planVars == <<job, over, row, time>>
taskVars == <<pc, st, planVars>>
vars == <<file, pdfs, table, now, lockq, taskVars>>

Lock == INSTANCE FifoMutex WITH Procs <- Messages, queue <- lockq

Fresh(last) ==
  [pending |-> "", title |-> NoTitle, lacks |-> Fields, proposed |-> NoTime,
   last |-> last, pdf |-> NoPdf, source |-> ""]

Init ==
  /\ file = [u \in Users |-> Fresh(NoTitle)]
  /\ pdfs = {}
  /\ table = OldTable
  /\ now = 0
  /\ lockq = <<>>
  /\ pc = [m \in Messages |-> "idle"]
  /\ st = [m \in Messages |-> Fresh(NoTitle)]
  /\ job = [m \in Messages |-> ""]
  /\ over = [m \in Messages |-> NoTime]
  /\ row = [m \in Messages |-> 0]
  /\ time = [m \in Messages |-> NoTime]

Goto(m, label) == pc' = [pc EXCEPT ![m] = label]
Keep(m, s) == st' = [st EXCEPT ![m] = s]
Save(m, s) == file' = [file EXCEPT ![UserOf[m]] = s]

(* The handler is over, without saving what it has in its hands.           *)
GiveUp(m) == Goto(m, "done") /\ UNCHANGED <<file, st>>

SaveAndEnd(m, s) == Save(m, s) /\ Goto(m, "done") /\ UNCHANGED st

-----------------------------------------------------------------------------
(* Reading the table.                                                      *)

Timed(t) == {i \in DOMAIN t : t[i].time # NoTime}

(* _next_meeting_time                                                      *)
NextMeeting(t) ==
  LET future == {t[i].time : i \in {j \in Timed(t) : t[j].time > now}}
  IN  IF future = {} THEN NoTime ELSE MinOf(future)

(* _upcoming_speaker_time                                                  *)
SpeaksNext(t, u) ==
  \E i \in Timed(t) : t[i].speaker = u /\ t[i].time = NextMeeting(t)

RowsOf(t, title) == {i \in DOMAIN t : t[i].title = title}

(* The time of a paper without one.                                        *)
Scheduled(t, override) ==
  IF override # NoTime THEN override
  ELSE IF NextMeeting(t) # NoTime THEN NextMeeting(t)
  ELSE MaxOf({t[i].time : i \in Timed(t)}) + Week

(* Whether _build_upsert_plan gives the row i of a paper a time.           *)
NeedsTime(t, i) == i = 0 \/ t[i].time = NoTime

(* _find_record_by_title: by title, or the only row of the speaker.        *)
SlidesRows(t, title, u) ==
  IF RowsOf(t, title) # {} THEN RowsOf(t, title)
  ELSE {i \in DOMAIN t : t[i].speaker = u}

-----------------------------------------------------------------------------
(* The parts of the handler between two suspensions.                       *)

Missing(s) ==
  IF s.title = NoTitle THEN "title"
  ELSE IF "venue" \in s.lacks THEN "venue"
  ELSE IF "speaker" \in s.lacks THEN "speaker"
  ELSE IF "paper_link" \in s.lacks THEN "paper_link"
  ELSE ""

(* _finish_paper up to its await.                                          *)
FinishPaper(m, s) ==
  IF Missing(s) # ""
  THEN SaveAndEnd(m, [s EXCEPT !.pending = Missing(s)])
  ELSE Keep(m, s) /\ Goto(m, "checking") /\ UNCHANGED file

WaitForLock(m, s, what, override) ==
  /\ Keep(m, s)
  /\ Lock!Request(m)
  /\ job' = [job EXCEPT ![m] = what]
  /\ over' = [over EXCEPT ![m] = override]
  /\ Goto(m, "lock")
  /\ UNCHANGED <<file, row, time>>

NoLockYet == UNCHANGED <<lockq, planVars>>

(* _finish_pending_ppt up to its await.                                    *)
FinishPendingPpt(m, s) ==
  IF s.pdf \in pdfs
  THEN WaitForLock(m, s, "pending_slides", NoTime) /\ UNCHANGED pdfs
  ELSE /\ SaveAndEnd(m, [s EXCEPT !.pdf = NoPdf, !.pending = ""])
       /\ NoLockYet
       /\ UNCHANGED pdfs

(* Mutant of AskAboutPdf: the copy goes to the path the state had before.  *)
AskWithOldPath(m, s, question) ==
  /\ pdfs' = pdfs \cup {s.pdf}
  /\ SaveAndEnd(m, [s EXCEPT !.pdf = PdfOf[m], !.pending = question])

(* _copy_pending_pdf, and the question that follows it.                    *)
AskAboutPdf(m, s, question) ==
  /\ pdfs' = (pdfs \ {s.pdf}) \cup {PdfOf[m]}
  /\ SaveAndEnd(m, [s EXCEPT !.pdf = PdfOf[m], !.pending = question])

-----------------------------------------------------------------------------
(* on_private_seminar_update: a message arrives.                           *)

Arrived(m) == file[UserOf[m]]

(* The user cancels.                                                       *)
Cancel(m) ==
  /\ pc[m] = "idle"
  /\ KindOf[m] = "text"
  /\ pdfs' = pdfs \ {Arrived(m).pdf}
  /\ SaveAndEnd(m, Fresh(Arrived(m).last))
  /\ NoLockYet
  /\ UNCHANGED <<table, now>>

(* A link that answers the question for the link of a PDF.                 *)
ExpectedLink(m) ==
  /\ KindOf[m] = "url"
  /\ Arrived(m).pending = "paper_link"
  /\ Arrived(m).source = "pdf"

(* A PDF or a link starts a new submission and drops the one before.       *)
NewSubmission(m) ==
  /\ pc[m] = "idle"
  /\ KindOf[m] \in {"url", "pdf"}
  /\ ~ExpectedLink(m)
  /\ pdfs' = pdfs \ {Arrived(m).pdf}
  /\ Save(m, Fresh(Arrived(m).last))
  /\ Keep(m, [Fresh(Arrived(m).last) EXCEPT !.source = KindOf[m]])
  /\ Goto(m, "reading")
  /\ NoLockYet
  /\ UNCHANGED <<table, now>>

Answers(m, questions) ==
  /\ pc[m] = "idle"
  /\ KindOf[m] = "text"
  /\ Arrived(m).pending \in questions

(* Nothing is pending, the answer makes no sense, or the user only asks    *)
(* for the status.                                                         *)
NoAnswer(m) ==
  /\ pc[m] = "idle"
  /\ KindOf[m] = "text"
  /\ GiveUp(m)
  /\ NoLockYet
  /\ UNCHANGED <<pdfs, table, now>>

AnswerField(m) ==
  /\ \/ Answers(m, {"title", "venue", "speaker"})
     \/ pc[m] = "idle" /\ ExpectedLink(m)
  /\ LET s == Arrived(m)
     IN  FinishPaper(m, [s EXCEPT
           !.title = IF s.pending = "title" THEN PaperOf[m] ELSE @,
           !.lacks = @ \ {s.pending},
           !.pending = ""])
  /\ NoLockYet
  /\ UNCHANGED <<pdfs, table, now>>

AnswerConfirmation(m) ==
  /\ Answers(m, {"same_meeting_confirmation"})
  /\ Keep(m, Arrived(m))
  /\ Goto(m, "confirming")
  /\ NoLockYet
  /\ UNCHANGED <<file, pdfs, table, now>>

AnswerDate(m) ==
  /\ Answers(m, {"custom_meeting_date"})
  /\ \E d \in Dates :
       WaitForLock(m, [Arrived(m) EXCEPT !.pending = ""], "paper", d)
  /\ UNCHANGED <<pdfs, table, now>>

(* The pending PDF is a paper: read it once more.                          *)
AnswerPaper(m) ==
  /\ Answers(m, {"pdf_kind"})
  /\ Arrived(m).pdf \in pdfs
  /\ Keep(m, Arrived(m))
  /\ Goto(m, "rereading")
  /\ NoLockYet
  /\ UNCHANGED <<file, pdfs, table, now>>

(* The pending PDF holds slides, of the last paper if there is one.        *)
AnswerSlides(m) ==
  /\ Answers(m, {"pdf_kind"})
  /\ LET s == [Arrived(m) EXCEPT !.pending = "ppt_title"]
     IN  IF s.last # NoTitle
         THEN FinishPendingPpt(m, [s EXCEPT !.title = s.last])
         ELSE SaveAndEnd(m, s) /\ NoLockYet /\ UNCHANGED pdfs
  /\ UNCHANGED <<table, now>>

AnswerSlidesTitle(m) ==
  /\ Answers(m, {"ppt_title"})
  /\ FinishPendingPpt(m, [Arrived(m) EXCEPT !.title = PaperOf[m]])
  /\ UNCHANGED <<table, now>>

-----------------------------------------------------------------------------
(* A document has been read: _handle_url and _handle_pdf.                  *)

(* A link that was sent is the link of the paper.                          *)
Lacking(m) ==
  {lacks \in LackSets : KindOf[m] = "url" => "paper_link" \notin lacks}

WithMetadata(m, s, lacks) ==
  [s EXCEPT !.title = IF "title" \in lacks THEN NoTitle ELSE PaperOf[m],
            !.lacks = lacks \ {"title"},
            !.pending = ""]

ReadPaper(m) ==
  /\ pc[m] = "reading"
  /\ \E lacks \in Lacking(m) : FinishPaper(m, WithMetadata(m, st[m], lacks))
  /\ NoLockYet
  /\ UNCHANGED <<pdfs, table, now>>

(* The PDF that was pending is read: its speaker is already known.         *)
ReadAgain(m) ==
  /\ pc[m] = "rereading"
  /\ \E lacks \in Lacking(m) :
       LET s == WithMetadata(m, st[m], lacks)
           kept == st[m].lacks \cap {"speaker"}
       IN  FinishPaper(m, [s EXCEPT !.lacks = (@ \ {"speaker"}) \cup kept,
                                    !.pdf = NoPdf])
  /\ pdfs' = pdfs \ {st[m].pdf}
  /\ NoLockYet
  /\ UNCHANGED <<table, now>>

SpeakerKnown(m, lacks) ==
  [st[m] EXCEPT !.lacks = Fields \ ({"speaker"} \ lacks)]

ReadSlides(m) ==
  /\ pc[m] = "reading"
  /\ KindOf[m] = "pdf"
  /\ \E lacks \in Lacking(m) :
       LET s == SpeakerKnown(m, lacks)
           title == IF s.last # NoTitle THEN s.last
                    ELSE WithMetadata(m, s, lacks).title
       IN  IF title # NoTitle
           THEN /\ WaitForLock(m, [s EXCEPT !.title = title], "slides", NoTime)
                /\ UNCHANGED pdfs
           ELSE AskAboutPdf(m, s, "ppt_title") /\ NoLockYet
  /\ UNCHANGED <<table, now>>

ReadUnknown(m) ==
  /\ pc[m] = "reading"
  /\ KindOf[m] = "pdf"
  /\ \E lacks \in Lacking(m) : AskAboutPdf(m, SpeakerKnown(m, lacks), "pdf_kind")
  /\ NoLockYet
  /\ UNCHANGED <<table, now>>

(* Reading the document or the table fails, a link leads to slides, or the *)
(* question has no sensible answer: what the task holds is forgotten.      *)
ReadingFails(m) ==
  /\ pc[m] \in {"reading", "rereading", "checking", "confirming"}
  /\ GiveUp(m)
  /\ NoLockYet
  /\ UNCHANGED <<pdfs, table, now>>

(* The table is loaded: a second paper of the speaker at the next meeting  *)
(* needs a confirmation.                                                   *)
Check(m) ==
  /\ pc[m] = "checking"
  /\ IF RowsOf(table, st[m].title) = {} /\ SpeaksNext(table, UserOf[m])
     THEN /\ SaveAndEnd(m, [st[m] EXCEPT !.pending = "same_meeting_confirmation",
                                         !.proposed = NextMeeting(table)])
          /\ NoLockYet
     ELSE WaitForLock(m, st[m], "paper", NoTime)
  /\ UNCHANGED <<pdfs, table, now>>

(* The next meeting is another one by now: ask again.                      *)
ConfirmStale(m) ==
  /\ pc[m] = "confirming"
  /\ NextMeeting(table) \notin {NoTime, st[m].proposed}
  /\ SaveAndEnd(m, [st[m] EXCEPT !.proposed = NextMeeting(table)])
  /\ NoLockYet
  /\ UNCHANGED <<pdfs, table, now>>

ConfirmYes(m) ==
  /\ pc[m] = "confirming"
  /\ NextMeeting(table) = st[m].proposed
  /\ WaitForLock(m, [st[m] EXCEPT !.pending = ""], "paper", st[m].proposed)
  /\ UNCHANGED <<pdfs, table, now>>

ConfirmNo(m) ==
  /\ pc[m] = "confirming"
  /\ NextMeeting(table) = st[m].proposed
  /\ SaveAndEnd(m, [st[m] EXCEPT !.pending = "custom_meeting_date"])
  /\ NoLockYet
  /\ UNCHANGED <<pdfs, table, now>>

-----------------------------------------------------------------------------
(* Under _write_lock: _upsert_paper and _attach_ppt.                       *)

(* Mutant of Acquire: the lock is not waited for.                          *)
AcquireAnyway(m) ==
  /\ pc[m] = "lock"
  /\ Goto(m, "loading")
  /\ UNCHANGED <<file, pdfs, table, now, lockq, st, planVars>>

Acquire(m) ==
  /\ pc[m] = "lock"
  /\ Lock!Owns(m)
  /\ Goto(m, "loading")
  /\ UNCHANGED <<file, pdfs, table, now, lockq, st, planVars>>

(* Mutant of PlanPaper: a new row every time.                              *)
PlanNewRow(m) ==
  /\ pc[m] = "loading"
  /\ job[m] = "paper"
  /\ Timed(table) # {}
  /\ row' = [row EXCEPT ![m] = 0]
  /\ time' = [time EXCEPT ![m] = Scheduled(table, over[m])]
  /\ Goto(m, "writing")
  /\ UNCHANGED <<file, pdfs, table, now, lockq, st, job, over>>

(* Mutant of PlanPaper: a paper that has a time is scheduled again.        *)
PlanNewTime(m) ==
  /\ pc[m] = "loading"
  /\ job[m] = "paper"
  /\ Timed(table) # {}
  /\ \E i \in IF RowsOf(table, st[m].title) = {} THEN {0}
              ELSE RowsOf(table, st[m].title) :
       /\ row' = [row EXCEPT ![m] = i]
       /\ time' = [time EXCEPT ![m] = Scheduled(table, over[m])]
  /\ Goto(m, "writing")
  /\ UNCHANGED <<file, pdfs, table, now, lockq, st, job, over>>

(* The table is loaded and the paper planned: its only row, or a new one.  *)
PlanPaper(m) ==
  /\ pc[m] = "loading"
  /\ job[m] = "paper"
  /\ Cardinality(RowsOf(table, st[m].title)) <= 1
  /\ \E i \in IF RowsOf(table, st[m].title) = {} THEN {0}
              ELSE RowsOf(table, st[m].title) :
       /\ NeedsTime(table, i) => Timed(table) # {}
       /\ row' = [row EXCEPT ![m] = i]
       /\ time' = [time EXCEPT ![m] = IF NeedsTime(table, i)
                                      THEN Scheduled(table, over[m]) ELSE NoTime]
  /\ Goto(m, "writing")
  /\ UNCHANGED <<file, pdfs, table, now, lockq, st, job, over>>

(* The row of the slides is found, and their file is still there.          *)
PlanSlides(m) ==
  /\ pc[m] = "loading"
  /\ job[m] # "paper"
  /\ job[m] = "pending_slides" => st[m].pdf \in pdfs
  /\ \E i \in SlidesRows(table, st[m].title, UserOf[m]) :
       /\ SlidesRows(table, st[m].title, UserOf[m]) = {i}
       /\ row' = [row EXCEPT ![m] = i]
  /\ Goto(m, "writing")
  /\ UNCHANGED <<file, pdfs, table, now, lockq, st, job, over, time>>

(* The request to the table takes effect.                                  *)
WritePaper(m) ==
  /\ pc[m] = "writing"
  /\ job[m] = "paper"
  /\ table' =
       IF row[m] = 0
       THEN Append(table, [title |-> st[m].title, speaker |-> UserOf[m],
                           time |-> time[m], asked |-> over[m] # NoTime,
                           slides |-> FALSE])
       ELSE [table EXCEPT
              ![row[m]].title = st[m].title,
              ![row[m]].speaker = UserOf[m],
              ![row[m]].time = IF time[m] = NoTime THEN @ ELSE time[m]]
  /\ Goto(m, "written")
  /\ UNCHANGED <<file, pdfs, now, lockq, st, planVars>>

WriteSlides(m) ==
  /\ pc[m] = "writing"
  /\ job[m] # "paper"
  /\ table' = [table EXCEPT ![row[m]].slides = TRUE]
  /\ Goto(m, "written")
  /\ UNCHANGED <<file, pdfs, now, lockq, st, planVars>>

(* Mutant of WritingFails: the lock is kept.                               *)
WritingFailsInside(m) ==
  /\ pc[m] \in {"loading", "writing", "written"}
  /\ GiveUp(m)
  /\ UNCHANGED <<pdfs, table, now, lockq, planVars>>

(* Loading, planning, uploading or writing fails, the last one perhaps     *)
(* after it took effect: the saved state still asks what it asked before.  *)
WritingFails(m) ==
  /\ pc[m] \in {"loading", "writing", "written"}
  /\ GiveUp(m)
  /\ Lock!Release(m)
  /\ UNCHANGED <<pdfs, table, now, planVars>>

(* _commit_paper after the lock.                                           *)
PaperDone(m) ==
  /\ pc[m] = "written"
  /\ job[m] = "paper"
  /\ Lock!Release(m)
  /\ SaveAndEnd(m, [Fresh(st[m].title) EXCEPT !.pdf = st[m].pdf])
  /\ UNCHANGED <<pdfs, table, now, planVars>>

(* _handle_pdf and _finish_pending_ppt after the lock.                     *)
SlidesDone(m) ==
  /\ pc[m] = "written"
  /\ job[m] # "paper"
  /\ Lock!Release(m)
  /\ LET s == [st[m] EXCEPT !.last = st[m].title, !.title = NoTitle]
     IN  IF job[m] = "slides"
         THEN SaveAndEnd(m, s) /\ UNCHANGED pdfs
         ELSE /\ SaveAndEnd(m, [s EXCEPT !.pending = "", !.pdf = NoPdf])
              /\ pdfs' = pdfs \ {st[m].pdf}
  /\ UNCHANGED <<table, now, planVars>>

-----------------------------------------------------------------------------
Tick ==
  /\ now < LastTick
  /\ now' = now + 1
  /\ UNCHANGED <<file, pdfs, table, lockq, taskVars>>

Arrive(m) ==
  \/ Cancel(m) \/ NewSubmission(m) \/ NoAnswer(m) \/ AnswerField(m)
  \/ AnswerConfirmation(m) \/ AnswerDate(m) \/ AnswerPaper(m)
  \/ AnswerSlides(m) \/ AnswerSlidesTitle(m)

Continue(m) ==
  \/ ReadPaper(m) \/ ReadAgain(m) \/ ReadSlides(m) \/ ReadUnknown(m)
  \/ ReadingFails(m) \/ Check(m)
  \/ ConfirmStale(m) \/ ConfirmYes(m) \/ ConfirmNo(m)
  \/ Acquire(m) \/ PlanPaper(m) \/ PlanSlides(m)
  \/ WritePaper(m) \/ WriteSlides(m) \/ WritingFails(m)
  \/ PaperDone(m) \/ SlidesDone(m)

Next == Tick \/ \E m \in Messages : Arrive(m) \/ Continue(m)

Spec == Init /\ [][Next]_vars

(* The event loop runs every ready task, and requests end.                 *)
FairSpec == Spec /\ \A m \in Messages : WF_vars(Continue(m))

-----------------------------------------------------------------------------
(* Properties.                                                             *)

PCs == {"idle", "reading", "rereading", "checking", "confirming", "lock",
        "loading", "writing", "written", "done"}

Questions == {"", "title", "same_meeting_confirmation", "custom_meeting_date",
              "pdf_kind", "ppt_title"} \cup Fields

Contents == {PdfOf[m] : m \in Messages}

States == [pending : Questions, title : Titles \cup {NoTitle},
           lacks : SUBSET Fields, proposed : Nat, last : Titles \cup {NoTitle},
           pdf : Contents \cup {NoPdf}, source : {"", "url", "pdf"}]

(* The types of the variables.                                             *)
TypeOK ==
  /\ file \in [Users -> States]
  /\ pdfs \subseteq Contents
  /\ table \in Seq(Rows)
  /\ now \in Nat
  /\ lockq \in Seq(Messages)
  /\ pc \in [Messages -> PCs]
  /\ st \in [Messages -> States]
  /\ job \in [Messages -> {"", "paper", "slides", "pending_slides"}]
  /\ over \in [Messages -> Nat]
  /\ row \in [Messages -> Nat]
  /\ time \in [Messages -> Nat]

(* A paper never gets a second row, whoever submits it, how many messages  *)
(* carry it at the same time, and however often a write whose answer was   *)
(* lost is tried again.                                                    *)
OneRowPerPaper == UniqueIn(table)

(* What a task has planned still fits the table when it is written: nobody *)
(* has added the paper or taken its row meanwhile.                         *)
PlanFits ==
  \A m \in Messages :
    pc[m] = "writing" /\ job[m] = "paper" =>
      RowsOf(table, st[m].title) = IF row[m] = 0 THEN {} ELSE {row[m]}

(* A paper that has its meeting keeps it, and keeps its slides, whatever   *)
(* is submitted, confirmed or attached later.                              *)
MeetingsKept ==
  [][\A i \in DOMAIN table :
       /\ i \in DOMAIN table'
       /\ table'[i].title = table[i].title
       /\ table[i].time # NoTime => table'[i].time = table[i].time
       /\ table[i].slides => table'[i].slides]_vars

(* Every message that arrives is dealt with in the end: no failure between *)
(* taking the lock and writing leaves the lock taken.                      *)
Handled == \A m \in Messages : pc[m] # "idle" ~> pc[m] = "done"

(* "second upcoming paper stops for same meeting confirmation": a speaker  *)
(* has two new papers at one meeting only after being asked about it.      *)
AskedBeforeDoubling ==
  \A i, j \in DOMAIN table \ DOMAIN OldTable :
    i # j /\ table[i].speaker = table[j].speaker /\ table[i].time = table[j].time
      => table[i].asked \/ table[j].asked
=============================================================================
