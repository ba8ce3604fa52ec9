--------------------------- MODULE CronJobsProofs ---------------------------
(***************************************************************************)
(* Proofs about CronJobs, for any jobs, operations, times and crashes.     *)
(***************************************************************************)
EXTENDS CronJobs, TLAPS

TableTypes ==
  /\ rows \in SUBSET Jobs /\ row \in [Jobs -> Row]
  /\ \A j \in Jobs : row[j].at # 0 => row[j].valid /\ row[j].kind = "active"
  /\ \A j \in Jobs \ rows : row[j] = Blank

SchedTypes ==
  /\ scheduled \in SUBSET Jobs /\ trigger \in [Jobs -> Times]
  /\ handlers \in SUBSET Jobs

StartTypes ==
  /\ up \in BOOLEAN /\ crashes \in 0 .. MaxCrashes /\ now \in 1 .. LastTick
  /\ sync \in {"off", "listing", "listed", "synced"}
  /\ listed \in SUBSET Jobs /\ seen \in [Jobs -> Row]

RunTypes ==
  /\ run \in [Jobs -> {"idle", "fired", "read", "body", "deleting"}]
  /\ found \in [Jobs -> Row] /\ begun \in [Jobs -> SUBSET Times]

OpTypes ==
  /\ op \in [Ops -> {"idle", "adding", "updating", "deleting", "done"}]
  /\ target \in [Ops -> Jobs \cup {NoJob}] /\ asked \in [Ops -> Row]

PluginTypes ==
  /\ plugin \in {"off", "listing", "removing", "deleting", "adding", "rest"}
  /\ remaining \in SUBSET Jobs
  /\ current \in Jobs \cup {NoJob} /\ own \in Jobs \cup {NoJob}

Types ==
  /\ TableTypes /\ SchedTypes /\ StartTypes /\ RunTypes /\ OpTypes
  /\ PluginTypes

Working(o) == op[o] \in {"adding", "updating", "deleting"}

(* A process that is down has no memory.                                   *)
DownInv ==
  ~up =>
    /\ scheduled = {} /\ handlers = {} /\ remaining = {}
    /\ sync = "off" /\ plugin = "off"
    /\ current = NoJob /\ own = NoJob
    /\ \A j \in Jobs : run[j] = "idle" /\ found[j].at = 0
    /\ \A o \in Ops : target[o] = NoJob /\ ~Working(o)

(* An operation at work has a job, and works when the manager has started; *)
(* what it wrote is in the row until it has scheduled it.                  *)
OpInv ==
  \A o \in Ops :
    /\ Working(o) <=> target[o] # NoJob
    /\ Working(o) => up /\ sync = "synced"
    /\ op[o] \in {"adding", "updating"} /\ target[o] \in rows =>
         row[target[o]] = asked[o]

(* The plugin removes or adds a job in two steps, and the jobs it has to   *)
(* do with are reminders.                                                  *)
PluginInv ==
  /\ plugin \in {"deleting", "adding"} <=> current # NoJob
  /\ \A j \in remaining \cup {own, current} :
       j \in rows => row[j].kind = "reminder"

(* What the plugin has still to remove, when it has listed the jobs of its *)
(* name, is all there is of them.                                          *)
PileInv ==
  /\ plugin = "removing" => Reminders \subseteq remaining
  /\ plugin = "deleting" => Reminders \subseteq remaining \cup {current}
  /\ plugin = "adding" => Reminders \subseteq {current}
  /\ plugin = "rest" => Reminders \subseteq {own}

(* Before the manager has started nothing but reminders runs.              *)
EarlyInv ==
  sync # "synced" =>
    \A j \in Jobs :
      /\ found[j].at = 0
      /\ j \in scheduled \/ run[j] = "fired" => row[j].at = 0

(* Between the list and the loop over it the rows only change for the      *)
(* plugin's job.                                                           *)
ListInv ==
  sync = "listed" =>
    \A j \in rows :
      /\ j \in listed => seen[j] = row[j]
      /\ j \notin listed =>
           /\ row[j].kind = "reminder"
           /\ j \in handlers => j \in scheduled /\ trigger[j] = 0

(* What is to be scheduled, while nothing but a run works on the job.      *)
Expected(j) ==
  /\ up /\ (sync = "synced" \/ j = own)
  /\ row[j].enabled /\ row[j].valid
  /\ row[j].at = 0 \/ row[j].at > now
  /\ row[j].kind = "reminder" => j \in handlers
  /\ run[j] # "deleting" /\ j # current
  /\ \A o \in Ops : target[o] # j

FollowInv ==
  \A j \in rows : Expected(j) => j \in scheduled /\ trigger[j] = row[j].at

(* A one-shot job that has begun is deleted before it can be read again.   *)
BegunInv ==
  \A j \in Jobs : begun[j] # {} =>
    \/ run[j] \in {"body", "deleting"} /\ Once(found[j])
    \/ /\ j \notin rows
       /\ run[j] \in {"idle", "fired", "read"}
       /\ run[j] = "read" => ~found[j].enabled

IInv ==
  /\ Types /\ DownInv /\ OpInv /\ PluginInv /\ PileInv /\ EarlyInv /\ ListInv
  /\ FollowInv /\ BegunInv

LEMMA TypeParts == Types /\ DownInv => TypeOK
BY DEF TypeOK, Types, DownInv, TableTypes, SchedTypes, StartTypes, RunTypes,
       OpTypes, PluginTypes

LEMMA Rows ==
  /\ Blank \in Row /\ Blank.at = 0
  /\ Reminder \in Row /\ Reminder.at = 0 /\ Reminder.kind = "reminder"
BY BoundAssumption DEF Blank, Reminder, Row, Times

LEMMA Bounds ==
  LastTick \in Nat /\ 1 \in 1 .. LastTick /\ MaxCrashes \in Nat /\ 0 \in Times
<1>1. LastTick \in Nat /\ LastTick # 0 /\ MaxCrashes \in Nat
  BY BoundAssumption
<1> QED
  BY <1>1 DEF Times

LEMMA InitInv == Init => IInv
<1> SUFFICES ASSUME Init PROVE IInv
  OBVIOUS
<1> USE Bounds, JobAssumption, Rows DEF Init
<1>1. Types
  <2>1. TableTypes /\ SchedTypes
    BY DEF TableTypes, SchedTypes, Times
  <2>2. StartTypes
    <3>1. up \in BOOLEAN
      OBVIOUS
    <3>2. crashes \in 0 .. MaxCrashes /\ now \in 1 .. LastTick
      OBVIOUS
    <3>3. listed \in SUBSET Jobs /\ seen \in [Jobs -> Row]
      OBVIOUS
    <3> QED
      BY <3>1, <3>2, <3>3 DEF StartTypes
  <2>3. RunTypes /\ OpTypes /\ PluginTypes
    BY DEF RunTypes, OpTypes, PluginTypes
  <2> QED
    BY <2>1, <2>2, <2>3 DEF Types
<1>2. DownInv /\ OpInv
  BY DEF DownInv, OpInv, Working
<1>3. PluginInv /\ PileInv
  BY DEF PluginInv, PileInv
<1>4. EarlyInv /\ ListInv
  BY DEF EarlyInv, ListInv
<1>5. FollowInv /\ BegunInv
  BY DEF FollowInv, BegunInv
<1> QED
  BY <1>1, <1>2, <1>3, <1>4, <1>5 DEF IInv

-----------------------------------------------------------------------------
(* The types.                                                              *)

LEMMA DeleteTypes ==
  ASSUME TableTypes, NEW j, Delete(j)
  PROVE  TableTypes'
BY Rows DEF TableTypes, Delete

LEMMA InsertTypes ==
  ASSUME TableTypes, NEW j \in Jobs, NEW r \in Row, Insert(j, r),
         r.at # 0 => r.valid /\ r.kind = "active"
  PROVE  TableTypes'
BY DEF TableTypes, Insert

LEMMA TableTypesStep ==
  ASSUME IInv, Next
  PROVE  TableTypes'
<1> USE Rows DEF IInv, Types
<1>1. CASE UNCHANGED tableVars
  BY <1>1 DEF tableVars, TableTypes
<1>2. CASE GoDown
  BY <1>2 DEF GoDown, TableTypes
<1>3. CASE PluginDeletes
  BY <1>3, DeleteTypes DEF PluginDeletes
<1>4. CASE AddBasicJob
  BY <1>4, InsertTypes DEF AddBasicJob
<1>5. ASSUME NEW o \in Ops, AddActiveJob(o)
      PROVE  TableTypes'
  BY <1>5, InsertTypes DEF AddActiveJob, Acceptable, Once
<1>6. ASSUME NEW o \in Ops, UpdateJob(o)
      PROVE  TableTypes'
  BY <1>6 DEF UpdateJob, Acceptable, Once, TableTypes
<1>7. ASSUME NEW o \in Ops, RowDeleted(o)
      PROVE  TableTypes'
  BY <1>7, DeleteTypes DEF RowDeleted
<1>8. ASSUME NEW j \in Jobs, DeleteOnce(j)
      PROVE  TableTypes'
  BY <1>8, DeleteTypes DEF DeleteOnce
<1>9. ASSUME NEW o \in Ops,
             DeleteJob(o) \/ AddScheduled(o) \/ UpdateScheduled(o)
      PROVE  UNCHANGED tableVars
  BY <1>9 DEF DeleteJob, AddScheduled, UpdateScheduled
<1>10. ASSUME NEW j \in Jobs,
              \/ Fire(j) \/ DropRun(j) \/ ReadRow(j) \/ SkipRun(j)
              \/ BeginRun(j) \/ EndOnce(j) \/ EndRecurring(j)
       PROVE  UNCHANGED tableVars
  BY <1>10 DEF Fire, DropRun, ReadRow, SkipRun, BeginRun, EndOnce, EndRecurring
<1>11. ASSUME \/ Boot \/ Tick \/ Reload \/ StartStep \/ PluginLists
              \/ PluginForgets \/ PluginTerminated \/ BasicScheduled
       PROVE  UNCHANGED tableVars
  BY <1>11 DEF Boot, Tick, Reload, StartStep, ListJobs, SyncFromDb,
       PluginLists, PluginForgets, PluginTerminated, BasicScheduled
<1> QED
  BY <1>1, <1>2, <1>3, <1>4, <1>5, <1>6, <1>7, <1>8, <1>9, <1>10, <1>11
     DEF Next, PluginStep, OpStep, RunStep

LEMMA ScheduleTypes ==
  ASSUME SchedTypes, NEW j \in Jobs, NEW r \in Row, Schedule(j, r),
         handlers' \in SUBSET Jobs
  PROVE  SchedTypes'
BY DEF SchedTypes, Schedule, schedVars, Row

LEMMA UnscheduleTypes ==
  ASSUME SchedTypes, NEW j, Unschedule(j), handlers' \in SUBSET Jobs
  PROVE  SchedTypes'
BY Bounds DEF SchedTypes, Unschedule

LEMMA ForgetTypes ==
  ASSUME SchedTypes, NEW j, Forget(j)
  PROVE  SchedTypes'
BY UnscheduleTypes DEF SchedTypes, Forget

LEMMA FiredTypes ==
  ASSUME SchedTypes, NEW j, Fired(j), UNCHANGED handlers
  PROVE  SchedTypes'
BY UnscheduleTypes DEF SchedTypes, Fired, schedVars

(* The job of an operation at work.                                        *)
LEMMA WorkingTarget ==
  ASSUME IInv, NEW o \in Ops, Working(o)
  PROVE  /\ target[o] \in Jobs /\ asked[o] \in Row
         /\ up /\ sync = "synced"
BY DEF IInv, Types, OpTypes, OpInv

LEMMA PluginCurrent ==
  ASSUME IInv, plugin \in {"deleting", "adding"}
  PROVE  current \in Jobs
BY DEF IInv, Types, PluginTypes, PluginInv

(* The job the plugin adds is a reminder, which recurs.                    *)
LEMMA BasicScheduledSteps ==
  ASSUME IInv, BasicScheduled
  PROVE  /\ current \in Jobs /\ row[current].at = 0
         /\ scheduled' = scheduled \cup {current}
         /\ trigger' = [trigger EXCEPT ![current] = 0]
         /\ handlers' = handlers \cup {current}
<1>1. current \in Jobs
  BY PluginCurrent DEF BasicScheduled
<1>2. row[current].at = 0
  <2>1. CASE current \in rows
    BY <1>1, <2>1 DEF IInv, Types, TableTypes, PluginInv
  <2>2. CASE current \notin rows
    BY <1>1, <2>2, Rows DEF IInv, Types, TableTypes
  <2> QED
    BY <2>1, <2>2
<1> QED
  BY <1>1, <1>2 DEF BasicScheduled, Schedule, Reminder

LEMMA SchedTypesStep ==
  ASSUME IInv, Next
  PROVE  SchedTypes'
<1> USE Rows DEF IInv, Types
<1>1. CASE UNCHANGED <<schedVars, handlers>>
  BY <1>1 DEF schedVars, SchedTypes
<1>2. CASE GoDown
  BY <1>2, Bounds DEF GoDown, SchedTypes
<1>3. CASE SyncFromDb
  BY <1>3 DEF SyncFromDb, SchedTypes, StartTypes, Row
<1>4. CASE PluginForgets
  BY <1>4, ForgetTypes DEF PluginForgets
<1>5. CASE BasicScheduled
  <2>1. handlers' \in SUBSET Jobs
    BY <1>5, PluginCurrent DEF BasicScheduled, SchedTypes
  <2> QED
    BY <1>5, <2>1, PluginCurrent, ScheduleTypes DEF BasicScheduled
<1>6. ASSUME NEW o \in Ops, AddScheduled(o)
      PROVE  SchedTypes'
  BY <1>6, WorkingTarget, ScheduleTypes
     DEF AddScheduled, Working, SchedTypes, schedVars
<1>7. ASSUME NEW o \in Ops, UpdateScheduled(o)
      PROVE  SchedTypes'
  BY <1>7, WorkingTarget, ScheduleTypes, UnscheduleTypes
     DEF UpdateScheduled, Working, SchedTypes
<1>8. ASSUME NEW o \in Ops, DeleteJob(o)
      PROVE  SchedTypes'
  BY <1>8, ForgetTypes DEF DeleteJob
<1>9. ASSUME NEW j \in Jobs, Fire(j) \/ DropRun(j)
      PROVE  SchedTypes'
  BY <1>9, FiredTypes DEF Fire, DropRun
<1>10. ASSUME NEW j \in Jobs, EndOnce(j)
       PROVE  SchedTypes'
  BY <1>10, ForgetTypes DEF EndOnce
<1>11. ASSUME NEW o \in Ops, AddActiveJob(o) \/ UpdateJob(o) \/ RowDeleted(o)
       PROVE  UNCHANGED <<schedVars, handlers>>
  BY <1>11 DEF AddActiveJob, UpdateJob, RowDeleted
<1>12. ASSUME NEW j \in Jobs,
              \/ ReadRow(j) \/ SkipRun(j) \/ BeginRun(j)
              \/ EndRecurring(j) \/ DeleteOnce(j)
       PROVE  UNCHANGED <<schedVars, handlers>>
  BY <1>12 DEF ReadRow, SkipRun, BeginRun, EndRecurring, DeleteOnce
<1>13. ASSUME \/ Boot \/ Tick \/ Reload \/ ListJobs \/ PluginLists
              \/ PluginDeletes \/ PluginTerminated \/ AddBasicJob
       PROVE  UNCHANGED <<schedVars, handlers>>
  BY <1>13 DEF Boot, Tick, Reload, ListJobs, PluginLists, PluginDeletes,
               PluginTerminated, AddBasicJob
<1> QED
  BY <1>1, <1>2, <1>3, <1>4, <1>5, <1>6, <1>7, <1>8, <1>9, <1>10, <1>11,
     <1>12, <1>13
     DEF Next, StartStep, PluginStep, OpStep, RunStep

LEMMA StartTypesStep ==
  ASSUME IInv, Next
  PROVE  StartTypes'
<1> USE Bounds DEF IInv, Types
<1>1. CASE UNCHANGED <<syncVars, timeVars>>
  BY <1>1 DEF syncVars, timeVars, StartTypes
<1>2. CASE Boot
  BY <1>2 DEF Boot, StartTypes
<1>3. CASE GoDown
  <2>1. up' \in BOOLEAN
    BY <1>3 DEF GoDown
  <2>2. crashes' \in 0 .. MaxCrashes /\ now' \in 1 .. LastTick
    BY <1>3 DEF GoDown, StartTypes
  <2>3. listed' \in SUBSET Jobs /\ seen' \in [Jobs -> Row]
    BY <1>3, Rows DEF GoDown
  <2> QED
    BY <1>3, <2>1, <2>2, <2>3 DEF GoDown, StartTypes
<1>4. CASE Tick
  BY <1>4 DEF Tick, StartTypes, syncVars
<1>5. CASE ListJobs
  BY <1>5 DEF ListJobs, StartTypes, TableTypes, timeVars
<1>6. CASE SyncFromDb
  BY <1>6, Rows DEF SyncFromDb, StartTypes, timeVars
<1>7. ASSUME NEW o \in Ops,
             AddActiveJob(o) \/ UpdateJob(o) \/ DeleteJob(o) \/ OpStep(o)
      PROVE  UNCHANGED <<syncVars, timeVars>>
  BY <1>7 DEF AddActiveJob, UpdateJob, DeleteJob, OpStep, AddScheduled,
              UpdateScheduled, RowDeleted
<1>8. ASSUME NEW j \in Jobs, Fire(j) \/ DropRun(j) \/ RunStep(j)
      PROVE  UNCHANGED <<syncVars, timeVars>>
  BY <1>8 DEF Fire, DropRun, RunStep, ReadRow, SkipRun, BeginRun, EndOnce,
              EndRecurring, DeleteOnce
<1>9. ASSUME Reload \/ PluginStep
      PROVE  UNCHANGED <<syncVars, timeVars>>
  BY <1>9 DEF Reload, PluginStep, PluginLists, PluginForgets, PluginDeletes,
              PluginTerminated, AddBasicJob, BasicScheduled
<1> QED
  BY <1>1, <1>2, <1>3, <1>4, <1>5, <1>6, <1>7, <1>8, <1>9 DEF Next, StartStep

LEMMA RunTypesStep ==
  ASSUME IInv, Next
  PROVE  RunTypes'
<1> USE Rows DEF IInv, Types
<1>1. CASE UNCHANGED runVars
  BY <1>1 DEF runVars, RunTypes
<1>2. CASE GoDown
  BY <1>2 DEF GoDown, RunTypes
<1>3. CASE AddBasicJob
  BY <1>3 DEF AddBasicJob, Insert, RunTypes
<1>4. ASSUME NEW o \in Ops, AddActiveJob(o)
      PROVE  RunTypes'
  BY <1>4 DEF AddActiveJob, Insert, RunTypes
<1>5. ASSUME NEW j \in Jobs, Fire(j) \/ SkipRun(j) \/ EndOnce(j)
                             \/ EndRecurring(j) \/ DeleteOnce(j)
      PROVE  RunTypes'
  BY <1>5 DEF Fire, SkipRun, EndOnce, EndRecurring, DeleteOnce, RunTypes
<1>6. ASSUME NEW j \in Jobs, ReadRow(j)
      PROVE  RunTypes'
  BY <1>6 DEF ReadRow, RunTypes, TableTypes
<1>7. ASSUME NEW j \in Jobs, BeginRun(j)
      PROVE  RunTypes'
  <2>1. found[j].at \in Times
    BY DEF RunTypes, Row
  <2> QED
    BY <1>7, <2>1 DEF BeginRun, RunTypes
<1>8. ASSUME NEW j \in Jobs, DropRun(j)
      PROVE  UNCHANGED runVars
  BY <1>8 DEF DropRun
<1>9. ASSUME NEW o \in Ops, UpdateJob(o) \/ DeleteJob(o) \/ OpStep(o)
      PROVE  UNCHANGED runVars
  BY <1>9 DEF UpdateJob, DeleteJob, OpStep, AddScheduled, UpdateScheduled,
              RowDeleted
<1>10. ASSUME \/ Boot \/ Tick \/ Reload \/ StartStep \/ PluginLists
              \/ PluginForgets \/ PluginDeletes \/ PluginTerminated
              \/ BasicScheduled
       PROVE  UNCHANGED runVars
  BY <1>10 DEF Boot, Tick, Reload, StartStep, ListJobs, SyncFromDb,
       PluginLists, PluginForgets, PluginDeletes, PluginTerminated,
       BasicScheduled
<1> QED
  BY <1>1, <1>2, <1>3, <1>4, <1>5, <1>6, <1>7, <1>8, <1>9, <1>10
     DEF Next, PluginStep, RunStep

LEMMA OpTypesStep ==
  ASSUME IInv, Next
  PROVE  OpTypes'
<1> USE Rows DEF IInv, Types
<1>1. CASE UNCHANGED opVars
  BY <1>1 DEF opVars, OpTypes
<1>2. CASE GoDown
  BY <1>2 DEF GoDown, OpTypes
<1>3. ASSUME NEW o \in Ops, AddActiveJob(o)
      PROVE  OpTypes'
  BY <1>3 DEF AddActiveJob, Begin, OpTypes
<1>4. ASSUME NEW o \in Ops, UpdateJob(o)
      PROVE  OpTypes'
  BY <1>4 DEF UpdateJob, Begin, OpTypes, TableTypes
<1>5. ASSUME NEW o \in Ops, DeleteJob(o)
      PROVE  OpTypes'
  BY <1>5 DEF DeleteJob, Begin, OpTypes, TableTypes
<1>6. ASSUME NEW o \in Ops, OpStep(o)
      PROVE  OpTypes'
  BY <1>6 DEF OpStep, AddScheduled, UpdateScheduled, RowDeleted, Finish, OpTypes
<1>7. ASSUME NEW j \in Jobs, Fire(j) \/ DropRun(j) \/ RunStep(j)
      PROVE  UNCHANGED opVars
  BY <1>7 DEF Fire, DropRun, RunStep, ReadRow, SkipRun, BeginRun, EndOnce,
              EndRecurring, DeleteOnce
<1>8. ASSUME Boot \/ Tick \/ Reload \/ StartStep \/ PluginStep
      PROVE  UNCHANGED opVars
  BY <1>8 DEF Boot, Tick, Reload, StartStep, ListJobs, SyncFromDb, PluginStep,
              PluginLists, PluginForgets, PluginDeletes, PluginTerminated,
              AddBasicJob, BasicScheduled
<1> QED
  BY <1>1, <1>2, <1>3, <1>4, <1>5, <1>6, <1>7, <1>8 DEF Next

LEMMA PluginTypesStep ==
  ASSUME IInv, Next
  PROVE  PluginTypes'
<1> USE DEF IInv, Types
<1>1. CASE UNCHANGED pluginVars
  BY <1>1 DEF pluginVars, PluginTypes
<1>2. CASE Boot \/ GoDown \/ Reload
  BY <1>2 DEF Boot, GoDown, Reload, PluginTypes
<1>3. CASE PluginLists
  BY <1>3 DEF PluginLists, PluginTypes, Reminders, TableTypes
<1>4. CASE \/ PluginForgets \/ PluginDeletes \/ PluginTerminated
           \/ AddBasicJob \/ BasicScheduled
  BY <1>4 DEF PluginForgets, PluginDeletes, PluginTerminated, AddBasicJob,
              BasicScheduled, PluginTypes
<1>5. ASSUME NEW o \in Ops,
             AddActiveJob(o) \/ UpdateJob(o) \/ DeleteJob(o) \/ OpStep(o)
      PROVE  UNCHANGED pluginVars
  BY <1>5 DEF AddActiveJob, UpdateJob, DeleteJob, OpStep, AddScheduled,
              UpdateScheduled, RowDeleted
<1>6. ASSUME NEW j \in Jobs, Fire(j) \/ DropRun(j) \/ RunStep(j)
      PROVE  UNCHANGED pluginVars
  BY <1>6 DEF Fire, DropRun, RunStep, ReadRow, SkipRun, BeginRun, EndOnce,
              EndRecurring, DeleteOnce
<1>7. ASSUME Tick \/ StartStep
      PROVE  UNCHANGED pluginVars
  BY <1>7 DEF Tick, StartStep, ListJobs, SyncFromDb
<1> QED
  BY <1>1, <1>2, <1>3, <1>4, <1>5, <1>6, <1>7 DEF Next, PluginStep

LEMMA TypesStep ==
  ASSUME IInv, Next
  PROVE  Types'
BY TableTypesStep, SchedTypesStep, StartTypesStep, RunTypesStep, OpTypesStep,
   PluginTypesStep DEF Types

-----------------------------------------------------------------------------
(* The process, the operations and the plugin.                             *)

LEMMA DownStep ==
  ASSUME IInv, Next, ~up
  PROVE  Boot \/ Tick
<1> USE DEF IInv, DownInv
<1>1. ~GoDown /\ ~Reload /\ ~StartStep /\ ~PluginStep
  BY DEF GoDown, Reload, StartStep, ListJobs, SyncFromDb, PluginStep, PluginLists,
         PluginForgets, PluginDeletes, PluginTerminated, AddBasicJob,
         BasicScheduled
<1>2. ASSUME NEW o \in Ops,
             AddActiveJob(o) \/ UpdateJob(o) \/ DeleteJob(o) \/ OpStep(o)
      PROVE  FALSE
  BY <1>2 DEF AddActiveJob, UpdateJob, DeleteJob, OpStep, AddScheduled,
              UpdateScheduled, RowDeleted, Begin, Working
<1>3. ASSUME NEW j \in Jobs, Fire(j) \/ DropRun(j) \/ RunStep(j)
      PROVE  FALSE
  BY <1>3 DEF Fire, DropRun, Due, RunStep, ReadRow, SkipRun, BeginRun, EndOnce,
              EndRecurring, DeleteOnce
<1> QED
  BY <1>1, <1>2, <1>3 DEF Next

LEMMA DownInvStep ==
  ASSUME IInv, Next
  PROVE  DownInv'
<1>1. CASE GoDown
  BY <1>1, Rows DEF GoDown, DownInv, Working, IInv, Types, OpTypes
<1>2. CASE up /\ ~GoDown
  <2>1. ASSUME NEW o \in Ops,
               AddActiveJob(o) \/ UpdateJob(o) \/ DeleteJob(o) \/ OpStep(o)
        PROVE  up' = up
    BY <2>1 DEF AddActiveJob, UpdateJob, DeleteJob, OpStep, AddScheduled,
                UpdateScheduled, RowDeleted, timeVars
  <2>2. ASSUME NEW j \in Jobs, Fire(j) \/ DropRun(j) \/ RunStep(j)
        PROVE  up' = up
    BY <2>2 DEF Fire, DropRun, RunStep, ReadRow, SkipRun, BeginRun, EndOnce,
                EndRecurring, DeleteOnce, timeVars
  <2>3. ASSUME Boot \/ Tick \/ Reload \/ StartStep \/ PluginStep
        PROVE  up'
    BY <1>2, <2>3 DEF Boot, Tick, Reload, StartStep, ListJobs, SyncFromDb,
       PluginStep, PluginLists, PluginForgets, PluginDeletes, PluginTerminated,
       AddBasicJob, BasicScheduled, timeVars
  <2> QED
    BY <1>2, <2>1, <2>2, <2>3 DEF Next, DownInv
<1>3. CASE ~up
  <2>1. CASE Boot
    BY <2>1 DEF Boot, DownInv
  <2>2. CASE Tick
    BY <1>3, <2>2 DEF Tick, DownInv, IInv, schedVars, syncVars, runVars, opVars,
                      pluginVars, Working
  <2> QED
    BY <1>3, <2>1, <2>2, DownStep
<1> QED
  BY <1>1, <1>2, <1>3

(* The row of a job that is being added or changed is in the hands of that *)
(* operation alone.                                                        *)
LEMMA OpInvStep ==
  ASSUME IInv, Next
  PROVE  OpInv'
<1> USE DEF IInv, Types
<1>1. CASE UNCHANGED <<up, sync, opVars, tableVars>>
  BY <1>1 DEF opVars, tableVars, OpInv, Working
<1>2. CASE Boot \/ StartStep
  BY <1>2 DEF Boot, StartStep, ListJobs, SyncFromDb, opVars, tableVars,
              timeVars, OpInv, Working, DownInv
<1>3. CASE GoDown
  BY <1>3 DEF GoDown, OpInv, Working, OpTypes
<1>4. CASE PluginDeletes
  BY <1>4 DEF PluginDeletes, Delete, opVars, syncVars, timeVars, OpInv, Working,
              TableTypes
<1>5. CASE AddBasicJob
  BY <1>5 DEF AddBasicJob, Insert, Unused, opVars, syncVars, timeVars, OpInv,
              Working, TableTypes
<1>6. ASSUME NEW o \in Ops, AddActiveJob(o)
      PROVE  OpInv'
  BY <1>6, JobAssumption DEF AddActiveJob, Begin, Insert, Unused, syncVars,
     timeVars, OpInv, Working, TableTypes, OpTypes
<1>7. ASSUME NEW o \in Ops, UpdateJob(o)
      PROVE  OpInv'
  BY <1>7, JobAssumption DEF UpdateJob, Begin, Free, syncVars, timeVars, OpInv,
     Working, TableTypes, OpTypes
<1>8. ASSUME NEW o \in Ops, DeleteJob(o)
      PROVE  OpInv'
  BY <1>8, JobAssumption DEF DeleteJob, Begin, tableVars, syncVars, timeVars,
     OpInv, Working, TableTypes, OpTypes
<1>9. ASSUME NEW o \in Ops, AddScheduled(o) \/ UpdateScheduled(o)
      PROVE  OpInv'
  BY <1>9 DEF AddScheduled, UpdateScheduled, Finish, tableVars, syncVars,
     timeVars, OpInv, Working, OpTypes
<1>10. ASSUME NEW o \in Ops, RowDeleted(o)
       PROVE  OpInv'
  BY <1>10 DEF RowDeleted, Delete, Finish, syncVars, timeVars, OpInv, Working,
     OpTypes, TableTypes
<1>11. ASSUME NEW j \in Jobs, DeleteOnce(j)
       PROVE  OpInv'
  BY <1>11 DEF DeleteOnce, Delete, opVars, syncVars, timeVars, OpInv, Working,
     TableTypes
<1>12. ASSUME NEW j \in Jobs,
              \/ Fire(j) \/ DropRun(j) \/ ReadRow(j) \/ SkipRun(j)
              \/ BeginRun(j) \/ EndOnce(j) \/ EndRecurring(j)
       PROVE  UNCHANGED <<up, sync, opVars, tableVars>>
  BY <1>12 DEF Fire, DropRun, ReadRow, SkipRun, BeginRun, EndOnce, EndRecurring,
               timeVars, syncVars
<1>13. ASSUME \/ Tick \/ Reload \/ PluginLists \/ PluginForgets
              \/ PluginTerminated \/ BasicScheduled
       PROVE  UNCHANGED <<up, sync, opVars, tableVars>>
  BY <1>13 DEF Tick, Reload, PluginLists, PluginForgets, PluginTerminated,
               BasicScheduled, timeVars, syncVars
<1> QED
  BY <1>1, <1>2, <1>3, <1>4, <1>5, <1>6, <1>7, <1>8, <1>9, <1>10, <1>11,
     <1>12, <1>13
     DEF Next, PluginStep, OpStep, RunStep

LEMMA PluginInvStep ==
  ASSUME IInv, Next
  PROVE  PluginInv' /\ PileInv'
<1> USE DEF IInv, Types
<1>1. CASE UNCHANGED <<pluginVars, tableVars>>
  BY <1>1 DEF pluginVars, tableVars, PluginInv, PileInv, Reminders
<1>2. CASE Boot \/ GoDown
  BY <1>2, JobAssumption DEF Boot, GoDown, tableVars, PluginInv, PileInv, DownInv,
     TableTypes
<1>3. CASE Reload
  BY <1>3 DEF Reload, tableVars, PluginInv, PileInv
<1>4. CASE PluginLists
  BY <1>4 DEF PluginLists, tableVars, PluginInv, PileInv, Reminders
<1>5. CASE PluginForgets
  BY <1>5, JobAssumption DEF PluginForgets, tableVars, PluginInv, PileInv,
     Reminders, PluginTypes
<1>6. CASE PluginDeletes
  BY <1>6, JobAssumption DEF PluginDeletes, Delete, PluginInv, PileInv, Reminders,
     TableTypes
<1>7. CASE PluginTerminated
  BY <1>7, JobAssumption DEF PluginTerminated, tableVars, PluginInv, PileInv,
     Reminders, TableTypes
<1>8. CASE AddBasicJob
  BY <1>8, JobAssumption, Rows DEF AddBasicJob, Insert, Unused, PluginInv,
     PileInv, Reminders, TableTypes
<1>9. CASE BasicScheduled
  BY <1>9, JobAssumption DEF BasicScheduled, tableVars, PluginInv, PileInv,
     Reminders, TableTypes
<1>10. ASSUME NEW o \in Ops, AddActiveJob(o)
       PROVE  PluginInv' /\ PileInv'
  BY <1>10 DEF AddActiveJob, Insert, Unused, pluginVars, PluginInv, PileInv,
     Reminders, TableTypes
<1>11. ASSUME NEW o \in Ops, UpdateJob(o)
       PROVE  PluginInv' /\ PileInv'
  BY <1>11 DEF UpdateJob, pluginVars, PluginInv, PileInv, Reminders, TableTypes
<1>12. ASSUME NEW o \in Ops, RowDeleted(o)
       PROVE  PluginInv' /\ PileInv'
  BY <1>12 DEF RowDeleted, Delete, pluginVars, PluginInv, PileInv, Reminders,
     TableTypes
<1>13. ASSUME NEW j \in Jobs, DeleteOnce(j)
       PROVE  PluginInv' /\ PileInv'
  BY <1>13 DEF DeleteOnce, Delete, pluginVars, PluginInv, PileInv, Reminders,
     TableTypes
<1>14. ASSUME NEW o \in Ops,
              DeleteJob(o) \/ AddScheduled(o) \/ UpdateScheduled(o)
       PROVE  UNCHANGED <<pluginVars, tableVars>>
  BY <1>14 DEF DeleteJob, AddScheduled, UpdateScheduled
<1>15. ASSUME NEW j \in Jobs,
              \/ Fire(j) \/ DropRun(j) \/ ReadRow(j) \/ SkipRun(j)
              \/ BeginRun(j) \/ EndOnce(j) \/ EndRecurring(j)
       PROVE  UNCHANGED <<pluginVars, tableVars>>
  BY <1>15 DEF Fire, DropRun, ReadRow, SkipRun, BeginRun, EndOnce, EndRecurring
<1>16. ASSUME Tick \/ StartStep
       PROVE  UNCHANGED <<pluginVars, tableVars>>
  BY <1>16 DEF Tick, StartStep, ListJobs, SyncFromDb
<1> QED
  BY <1>1, <1>2, <1>3, <1>4, <1>5, <1>6, <1>7, <1>8, <1>9, <1>10, <1>11,
     <1>12, <1>13, <1>14, <1>15, <1>16
     DEF Next, PluginStep, OpStep, RunStep

-----------------------------------------------------------------------------
(* The start of the manager.                                               *)

LEMMA EarlyInvStep ==
  ASSUME IInv, Next
  PROVE  EarlyInv'
<1> USE DEF IInv, Types
<1>1. CASE UNCHANGED <<sync, schedVars, run, found, tableVars>>
  BY <1>1 DEF tableVars, schedVars, EarlyInv
<1>2. CASE Boot \/ GoDown
  BY <1>2, Rows DEF Boot, GoDown, tableVars, runVars, schedVars, EarlyInv, DownInv
<1>3. CASE ListJobs
  BY <1>3 DEF ListJobs, tableVars, runVars, schedVars, EarlyInv
<1>4. CASE SyncFromDb
  BY <1>4 DEF SyncFromDb, EarlyInv
<1>5. CASE PluginForgets
  BY <1>5 DEF PluginForgets, Forget, Unschedule, tableVars, runVars, syncVars,
     EarlyInv
<1>6. CASE PluginDeletes
  BY <1>6, Rows DEF PluginDeletes, Delete, schedVars, runVars, syncVars, EarlyInv,
     TableTypes
<1>7. CASE AddBasicJob
  BY <1>7, Rows DEF AddBasicJob, Insert, schedVars, syncVars, EarlyInv, TableTypes
<1>8. CASE BasicScheduled
  <2>1. row[current].at = 0 /\ scheduled' = scheduled \cup {current}
    BY <1>8, BasicScheduledSteps
  <2>2. UNCHANGED <<row, run, found, sync>>
    BY <1>8 DEF BasicScheduled, tableVars, runVars, syncVars
  <2> QED
    BY <2>1, <2>2 DEF EarlyInv
<1>9. ASSUME NEW o \in Ops,
             AddActiveJob(o) \/ UpdateJob(o) \/ DeleteJob(o) \/ OpStep(o)
      PROVE  sync' = "synced"
  BY <1>9, WorkingTarget DEF AddActiveJob, UpdateJob, DeleteJob, Begin, OpStep,
     AddScheduled, UpdateScheduled, RowDeleted, Working, syncVars
<1>10. ASSUME NEW j \in Jobs, Fire(j) \/ DropRun(j)
       PROVE  EarlyInv'
  BY <1>10 DEF Fire, DropRun, Due, Fired, Unschedule, schedVars, tableVars,
     syncVars, runVars, EarlyInv, RunTypes
<1>11. ASSUME NEW j \in Jobs, ReadRow(j)
       PROVE  EarlyInv'
  BY <1>11 DEF ReadRow, schedVars, tableVars, syncVars, EarlyInv, RunTypes
<1>12. ASSUME NEW j \in Jobs, SkipRun(j) \/ BeginRun(j) \/ EndRecurring(j)
       PROVE  EarlyInv'
  BY <1>12, Rows DEF SkipRun, BeginRun, EndRecurring, schedVars, tableVars,
     syncVars, EarlyInv, RunTypes
<1>13. ASSUME NEW j \in Jobs, EndOnce(j)
       PROVE  EarlyInv'
  BY <1>13 DEF EndOnce, Forget, Unschedule, tableVars, syncVars, EarlyInv, RunTypes
<1>14. ASSUME NEW j \in Jobs, DeleteOnce(j)
       PROVE  EarlyInv'
  BY <1>14, Rows DEF DeleteOnce, Delete, schedVars, syncVars, EarlyInv, RunTypes,
     TableTypes
<1>15. ASSUME Tick \/ Reload \/ PluginLists \/ PluginTerminated
       PROVE  UNCHANGED <<sync, schedVars, run, found, tableVars>>
  BY <1>15 DEF Tick, Reload, PluginLists, PluginTerminated, syncVars, runVars
<1>16. CASE sync' = "synced"
  BY <1>16 DEF EarlyInv
<1> QED
  BY <1>1, <1>2, <1>3, <1>4, <1>5, <1>6, <1>7, <1>8, <1>9, <1>10, <1>11,
     <1>12, <1>13, <1>14, <1>15, <1>16
     DEF Next, StartStep, PluginStep, RunStep

LEMMA ListInvStep ==
  ASSUME IInv, Next
  PROVE  ListInv'
<1> USE DEF IInv, Types
<1>1. CASE UNCHANGED <<syncVars, schedVars, handlers, tableVars>>
  BY <1>1 DEF tableVars, schedVars, syncVars, ListInv
<1>2. CASE sync' # "listed"
  BY <1>2 DEF ListInv
<1>3. CASE ListJobs
  BY <1>3 DEF ListJobs, tableVars, ListInv
<1>4. CASE PluginForgets
  BY <1>4 DEF PluginForgets, Forget, Unschedule, tableVars, syncVars, ListInv,
     SchedTypes
<1>5. CASE PluginDeletes
  BY <1>5 DEF PluginDeletes, Delete, schedVars, syncVars, ListInv, TableTypes
<1>6. CASE AddBasicJob
  BY <1>6, Rows DEF AddBasicJob, Insert, Unused, schedVars, syncVars, ListInv,
     TableTypes
<1>7. CASE BasicScheduled
  <2> SUFFICES ASSUME sync = "listed", NEW j \in rows
               PROVE  /\ j \in listed => seen[j] = row[j]
                      /\ j \notin listed =>
                           /\ row[j].kind = "reminder"
                           /\ j \in handlers' => j \in scheduled' /\ trigger'[j] = 0
    BY <1>7 DEF BasicScheduled, tableVars, syncVars, ListInv
  <2> QED
    BY <1>7, BasicScheduledSteps DEF ListInv, SchedTypes
<1>8. ASSUME NEW o \in Ops,
             AddActiveJob(o) \/ UpdateJob(o) \/ DeleteJob(o) \/ OpStep(o)
      PROVE  sync' # "listed"
  BY <1>8, WorkingTarget DEF AddActiveJob, UpdateJob, DeleteJob, Begin, OpStep,
     AddScheduled, UpdateScheduled, RowDeleted, Working, syncVars
<1>9. ASSUME NEW j \in Jobs, Fire(j) \/ DropRun(j)
      PROVE  ListInv'
  BY <1>9 DEF Fire, DropRun, Fired, Unschedule, schedVars, tableVars, syncVars,
     ListInv, SchedTypes
<1>10. ASSUME NEW j \in Jobs, EndOnce(j)
       PROVE  ListInv'
  BY <1>10 DEF EndOnce, Once, EarlyInv, ListInv, syncVars
<1>11. ASSUME NEW j \in Jobs, DeleteOnce(j)
       PROVE  ListInv'
  BY <1>11 DEF DeleteOnce, Delete, schedVars, syncVars, ListInv, TableTypes
<1>12. ASSUME NEW j \in Jobs,
              ReadRow(j) \/ SkipRun(j) \/ BeginRun(j) \/ EndRecurring(j)
       PROVE  UNCHANGED <<syncVars, schedVars, handlers, tableVars>>
  BY <1>12 DEF ReadRow, SkipRun, BeginRun, EndRecurring
<1>13. ASSUME Boot \/ GoDown \/ SyncFromDb
       PROVE  sync' # "listed"
  BY <1>13 DEF Boot, GoDown, SyncFromDb
<1>14. ASSUME Tick \/ Reload \/ PluginLists \/ PluginTerminated
       PROVE  UNCHANGED <<syncVars, schedVars, handlers, tableVars>>
  BY <1>14 DEF Tick, Reload, PluginLists, PluginTerminated
<1> QED
  BY <1>1, <1>2, <1>3, <1>4, <1>5, <1>6, <1>7, <1>8, <1>9, <1>10, <1>11,
     <1>12, <1>13, <1>14
     DEF Next, StartStep, PluginStep, RunStep

-----------------------------------------------------------------------------
(* The runs of one-shot jobs.                                              *)

(* A job that has begun does not begin again.                              *)
LEMMA BeginFresh ==
  ASSUME IInv, NEW j \in Jobs, BeginRun(j)
  PROVE  begun[j] = {}
BY DEF IInv, BegunInv, BeginRun

LEMMA BegunInvStep ==
  ASSUME IInv, Next
  PROVE  BegunInv'
<1> USE DEF IInv, Types
<1>1. CASE UNCHANGED <<runVars, rows>>
  BY <1>1 DEF runVars, BegunInv, Once
<1>2. CASE GoDown
  BY <1>2 DEF GoDown, BegunInv
<1>3. CASE PluginDeletes
  BY <1>3 DEF PluginDeletes, Delete, runVars, BegunInv, Once
<1>4. CASE AddBasicJob
  BY <1>4 DEF AddBasicJob, Insert, BegunInv, Once, RunTypes
<1>5. ASSUME NEW o \in Ops, AddActiveJob(o)
      PROVE  BegunInv'
  BY <1>5 DEF AddActiveJob, Insert, BegunInv, Once, RunTypes
<1>6. ASSUME NEW o \in Ops, RowDeleted(o)
      PROVE  BegunInv'
  BY <1>6 DEF RowDeleted, Delete, runVars, BegunInv, Once
<1>7. ASSUME NEW j \in Jobs, Fire(j)
      PROVE  BegunInv'
  BY <1>7 DEF Fire, tableVars, BegunInv, Once, RunTypes
<1>8. ASSUME NEW j \in Jobs, ReadRow(j)
      PROVE  BegunInv'
  BY <1>8 DEF ReadRow, tableVars, BegunInv, Once, RunTypes, TableTypes, Blank
<1>9. ASSUME NEW j \in Jobs, SkipRun(j)
      PROVE  BegunInv'
  BY <1>9 DEF SkipRun, tableVars, BegunInv, Once, RunTypes
<1>10. ASSUME NEW j \in Jobs, BeginRun(j)
       PROVE  BegunInv'
  BY <1>10, BeginFresh DEF BeginRun, tableVars, BegunInv, Once, RunTypes
<1>11. ASSUME NEW j \in Jobs, EndOnce(j)
       PROVE  BegunInv'
  BY <1>11 DEF EndOnce, tableVars, BegunInv, Once, RunTypes
<1>12. ASSUME NEW j \in Jobs, EndRecurring(j)
       PROVE  BegunInv'
  BY <1>12 DEF EndRecurring, tableVars, BegunInv, Once, RunTypes
<1>13. ASSUME NEW j \in Jobs, DeleteOnce(j)
       PROVE  BegunInv'
  BY <1>13 DEF DeleteOnce, Delete, BegunInv, Once, RunTypes
<1>14. ASSUME NEW j \in Jobs, DropRun(j)
       PROVE  UNCHANGED <<runVars, rows>>
  BY <1>14 DEF DropRun, tableVars
<1>15. ASSUME NEW o \in Ops, \/ UpdateJob(o) \/ DeleteJob(o) \/ AddScheduled(o)
                             \/ UpdateScheduled(o)
       PROVE  UNCHANGED <<runVars, rows>>
  BY <1>15 DEF UpdateJob, DeleteJob, AddScheduled, UpdateScheduled, tableVars
<1>16. ASSUME \/ Boot \/ Tick \/ Reload \/ StartStep \/ PluginLists
              \/ PluginForgets \/ PluginTerminated \/ BasicScheduled
       PROVE  UNCHANGED <<runVars, rows>>
  BY <1>16 DEF Boot, Tick, Reload, StartStep, ListJobs, SyncFromDb, PluginLists,
               PluginForgets, PluginTerminated, BasicScheduled, tableVars
<1> QED
  BY <1>1, <1>2, <1>3, <1>4, <1>5, <1>6, <1>7, <1>8, <1>9, <1>10, <1>11,
     <1>12, <1>13, <1>14, <1>15, <1>16
     DEF Next, PluginStep, OpStep, RunStep

-----------------------------------------------------------------------------
(* The scheduler follows the table.                                        *)

LEMMA FollowInvStep ==
  ASSUME IInv, Next
  PROVE  FollowInv'
<1> SUFFICES ASSUME NEW j \in rows', Expected(j)'
             PROVE  j \in scheduled' /\ trigger'[j] = row'[j].at
  BY DEF FollowInv
<1> USE DEF IInv, Types
<1>. DEFINE Kept == Expected(j) /\ j \in rows /\ row'[j] = row[j]
<1>0. j \in Jobs
  BY TableTypesStep DEF TableTypes
<1>1. CASE Kept /\ UNCHANGED schedVars
  BY <1>1 DEF FollowInv, schedVars
<1>2. CASE Boot \/ GoDown
  BY <1>0, <1>2, JobAssumption DEF Boot, GoDown, Expected, DownInv
<1>3. CASE Tick
  <2>1. up' = up /\ now' = now + 1 /\ now \in Nat
    BY <1>3, Bounds DEF Tick, StartTypes
  <2>2. UNCHANGED <<rows, row, schedVars, handlers, sync, own, run, current, target>>
    BY <1>3 DEF Tick, tableVars, syncVars, pluginVars, runVars, opVars
  <2>3. row[j].at \in Nat
    BY <1>0, Bounds DEF TableTypes, Row, Times
  <2>4. row[j].at > now' => row[j].at > now
    BY <2>1, <2>3
  <2>5. Kept
    BY <2>1, <2>2, <2>4 DEF Expected
  <2> QED
    BY <1>1, <2>2, <2>5
<1>4. CASE SyncFromDb
  <2>1. /\ j \in rows /\ row' = row /\ sync = "listed"
        /\ row[j].enabled /\ row[j].valid
        /\ row[j].kind = "reminder" => j \in handlers
    BY <1>4 DEF SyncFromDb, Expected, tableVars
  <2>2. CASE j \in listed
    <3>1. seen[j] = row[j] /\ Restorable(j)
      BY <2>1, <2>2 DEF ListInv, Restorable
    <3> QED
      BY <1>0, <1>4, <2>1, <2>2, <3>1 DEF SyncFromDb
  <2>3. CASE j \notin listed
    <3>1. row[j].kind = "reminder" /\ j \in scheduled /\ trigger[j] = 0
      BY <2>1, <2>3 DEF ListInv
    <3>2. row[j].at = 0
      BY <1>0, <3>1 DEF TableTypes
    <3> QED
      BY <1>0, <1>4, <2>1, <2>3, <3>1, <3>2 DEF SyncFromDb
  <2> QED
    BY <2>2, <2>3
<1>5. CASE PluginForgets
  <2>1. j # current /\ j # current'
    BY <1>0, <1>5, JobAssumption DEF PluginForgets, PluginInv, Expected
  <2>2. Kept
    BY <1>5, <2>1 DEF PluginForgets, Expected, tableVars, syncVars, runVars,
                      opVars, timeVars, Forget
  <2> QED
    BY <1>0, <1>5, <2>1, <2>2 DEF PluginForgets, Forget, Unschedule, FollowInv,
                                  SchedTypes
<1>6. CASE PluginDeletes
  <2>1. j \in rows /\ j # current /\ row'[j] = row[j]
    BY <1>0, <1>6 DEF PluginDeletes, Delete, TableTypes
  <2>2. Kept
    BY <1>6, <2>1 DEF PluginDeletes, Expected, syncVars, runVars, opVars, timeVars
  <2> QED
    BY <1>1, <1>6, <2>2 DEF PluginDeletes
<1>7. CASE AddBasicJob
  <2>1. j \in rows /\ j # current /\ row'[j] = row[j]
    BY <1>0, <1>7, JobAssumption DEF AddBasicJob, Insert, Expected, PluginInv,
       TableTypes
  <2>2. Kept
    BY <1>7, <2>1 DEF AddBasicJob, Expected, syncVars, opVars, timeVars
  <2> QED
    BY <1>1, <1>7, <2>2 DEF AddBasicJob
<1>8. CASE BasicScheduled
  <2>1. row' = row
    BY <1>8 DEF BasicScheduled, tableVars
  <2>2. CASE j = current
    BY <1>0, <1>8, <2>1, <2>2, BasicScheduledSteps DEF SchedTypes
  <2>3. CASE j # current
    <3>1. Kept
      BY <1>8, <2>3, BasicScheduledSteps DEF BasicScheduled, Expected, tableVars,
         syncVars, runVars, opVars, timeVars
    <3> QED
      BY <1>0, <1>8, <2>1, <2>3, <3>1, BasicScheduledSteps DEF FollowInv, SchedTypes
  <2> QED
    BY <2>2, <2>3
<1>9. CASE Reload \/ PluginLists \/ PluginTerminated \/ ListJobs
  <2>1. UNCHANGED <<rows, row, schedVars, handlers, up, now, run, current, target>>
    BY <1>9 DEF Reload, PluginLists, PluginTerminated, ListJobs, tableVars,
                timeVars, runVars, opVars, pluginVars
  <2>2. sync' = "synced" \/ j = own' => sync = "synced" \/ j = own
    BY <1>0, <1>9, JobAssumption DEF Reload, PluginLists, PluginTerminated,
       ListJobs, syncVars, pluginVars
  <2> QED
    BY <1>1, <2>1, <2>2 DEF Expected
<1>10. ASSUME NEW o \in Ops, AddActiveJob(o) \/ UpdateJob(o)
       PROVE  Kept /\ UNCHANGED schedVars
  <2>1. target[o] = NoJob /\ j # target'[o]
    BY <1>10 DEF AddActiveJob, UpdateJob, Begin, OpInv, Working, Expected
  <2>2. \A p \in Ops : target[p] # j
    BY <1>0, <1>10, <2>1, JobAssumption DEF AddActiveJob, UpdateJob, Begin,
       Expected, OpTypes
  <2>3. j \in rows /\ row'[j] = row[j] /\ UNCHANGED <<run, schedVars, handlers>>
    BY <1>10, <2>1 DEF AddActiveJob, UpdateJob, Insert, Begin, TableTypes, OpTypes,
       runVars
  <2> QED
    BY <1>10, <2>2, <2>3 DEF AddActiveJob, UpdateJob, Expected, syncVars,
       pluginVars, timeVars
<1>11. ASSUME NEW o \in Ops, DeleteJob(o)
       PROVE  j \in scheduled' /\ trigger'[j] = row'[j].at
  <2>1. target[o] = NoJob /\ j # target'[o]
    BY <1>11 DEF DeleteJob, Begin, OpInv, Working, Expected
  <2>2. \A p \in Ops : target[p] # j
    BY <1>0, <1>11, <2>1, JobAssumption DEF DeleteJob, Begin, Expected, OpTypes
  <2>3. Kept
    BY <1>11, <2>2 DEF DeleteJob, Forget, Expected, tableVars, syncVars,
       pluginVars, runVars, timeVars
  <2> QED
    BY <1>0, <1>11, <2>1, <2>3 DEF DeleteJob, Begin, Forget, Unschedule, FollowInv,
       SchedTypes, OpTypes
<1>12. ASSUME NEW o \in Ops, AddScheduled(o) \/ UpdateScheduled(o)
       PROVE  j \in scheduled' /\ trigger'[j] = row'[j].at
  <2>1. j \in rows /\ row' = row
    BY <1>12 DEF AddScheduled, UpdateScheduled, tableVars
  <2>2. CASE j = target[o]
    <3>1. asked[o] = row[j]
      BY <1>12, <2>1, <2>2 DEF AddScheduled, UpdateScheduled, OpInv
    <3>2. asked[o].enabled /\ asked[o].valid
      BY <2>1, <3>1 DEF Expected
    <3>3. Schedule(j, asked[o])
      BY <1>12, <2>2, <3>2 DEF AddScheduled, UpdateScheduled
    <3> QED
      BY <1>0, <2>1, <3>1, <3>2, <3>3 DEF Schedule, SchedTypes
  <2>3. CASE j # target[o]
    <3>1. Kept
      BY <1>12, <2>1, <2>3 DEF AddScheduled, UpdateScheduled, Finish, Expected,
         syncVars, pluginVars, runVars, timeVars, OpTypes
    <3>2. j \in scheduled /\ trigger[j] = row[j].at
      BY <3>1 DEF FollowInv
    <3>3. j \in scheduled' /\ trigger'[j] = trigger[j]
      BY <1>0, <1>12, <2>3, <3>2 DEF AddScheduled, UpdateScheduled, Schedule,
         Unschedule, schedVars, SchedTypes
    <3> QED
      BY <2>1, <3>2, <3>3
  <2> QED
    BY <2>2, <2>3
<1>13. ASSUME NEW o \in Ops, RowDeleted(o)
       PROVE  Kept /\ UNCHANGED schedVars
  BY <1>13 DEF RowDeleted, Delete, Finish, Expected, syncVars, pluginVars,
     runVars, timeVars, TableTypes, OpTypes
<1>14. ASSUME NEW k \in Jobs, Fire(k) \/ DropRun(k)
       PROVE  j \in scheduled' /\ trigger'[j] = row'[j].at
  <2>1. Kept
    BY <1>0, <1>14 DEF Fire, DropRun, Expected, tableVars, syncVars, pluginVars,
       opVars, runVars, timeVars, RunTypes
  <2>2. j \in scheduled /\ trigger[j] = row[j].at
    BY <2>1 DEF FollowInv
  <2>3. trigger[j] = 0 \/ trigger[j] > now
    BY <2>1, <2>2 DEF Expected
  <2>4. now \in Nat /\ now # 0 /\ trigger[j] \in Nat
    BY <1>0, Bounds DEF StartTypes, SchedTypes, Times
  <2>5. j = k => trigger[k] = 0
    BY <1>14, <2>3, <2>4 DEF Fire, DropRun, Due
  <2>6. j \in scheduled' /\ trigger'[j] = trigger[j]
    BY <1>0, <1>14, <2>2, <2>5 DEF Fire, DropRun, Fired, Unschedule, schedVars,
       SchedTypes
  <2> QED
    BY <2>1, <2>2, <2>6
<1>15. ASSUME NEW k \in Jobs,
              ReadRow(k) \/ SkipRun(k) \/ BeginRun(k) \/ EndRecurring(k)
       PROVE  Kept /\ UNCHANGED schedVars
  BY <1>0, <1>15 DEF ReadRow, SkipRun, BeginRun, EndRecurring, Expected, tableVars,
     syncVars, pluginVars, opVars, timeVars, RunTypes
<1>16. ASSUME NEW k \in Jobs, EndOnce(k)
       PROVE  j \in scheduled' /\ trigger'[j] = row'[j].at
  <2>1. Kept /\ j # k
    BY <1>0, <1>16 DEF EndOnce, Forget, Expected, tableVars, syncVars, pluginVars,
       opVars, timeVars, RunTypes
  <2> QED
    BY <1>0, <1>16, <2>1 DEF EndOnce, Forget, Unschedule, FollowInv, SchedTypes
<1>17. ASSUME NEW k \in Jobs, DeleteOnce(k)
       PROVE  Kept /\ UNCHANGED schedVars
  BY <1>0, <1>17 DEF DeleteOnce, Delete, Expected, syncVars, pluginVars, opVars,
     timeVars, RunTypes, TableTypes
<1> QED
  BY <1>1, <1>2, <1>3, <1>4, <1>5, <1>6, <1>7, <1>8, <1>9, <1>10, <1>11,
     <1>12, <1>13, <1>14, <1>15, <1>16, <1>17
     DEF Next, StartStep, PluginStep, OpStep, RunStep

-----------------------------------------------------------------------------
(* The theorems.                                                           *)

LEMMA InvStep ==
  ASSUME IInv, [Next]_vars
  PROVE  IInv'
<1>1. CASE Next
  BY <1>1, TypesStep, DownInvStep, OpInvStep, PluginInvStep, EarlyInvStep,
     ListInvStep, FollowInvStep, BegunInvStep DEF IInv
<1>2. CASE UNCHANGED vars
  <2> USE <1>2 DEF vars, tableVars, schedVars, syncVars, runVars, opVars,
      pluginVars, timeVars, IInv
  <2>1. Types'
    BY DEF Types, TableTypes, SchedTypes, StartTypes, RunTypes, OpTypes,
           PluginTypes
  <2>2. DownInv' /\ OpInv'
    BY DEF DownInv, OpInv, Working
  <2>3. PluginInv' /\ PileInv'
    BY DEF PluginInv, PileInv, Reminders
  <2>4. EarlyInv' /\ ListInv'
    BY DEF EarlyInv, ListInv
  <2>5. FollowInv' /\ BegunInv'
    BY DEF FollowInv, Expected, BegunInv, Once
  <2> QED
    BY <2>1, <2>2, <2>3, <2>4, <2>5
<1> QED
  BY <1>1, <1>2

LEMMA InvHolds == Spec => []IInv
BY InitInv, InvStep, PTL DEF Spec

(* The table, the scheduler and whatever works on them have their types;   *)
(* no row is one-shot without a time that parses, and a process that is    *)
(* down has no memory (cron/manager.py, the tool and the routes).          *)
THEOREM TypeCorrect == Spec => []TypeOK
<1>1. IInv => TypeOK
  BY TypeParts DEF IInv
<1> QED
  BY <1>1, InvHolds, PTL

(* Once the manager has started, an enabled job that recurs or is still to *)
(* come is in the scheduler as its row says, unless something is at work   *)
(* on it, whatever crashed, was edited or ran before.                      *)
THEOREM FollowTheorem == Spec => []EnabledIsScheduled
<1>1. IInv => EnabledIsScheduled
  <2> SUFFICES ASSUME IInv, NEW j \in rows,
                      up /\ (sync = "synced" \/ j = own),
                      row[j].enabled /\ row[j].valid,
                      row[j].at = 0 \/ row[j].at > now,
                      row[j].kind = "reminder" => j \in handlers,
                      Quiet(j)
               PROVE  j \in scheduled /\ trigger[j] = row[j].at
    BY DEF EnabledIsScheduled
  <2>1. Expected(j)
    BY DEF Expected, Quiet
  <2> QED
    BY <2>1 DEF IInv, FollowInv
<1> QED
  BY <1>1, InvHolds, PTL

(* However often the process crashes with the job of a plugin in the       *)
(* table, a plugin whose hook has run has no job there but its own         *)
(* (_sync_cron_job and _remove_cron_job).                                  *)
THEOREM PileTheorem == Spec => []NoPileUp
<1>1. IInv => NoPileUp
  BY DEF IInv, PileInv, NoPileUp
<1> QED
  BY <1>1, InvHolds, PTL

(* A one-shot job does not begin twice for its time in one life of the     *)
(* process, however it is edited, disabled and enabled while it runs: it   *)
(* is deleted before it can be read again (_run_job).                      *)
THEOREM OnceTheorem == Spec => BeginsOnce
<1>1. IInv /\ [Next]_vars =>
        [\A j \in Jobs : run[j] = "read" /\ run'[j] = "body" =>
                           found[j].at \notin begun[j]]_vars
  <2> SUFFICES ASSUME IInv, Next, NEW j \in Jobs,
                      run[j] = "read", run'[j] = "body"
               PROVE  begun[j] = {}
    OBVIOUS
  <2>1. BeginRun(j)
    <3> USE DEF IInv, Types, RunTypes
    <3>1. ASSUME NEW k \in Jobs, Fire(k) \/ DropRun(k) \/ RunStep(k)
          PROVE  BeginRun(j)
      BY <3>1 DEF Fire, DropRun, RunStep, ReadRow, SkipRun, BeginRun, EndOnce,
                  EndRecurring, DeleteOnce, runVars
    <3>2. ASSUME NEW o \in Ops,
                 AddActiveJob(o) \/ UpdateJob(o) \/ DeleteJob(o) \/ OpStep(o)
          PROVE  FALSE
      BY <3>2 DEF AddActiveJob, UpdateJob, DeleteJob, OpStep, AddScheduled,
                  UpdateScheduled, RowDeleted, runVars
    <3>3. ~(Boot \/ GoDown \/ Tick \/ Reload \/ StartStep \/ PluginStep)
      BY DEF Boot, GoDown, Tick, Reload, StartStep, ListJobs, SyncFromDb,
             PluginStep, PluginLists, PluginForgets, PluginDeletes,
             PluginTerminated, AddBasicJob, BasicScheduled, runVars
    <3> QED
      BY <3>1, <3>2, <3>3 DEF Next
  <2> QED
    BY <2>1, BeginFresh
<1> QED
  BY <1>1, InvHolds, PTL DEF Spec, BeginsOnce
=============================================================================
