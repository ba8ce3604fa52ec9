------------------------------ MODULE CronJobs ------------------------------
(***************************************************************************)
(* The scheduled jobs: the table in the database, the scheduler in memory, *)
(* and what keeps the second in step with the first: the start of the      *)
(* manager, the operations of the agent's tool and of the dashboard, the   *)
(* runs of the jobs, and a plugin that puts its reminder into the table at *)
(* every start and takes it out when it is terminated.                     *)
(*                                                                         *)
(* Every call to the database is a step of its own, and its caller goes on *)
(* in another one with what the call returned.                             *)
(*   rows, row    the jobs in the table and what it says of them           *)
(*   up           the process runs; crashes counts how often it went down  *)
(*   scheduled, trigger   the jobs of the scheduler and when they fire     *)
(*   handlers     the jobs that have an entry in _basic_handlers           *)
(*   sync, listed, seen   the start of the manager; the rows it has listed *)
(*   run, found   the run of a job; the row it has read                    *)
(*   op, target, asked    an operation, its job, the row it got            *)
(*   plugin, remaining, current, own   where the plugin is, the jobs it    *)
(*                removes, the one it works on, and its _job_id            *)
(*   now          the time                                                 *)
(*   begun        history variable: the times for which a one-shot job has *)
(*                begun in this life of the process                        *)
(* A job with the time 0 recurs, any other runs once, at that time.        *)
(***************************************************************************)
EXTENDS Naturals, FiniteSets

CONSTANTS Jobs, NoJob, Ops, LastTick, MaxCrashes, MayReload

ASSUME JobAssumption == NoJob \notin Jobs
ASSUME BoundAssumption ==
  LastTick \in Nat \ {0} /\ MaxCrashes \in Nat /\ MayReload \in BOOLEAN

VARIABLES rows, row, up, crashes, scheduled, trigger, handlers, sync, listed,
          seen, run, found, op, target, asked, plugin, remaining, current,
          own, now, begun

tableVars  == <<rows, row>>
schedVars  == <<scheduled, trigger>>
syncVars   == <<sync, listed, seen>>
runVars    == <<run, found, begun>>
opVars     == <<op, target, asked>>
pluginVars == <<plugin, remaining, current, own>>
timeVars   == <<up, crashes, now>>
vars == <<tableVars, schedVars, handlers, syncVars, runVars, opVars,
          pluginVars, timeVars>>

Times == 0 .. LastTick

(* cron_expression and timezone count only for whether they are "valid".   *)
Row == [kind : {"active", "reminder"}, at : Times, enabled : BOOLEAN,
        valid : BOOLEAN]
Blank == [kind |-> "active", at |-> 0, enabled |-> FALSE, valid |-> FALSE]

Once(r) == r.at # 0

(* Mutant of Acceptable: any job may be turned into a one-shot.            *)
AcceptableAny(r) == Once(r) => r.valid

(* What the tool and the dashboard accept for a job: a one-shot job has a  *)
(* time that parses, and only an active job can be one.                    *)
Acceptable(r) == Once(r) => r.valid /\ r.kind = "active"

Init ==
  /\ rows = {} /\ row = [j \in Jobs |-> Blank]
  /\ up = FALSE /\ crashes = 0
  /\ scheduled = {} /\ trigger = [j \in Jobs |-> 0]
  /\ handlers = {}
  /\ sync = "off" /\ listed = {} /\ seen = [j \in Jobs |-> Blank]
  /\ run = [j \in Jobs |-> "idle"] /\ found = [j \in Jobs |-> Blank]
  /\ begun = [j \in Jobs |-> {}]
  /\ op = [o \in Ops |-> "idle"] /\ target = [o \in Ops |-> NoJob]
  /\ asked = [o \in Ops |-> Blank]
  /\ plugin = "off" /\ remaining = {} /\ current = NoJob /\ own = NoJob
  /\ now = 1

(* An id that nothing mentions any more stands for a new one.              *)
Unused(j) ==
  /\ j \notin rows \cup scheduled \cup handlers \cup listed \cup remaining
  /\ run[j] = "idle"
  /\ j \notin {current, own}
  /\ \A o \in Ops : target[o] # j

-----------------------------------------------------------------------------
(* The table and the scheduler.                                            *)

Reminders == {j \in rows : row[j].kind = "reminder"}

Insert(j, r) ==
  /\ rows' = rows \cup {j}
  /\ row' = [row EXCEPT ![j] = r]
  /\ begun' = [begun EXCEPT ![j] = {}]

Delete(j) ==
  /\ rows' = rows \ {j}
  /\ row' = [row EXCEPT ![j] = Blank]

(* _schedule_job replaces the trigger of the job; an expression that does  *)
(* not parse is an exception.                                              *)
Schedule(j, r) ==
  IF r.valid
  THEN /\ scheduled' = scheduled \cup {j}
       /\ trigger' = [trigger EXCEPT ![j] = r.at]
  ELSE UNCHANGED schedVars

Unschedule(j) ==
  /\ scheduled' = scheduled \ {j}
  /\ trigger' = [trigger EXCEPT ![j] = 0]

(* The part of delete_job before its call to the database.                 *)
Forget(j) ==
  /\ Unschedule(j)
  /\ handlers' = handlers \ {j}

-----------------------------------------------------------------------------
(* The process.                                                            *)

(* start has set _started and awaits the list of jobs; the plugin's hook   *)
(* awaits its own.                                                         *)
Boot ==
  /\ ~up
  /\ up' = TRUE
  /\ sync' = "listing"
  /\ plugin' = "listing"
  /\ UNCHANGED <<tableVars, schedVars, handlers, listed, seen, runVars, opVars,
                 remaining, current, own, crashes, now>>

(* The process goes down. In a crash the table stays as it is; an orderly  *)
(* end lets the plugin remove its job, and the one-shot jobs whose runs it *)
(* cancels remove themselves, as far as they get.                          *)
GoDown ==
  /\ up
  /\ crashes < MaxCrashes
  /\ crashes' = crashes + 1
  /\ up' = FALSE
  /\ LET leaving == {j \in rows : \/ row[j].kind = "reminder"
                                  \/ run[j] \in {"body", "deleting"}
                                     /\ Once(found[j])}
     IN  \E gone \in SUBSET leaving :
           /\ rows' = rows \ gone
           /\ row' = [j \in Jobs |-> IF j \in gone THEN Blank ELSE row[j]]
  /\ scheduled' = {} /\ trigger' = [j \in Jobs |-> 0]
  /\ handlers' = {}
  /\ sync' = "off" /\ listed' = {} /\ seen' = [j \in Jobs |-> Blank]
  /\ run' = [j \in Jobs |-> "idle"] /\ found' = [j \in Jobs |-> Blank]
  /\ begun' = [j \in Jobs |-> {}]
  /\ op' = [o \in Ops |-> IF op[o] = "idle" THEN "idle" ELSE "done"]
  /\ target' = [o \in Ops |-> NoJob] /\ asked' = [o \in Ops |-> Blank]
  /\ plugin' = "off" /\ remaining' = {} /\ current' = NoJob /\ own' = NoJob
  /\ UNCHANGED now

(* Time passes. While the process runs, the scheduler keeps up with it.    *)
Tick ==
  /\ now < LastTick
  /\ up => \A j \in scheduled : trigger[j] = 0 \/ trigger[j] > now
  /\ now' = now + 1
  /\ UNCHANGED <<tableVars, schedVars, handlers, syncVars, runVars, opVars,
                 pluginVars, up, crashes>>

(* sync_from_db: the list, and the loop over it, which does not suspend.   *)
ListJobs ==
  /\ sync = "listing"
  /\ sync' = "listed"
  /\ listed' = rows
  /\ seen' = row
  /\ UNCHANGED <<tableVars, schedVars, handlers, runVars, opVars, pluginVars,
                 timeVars>>

Restorable(j) ==
  /\ seen[j].enabled /\ seen[j].valid
  /\ seen[j].kind = "reminder" => j \in handlers

(* Mutant of SyncFromDb: the scheduler gets what was listed, and no more.   *)
SyncReplaces ==
  /\ sync = "listed"
  /\ scheduled' = {j \in listed : Restorable(j)}
  /\ trigger' = [j \in Jobs |-> IF j \in scheduled' THEN seen[j].at ELSE 0]
  /\ sync' = "synced" /\ listed' = {} /\ seen' = [j \in Jobs |-> Blank]
  /\ UNCHANGED <<tableVars, handlers, runVars, opVars, pluginVars, timeVars>>

SyncFromDb ==
  /\ sync = "listed"
  /\ LET restored == {j \in listed : Restorable(j)}
     IN  /\ scheduled' = scheduled \cup restored
         /\ trigger' = [j \in Jobs |-> IF j \in restored THEN seen[j].at
                                                         ELSE trigger[j]]
  /\ sync' = "synced" /\ listed' = {} /\ seen' = [j \in Jobs |-> Blank]
  /\ UNCHANGED <<tableVars, handlers, runVars, opVars, pluginVars, timeVars>>

-----------------------------------------------------------------------------
(* The operations of the tool and of the dashboard. One begins when the    *)
(* manager has started and nothing else but a run works on its job.        *)

Free(j) ==
  /\ \A o \in Ops : target[o] # j
  /\ row[j].kind = "reminder" => plugin = "rest"

Begin(o, j, label) ==
  /\ up /\ sync = "synced"
  /\ op[o] = "idle"
  /\ op' = [op EXCEPT ![o] = label]
  /\ target' = [target EXCEPT ![o] = j]

Finish(o) ==
  /\ op' = [op EXCEPT ![o] = "done"]
  /\ target' = [target EXCEPT ![o] = NoJob]
  /\ asked' = [asked EXCEPT ![o] = Blank]

(* add_active_job: the row, then the schedule.                             *)
AddActiveJob(o) ==
  \E j \in Jobs, r \in Row :
    /\ Unused(j)
    /\ r.kind = "active" /\ Acceptable(r)
    /\ Begin(o, j, "adding")
    /\ Insert(j, r)
    /\ asked' = [asked EXCEPT ![o] = r]
    /\ UNCHANGED <<schedVars, handlers, syncVars, run, found, pluginVars,
                   timeVars>>

AddScheduled(o) ==
  /\ op[o] = "adding"
  /\ IF asked[o].enabled THEN Schedule(target[o], asked[o]) ELSE UNCHANGED schedVars
  /\ Finish(o)
  /\ UNCHANGED <<tableVars, handlers, syncVars, runVars, pluginVars, timeVars>>

(* update_job: the row, which the update returns, then the schedule.       *)
UpdateJob(o) ==
  \E j \in rows, r \in Row :
    /\ Free(j)
    /\ r.kind = row[j].kind /\ Acceptable(r)
    /\ Begin(o, j, "updating")
    /\ row' = [row EXCEPT ![j] = r]
    /\ asked' = [asked EXCEPT ![o] = r]
    /\ UNCHANGED <<rows, schedVars, handlers, syncVars, runVars, pluginVars,
                   timeVars>>

UpdateScheduled(o) ==
  /\ op[o] = "updating"
  /\ IF asked[o].enabled /\ asked[o].valid
     THEN Schedule(target[o], asked[o])
     ELSE Unschedule(target[o])
  /\ Finish(o)
  /\ UNCHANGED <<tableVars, handlers, syncVars, runVars, pluginVars, timeVars>>

(* delete_job: the schedule and the handler, then the row.                 *)
DeleteJob(o) ==
  \E j \in rows :
    /\ Free(j)
    /\ Begin(o, j, "deleting")
    /\ Forget(j)
    /\ UNCHANGED <<tableVars, asked, syncVars, runVars, pluginVars, timeVars>>

RowDeleted(o) ==
  /\ op[o] = "deleting"
  /\ Delete(target[o])
  /\ Finish(o)
  /\ UNCHANGED <<schedVars, handlers, syncVars, runVars, pluginVars, timeVars>>

-----------------------------------------------------------------------------
(* The runs. The scheduler runs a job at most once at a time.              *)

Due(j) ==
  /\ up
  /\ j \in scheduled
  /\ trigger[j] <= now

(* A trigger that fires only once is removed when it has fired.            *)
Fired(j) ==
  IF trigger[j] # 0 THEN Unschedule(j) ELSE UNCHANGED schedVars

Fire(j) ==
  /\ Due(j)
  /\ run[j] = "idle"
  /\ trigger[j] \in {0, now}
  /\ run' = [run EXCEPT ![j] = "fired"]
  /\ Fired(j)
  /\ UNCHANGED <<tableVars, handlers, syncVars, found, begun, opVars,
                 pluginVars, timeVars>>

(* A run that is late by more than the grace time, or that comes while the *)
(* job still runs, is dropped.                                             *)
DropRun(j) ==
  /\ Due(j)
  /\ trigger[j] # 0
  /\ run[j] # "idle" \/ trigger[j] < now
  /\ Fired(j)
  /\ UNCHANGED <<tableVars, handlers, syncVars, runVars, opVars, pluginVars,
                 timeVars>>

(* _run_job reads the row of the job.                                      *)
ReadRow(j) ==
  /\ run[j] = "fired"
  /\ run' = [run EXCEPT ![j] = "read"]
  /\ found' = [found EXCEPT ![j] = row[j]]
  /\ UNCHANGED <<tableVars, schedVars, handlers, syncVars, begun, opVars,
                 pluginVars, timeVars>>

(* There is no row, or it is disabled.                                     *)
SkipRun(j) ==
  /\ run[j] = "read"
  /\ ~found[j].enabled
  /\ run' = [run EXCEPT ![j] = "idle"]
  /\ found' = [found EXCEPT ![j] = Blank]
  /\ UNCHANGED <<tableVars, schedVars, handlers, syncVars, begun, opVars,
                 pluginVars, timeVars>>

BeginRun(j) ==
  /\ run[j] = "read"
  /\ found[j].enabled
  /\ run' = [run EXCEPT ![j] = "body"]
  /\ begun' = [begun EXCEPT ![j] = @ \cup ({found[j].at} \ {0})]
  /\ UNCHANGED <<tableVars, schedVars, handlers, syncVars, found, opVars,
                 pluginVars, timeVars>>

(* Mutant of EndOnce: a one-shot job stays in the table.                   *)
EndOnceKeepingRow(j) ==
  /\ run[j] = "body"
  /\ Once(found[j])
  /\ Forget(j)
  /\ run' = [run EXCEPT ![j] = "idle"]
  /\ found' = [found EXCEPT ![j] = Blank]
  /\ UNCHANGED <<tableVars, syncVars, begun, opVars, pluginVars, timeVars>>

(* The run ends, or fails. A job that was a one-shot when it was read is   *)
(* deleted.                                                                *)
EndOnce(j) ==
  /\ run[j] = "body"
  /\ Once(found[j])
  /\ Forget(j)
  /\ run' = [run EXCEPT ![j] = "deleting"]
  /\ UNCHANGED <<tableVars, syncVars, found, begun, opVars, pluginVars, timeVars>>

EndRecurring(j) ==
  /\ run[j] = "body"
  /\ ~Once(found[j])
  /\ run' = [run EXCEPT ![j] = "idle"]
  /\ found' = [found EXCEPT ![j] = Blank]
  /\ UNCHANGED <<tableVars, schedVars, handlers, syncVars, begun, opVars,
                 pluginVars, timeVars>>

DeleteOnce(j) ==
  /\ run[j] = "deleting"
  /\ Delete(j)
  /\ run' = [run EXCEPT ![j] = "idle"]
  /\ found' = [found EXCEPT ![j] = Blank]
  /\ UNCHANGED <<schedVars, handlers, syncVars, begun, opVars, pluginVars,
                 timeVars>>

-----------------------------------------------------------------------------
(* The plugin: _sync_cron_job at the start, _remove_cron_job when it is    *)
(* terminated. own is NoJob until it has added its job.                    *)

Reminder == [kind |-> "reminder", at |-> 0, enabled |-> TRUE, valid |-> TRUE]

(* Saving its configuration or updating it terminates the plugin and loads *)
(* it again; on_astrbot_loaded does not run again.                         *)
Reload ==
  /\ MayReload
  /\ plugin = "rest"
  /\ own # NoJob
  /\ \A o \in Ops : target[o] \notin Reminders \cup {own}
  /\ plugin' = "listing"
  /\ UNCHANGED <<tableVars, schedVars, handlers, syncVars, runVars, opVars,
                 remaining, current, own, timeVars>>

(* Mutant of PluginLists: only the job this process has added is removed.  *)
PluginListsOwn ==
  /\ plugin = "listing"
  /\ plugin' = "removing"
  /\ remaining' = {own} \ {NoJob}
  /\ UNCHANGED <<tableVars, schedVars, handlers, syncVars, runVars, opVars,
                 current, own, timeVars>>

PluginLists ==
  /\ plugin = "listing"
  /\ plugin' = "removing"
  /\ remaining' = Reminders \cup ({own} \ {NoJob})
  /\ UNCHANGED <<tableVars, schedVars, handlers, syncVars, runVars, opVars,
                 current, own, timeVars>>

PluginForgets ==
  /\ plugin = "removing"
  /\ \E j \in remaining :
       /\ Forget(j)
       /\ current' = j
       /\ remaining' = remaining \ {j}
  /\ plugin' = "deleting"
  /\ UNCHANGED <<tableVars, syncVars, runVars, opVars, own, timeVars>>

PluginDeletes ==
  /\ plugin = "deleting"
  /\ Delete(current)
  /\ current' = NoJob
  /\ plugin' = "removing"
  /\ UNCHANGED <<schedVars, handlers, syncVars, runVars, opVars, remaining, own,
                 timeVars>>

PluginTerminated ==
  /\ plugin = "removing" /\ remaining = {} /\ own # NoJob
  /\ own' = NoJob
  /\ plugin' = "rest"
  /\ UNCHANGED <<tableVars, schedVars, handlers, syncVars, runVars, opVars,
                 remaining, current, timeVars>>

(* add_basic_job: the row, then the handler and the schedule.              *)
AddBasicJob ==
  /\ plugin = "removing" /\ remaining = {} /\ own = NoJob
  /\ \E j \in Jobs : Unused(j) /\ Insert(j, Reminder) /\ current' = j
  /\ plugin' = "adding"
  /\ UNCHANGED <<schedVars, handlers, syncVars, run, found, opVars, remaining,
                 own, timeVars>>

(* Mutant of BasicScheduled: the handler is not registered.                *)
BasicScheduledOnly ==
  /\ plugin = "adding"
  /\ Schedule(current, Reminder)
  /\ own' = current
  /\ current' = NoJob
  /\ plugin' = "rest"
  /\ UNCHANGED <<tableVars, handlers, syncVars, runVars, opVars, remaining, timeVars>>

BasicScheduled ==
  /\ plugin = "adding"
  /\ handlers' = handlers \cup {current}
  /\ Schedule(current, Reminder)
  /\ own' = current
  /\ current' = NoJob
  /\ plugin' = "rest"
  /\ UNCHANGED <<tableVars, syncVars, runVars, opVars, remaining, timeVars>>

-----------------------------------------------------------------------------
StartStep == ListJobs \/ SyncFromDb

OpStep(o) ==
  AddScheduled(o) \/ UpdateScheduled(o) \/ RowDeleted(o)

RunStep(j) ==
  \/ ReadRow(j) \/ SkipRun(j) \/ BeginRun(j)
  \/ EndOnce(j) \/ EndRecurring(j) \/ DeleteOnce(j)

PluginStep ==
  \/ PluginLists \/ PluginForgets \/ PluginDeletes \/ PluginTerminated
  \/ AddBasicJob \/ BasicScheduled

Next ==
  \/ Boot \/ GoDown \/ Tick \/ Reload
  \/ StartStep \/ PluginStep
  \/ \E o \in Ops : AddActiveJob(o) \/ UpdateJob(o) \/ DeleteJob(o) \/ OpStep(o)
  \/ \E j \in Jobs : Fire(j) \/ DropRun(j) \/ RunStep(j)

Spec == Init /\ [][Next]_vars

(* Calls to the database return. The runs, the operators, the clock and    *)
(* the end of the process have no fairness.                                *)
FairSpec == Spec /\ WF_vars(StartStep) /\ WF_vars(PluginStep)

-----------------------------------------------------------------------------
(* Properties.                                                             *)

(* The types. No row is one-shot without a time that parses, and a process *)
(* that is down has no memory.                                             *)
TypeOK ==
  /\ rows \in SUBSET Jobs /\ row \in [Jobs -> Row]
  /\ \A j \in Jobs : row[j].at # 0 => row[j].valid /\ row[j].kind = "active"
  /\ \A j \in Jobs \ rows : row[j] = Blank
  /\ up \in BOOLEAN /\ crashes \in 0 .. MaxCrashes /\ now \in 1 .. LastTick
  /\ scheduled \in SUBSET Jobs /\ trigger \in [Jobs -> Times]
  /\ handlers \in SUBSET Jobs
  /\ sync \in {"off", "listing", "listed", "synced"}
  /\ listed \in SUBSET Jobs /\ seen \in [Jobs -> Row]
  /\ run \in [Jobs -> {"idle", "fired", "read", "body", "deleting"}]
  /\ found \in [Jobs -> Row] /\ begun \in [Jobs -> SUBSET Times]
  /\ op \in [Ops -> {"idle", "adding", "updating", "deleting", "done"}]
  /\ target \in [Ops -> Jobs \cup {NoJob}] /\ asked \in [Ops -> Row]
  /\ plugin \in {"off", "listing", "removing", "deleting", "adding", "rest"}
  /\ remaining \in SUBSET Jobs
  /\ current \in Jobs \cup {NoJob} /\ own \in Jobs \cup {NoJob}
  /\ ~up => scheduled \cup handlers = {} /\ sync = "off" /\ plugin = "off"

(* Nothing works on the job.                                               *)
Quiet(j) ==
  /\ run[j] = "idle" /\ j # current
  /\ \A o \in Ops : target[o] # j

(* The scheduler follows the table: once the manager has started, whatever *)
(* crashed before, an enabled job that recurs or whose time is still to    *)
(* come is scheduled as its row says, unless something is at work on it.   *)
EnabledIsScheduled ==
  \A j \in rows :
    /\ up /\ (sync = "synced" \/ j = own)
    /\ row[j].enabled /\ row[j].valid
    /\ row[j].at = 0 \/ row[j].at > now
    /\ row[j].kind = "reminder" => j \in handlers
    /\ Quiet(j)
    => j \in scheduled /\ trigger[j] = row[j].at

(* A one-shot job begins at most once for its time in one life of the      *)
(* process, however it is edited or switched while it runs.                *)
BeginsOnce ==
  [][\A j \in Jobs : run[j] = "read" /\ run'[j] = "body" =>
                       found[j].at \notin begun[j]]_vars

(* Jobs that a plugin left behind when the process went down do not pile   *)
(* up: when its hook has run, its own is the only one in the table.        *)
NoPileUp == up /\ plugin = "rest" => Reminders \subseteq {own}

(* After every start the reminder is scheduled again.                      *)
ReminderComesBack ==
  plugin = "listing" /\ own = NoJob
    ~> ~up \/ \E j \in scheduled \cap handlers : j = own

(* "By default it is checked every day": while nobody has touched its job, *)
(* a loaded plugin has its reminder scheduled.                             *)
ReminderKept == up /\ plugin = "rest" => own \in scheduled
=============================================================================
