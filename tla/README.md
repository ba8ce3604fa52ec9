# Verification of SEU-Seminar-Bot

SEU-Seminar-Bot is a chat bot for a research seminar, built as a fork of AstrBot: platform adapters put
messages on an event bus, a pipeline filters each one and runs plugins and an LLM agent on it, and a few
plugins of the seminar keep its table of papers and greet its new members. Everything runs as tasks of one
`asyncio` event loop. This directory holds TLA+ models of the parts of that program where the order of the
tasks matters, TLC configurations that check them on small instances, and proofs that hold for any size.

Paths below are relative to `src/astrbot/`.

## 1. Inventory

| Component | State it keeps | Operations and interactions | What is hard |
|---|---|---|---|
| Event bus, scheduler (`core/event_bus.py`, `core/pipeline/scheduler.py`) | the event queue; the active-event registry | `dispatch` starts one task per event and never waits for it; `execute` registers the event, runs the stages as nested generators and unregisters it | every pair of messages interleaves at every `await` |
| Filters (`core/pipeline/*`) | rate limiter: timestamps and a lock per session | waking check, whitelist, session switch, rate limit, safety, preprocessing | the session of an event may be rewritten after it was registered; the limiter sleeps with its lock held |
| Process stage (`core/pipeline/process_stage`) | none of its own | runs the plugin handlers that woke, then the agent sub-stage | a plugin may prepare an LLM request long before the agent stage takes the session lock |
| Internal agent stage (`.../agent_sub_stages/internal.py`) | none of its own | capture as follow-up, or: typing, session lock, build, register runner, run, save history, unregister, finalise | the whole life of an answer, with a stop or an error at each `await` |
| Follow-ups (`.../follow_up.py`) | `_ACTIVE_AGENT_RUNNERS`, `_FOLLOW_UP_ORDER_STATE` | capture, monitor, activate and wait, mark consumed, finish | three tasks act on one slot; the state is dropped and rebuilt |
| Tool-loop runner (`core/agent/runners/tool_loop_agent_runner.py`, `core/astr_agent_run_util.py`) | runner state, pending follow-ups, abort signal | `step`, `follow_up`, `request_stop`, provider fallback and retries | messages arrive while the run is ending |
| Session lock (`core/utils/session_lock.py`) | an `asyncio.Lock` and a use count per session | `acquire_lock` | locks are created and dropped under their waiters; cancellation |
| Conversations (`core/conversation_mgr.py`, `core/utils/history_saver.py`) | selection per session in memory and in the store; rows in the database | create, switch, delete, read, update | the history is read, used for minutes, and written back whole |
| Commands (`builtin_stars/builtin_commands/commands/conversation.py`) | none | `/reset`, `/new`, `/stop`, ... act on the registry and the conversations | they do not take the session lock |
| Active-event registry (`core/utils/active_event_registry.py`) | the events in flight per session | register, unregister, `stop_all`, `request_agent_stop_all` | stopping is a mark that is read later |
| Seminar updater (`builtin_stars/seminar_excel_updater/main.py`) | a JSON state per user, pending PDFs, `_write_lock` | submissions, answers, checks, writes to a shared table | no lock per user; the table is remote; a write may take effect although its answer is lost |
| Cron jobs (`core/cron/manager.py`) | the job table, the scheduler, handlers of plugins | add, update, delete, run, restore after a start | restarts; one-shot jobs; a second copy of the next run time |
| Session waiter (`core/utils/session_waiter.py`, `builtin_stars/astrbot/main.py`) | waiting handlers and their filters; a future, a timer and a lock for each | register, trigger, keep, clean up; a handler in front of all others hands messages over | waiters replace each other; timers race answers; the list of filters changes under the loop over it |
| Context (`core/agent/context/`) | none | shortens the messages of a run before every request | cuts that separate calls from results |
| Welcome and reminder guards (`builtin_stars/seminar_welcome_guard`, `seminar_excel_guard`) | seen members in a file; nothing | poll or webhook, greet, save; read the table, remind | sends between load and save |
| Web chat (`core/platform/sources/webchat/`, `dashboard/routes/chat.py`) | a chat queue per conversation with its listener task, a back queue per request | a request posts a message, its stream shows and saves what comes back; the adapter puts the message on the bus; answers and messages from elsewhere go to the back queues; deleting a conversation removes its queues | queues are removed under those who use them; full queues; done callbacks; streams cut at any `await` |
| Everything else | | providers, other platform adapters, plugin manager, knowledge base, the other routes of the dashboard, backup, sandboxes, third-party agents | I/O, formats and administration outside the message path |

For each component, what makes it correct:

- *follow-ups*: only the head of the capture order runs; no capture loses or shares its slot; every captured
  message is either consumed by the run that captured it or answered by its own run.
- *session lock*: one task per session inside, first come first served, whatever is cancelled; no entry outlives
  its users, none disappears under one.
- *history*: a saved turn stays; a stopped message leaves nothing behind; what `/reset` clears stays cleared.
- *seminar updater*: one row per paper; a paper keeps its meeting and slides; the write lock is always returned;
  a speaker is asked before having two papers at one meeting.
- *runner and run loop*: every ticket taken is resolved; every request is a legal conversation; a stop is heeded soon and
  whatever the tools do; an error is shown only when every model failed.
- *cron*: an enabled persistent job is scheduled again after a restart; a job that was rescheduled is not deleted.
- *waiter, limiter, registry*: an answer reaches the waiter that is registered, one at a time and not after its end; at
  most N messages per window; a stop reaches every event of the session; every message comes to its end.
- *web chat*: the chat queue in use always has a listener, and only that one; what a stream accumulated is saved once, and
  nothing of it is missing or moved beyond what the accumulator does on purpose, however the stream ends; every posted message
  and its stream come to their end.

`PROJECT.json` lists all components with their status and every hazard at the line where it bites.

## 2. Modules

| Module | Models | Role |
|---|---|---|
| `FifoMutex` | - | abstract lock: a queue whose head is inside |
| `SessionLock` | `session_lock.py` and the `asyncio.Lock` it uses | detailed lock |
| `SessionLockFifo` | - | the refinement: `SessionLock` implements `FifoMutex` for a session (`Watched`) |
| `RateLimit` | `rate_limit_check/stage.py` | the messages of one session id, and time |
| `SessionWaiter` | `session_waiter.py`, its handlers in the built-in plugin | plugins that wait for messages |
| `MessagePath` | `event_bus.py`, `scheduler.py`, the process stage | composes `RateLimit`, `SessionWaiter` and `SessionLock` |
| `ContextTruncator` | `core/agent/context/` | pure operators on messages |
| `AgentLoop` | `tool_loop_agent_runner.py`, `run_agent` | one run of the agent |
| `OrderedResume` | - | abstract promise of the follow-ups: handled one at a time, in order |
| `FollowUpOrder` | the order state of a session in `follow_up.py` | pure operators |
| `FollowUp` | `follow_up.py`, `internal.py`, `run_agent`, the runner's states | composes the above for one session |
| `SessionHistory` | `conversation_mgr.py`, saving in `internal.py`, the commands, background jobs | histories of one session |
| `SeminarUpdater` | `seminar_excel_updater/main.py` | private messages and the table |
| `CronJobs` | `cron/manager.py`, its tool and dashboard routes, the jobs of the seminar plugins | job table, scheduler, runs, restarts |
| `WebChatQueues` | `webchat_queue_mgr.py` | the queues of one conversation |
| `WebChat` | `webchat_event.py`, `webchat_adapter.py`, the stream of `dashboard/routes/chat.py` | requests, streams, answers and removals over `WebChatQueues` |
| `FollowUpProofs`, `SessionLockProofs`, `MessagePathProofs`, `SessionHistoryProofs`, `AgentLoopProofs`, `SeminarUpdaterProofs`, `CronJobsProofs`, `WebChatProofs` | | theorems |
| `MC*` | | instances for TLC |

`FollowUp`, `SessionHistory`, `SeminarUpdater` and `RateLimit` use `FifoMutex` for the locks they take (`Lock!Request`,
`Lock!Owns`, `Lock!Release`); for the session lock, `SessionLock` shows that the code behaves so
(`FifoPerSession`). A bare `asyncio.Lock`, as `_write_lock` is, is the part of `SessionLock` below its table.

**What a step is.** The program is single-threaded and cooperative: between two suspensions a task runs alone. An
action is therefore everything a task does from one `await` that can really suspend to the next. Awaiting an
uncontended lock or condition does not suspend: the sections under `_access_lock` and under the order state's
condition contain no other `await`, so each is part of one step.

**Alternatives marked "Mutant of".** A definition with this comment is an alternative form of the one after it, with
the kind of mistake the property must catch; no specification uses it.

### FollowUp

One session, since both tables are keyed by it. `pc[e]` is the place of the task of a message:
`ticket` (waits for its ticket), `turn` (waits for its turn), `greeting` (typing indicator and waiting hook), `lock`,
`building`, `running`, `hook` / `aborting` (DONE, the `on_agent_done` hook runs, tickets not resolved yet), `saving`,
`closing` (lock and registration are gone, `finalize_follow_up_capture` is still to come), `done`.
`order` is the entry of `_FOLLOW_UP_ORDER_STATE` with `statuses`, `next_order` and `next_turn`; its field `live` says
whether the entry exists. `monitor` is the auxiliary task of a capture, an actor of its own (`RunMonitor`).

`Faults` says what may go wrong: `stop` (a stop command), `direct` (a tool that answers the user itself), `loop` (the
run loop ends with a runner that is not done: `step()` raised, or the step limit was reached with tool calls), `break`
(the pipeline drops the generator at a `yield`).

Modelling decisions:

- `Register` requires `WakeupsDelivered`: a task that was woken before the lock changed hands has run. The code
  guarantees it because `build_main_agent` awaits the database between the lock and the registration, and the loop
  runs ready tasks first. Without it a follow-up could be captured by a new runner while an older one sleeps on a
  resolved ticket, and `SlotsHeld` fails.
- Events without text or attachments do not get this far; a message without sender or text is `NoSender`.
- Cancellation of a whole task (the branch `elif not consumed_marked` of the finalisation) is not modelled.
- A later follow-up may be consumed by the run of an earlier one while another waits for its turn. That is what the
  code does, and the reason why the abstract specification lets a waiting message leave from any place of the queue.

### SessionLock

`acquire_lock` is `Enter` (create the entry, count, take or wait), `Wake`, `Exit` and `Cancel`. Locks are objects with
an identity, so an entry that is dropped and made again is a different lock. `WakeFirst`, `TakeOrWait` and `Wake`
describe `asyncio.Lock` (fast path, queue of waiters, hand-over, cancellation of a woken waiter) and are external.

### MessagePath, RateLimit, SessionWaiter

The three places where the messages of a chat wait for one another, in the order of the pipeline. `place[m]` is where a
message is in the limiter, `step[m]` where it is in the handlers, and `pc[m]` of `SessionLock` where it is in the lock. Other
stages suspend too, so a message that passed the limiter reaches the handlers at any later time, in any order.

`RateLimit` is one session id: its lock (`limitq`), the stamps, and the time each handler believes it is (`now[m]`, taken
before the lock and after a sleep). A round of the loop is one step; a stalled message sleeps with the lock held. A tick of the
clock is the 0.3 s that a stall adds. Time does not pass while a handler is ready to run (`Tick`): the loop runs it within a
tick. Two UMOs can share a session id (the same group seen by two bots); `MessagePath` has two.

In `SessionWaiter` the message whose handler waits stands for its waiter, controller and filter. `Walk` is the loop over
`FILTERS` up to the next waiter that will handle the message, with Python's rule for a list that changes under its iterator:
the next position counts in the list as it is then. A handler of a waiter suspends, so `TakeTurn`, `Fire`, `Expire` and the
registrations of others interleave with it; only the handler of an empty mention does not suspend, which the second conjunct
of `Expire` says. A timer has fired before its task runs (`timers`), so `keep` may come too late. The two kinds of openers are
the empty mention (asks the agent first, then waits, and requeues the text it hears as a new event, a `Copies`) and a command of
any plugin, whose filter takes the umo or the sender as the id. `Due` lets a requeued copy arrive only when its opener, which
was woken before it was queued, has run.

What happens under the session lock is one stay in it here (`AskAgent`, `AgentEnds`); `FollowUp`, `SessionHistory` and
`AgentLoop` look inside.

Two waiters with one id do harm each other: the second registration replaces the first, and the cleanup of either removes
whichever is there. `EntriesMatchWaiters` therefore promises an entry only to a waiter that never shared its id, although
`docs/en/dev/star/guides/session-control.md` says without this condition that the following messages of the sender go to the
waiting function. A message that two filters match is handled by both waiters, as the loop has it.

### AgentLoop and ContextTruncator

One run from `run_agent`'s first step to its end. `pc` is `between` (two steps), `asking` (a provider works), `arguments` (the
second request of the light tool schemas), `tools`, `hook`, `tool` (before a call, in its start hook, in the tool) and `ended`.
The stop is a mark on the event (`stopReq`); the watcher, and the loop whenever the step yields, copy it into `abort`, and only
`abort` is looked at in a step. Each place where the code looks is a branch to `FinalizeAborted`.

A request is an iteration over candidates and attempts (`idx`, `attempt`); `self.provider` stays at the last one used, so the
next step starts with it. `EmptyOutput` raises inside the attempt and is retried also after pieces were shown: the log line
that says the retry is skipped is not what happens. The context is a sequence of messages with role, name and calls.
`Process` gives the contexts `ContextManager.process` may return: the cut by turns is a function, whether a token limit is
exceeded, and whether the model that summarises fails, is left open. `unheard` holds the calls whose tool yielded nothing, for
which the code records a call without a result. `fix_messages` is which
places stay (`Stays`) and the messages at them in their order (`Ascending`). A run starts with a history an earlier one left
(`Starts`): among those checked one with an answered call and one whose tool told nothing. `Saved` is when a run leaves its context
to be saved; `_save_to_history` leaves out the system prompt and messages marked not to be saved, which make no calls.

`FairSpec` asks that providers answer or fail, and asks nothing of a tool.

### SessionHistory

A history is the sequence of the tasks whose turn it holds. A task picks the current conversation, reads its row
(or creates one), runs, decides whether to save, and saves what it read plus its turn. `kind` is `message` (everything
under the session lock), `early` (a plugin prepared the request before the lock) or `job` (no lock at all; not in the
registry). Commands are sequences of steps of their own. Shortening of long contexts, titles, personas, switching and the
stored copy of the selection are left out. `wiped` and `silenced` are history variables.

### SeminarUpdater

`file[u]` is the saved `UserState`, `st[m]` the copy the handler of message `m` works on. The handler loads the state
when it starts (`Arrived`) and saves its own copy later; its branches are the actions from `Cancel` to
`AnswerSlidesTitle`, and what happens after reading a document, the check and the commit are the actions that follow.
Under `_write_lock`, loading the table together with deciding what to write is one step and the write another, with a
failure possible before and after it takes effect (`WritingFails`). A crash of the process looks the same: nothing was
saved. Which message carries what is fixed by `KindOf`, `PaperOf` and `PdfOf`; what is missing in a document is chosen
from `LackSets`. Times are small naturals, `NoTime` is 0. The speaker is the user. People editing the table by hand are
not modelled. The last branch of the handler (`elif urls`) cannot be reached: a URL that is not an expected answer is
taken by the branch before, and an expected answer has a pending field.

### CronJobs

`rows` and `row` are the job table, `scheduled` and `trigger` the scheduler, which is in memory and lost when the process goes
down. Every call to the database is two steps: the call takes effect, and later its caller goes on with what it returned
(`asked`, `found`, `seen`). `_schedule_job`, `_remove_scheduled` and the first part of `delete_job` are `Schedule`,
`Unschedule` and `Forget`; `start` is `Boot`, `ListJobs` and `SyncFromDb`; `_run_job` goes from `Fire` to `EndRecurring` or
`DeleteOnce`. A job with time 0 recurs and may fire whenever the model likes; a one-shot job fires at its tick. A tick is longer
than the grace time, so a job whose tick has passed is dropped (`DropRun`), as is one that comes due while it still runs;
the scheduler itself (APScheduler) is external. The plugin stands for any of the three that keep a scheduled job: it lists and
deletes the jobs of its name, then adds a new one. `GoDown` is a crash or an orderly end, which differ only in which rows are
removed on the way. An operation begins when the manager has started, and one at a time works on a job (`Free`); runs overlap
with everything. Stored run times and states are displayed only and left out.

### WebChat and WebChatQueues

One conversation. A request is followed in two places: `stream[r]` is the handler that reads its back queue (`posting` until
the first item, `open`, `storing` or `ending` while it inserts a message, `flushing`, `dropping` or `again` in its `finally`),
`run[r]` the task of its event (`posted`, `dispatched`, `captured`, `turn` and `activated` as a follow-up, `speaking` or
`streaming` and `answered` under the session lock, `ending`, `over`). Removing a queue takes it out of its table only; whoever
holds it goes on, so every queue made has a number: `current` and `back[r]` are the ones in the tables, `sink[r]` the one
`send_streaming` took when it began. `entry` is the listener in the table of tasks, which the done callback (`Depart`) empties
whoever is there.

An item is a component of a message: `delta` is streamed text, `part` anything else that is streamed, `text` and `media` are
sent whole, `call` and `result` belong to one tool call (`id`), `complete` and `end` close a streamed answer and the request.
`Say` lets the agent, its tools, hooks and plugins send any of them on the same queue: in a streamed run whole messages and tool
calls may come between the deltas. A message from elsewhere is two items, put one after the other with the queue open to others
between (`Tell`, `TellComplete`). A put on a full queue waits (`pending`, `Resume`).

`Receive` takes an item, shows and accumulates it; `Added`, `Flushed` and `Built` are `BotMessageAccumulator`, where an item
is its place among those accumulated: pending text grows by deltas and is replaced by a whole text, everything else moves it
into the parts, a result takes its call out of the pending ones, and the calls that are left come last when a message is built.
`Store` inserts that, and `Cut` may come at any suspension: the client leaves or interrupts, sending fails, the insertion fails
or is committed unseen (`again`). `heard` and `saved` are histories of an open stream.

A follow-up is captured while another request has the lock (`Capture`), merged into a tool result (`Merge`), or given back
(`ReturnTickets`, at the latest with the lock) and then waits to be the first of `order` (`TakeTurn`) before it goes for the
lock. A run that breaks off gives no ticket back (`left`, in `Over`), and whatever is behind such a request in `order` waits as
well. This is `FollowUp` with one sender and without its slots, monitors and the dropping of the order state.

`AnswerKept` says of `Kept` (what is saved, then what is accumulated) that every item accumulated is in it, once and in order,
with what the code does otherwise named one by one: streamed text gives way to a whole text right behind it (`Replaced`), a
tool call is shown with its result (`Answered`), a call without one comes after later text of its own message (`InOrder`), and a
message whose insertion was cut after all may be there again.

Left out: an item that a cut takes between the queue and the accumulator (it counts as one that was never taken: nobody will
take it now), a second failure in the `finally`, agent statistics, empty and unknown components, messages of several
components (each is a message of its own; only those from elsewhere close with a `complete`), tool calls without an id or with
one used before, joining neighbouring texts into one part, passive subscriptions, edits and regeneration, threads, live speech,
and a restart of the adapter. The chat queue is never full: it holds 128 messages and the listener needs no more than the
conversion of one to take the next.

Four things the code does are kept and excepted in `Finished`. An answer that comes after its stream has ended opens the back
queue again and nobody reads it, so that it may fill up and stop the task, which holds the session lock (`Stuck`). A piece that
cannot be sent leaves the pipeline by an exception, and no end is sent (`Fail`). A request that was captured by a run that broke
off, or waits for its turn behind one, gets no end either, and its stream stays open (`Abandoned`). A request whose user message
is not saved keeps its back queue unless it came over a web socket (`UserNotSaved`).

## 3. Runs

| Run | Instance | What it shows |
|---|---|---|
| `FollowUp` | 3 messages of one user, all faults | types; `TurnOrder`; `SlotsHeld`; `OpenTicketsHaveRunner`; the order state implements `OrderedResume` (`HandledInOrder`); `Served` |
| `FollowUp_leak` | `loop` | **violated**: `MonitorsEnd` |
| `MessagePath` | 4 messages and a requeued one, five casts of texts, mentions and commands, 3 limits | `MutualExclusion`, `EntryMatchesUsers`, `WakeNotLost`, `FifoPerSession` of the lock; `WindowBound`; `EntriesMatchWaiters`, `HandlersInTime`; `Answered` |
| `SessionHistory` | 3 messages, or one task of each kind; `/reset`, `/new`, `/stop`, a deletion | `BaseIsCurrent`, `TurnsKept` (messages), `StoppedLeavesNoTrace` (every kind) |
| `SessionHistory_reset` | 2 messages, `/reset` | **violated**: `ResetSticks` |
| `SeminarUpdater` | a PDF and two answers of one user, a link of another; a table with a scheduled, an unscheduled and a foreign paper | `OneRowPerPaper`, `PlanFits`, `MeetingsKept`, `Handled` |
| `SeminarUpdater_double` | two links of one user | **violated**: `AskedBeforeDoubling` |
| `CronJobs` | 3 job ids, 2 operations of any kind, 2 ticks, a restart, a reload of the plugin | `EnabledIsScheduled`, `NoPileUp`, `BeginsOnce`, `ReminderComesBack` |
| `CronJobs_reload` | no operations, a reload | **violated**: `ReminderKept` |
| `AgentLoop` | 3 models, 2 steps and the forced one, 2 attempts, 2 calls, six settings with their histories | `RequestsPaired`, `UserFirst`, `StopHeeded`, `FailureIsTotal`, `StopEnds` |
| `AgentLoop_question` | a limit of one turn | **violated**: `QuestionAsked` |
| `WebChat` | eleven casts of up to 3 requests, one streamed, one over a web socket; messages from elsewhere and deletions | `QueueHasListener`, `AnswerKept`, `Finished` |

**Bounds.** In `FollowUp` three messages are enough for a run that captures two follow-ups and for the state to be dropped and
rebuilt between captures; messages of other users only queue for the lock, and the proofs hold for any senders.
In `MessagePath` four texts give the lock a holder, a woken waiter, a queued one and a newcomer to an entry that is being
dropped, and the limiter a sleeper with a queue behind it; two openers and two messages give a waiter that is replaced, one that
ends while a message waits for its lock, and a filter that goes away under the loop; one copy is what one mention requeues. The refinement is checked for the
session they contend for (`Watched`); its proof is for any. The
window is two ticks and messages arrive until tick two, so that a window can open, fill and move on; the limits are none, two
that stall and two that are dropped. In `SessionHistory` three tasks and one command of each kind give a turn before, during
and after each command. In `SeminarUpdater` three messages of one user reach every question and one level of answers to it, and
the fourth interferes under the lock; `LastTick` lets one meeting pass. In `CronJobs` two operations make a job and change it
while it runs or after a restart; two ticks give a time that is due and one to come, or one that passed while the process was
down; three ids leave one for the plugin beside two others. In `AgentLoop` two steps and the forced last one give a cut before,
between and after tool calls, two fallbacks one that is neither first nor last, two calls an answer of which one was made and
one was not. In `WebChat` two requests let one be posted while the other's listener, stream or answer is
being removed, three with two removals reach a third queue after the late callback of the first listener, and three without
others a follow-up behind one that was left; the casts (`ChatCasts`) say which of this one behaviour may show. `MaxOutside`
bounds messages from elsewhere and removals together, and with it how many queues can be made; three pieces (`MaxPieces`) of
every kind, with a message from elsewhere between two of them, make a text that is replaced, a call with and without its result
and text behind it; and a back queue of one item (`Cap`, 512 in the code) is full as soon as its reader is behind. `CHECK_DEADLOCK FALSE` is set because every task ends and the system then has nothing to do.

**Symmetry** is used only in runs whose properties are invariants, action properties or safety refinements, over
messages of one user, or over tasks and conversations. `MessagePath` has a liveness property and instead lets messages arrive in
the order of their numbers (`Due`); the casts say who they are.

**Fairness.** `FairSpec` of each module is weak fairness of what a task does by itself: the event loop runs every ready
task, and requests, tools and hooks end (they have timeouts; `AgentLoop` does without this for tools). Arrivals,
commands and stops have none, nor has the clock, but in `MessagePath`, where sleeps and timers end. Failures are alternatives
of a fair step and need none. In `WebChat` nothing forces a failure (`Cut`, `Fail`, `UserNotSaved`), what users and others do
(`Post`, `Delete`, `Notify`, `Tell`), that anything is said (`Say`), or that a message is captured, merged or left unanswered
(`Capture`, `Merge`, `PassOver`). `Served` and
`OpenTicketsHaveRunner` except the runs that broke off (`Broken`): `loop` and `break` leave captured messages behind, which is
what `FollowUp_leak` shows for their monitors. `Finished` excepts a message that was lost with its chat queue or whose task
failed, one left by a run that broke off (`Abandoned`), a stream whose back queue was taken out of the table, and a
conversation that is `Stuck`.

### Disagreements between the code and its texts

1. `FollowUp_leak`: a run that leaves its loop without being done (`core/astr_agent_run_util.py:303`) resolves no ticket;
   the captured messages and their monitors wait for ever, although "monitor task is auxiliary and should not leak".
2. `SessionHistory_reset`: a run that `/reset` aborts still saves the history it read, and the cleared context is back.
3. `SeminarUpdater_double`: the question about a second paper at the same meeting is decided outside the write lock, so
   two links in quick succession are both scheduled without it.
4. `CronJobs_reload`: the seminar plugins add their jobs only when the program starts and remove them when they are
   terminated; saving their configuration reloads them, and the daily checks stop until the next start.
5. `AgentLoop_question`: a turn is counted as two messages, so that with few turns to keep the question of the user is cut off
   while the agent still works on it, and an older one is put in front instead.

Not findings, since no text of the repository says otherwise, but good to know: background jobs and requests a plugin prepares
early rewrite the history without the session lock and can lose a turn (`TurnsKept` fails for the kinds `job` and `early`); with
`unique_session` an event is registered under the session of its group and looked for under its own, so `/stop` and `/reset`
find nothing to stop there and the entry stays; the dashboard's edits and regenerations rewrite a history outside the session
lock as well; a whole message that a hook, a tool or a message from elsewhere puts right behind streamed text replaces that text
in the saved history of the web chat, and a tool call that is still open when a message is saved comes after the text that
followed it there; and the four exceptions of `Finished` that section 2 names.

## 4. Proofs

All theorems hold for any sets of messages, users, tasks, sessions, models, commands, jobs, requests and conversations.

**`FollowUpProofs`** proves `TypeCorrect`, `CapturesHoldSlots`, `StrictOrdering` and `NoTicketForgotten` (`TypeOK`, `SlotsHeld`,
`TurnOrder` and `OpenTicketsHaveRunner`) under all faults, from the assumptions of `FollowUp` alone. `TurnOrder` is not inductive: it follows from every outstanding
capture holding a slot of its own in a live state, which in turn needs to know that the tickets in a runner's queue are
exactly the open ones (`TicketInv`), that a slot's status agrees with the place of its task, that slots at or beyond
`nextTurn` are present until handled, and that the turn is the least unhandled slot (`SlotInv`). The lemmas about
`FollowUpOrder` (what `Advanced`, `MarkConsumed`, `FinishTurn`, `Activate`, `Allocate` keep) come first; then one lemma
per part of the invariant, with a step per action. `WakeupsDelivered` is used in the step `Register`. `NoTicketForgotten` needs
the types alone: a runner leaves the places where it resolves its queue only by resolving it, or by breaking off.

It also proves `ResumesInOrder` (`HandledInOrder`): `FollowUp` implements `OrderedResume`, whose queue is the captured messages in
the order of their slots. The queue is determined by what it must be (`Sorted`, `SortedIsQueue`), so each step is shown to append
to it, take an element out of it or leave it; that whoever is resumed was its first comes from `SlotInv`.

**`SessionLockProofs`** proves `TypeCorrect`, `ExclusionTheorem`, `EntryTheorem` and `WakeTheorem` (`TypeOK`,
`MutualExclusion`, `EntryMatchesUsers` and `WakeNotLost`), from `LockAssumption`: the tasks are finitely many, since a count is
a cardinality. `MutualExclusion` rests on `EntryMatchesUsers`: all users of a session have the lock object of its entry, because
the entry stays while it has users, and a lock object has one holder; a fresh object is nobody's. The invariant adds that
a queue holds exactly the tasks that wait for its object, each once, that woken tasks wait, that a woken task is the first of its
queue and its lock is free, and that a free lock has woken its first. `Without`, the removal from a queue, is stated as lemmas
of its own.

It also proves `FifoTheorem` (`FifoPerSession`) for any session: every behaviour of `SessionLock` is, for the queue of that
session, one of `FifoMutex` - first come first served, although the lock object of the session is dropped and made again
(`WatchedAssumption`: the session is one of `Sessions`). The queue is the task inside, then those that wait for the object in
the table (`QueueShape`: at most one task is inside, so it is a sequence of distinct tasks). `Enter` is a `Request`, `Wake` a
stutter, since a woken task is the first of its queue and nobody is inside, `Exit` a `Release`, and `Cancel` a `Release` when it
was inside or woken at the head, else an `Abandon`.

**`MessagePathProofs`** proves, for any finite set of messages, any texts, mentions and commands, any limit and window:

- `PathTypes` (`PathTypeOK`) and `WindowTheorem` (`WindowBound`). The stamps are not the times at which messages were let
  through: a message is counted under the time it arrived, which may be long past when the lock comes to it. The invariant
  (`LimitInv`) therefore says of every window that is still open how many stamps it has at least: the messages let through since
  its begin are no more than the stamps from some stamp of the window on (`StampsCover`). An old time is used only right after
  the message in front was let through at this very moment (`WaitInv`, `StampedNow`), so that stamp stands in for it, and what
  `Recent` removes are stamps before it.
- `EntriesTheorem` and `HandlersTheorem` (`EntriesMatchWaiters`, `HandlersInTime`). The invariant (`WaitersInv`): whom a message
  is handed to has it in the queue of his lock, once, and the head of that queue is the one in his handler (`TurnInv`); an opener
  gets his future when he registers and keeps it (`CallInv`), and what a message is does not change once it has come into being
  (`EventInv`). `WalkStep` does the loop over `FILTERS` once for all handlers.
- `LockInPath`: the path uses the session lock as `SessionLock` specifies it, so the theorems about the lock hold of messages on
  their way, which `AgentInPath` states for two of them.

Its assumptions are the types of the constants (`LimitAssumption`, `WaiterAssumption`, `CastAssumption`), `LockAssumption` and
`PathAssumption`: messages, events and tasks are the same numbers, and every message is of one of the `Sessions`.

**`SessionHistoryProofs`** proves `TypeCorrect` and `SilentTheorem` (`StoppedLeavesNoTrace`) for tasks of any kinds, and
`ReadsStayCurrent` and `NoTurnLost` (`BaseIsCurrent`, `TurnsKept`), which speak of sessions of messages alone. The invariant of
the latter: the task inside is the head of the lock's queue (`LockInv`), so at most one is; what it read is what its row holds,
or the row was emptied (`BaseInv`); an id that was not given out has an empty history (`UnusedInv`). `SilentTheorem` needs to
know that a task whose agent has not started is in no history and in nobody's copy of one.

**`AgentLoopProofs`** proves `ControlTypes`, `StopTheorem` and `FailureTheorem` (`StopHeeded`, `FailureIsTotal`) for any models,
fallbacks, bounds and settings. `StopHeeded` is inductive only together with what the marks mean: a late tool or step happens
with `abort` unset at the look before it, and the yield after it sets `abort`; `FailureIsTotal` needs that the models asked in a
step are the first ones of the list, up to the current candidate.

It proves `TypeCorrect`, `PairingTheorem` and `UserTheorem` (`TypeOK`, `RequestsPaired`, `UserFirst`) for any histories a run may
start with. The invariant (`TalkInv`) is that the context is `Sound` as long as the run goes on and when it is saved: a legal
conversation that begins, after its system messages, with a user's message; while tools run, `CallsInv` says of each call of the
answer that it is still to be made, was made without a result, or has its result in `blocks`, and of each result that its
call is one of the answer's, so what `_handle_function_tools` records is legal (`RecordedLegal`). Only the forced last step,
which has no tools, records calls without results, and a run that ends there is not saved (`StateInv`). What is left is that each way
to shorten a sound context gives a sound one (`TruncateSound`, `DropSound`, `HalveSound`, `SummarySound`, together
`ProcessSound`). A cut may separate calls from results; `FixLegal` shows that a context of which a cut left the tail
(`NearlyLegal`) is legal again after `fix_messages`: the places that stay keep their order (`AscendingFacts`), those in a
row stay in a row (`FixRun`), and a result that stays has its call in front of its run.

Its assumptions beyond types are about the start (`StartsAssumption`): the number of messages to drop is positive
(`internal.py:104-109` sees to it) while the limit of turns is any integer, and the history is one that an earlier run left, legal
(with the calls whose tool told nothing in `unheard`) and beginning with a user's message. This is what the two theorems say again
of what a run leaves (`Saved`), so no history the program has grown step by step escapes the assumption.

**`SeminarUpdaterProofs`** proves `TypeCorrect`, `NoSecondRow`, `PlansFit` and `NoMeetingLost`, that is `TypeOK`,
`OneRowPerPaper`, `PlanFits` and `MeetingsKept`, under all failures; the one assumption beyond types is that the table the
program starts with has no paper twice (`TableAssumption`). None of the three is inductive alone. The invariant: the task
inside `_write_lock` is the head of its queue (`LockInv`); a saved state that asks when to present a paper, and a task that
goes for the lock with one, know its title (`TitleInv`), so no row is written without one; the plan of a task that is about to
write fits the table (`PlanInv`): the row it found is the only row of its paper, and a row that is to get a meeting has none.
Times are unbounded there, so the next meeting is the greatest element of a finite set of naturals, whose existence is
`GreatestElement` (a smallest set without one would contain a smaller one).

**`CronJobsProofs`** proves `TypeCorrect`, `FollowTheorem`, `PileTheorem` and `OnceTheorem` (`TypeOK`, `EnabledIsScheduled`,
`NoPileUp`, `BeginsOnce`) for any jobs, operations, times, restarts and reloads, from `JobAssumption` and `BoundAssumption`
(types of the constants, at least one tick). Its invariant says what everybody who holds an old reading may rely on: a process
that is down has no memory (`DownInv`); what an operation wrote is in the row until it has scheduled it (`OpInv`); the jobs the
plugin handles are reminders, and what it has still to remove is all there is of them (`PluginInv`, `PileInv`); before the
manager has started only recurring jobs run (`EarlyInv`); between the list and the loop over it only the plugin's job changes
(`ListInv`). `EnabledIsScheduled` is strengthened to the jobs whose run is in progress (`FollowInv`), and a one-shot job that has
begun is deleted before it is read again (`BegunInv`).

**`WebChatProofs`** proves `TypeCorrect` and `ListenerTheorem` (`TypeOK`, `QueueHasListener`) for any requests, messages from
elsewhere and bounds, from `QueuesAssumption` and `ChatAssumption`. `TypeOK` needs to know how many queues can be made
(`ChatsCounted`, `BacksCounted`: a queue is made only when the table has none, and leaves it by a removal or, once, with its
stream), and that a task that streams has a queue (`SinkKnown`). `QueueHasListener` needs `ListenersKnown`: a listener in the
table that is still at work is the one of the current queue, so a done callback that empties the table cannot make a second
listener for a queue that has one.

`AnswerTheorem` (`AnswerKept`) is about `KeptInv`, for each stream: its parts with the pending text are increasing, so are its
pending calls, none is in both, all come after what was saved, and every place of `heard` is `Covered` (`Accounted`); and between
two insertions nothing but streamed text is behind a pending one (`Streaming`), without which the whole text that replaces it
would not be right behind it. The lemmas about one item come first: what it does to the accumulator (`AddedParts`), that it
keeps the account (`AddedAccounted`; what an item drops is covered by it, and what covers an item is never dropped, `CoverGrows`)
and the pending text (`AddedStreaming`). `KeptOrdered` turns the account into the order of the sequence that is inserted,
`StoredAccounted` starts the next message. All other actions leave the streams alone (`OthersLeaveStreams`), so the theorem
holds whatever is sent, by whom and when.

**Only model-checked:** liveness (`Served`, `Answered`, `StopEnds`, `Handled`, `ReminderComesBack`, `Finished`), which needs fairness
and is beyond the prover, and the five counterexamples of section 3. Every invariant, action property and refinement of a
passing run is stated by a theorem. Inductions over data are beyond the prover too, and recursive operators, which no module
declares: the proofs about sequences argue over positions and over least and greatest elements instead.

## 5. Not modelled

Live speech and the formats of streaming (they choose how an answer is sent), titles, personas and permissions; the
platform adapters but the web chat, providers, plugin loading, backup, knowledge base, sandboxes, and the dashboard but its chat
and cron routes (I/O and administration); edits, regeneration, threads and passive subscriptions of the web chat; third-party agent
runners (their state is in the service); the registry of lock managers per event loop (one loop is modelled); the seminar reader
(no state between messages); the polls of the welcome guard (one after another, with a file); `unique_session`, which the models
have off (section 3 says what it does to the registry); token counts (both answers of the check are always possible).

## 6. Plan

What is left, in this order.

1. The edits and regenerations of the dashboard as one more kind of task in `SessionHistory`.
2. `unique_session` and the active-event registry, in `SessionHistory`; the seen members of the welcome guard, greeted by polls
   that a restart may cut off.

Questions that need a run of their own come before variants of one that is already there: where two modules can be checked
in one composition, they are.
