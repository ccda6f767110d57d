# Verification of simplegoapp / Base to Base

TLA+ models of this repository's core logic, TLC configurations that check them
on small instances, and theorems about them that TLAPS proves for every value
of the constants. Everything is translated from the source; `PROJECT.json` maps
each definition to the lines it stands for.

## 1. The system

The repository holds two programs.

**Base to Base** (`basetobase/`, TypeScript) reviews every pull request with a
roster of agents. GitHub's webhook tells the *dispatch* Worker of a PR; dispatch
starts a *run*, which dispatches one GitHub Actions job per agent; the job's
*forwarder* runs Claude on the PR, streams what it does and reports a verdict;
the run turns the verdicts into a check run on the PR's head and a row of an
index, and the *dashboard* shows both live. CI deploys the dispatch Worker from `main`. The owner may retry failed agents
and waive ("bypass") a missing design.

**simplegoapp** (`app/`, `pkg/`, `domain/`, Go) is a small web framework
(constructor injection, router, middleware) with an orders example and client
packages.

| Component | State | Operations | Talks to |
|---|---|---|---|
| run machine `dispatch/src/run/machine.ts` | none of its own: pure functions over `RunState` | `createRun`, 13 handlers, `nextAlarm`, `reviewOutcome`, `checkRunOf`, ... | returns effects: log, index, dispatch, broadcast, check, cancel |
| run Durable Object `run/do.ts` | storage: `RunState`, marks of the writes it owes, alarm, log; memory: check queue, `checksOwed` | calls of jobs (brief, events, verdict, failure, transcript), of owners and reconciles (stop, land, retry, bypass, retitle, repost, view), the alarm | D1, GitHub (dispatch, cancel, check runs), lobby, sockets |
| runs index `runs/index.ts` | D1 table, one row a run | `upsertRun`, queries | written by runs, read by reconcile, cron, API |
| lobby `lobby/do.ts` | none | broadcast a summary | dashboard |
| reconcile `reconcile/pr.ts` | none | `startPr`, `closePr`, `retitlePr`, `reconcilePr` | GitHub, index, runs |
| cron `reconcile/cron.ts` | none | a tick every five minutes, 50 PRs | reconcile |
| webhook, routes, auth | none | classify a delivery, check a token | reconcile, runs |
| GitHub client `github/client.ts` | an installation token per client | mint and cache the token, read a PR, list PRs and a diff page by page, check runs, jobs | GitHub |
| forwarder `forwarder/src` | a batch queue, the job's progress | brief, run Claude, stream, report | dispatch |
| dashboard `dashboard/src` | runs and log it has merged | frames, polls, fetches, tab switches | API, sockets |
| CI deploy `scripts/src/ci-deploy*.ts`, `basetobase-ci.yml` | none of its own: GitHub's queue, Cloudflare's versions | verify, plan, plan again, migrate, deploy, watch, roll back | wrangler, `/health`, git |
| Go container and router `app/` | the services built so far, their indegrees, the routes | register, resolve, mount, migrate, serve | constructors, controllers |
| Go middleware `pkg/http` | per request a buffer and a channel | CORS, recover, deadline | handlers |
| Go orders `domain/orders` | an in-memory list and counter under a mutex | create, get, list a page | its controller |
| Go Linear and other clients | name caches | vendor calls | vendors |

**Where it is hard.** A Durable Object runs one call at a time, but only until
that call awaits something outside the object: then any other call may run and
commit. Its writes to D1 and GitHub fail, or succeed and lose their reply; it
can be reset at any await. Jobs report late, twice, or never. The owner, the
webhook and the cron act on a run in any order. The hazards are listed in
`PROJECT.json`, each at its line.

**What makes each component correct.** The machine: its fields agree in every
reachable state (status, steps, agents, report), only a cleared review passes,
reports that were accepted stand, each change lists the effects it owes, and a
review ends. The Durable Object: every owed write is eventually the one
delivered, and concurrency is invisible: its state moves by machine steps only.
Webhook, cron and client: a PR is given a run, or its neutral check, only as
its author and its whole diff call for. Reconcile and cron: of an open PR's runs exactly the newest on its head is left
open, its check is the newest on the head, and a lost delivery is repaired. The
forwarder: Dispatch is told once how the agent ended, events arrive in order
without loss or duplicates, the job is green only for a passed review. The
dashboard: an open list that nothing is owed shows what the index holds. The
deploy: no commit replaces a live one that has it in its history, what serves
after the newest run ended green is that run's commit, and a rollback undoes its
own deploy only. Orders: pages neither skip nor repeat. The Go middleware: one
response a request. The Go container: a constructor is called after all it takes,
and a program is refused exactly when it cannot be started.

## 2. The modules

| Module | Models |
|---|---|
| `RunState` | `RunState` and every pure function of `machine.ts` over it, as operators; a transition is the new state and its effects |
| `RunMachine` | one run driven by all handlers in any order, effects executed at once: what a run promises outside |
| `RunDO` | the Durable Object: calls as tasks interleaved at awaits, marks, alarm, check queue, lost replies, resets |
| `Reconcile` | the webhook's handlers and the cron over the runs of one PR, of which each keeps what `RunMachine` and `RunDO` promise |
| `EventLog` | what the batcher and Dispatch's event log promise together: the abstract specification |
| `Batcher` | `batcher.ts` against Dispatch's log, over the jobs of an agent; implements `EventLog` |
| `Forwarder` | one job of an agent, `run.ts`, with its batcher as `EventLog` |
| `Intake` | what a PR is given: the webhook's and the cron's filters and `startPr`'s judgement of its files, read through the GitHub client |
| `RunsLive` | an open runs list: from a run's index writes over D1 and the lobby to what the page merges |
| `CiDeploy` | the deploy of `main`, with reruns, deploys by hand, rewrites, failing calls and rollbacks |
| `Resolver` | the start of the Go service: registration, construction in dependency order, routes, migration |
| `Orders` | the order store and what its controller makes of a request, as operators |
| `Server` | requests through the Go middlewares to `Orders`, and a client that reads the list page by page |
| `RunStateProofs` | lemmas about the handlers: what each transition keeps, bounds and owes |
| `RunMachineProofs`, `RunDOProofs`, `ReconcileProofs`, `EventLogProofs`, `BatcherProofs`, `ForwarderProofs` | the theorems about the module of that name |
| `BesideProofs` | the theorems about `Resolver`, `Server`, `CiDeploy`, `RunsLive` and `Intake` |
| `MCRunMachine`, `MCRunDO`, `MCBatcher` | values for the constants |
| `MCBeside` | values for `Resolver`, `Server`, `CiDeploy`, `RunsLive` and `Intake`, which one run checks side by side |

Operators prefixed by a comment "Faulty" are plausible bugs; nothing in a
specification uses them. They stand before the definition they would replace and
document what each property catches.

### RunState and RunMachine

`run` is the stored `RunState`; each handler of `machine.ts` is an operator of
the same name (`OnVerdict` for `onVerdict`) and an action of `RunMachine`.
`check`, `row` and `cancelled` are what the machine's effects last put on the
check run and in the index, and the jobs it asked GitHub to cancel. `Apply` is
`step` and `commit` of the Durable Object without delays: a transition that
leaves the state alone commits nothing.

Abstractions of data:

- Time. The machine compares ages with three limits. An agent keeps `clock`, the
  age of what its failing deadline counts from, and `quiet`, the age of its last
  event, both in clock units capped at the longest limit, beyond which all ages
  compare alike. `Elapse` lets a unit pass.
- Hazards are two counts: those with the waivable title "No approved design" and
  all others. A waiver removes one of the first.
- A report's or check summary's text is replaced by what it is computed from
  (`ConditionsReport`), so two texts differ exactly if those do.
- The nonce and GitHub job of an agent are the number of its attempt.
- Log and broadcast effects are left out: nothing reads them back. `RunStatus`
  "failed" is left out: nothing in the source sets it. `updatedAt` and job links
  are left out of states and rows.

### RunDO

A call is a task with the operations it still has to do (`todo`) and the outside
call it awaits (`io`). `running` is the task whose code is executing: another
task runs only when it awaits D1, GitHub, the lobby or `crypto.subtle` (the
nonce check). Storage operations let nobody in, which is the platform's input
gate, so the put and the alarm of a `commit` are one step. `GoesOnIn` takes a
task to its next operation that has something to do; operations the code returns
from at once (no mark set, a sync already owed) take no step.

| Code | Model |
|---|---|
| `STATE_KEY`, `INDEX_PENDING_KEY`, `CHECK_PENDING_KEY` | `stored`, `indexPending`, `checkPending` |
| a mark's revision, compared in `settle` | `fresh` of each write in flight: whether the mark is still the one it read |
| `arm` | `AlarmFor`: the retry while a mark is set, else the machine's next deadline, else none |
| `checkSyncs`, `checksOwed` | the queue `checkSyncs`; a task owes a check while `checkDone` is ahead of it |
| `step`, `commit`, `execute` | `Apply`, `Commit`, `EffectsOf` |
| `admit`, `authorize` | `Call` (the nonce matches the state as loaded), `NonceReply`, `Admit` (the reread) |
| `index`, `syncCheck`, `writeCheck`, `dispatch`, `cancel` | `WriteIndex`/`IndexReply`, `SyncCheck`/`UpdateReply`/`CreateReply`/`ReplaceReply`, `Dispatch`/`DispatchReply`, `Cancel`/`CancelReply` |
| a reset of the object | `Reset`: tasks and queue are dropped, storage stays; an alarm handler cut short is run again |

A write happens where it is issued and its reply comes later: `ok`, `refused`
(nothing written) or `lost` (written, the caller sees an error; for the index
also a lobby that did not hear). The retry alarm may fire at any moment, since
calls outlast any delay. GitHub is `jobs`, the attempts whose jobs it accepted,
and `newest`, the newest check run on the head, which another run's check
displaces at the moment a repost is asked for. The update that marks an old
check run replaced is best effort and touches nothing the model tracks.

### Reconcile

An invocation (a delivery's handler, or a tick of the cron) is a program counter
`at` and its locals; a step is what runs between two awaits, so every read of
GitHub or of the index is a step of its own and anything may happen before the
next. `procs[p].pull` is the PR as that invocation read it (`live`), `stale`,
`run` and `ops` what its reconcile decided to stop, keep or land, and call.

| Code | Model |
|---|---|
| `startPr`, `closePr`, `retitlePr` | `ReadPull`, then `FindDuplicate`, `ListFiles`, `PostNeutral` or `StartRun`; `FindTitles` |
| `reconcileAfter`, `reconcilePr` | `Reread`; `FindMerged`, `Land`, `FindRuns`, `Act` (one call into a run), `Repost` |
| `reconcileRepo` | `Tick`, `ListPulls`, `RunsOnHead`, `HasCheckRun`, then the start path |
| `findOpenRuns`, `findPrRuns`, `newest`, `onHead` | `OpenRuns`, `PrRuns`, `IsNewest`, `OnHead`, over `rows`, not over the runs |
| a run's `stop`, `land`, `retitle`, `repostCheck` | `StopRun`, `LandRun`, `OnRetitled`, `AskCheckRepost`, then `Returned`: a call comes back once the check sync it queued itself, if it queued one, has been tried |
| the delivery of a webhook | `Deliver`, of any event not yet taken, in any order; no fairness, so it may be lost |

A run keeps what a reconcile can tell apart: its head, title and status, whether
its review has concluded, and its check: created or not, owed, reposts asked, and
which calls wait for a sync of it (`queued`, `syncing`). Only a stop or landing that
cuts a review short, a start and a repost have the check written; a stop of a run that
is swept, or that somebody else has stopped, returns at once, whatever that run has
under way with its check. What `RunDO` checks is assumed of it: an owed row or
check is written in the end. (Finding 1 is an exception, which needs a cancel that
outlasts a minute.) GitHub is the PR, the newest check of the name on each head,
and the deliveries. Commits are numbered in the order they are pushed, and a head
never returns. The PR is one that is given runs; the filters that keep a start from happening, and the
files that decide between a run and the neutral check, are `Intake`'s.

### Intake

One PR, from anyone, and the invocations that may give it something, one after
another: how they cross is `Reconcile`'s. An invocation is the call of GitHub it is
at (`work.op`), with the PR as the event or the list named it (`ref`) and the files
listed so far. Each call takes the client's token, cached or new, and is answered by
GitHub as it is then; the PR may be pushed to, retargeted, drafted, closed and reopened
between any two. A push and a retarget leave it with another diff, a retarget on the
same head; `same` is history and says of what was given, or is about to be, that the
diff has not changed since `startPr` read the PR.

| Code | Model |
|---|---|
| `installationToken`, `TOKEN_REFRESH_MARGIN_MS` | `Mint`, `Fresh`, `token` (minutes left), `RefreshMargin` |
| `pullRequestTrigger`, `patrolled` | `Triggers`, `PatrolledPull` |
| `reconcileRepo` for this PR | `TickStarts`, `PullsListed`, `HasCheckAnswered` |
| `startPr` | `PullRead` (a retarget's start passes over the runs of the head), `FilesRead`, `CheckPosted` |
| `listPullFiles`, `toChangedFile` | `Page`, `LastPage`; a file is the sides of the globs its two paths are on |
| a call that fails, or whose answer cannot be read | `CallFails` (a check may have been posted) |

### EventLog and Batcher

`EventLog` names events by their place among all events pushed. It lets them
reach the log oldest first, be dropped or given up, and come in late only when
they were given up. A close is drained when no event waits.

`Batcher` is `createBatcher` with what it talks to: the numbers `run.ts` gives
the events (`FirstSeq`, from the attempt of the job), the abandoning that
`unlessUnwanted` does from inside a send (`Unwanted`), and the log's side of
`RunDO.events` and `appendLog` (`Stamped`, `Insert`, `Land`).

| Code | Model |
|---|---|
| `queue`, `closing`, `abandoned`, `timer` | the same |
| the `draining` promise, `deliver`'s batch and its `sleep` | `draining` ("no", "sending", "sleeping"), `batch` |
| what `close()` races: the flush, its deadline, `released` | `close`: "pending", then "drained", "expired" or "released" |
| a send that fails | `Fails`: Dispatch never sees it, has taken it, or takes it later (`late`) |
| `Delivered` | the loop of `drain`, its `finally`, and the `flush` that awaits it: no event-loop turn in between |
| the log's uniqueness on (agent, seq) | `Insert`, of `seq + retries * RETRY_SEQ_STRIDE` |

What JavaScript runs without returning to the event loop is one step. A job can
end at any point: GitHub runs it again under the same nonce with the next attempt
(`Rerun`), or the owner retries the agent (`Retry`), from when on Dispatch takes
nothing under the old nonce, so the old job's requests go (the retry that overtakes
a request already admitted is finding 2).

### Forwarder

`stage` is where `runAgent` and its `finish()` are, `cancel` where
`finishCancelled()` is; after a signal both go on side by side, because
`untilCancelled` leaves the awaited step running. `claude` is the process:
running, sent SIGTERM (`stopping`), sent SIGKILL (`killed`), gone (`exited`) and
its output ended (`closed`, which is what `runClaude` awaits). `agent` is how
Dispatch has the agent under this job's nonce: live, one of the final statuses a
410 names, or retried (403 from then on). `late` are reports that timed out and
may still be taken. `code` is the exit code, and `step` the workflow's last step.

A call to Dispatch is one step with its outcome: taken, 410 (`...Gone`), refused
for good (`...Refused`), or failed (`...Fails`), in which case it may have been
taken, or be taken later. A verdict Dispatch cannot read (422) has failed the
agent. The batcher's part is `EventLog`: its actions are those of the batcher that
`runAgent` sees, with `sending` for a batch on its way. The transcript's file and
upload never decide anything and are a step each.

### RunsLive

A run is when it was last updated and whether it is on the hill: that decides
which copy is newer and where it stands in a list. `updatedAt` of two updates is
taken to differ (the code's is in milliseconds), so it orders lists too.

| Code | Model |
|---|---|
| a commit that owes the index (`INDEX_PENDING_KEY`) | `Update`, `owed` |
| `index()` in `do.ts` | `Index` (reads the mark, then the run), `UpsertRun`, `Announce`; several of one run may be under way |
| `LobbyDO.summary`, its sockets | `Sends` to a socket that is accepted, whether or not the page knows it is open |
| `mergeRuns`, `listRuns` with its order and limit | `Merge`, `Capped`, `ListRuns` |
| `connect`, `onopen`, `onmessage`, `onclose`, the poll, `onVisibility` | `Connect`, `OnOpen`, `OnMessage`, `OnClose`, `Poll`, `OnVisibility` |
| `refresh()` | `Refresh`, `Answered` (D1 is read), `Fetched` (the answer arrives, or the fetch failed) |

### CiDeploy

A commit is its place among `main`'s pushes; `commits[c]` is the Worker it ships,
so that two commits may ship the same one and `workerChanged` has something to
compare. The tag of a version is its commit, none for a deploy by hand.

| Code | Model |
|---|---|
| the `concurrency` group of the workflow | `waiting` and `job`: a run that joins takes the place of the one waiting |
| the verify job | `Verify`, which may fail |
| `skipReason`, `planDeploy` | `SkipReason`, `Plan` |
| the deploy job's own plan, `migrate`, `wrangler deploy` | `Recheck`, `Migrate`, `Deploy` (fails before or after the version is live) |
| `waitFor`, `runDeploy`'s returns that leave what serves alone, `rollBack` | `SeenLast`, `LeaveAlone`, `Watch`, `RollBack` |
| git in a clone of `main` | `HasCommit`, `IsAncestor`: commits a rewrite dropped are not there |
| reruns, `npm run deploy` by the owner, cancelled runs | `Rerun`, `HandDeploy`, `Killed` |

`/health` answers as the version that serves, or, in trouble, not at all or not
ok; while a deploy spreads it may show the version before, but only after the job
has looked.

### Resolver, Orders and Server

`Resolver` keeps a constructor's function type as what `analyze` reads of it
(`Analyze`). `indegree`, `ready` and `built` are the maps and slices of `resolve`;
a constructor that takes a service twice waits for it twice, as there. Reflection
is modelled by its results, and configuration as given. `Mount` goes over the list
of routes with the `/health` pair `App` appends to it.

`Orders` is the store under its mutex, so each operation is one step; an order is
its id. `Server` runs requests: `chain` is where the middlewares' goroutine is,
`handler` where the one `TimeoutMW` starts is, `buffer` is the `bufferedWriter` and
`done` the channel of capacity one over which the goroutine says how it ended.
A handler that misses its deadline runs on, and may still create an order. A request
with `Upgrade: websocket`, of whichever route, has no such goroutine (`chain` is
`direct`): its handler writes to the connection, may panic after it has, when `Recover`
leaves what was sent, and is cut off by the server's `WriteTimeout` alone. `walk`
is a client that follows `next` cursors and asks again when a page fails.

## 3. What is checked

| Run | Question | States |
|---|---|---|
| `run_machine` | do a run's fields, check, row and cancels agree after any order of handlers? | 335 456 |
| `run_machine_live` | does every review end? | 45 704 |
| `run_do` | is every owed write delivered, through lost replies and resets? | 747 000 |
| `run_do_machine` | does the Durable Object implement the machine when calls cross? | 433 000 |
| `run_do_check_retried` | is an owed check always retried? **No** (finding 1) | stops at the violation |
| `run_do_late_report` | do an old job's reports fail after a retry? **No** (finding 2) | stops at the violation |
| `reconcile` | does every PR end with exactly the run it should have? | 586 000 |
| `reconcile_faults` | also when a call, a row or check write fails, or a delivery comes twice? | 515 000 |
| `reconcile_check_settles` | is the kept run's check the newest in the end? **No** (finding 3) | stops at the violation |
| `batcher` | do events arrive in order, once, and all of them? | 156 000 |
| `forwarder` | does the job end, in the colour Dispatch's state calls for, with no claude left? | 1 310 000 |
| `beside` | do the Go service's start and requests, the deploy of `main`, an open runs list and what a PR is given keep their promises? | 4 157 000 |

The types of `RunMachine` and `Reconcile` are proved (section 4) and not run.

**run_machine**. `WaitingIsWaitingForSomeone` (on the hill exactly while an
agent is out), `ClearMeansClear` (only clear passes), `ReportCurrent` (the stored
report), `WritesFollow` (the row and the check say what the run says, so no
handler forgets the effect it owes), `AlarmMakesProgress` (`nextAlarm` and `onTick`
agree), `JobsAreTheAgentsOwn`, and over steps `ReportsStand` (neither what an agent
reported nor how a run ended changes) and `AbandonedJobIsCancelled`. Bounds: rosters of 0, 1 and 2 agents, one of them
Granite Chief, whose hazard can be waived; verdicts with none, one and two
waivable hazards (the second stays open, so an "other" hazard would tell nothing
more apart here); limits 1, 2 and 2 units, so a stall can come before a timeout
and be followed by it; one retry an agent; one outstanding repost; two titles.
Every handler works on one agent or on all of them, so two agents show both the
last one in and one still out.

**run_machine_live**. `FairSpec` is weakly fair to `Elapse` (time passes) and to
a tick of a due alarm (the platform fires the alarm that `arm` set). Nothing is
assumed of agents, GitHub or owners. Retries are bounded by `MaxRetries`, since an
owner who retries for ever keeps a run open; re-runs of a job on GitHub are left
out of this run for the same reason: each restarts the agent's clocks.

**run_do**. Two calls at once of a clear verdict and a repost ask, every
outcome of every write, resets at any await, three check run ids, two reposts
outstanding (the second is the ask made while the first is with GitHub).
`RowDelivered` and `CheckDelivered`: a cleared mark means the
row, or the newest check run on the head, says what the stored state says.
`RowRetried`: an owed row has an alarm once the calls are over.

**run_do_machine**. `ImplementsMachine` is `RunMachine!Spec` under the mapping
`run <- stored`, `cancelled <- asked`, with `check` and `row` mapped to what the
state owes (their delivery is `run_do`'s subject). It fails if any commit is
computed from a state read before an await. All kinds of calls that commit,
except transcripts, two titles, no failures (their effect on the stored state is
that of a failure report), no resets (which leave it alone). Calls of an agent's
old job that are under way when it is retried are excluded in the two passing
runs (`LateCalls`): they are the subject of finding 2. The owner's retry is of one
agent or of a step's agents, as the two routes ask it.

Deadlock is not checked: a landed run with no calls under way does stop.

**reconcile**. Two deeds in a row (push, draft or ready, retarget, close, reopen,
merge) on a PR whose second head is unpatrolled, one webhook handler at a time
beside the cron; five runs (a sixth is never started: with MaxRuns 6 the states are the same).
`LandsOnlyMerged`: only a run on the merged head is landed. `RunsSettle`: in the
end a patrolled PR has exactly one open run, on its head, and any other PR none.
`AskedAfterTheStops`: when a reconcile asks for a repost, the stale runs on that head
have ended, and those whose review it cut short itself can create no newer check, a
failed create's retry apart. It promises no more because the stop of a swept run, or of
one that another reconcile stopped, waits for nothing (finding 3). Two deeds are what it takes for an invocation to act
on a PR that moved twice, as in a reconcile that read the PR before a push and
stops the new head's run: the comment at `pr.ts:161-163` has no such case, and
the cron's start on an ended head repairs it.

**reconcile_faults**. One head and a retitle, with one failure anywhere: a call of
an invocation that fails or loses its reply, a row that is not written with its
commit, a check that GitHub refuses or creates without a reply, or a delivery
taken twice; and the first run's review may conclude meanwhile. There are two titles,
alike, so the PR is opened with one of them (`FirstTitles`). `RunsSettle` and
`AskedAfterTheStops` again, here with stops that do not wait, and `TitlesSettle`: open
runs are filed under the PR's title in the end.

`FairSpec` of `Reconcile` is weakly fair to each invocation's next step (code runs
on; the platform fires the cron's tick), to each run's check sync and to its row
write (their alarms retry). It is not fair to deliveries or to GitHub's deeds.

**batcher**. Three events, the third too large to share a batch; batches of two;
two attempts of a job and one retry of the agent, strided as tightly as the
numbers allow, so that an overlap of one number would show. Three events are
what it takes for one batch in flight, one event behind it that fills no batch,
and one after a re-run. `KeepsThePromise` is `EventLog!Spec` under the mapping
`log <- ` the events' ids, `closed <- close` and the flags. `NothingStranded`: an event in
the queue has a timer or a drain, and a close that waits has a drain. `SendsNoMore`:
after `abandon()`, or an expired close, nothing new is sent. `EventsArrive`: each
event is in the log or given up in the end, under weak fairness of the timers and
strong fairness of an answer (`Accepted`, `Unwanted`): a batch that is tried for
ever is answered at some time, as `RETRY_CEILING_MS` bounds the delay between tries.

**forwarder**. Two events, two tries of each retried call, two signals: enough for
a report that is lost, retried and refused while its first attempt is late, and
for a signal that the second overtakes. `GreenMeansPassed` and `RedHasACause`
compare the exit code with how Dispatch has the agent at any later time;
`GreenMeansTold` with what it has of the events; `VerdictInTime` is the deadline's;
`NoClaudeLeft` ranges over every way out; `JobEnds` is liveness. Fairness is of timers (deadline, SIGKILL, `close()`'s
deadline, the requests' 120 s) and of what the process does by itself. Nothing is
assumed of Dispatch or the network, nor of a claude that was not killed; the one
assumption about the outside is that claude's output ends once it has exited
(`ClaudeCloses`), which a process it started could delay.

Deadlock is not checked in either: a job ends.

**beside**. Five systems that share no state; `part` picks the one a behaviour is
of, so the states are the sum of the five and not their product. None has a
temporal promise worth a fairness assumption, and all are bounded or come to an
end, so deadlock is not checked.

- *start*: up to three constructors over three services and a logger, and two items
  of routes before `/health`. Three is what it takes for a chain, a cycle beside a
  service that can be built, a registration that supersedes another's provider, and
  a service taken twice. `BuiltInOrder`: each constructor is called at most once and
  after its parameters'. `StartsIffItCan`: the framework serves no program it should
  refuse, and refuses none it could start; a cycle is defined there without
  counting, as a set of services each of which waits for one of the set.
- *serve*: two requests and three orders, pages of one and of two. Two requests are
  what it takes for an order to be created between a client's pages, or for one
  request's handler to run on past its deadline while another is served. A create may
  come with a websocket's header, as the socket's route does (`Upgrading`). A list is
  asked for only on such a walk. `OneAnswer`:
  no client is sent two answers, and a success is final only behind `TimeoutMW`; and
  `PagesCoverOrders`.
- *deploy*: three commits, three Workers of which one has no `/health` (the other two
  differ in name only, so one of them stands for both as what serves at first), and two
  troubles (a rerun, a deploy by hand, a rewrite, a call that fails or misleads, a
  lost runner). Two are what it takes for an old deploy job to be run again over a
  commit whose own deploy failed, or for a deploy by hand between a plan and a
  rollback. `NeverBackwards`, `NewestServes`, `RollbackRestores`.
- *watch*: two runs, three updates, one fault, two fetches at once, a list of at most
  two. Two runs and three updates let one run's writes cross while the other's are
  lost with the socket. `ListIsCurrent`: when nothing is owed or under way, the list
  has each run of the index, in its newest copy. It leaves out a run whose index
  writes crossed in D1 (`InStep`; section 5).
- *ask*: a PR of the owner, the refresh workflow or a stranger, from the repository, a
  fork or a deleted repository, one push, retargets there and back, seven diffs in pages
  of two files, tokens of three minutes with a margin of one. A page of two is what it
  takes for a diff to be empty, less than a page, a page, or more, with the guarded file
  first or last; one push for the head to move between two reads. `GivenWhatItTouches`:
  what the PR was given for the diff it has is on its head, and what its author and that
  whole diff call for. `TokenInForce`: a
  call that is answered within the margin is not refused for its token.

### Findings

1. **An owed check can be left with no alarm** (`run_do_check_retried`,
   `do.ts:356`). A stop's check write fails, the mark stays and the alarm is set
   60 s ahead; the alarm fires while the same commit still awaits GitHub's answer
   to its cancel, so `checksOwed` makes `retryCheck` return at once, `onTick` has
   nothing to do, and nothing arms again. The comment at `do.ts:405-408` promises
   the retry.
2. **An old job's report can reach a new attempt** (`run_do_late_report`,
   `do.ts:273`). `admit` compares the nonce with a state read before two awaits;
   its reread only asks whether the agent is live. If the owner's retry commits in
   between, the old report is taken for the new attempt. The result of a late
   `dispatch` is applied without any nonce. `machine.ts:301-303` and `do.ts:124`
   say otherwise.

3. **A stopped run's check can stay the newest for good**
   (`reconcile_check_settles`, `pr.ts:106`). Two racing starts leave two runs on a
   head; a reconcile stops the older one, and a call fails before it asks for the
   repost. The stopped run's check is created after the kept run's. No later
   reconcile finds a stale run, so none asks, although `pr.ts:70-71` calls a
   reconcile "safe to repeat" and the cron's safety net.

   No failure is needed where the stop waits for nothing. A run whose dispatches all
   failed is swept with its first create in flight; its stop has no check effect
   (`machine.ts:269`), so the repost may be asked and made before that create. TLC finds
   this with `Sweepers = {1}` and no faults.

   With two deeds TLC finds the same end with no failure and nothing swept: a slow reconcile that
   read the PR while it was retargeted stops the kept run while that is creating
   its check, after the newer run's.

## 4. What is proved

`RunMachineProofs`, from three assumptions: the limits are positive
(`LimitsAssumption`), verdicts are those `parseVerdict` lets through
(`VerdictsAssumption`), check run ids are positive (`CheckIdsAssumption`). No
bound of a configuration is assumed.

- `TypeCorrect`: `Spec => []TypeOK`.
- `WaitingTheorem`: `Spec => []WaitingIsWaitingForSomeone`.
- `ClearTheorem`: `Spec => []ClearMeansClear`.

The inductive invariant of the first two is `Inv`: the types (`RunOK`, `JobsOK`)
and `WaitingOK`. Neither part is inductive alone: that a sweep closes only when
nobody is out follows from the handlers' guards together with the status, and the
handlers' guards read the status. One lemma per handler shows that it takes a
good run to a good run whatever its arguments; the theorem puts them together,
one step per action. `ClearTheorem` strengthens `Inv` by `HazardsOK` (an agent's
hazards are there exactly when its status says so: without it a retried or
stopped agent could carry hazards that no outcome counts), again with one lemma
per handler.

- `WritesFollowTheorem`, `ReportCurrentTheorem`, `JobsTheorem`: `Spec` implies `[]` of
  `WritesFollow`, `ReportCurrent` and `JobsAreTheAgentsOwn`.
- `ReportsStandTheorem`, `AbandonedJobTheorem`: `Spec` implies `ReportsStand` and
  `AbandonedJobIsCancelled`.
- `AlarmTheorem`: `Spec => []AlarmMakesProgress`.

The first five of these come from one lemma per handler (`OnVerdictKept`,
`RetryAgentsKept`, ... in `RunStateProofs`), which says what its transition keeps of the
run it was applied to (`Kept`): it owes the write of what it changes, it leaves a report
that is current, finished agents and conclusions stand, a job that it cancels is of
an attempt it ends, and one it abandons is cancelled. `NextTook` puts them together:
every step, the passing of time included, takes such a transition. The invariant is
`ReviewInv`: `Inv`, the current report, `WritesFollow`, and `JobsMatch`, which
strengthens `JobsAreTheAgentsOwn` to *every* job ever cancelled: none is of an attempt
that is still to come. Without that a retry could arrive at an attempt whose job had
been cancelled before.

`AlarmTheorem` needs no more than `Inv`: `nextAlarm` is the least of a set of deadlines,
so it is due exactly if one of them is, which is if the tick fails or stalls an agent; an
agent that was stalled is no longer watched for a stall, and was not due to fail.

`RunDOProofs`, from the same, `RunDOAssumption` (the sets' types), `FiniteAssumption` (a roster is
finite) and `FreshIdAssumption` (GitHub has an id that is neither of two others). Any
number of calls at once, any outcomes, with resets or without:

- `TypeCorrect`: `Spec => []TypeOK`.
- `RowDeliveredTheorem`, `CheckDeliveredTheorem`, `RowRetriedTheorem`: `Spec` implies `[]`
  of `RowDelivered`, `CheckDelivered` and `RowRetried`.
- `ImplementsTheorem`: `~LateCalls` implies `Spec => ImplementsMachine`.

The inductive invariant of the first four has a part for each thing a handler relies
on when an await returns, and TLC checked it on the states of both passing runs before
the proof:

- `Stored`, `Marks`, `Tasks`: the state is one that the handlers keep, and each call
  under way holds what its next operations take.
- `Queued`: the queue is the calls at their sync, each once, and only its head has a
  check write under way. So two check writes of a run never cross.
- `RowIs`: not only is the row right when the mark is clear; *a write under way that may
  clear it wrote what the state still says*. A commit in between makes the write's
  revision stale, which is what `fresh` stands for.
- `CheckIs`: the same for the check, with what a create needs: the id it will record is
  the newest on the head unless another repost was asked for since, and no other write
  recorded one meanwhile.
- `Alarmed`: a row is owed with no alarm only while the alarm's handler is itself at the
  write. A reset there runs the handler again, and its failing reply arms.

That a call goes on at the first of its operations that has something to do takes the
least of a set of numbers (`Least`, from the library's `WFMin`), and that `commit`'s
effects are a sequence of operations takes that rosters are finite: neither needs an
induction over data.

The refinement adds `Held`, what calls under way hold against the state they will
meet: an ask of the owner (retry, bypass, repost) is the last operation of its call and
at most one is under way, within its bounds; a brief is for its agent's present attempt,
and no retry of that agent is under way. `Held` was checked by TLC on the 433 000 states
of `run_do_machine`, and it is where `~LateCalls` is needed: with late calls a brief may
be taken by an attempt it was not made for, and the refinement is false (finding 2).
Then `SimStep`: a commit is one step of `RunMachine`, the action of the handler it
applied (`SimCommit`, one case per kind of request); a new check run's id is the one
other write of the state and is `checkCreated` (`SimCreateReply`); time passes in both;
every other step, replies and resets included, leaves the stored state as it is. The
machine's operators are `RunState`'s in both modules, and the lemmas `Same...` say so.

`ReconcileProofs`, from `ReconcileAssumption` alone (the sets' types; `MaxRuns`,
`MaxDeeds` and `MaxFaults` may be any numbers, and so may the handlers):

- `TypesCorrect`: `Spec => []TypeOK`.
- `LandsTheorem`: `Spec => []LandsOnlyMerged`.
- `AskedTheorem`: `Spec => AskedAfterTheStops`.

The invariant of the first two, `Inv`, says besides the types what an invocation
knows at each of its stages (`ProcOK`). The part that matters: between the read of
a merged PR and the landing, the PR is still merged, at the head that was read.
It is stable because GitHub changes nothing but the title of a merged PR.
`AskedTheorem` adds `StaleOK` and `HaltedOK`. Each run a reconcile found stale has
ended or is still to be called, and stays so because no step opens a run that has ended
(`EndsStay`). Each run whose review it cut short is stopped, and either its call still
waits, in the queue or for the sync under way, or nothing under way or owed creates a
check, or a create has failed. The queue is what makes it true: a sync speaks for all
that is owed when it starts, so a call that came before it returns with it, and one that
comes later waits for the next.

`EventLogProofs`, from no assumption:

- `TypeCorrect`, `OrderTheorem`: `Spec => []TypeOK`, `Spec => []InOrder`.
- `DrainedTheorem`: `Spec => DrainedLeavesNone`.

They say what `KeepsThePromise` is worth. `TypeOK` and `InOrder` are inductive
together: the last part of `InOrder`, that whatever waits is newer than every event
of the log that was not given up, is what makes taking the oldest first keep the
order. `GiveUp` and `Restart` keep it because what they give up no longer counts.

`ForwarderProofs`, from no assumption on the bounds, and whatever the batcher does:

- `GreenTheorem`, `RedTheorem`, `InTimeTheorem`, `NoClaudeTheorem`,
  `GreenToldTheorem`: `Spec` implies `[]` of `GreenMeansPassed`, `RedHasACause`,
  `VerdictInTime`, `NoClaudeLeft` and `GreenMeansTold`.

The invariant is four parts. `ClaudeInv`: which stages claude can be there in.
`SeenInv`: a passing status that a 410 named still stands. `VerdictInv`: a verdict
is with Dispatch, or on its way, only from the report on, and never past the
deadline. `CodeInv`: a red job whose clear verdict is taken, *or may still arrive*,
has one of the three causes; without the second half a late request would break it.
`GreenToldTheorem` adds `DrainInv`: the report is reached only with a close that has
settled, what a drained close left waiting is nothing, and only a job that nobody wants
or that was cancelled abandons its batcher.

`BatcherProofs`, from `BatcherAssumption` (batches are not empty, and a retry's stride has
room for the numbers of all attempts of a job, as `RETRY_SEQ_STRIDE` has):

- `TypeCorrect`, `NumbersRise`: `Spec` implies `[]` of the types and of `Numbers`.
- `StrandedTheorem`, `SendsNoMoreTheorem`: `Spec` implies `[]NothingStranded` and
  `SendsNoMore`.
- `PromiseTheorem`: `Spec => KeepsThePromise`; `LogInOrder`: `Spec => []Promise!InOrder`.

The inductive invariant is `Types /\ Flags /\ QueueIs /\ Batches /\ Numbers /\ Waits`
(TLC checked it on all states of `batcher`). `QueueIs` and `Batches` say that the queue
and every batch taken from it are runs of consecutive events, which the log has all or
nothing of, so a batch that lands twice changes nothing. `Numbers`: numbers rise with
the events *over everything that may still land*, late batches included; this is why the
log's uniqueness on (agent, number) tells a repeat from a new event. `Waits`: what the
promise still waits for is in the queue or the batch in flight, and a late batch holds
nothing of it except when it is that batch. Each step of the batcher is then a step of
`EventLog` or none: a landing is `Deliver` or, of a late batch, `Straggle`; what is left
behind is `Drop`, `GiveUp` or `Restart`. `LogInOrder` is `OrderTheorem` of
`EventLogProofs`, instantiated with the batcher's log.

`BesideProofs`. Of `Server`, from `OrdersAssumption` and `ServerAssumption`:

- `OneAnswerTheorem`, `PagesTheorem`: `ServerSpec` implies `[]` of `OneAnswer` and
  `PagesCoverOrders`, for any number of requests and orders and any page limits.

The invariant has three parts. `StoreOK`: the ids are one to their number, in order.
`CallsInv`: who of chain and handler may still act, what is in the buffer then, that
what was sent of it is what is in it, and that a handler with no buffer has written
nothing before it writes its answer, and writes it once. `WalkInv`: the pages seen are a prefix of
the store, *and so is any page under way to the client, appended to them* (`Fits`);
creating orders keeps it because the store only grows at its end (`WalkGrows`).

Of `CiDeploy`, from `CiDeployAssumption`; the bounds may be any numbers:

- `NewestServesTheorem`: `DeploySpec => []NewestServes`.
- `NeverBackwardsTheorem`, `RollbackRestoresTheorem`: `DeploySpec` implies
  `NeverBackwards` and `RollbackRestores`.

The invariant: a version is one Worker and its tag a commit that ships it
(`DeploymentsInv`); who may be waiting or under way (`RunsInv`); what the job knows
from its look at `/health` on (`JobInv`: what it saw is still the version it would go
back to, it is not outdated, and it added at most one version unless somebody
deployed by hand); and that what is settled cannot be unsettled by any run there is
(`SettledInv`: all are the newest commit's).

Of `Resolver`, from `ResolverAssumption`:

- `BuiltInOrderTheorem`, `StartsIffItCanTheorem`: `StartSpec` implies `[]` of
  `BuiltInOrder` and `StartsIffItCan`, for any constructors and routes.

`resolve` counts, and the property has sets. `QueueInv` says what the counts count:
an indegree is the number of parameters not built, and the queue holds those with
none that were not called. `OrderInv` keeps that no set of what is built waits for
itself (`Acyclic`), so it needs no induction over the order at the end: if all is
built there is no cycle, and if the queue runs dry before, what is left waits for
itself, each for one of the rest.

Of `RunsLive`, from `RunsLiveAssumption`, for any number of runs, updates, faults and
fetches:

- `ListTheorem`: `LiveSpec => []ListIsCurrent`.

The invariant (`LiveInv`) says where the newest copy of a run is once its row is owed no
more: `BroughtInv`, the list has it, a frame brings it, or the fetch of the open does. For that each of the other parts is needed: a copy's time tells what it says
(`Told`), the row is never newer than what landed, nor that than the run (`RowsInv`), a
write under way carries the revision it read (`WritesInv`), the page has seen nothing D1
had not (`SeenInv`), and fetches of an earlier open are told apart (`OpenedInv`).
That a merge keeps one copy of each run, its newest, takes that a bounded set of numbers
has a greatest element (`Greatest`).

Of `Intake`, from `IntakeAssumption`, whatever the pages' size and the tokens' lifetime:

- `GivenTheorem`, `TokenTheorem`: `IntakeSpec` implies `[]` of `GivenWhatItTouches` and
  `TokenInForce`.

The invariant is `IntakeTypes /\ TokenLasts /\ GivenInv /\ WorkInv`. `WorkInv`: while the
PR has the diff `startPr` began with, it is on the head of the event and into the
default branch, the files listed are the first of the PR's, and when the check is
posted all of them were judged. `GivenInv` is the property with what keeps it over the
changes of the PR: its author and repository stay what they were.
`TokenLasts`: of a call within the margin, the token's minutes and the call's age
exceed the margin, so it does not run out before the call does.

**Only model-checked.** Liveness, which is out of the prover's reach together with
`ENABLED`: `ReviewEnds`, `RunsSettle`, `TitlesSettle`, `EventsArrive` and `JobEnds`. Every
safety invariant, every action property and both refinements of the passing runs are
proved. The findings are counterexamples of TLC.

## 5. What is not modelled, and what a reader should know

**Left out.** The dashboard's pages, except the list's data: rendering, and a run's
own page, which takes the last snapshot it is sent and keeps log lines by id
(`useRunLive`), and the owed designs, fetched whenever the list changes. The set-up
scripts: interactive, one process, nothing kept. The Go Linear, mail, database and
telephony clients: request building, and no controller uses the Linear client, whose
caches are of one caller's names. Authentication, which `App` does not install, and
cryptography (signatures, tokens, nonces' secrecy). What the GitHub client puts in
its requests beyond whom they ask for what: headers, signing. What a websocket says
once it is open (a `SendMessage` after its `writeSocket` has ended would wait for ever,
`http.go:167`; only the example controller calls it). Generated code. `router.go:107` cannot be reached: the `/health` pair is
always appended, so a path is never last.

**Time.** In the forwarder, that 20 minutes of claude, a close of five and the
report's retries can exceed the job's 25. A batch that is refused for good counts as
answered (`batcher.ts:22-23`), although Dispatch lacks its events.

**D1.** `RunDO` applies index writes in the order they are issued. `RunsLive` does
not: two writes of one run may cross, and when the older lands last, after the newer
settled its mark, the row stays old until the run's next update. Nothing in the code
repairs it; `ListIsCurrent` speaks of the list as against D1 and leaves that run out.
The orphan left by a check run whose creation lost its reply, when the run stops
before it is retried, is outside `CheckDelivered`.

**Retargets.** `GivenWhatItTouches` speaks of what was given for the diff the PR has.
After a retarget the same head keeps the run or the neutral check of its earlier diff
until the retarget's delivery starts another, past the duplicate check (`pr.ts:131-135`).
If that delivery is lost and the earlier run is open, the cron leaves it alone
(`cron.ts:39`), and a head with the neutral check alone stays as it is (`cron.ts:45`).
A start that lists the files while the PR is retargeted and back (`pr.ts:136`) judges a
diff the PR no longer has, and a neutral check posted late can be the newest on the
head. `Reconcile` has retargets too, for the runs; its heads' files do not change.

**The runs list.** Two updates of one run are assumed to differ in `updatedAt`; the
merge would keep either of two that do not. When the refetch of an open fails, the
page shows what it had until the next frame, open or fetch, and `ListIsCurrent`
waits for a refetch that succeeded. A run the index no longer lists stays on the
page; no code deletes a row.

**The deploy.** `NewestServes` ends where the owner deploys by hand, reruns an older
commit or a new commit is pushed. That leaves corners the code has: when the newest
commit was skipped because it ships what serves, its tag is not live, and a rerun of
a commit between the live tag and it is deployed, over a commit that is newer. A
rerun takes the place of the newest commit's run if that is waiting
(`basetobase-ci.yml:15-21`). And a job whose first look at `/health` got no answer
and whose deploy failed takes the commit's tag on an unhealthy version for its own
(`ci-deploy-lib.ts:128`), although an earlier run of the commit may have deployed
it: the rollback undoes that. `RollbackRestores` allows this, because the version undone is
of the job's own commit.

## 6. Plan

What would add most, in this order:

1. Proofs: what finding 2 leaves of the refinement with late calls (a commit is a
   machine step, or that of a report taken for a later attempt), and what finding 1
   leaves of the check's retry (an owed check has an alarm, or a task that owes it).
2. `RunDO` with D1 writes that cross and with the orphan check.
3. A tick of the cron over several PRs, with its budget of 50.
4. A run's own page: the log lines' backfill against the frames of its socket.
