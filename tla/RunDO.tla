------------------------------- MODULE RunDO -------------------------------
(***************************************************************************)
(* The Durable Object that owns one run (dispatch/src/run/do.ts): it       *)
(* stores the machine's state, executes the effects its transitions        *)
(* return, and owes the index row and the check run until they are         *)
(* written.                                                                *)
(*                                                                         *)
(* A call is a task: the operations it still has to do, in order (todo),   *)
(* and the one it awaits outside the object (io).  The object runs one     *)
(* task at a time until that task awaits something outside (running);      *)
(* storage operations do not let another task in, which is the input gate  *)
(* of Durable Objects.  A reset drops every task and keeps the storage.    *)
(*                                                                         *)
(* A mark's revision matters only when a write that read it settles, so    *)
(* the model keeps, per write, whether that revision is still the mark's   *)
(* (fresh).  A write takes place where it is issued and its reply comes    *)
(* later: ok, refused (nothing written), or lost (written, but the caller  *)
(* sees an error; for the index, also a lobby that did not hear it).       *)
(***************************************************************************)
EXTENDS RunState, Sequences, SequencesExt

CONSTANTS
  Task,           \* bound: calls under way at once
  None,           \* no task, nothing awaited
  CheckIds,       \* ids GitHub gives check runs
  Outcomes,       \* what may become of a call to D1 or GitHub
  Calls,          \* bound: the kinds of call made into the object
  Resets,         \* whether the object may be reset
  LateCalls,      \* bound: whether a call of an agent's old job may outlive its retry
  MaxRetries,     \* bound: retries of one agent
  MaxReposts      \* bound: asks for a repost outstanding at once

ASSUME RunDOAssumption ==
  /\ None \notin Task
  /\ CheckIds \subseteq Nat \ {NoCheck}
  /\ Outcomes \subseteq {"ok", "refused", "lost"}
  /\ LateCalls \in BOOLEAN /\ Resets \in BOOLEAN
  /\ MaxRetries \in Nat /\ MaxReposts \in Nat

(* Agents are finitely many, and GitHub never runs out of ids. *)
ASSUME FiniteAssumption == IsFiniteSet(Agent)
ASSUME FreshIdAssumption ==
  \A a, b \in CheckIds \union {NoCheck} : \E id \in CheckIds : id \notin {a, b}

VARIABLES
  stored,                  \* storage: the RunState
  indexPending, checkPending,   \* storage: whether the marks are set
  alarm,                   \* the alarm: for the machine's deadline, for the retry, or none
  tasks, running,          \* memory: the calls under way, and the one the object is running
  checkSyncs,              \* memory: the tasks queued to sync the check run
  jobs,                    \* GitHub: the jobs it accepted, by the attempt their nonce is for
  newest,                  \* GitHub: the newest check run on the run's head
  row,                     \* D1: the run's index row
  asked                    \* history: the cancels the commits called for

memory == <<tasks, running, checkSyncs>>
outside == <<jobs, newest, row>>
vars == <<stored, indexPending, checkPending, alarm, memory, outside, asked>>

(* What the newest check run is when the run has posted none, or another run's came after it. *)
NotOurs == [id |-> NoCheck]

Idle == [todo |-> <<>>, io |-> None, tick |-> FALSE]
Job(a) == [agent |-> a, attempt |-> stored.agents[a].retries + 1]

-----------------------------------------------------------------------------
(* Calls *)

JobKinds == {"brief", "events", "verdict", "failure", "transcript"}
AskKinds == {"retry", "bypass", "repost"}
Reports == {"brief", "events", "verdict", "failure"}

(* What an owner may ask to retry: one agent, or those of the step, which are all of them. *)
RetryTargets(agents) == {{a} : a \in agents} \union {agents}

(* An invalid verdict takes the same path as a failure report. *)
Requests ==
  [kind : Calls \cap (JobKinds \ {"verdict"}), job : jobs]
    \union [kind : Calls \cap {"verdict"}, job : jobs, verdict : Verdicts]
    \union [kind : Calls \cap {"stop", "land", "bypass", "repost", "view"}]
    \union [kind : Calls \cap {"retitle"}, title : Title]
    \union [kind : Calls \cap {"retry"}, target : RetryTargets(DOMAIN stored.agents)]

Handled(request, s) ==
  CASE request.kind = "brief" -> OnBriefed(s, request.job.agent, request.job.attempt)
    [] request.kind = "events" -> OnEvents(s, request.job.agent, 1)
    [] request.kind = "verdict" -> OnVerdict(s, request.job.agent, request.verdict)
    [] request.kind = "failure" -> OnFailure(s, request.job.agent)
    [] request.kind = "transcript" -> OnTranscript(s, request.job.agent)
    [] request.kind = "dispatched" -> OnDispatched(s, request.job.agent)
    [] request.kind = "stop" -> StopRun(s)
    [] request.kind = "land" -> LandRun(s)
    [] request.kind = "bypass" -> BypassDesign(s)
    [] request.kind = "repost" -> AskCheckRepost(s)
    [] request.kind = "retitle" -> OnRetitled(s, request.title)
    [] request.kind = "retry" -> RetryAgents(s, request.target)
    [] request.kind = "tick" -> OnTick(s)

RetryPending == <<<<"index">>, <<"retryCheck">>>>
StepOf(request) == RetryPending \o <<<<"apply", request>>>>
TodoOf(request) ==
  CASE request.kind = "view" -> RetryPending
    [] request.kind \in Reports -> RetryPending \o <<<<"admit", request>>>> \o StepOf(request)
    [] OTHER -> StepOf(request)

(* The effects of a transition, and the end of a commit that owes a check sync. *)
EffectsOf(fx) ==
  (IF fx.index THEN <<<<"index">>>> ELSE <<>>)
    \o SetToSeq({<<"dispatch", a>> : a \in fx.dispatch})
    \o (IF fx.check THEN <<<<"check">>>> ELSE <<>>)
    \o SetToSeq({<<"cancel", j>> : j \in fx.cancel})
    \o (IF fx.check THEN <<<<"checkDone">>>> ELSE <<>>)

-----------------------------------------------------------------------------
(* Running a task *)

Todo(t) == tasks[t].todo
Rest(t) == Tail(Todo(t))
At(t, op) == running = t /\ Todo(t) # <<>> /\ Head(Todo(t))[1] = op
Awaits(t, kind) == running = None /\ tasks[t].io # None /\ tasks[t].io.kind = kind

(* checksOwed: a check sync that a task has yet to finish is ended by its checkDone. *)
OwesCheck(todo) == <<"checkDone">> \in ToSet(todo)

(* The task goes on with what is left of todo, and is done when nothing is.  What has nothing to *)
(* do by the marks as they are now takes no step: an index write no mark calls for, a retry of   *)
(* the check while no mark is set or a sync of it is owed, the end of a commit.                  *)
GoesOnIn(all, t, todo, index, check) ==
  LET Nothing(i) ==
        \/ todo[i] = <<"index">> /\ ~index
        \/ /\ todo[i] = <<"retryCheck">>
           /\ \/ ~check
              \/ OwesCheck(SubSeq(todo, i, Len(todo)))
              \/ \E u \in Task \ {t} : OwesCheck(all[u].todo)
        \/ todo[i] = <<"checkDone">>
      acts == {i \in DOMAIN todo : ~Nothing(i)}
  IN /\ tasks' = [all EXCEPT ![t] =
                     IF acts = {} THEN Idle
                     ELSE [@ EXCEPT !.todo = SubSeq(todo, Min(acts), Len(todo)), !.io = None]]
     /\ running' = IF acts = {} THEN None ELSE t
GoesOn(t, todo) == GoesOnIn(tasks, t, todo, indexPending, checkPending)

Await(t, io) ==
  /\ tasks' = [tasks EXCEPT ![t].io = io]
  /\ running' = None

(* Faulty: a write settles its mark whatever was committed since it read it. *)
OutdatedNever(all, kinds) == all

(* Writes of these kinds under way no longer hold the revision of their mark. *)
Outdated(all, kinds) ==
  [t \in Task |-> IF all[t].io # None /\ all[t].io.kind \in kinds
                  THEN [all[t] EXCEPT !.io.fresh = FALSE] ELSE all[t]]
IndexWrites == {"index"}
CheckWrites == {"create", "update", "replace"}

(* Faulty: only the machine's deadline sets the alarm. *)
AlarmForDeadline(s, pending) == IF AlarmTimes(s) # {} THEN "deadline" ELSE "none"

(* arm(): the next deadline or the retry delay from now, whichever comes first.  An alarm for    *)
(* the retry may fire at any moment, the deadline's included.                                    *)
AlarmFor(s, pending) ==
  CASE pending -> "retry"
    [] ~pending /\ AlarmTimes(s) # {} -> "deadline"
    [] OTHER -> "none"

Written(outcome) == outcome \in {"ok", "lost"}

-----------------------------------------------------------------------------
(* Steps of the running task *)

Commit(t, request, transition) ==
  LET fx == transition.fx
      kept == Outdated(Outdated(tasks, IF fx.index THEN IndexWrites ELSE {}),
                       IF fx.check THEN CheckWrites ELSE {})
  IN /\ stored' = transition.state
     /\ indexPending' = (indexPending \/ fx.index)
     /\ checkPending' = (checkPending \/ fx.check)
     /\ alarm' = AlarmFor(stored', indexPending' \/ checkPending')
     /\ GoesOnIn(kept, t, EffectsOf(fx) \o Rest(t), indexPending', checkPending')
     /\ asked' = asked \union fx.cancel
     (* The run stopped on this head, which the ask is made for, may have posted until now. *)
     /\ newest' = IF request.kind = "repost" THEN NotOurs ELSE newest
     /\ UNCHANGED <<checkSyncs, jobs, row>>

Apply(t) ==
  /\ At(t, "apply")
  /\ LET request == Head(Todo(t))[2]
         transition == Handled(request, stored)
     IN IF transition.state # stored THEN Commit(t, request, transition)
        ELSE /\ GoesOn(t, Rest(t))
             /\ UNCHANGED <<stored, indexPending, checkPending, alarm, checkSyncs, outside, asked>>

(* The reread after the nonce check: the agent must still owe the run a report. *)
Admit(t) ==
  /\ At(t, "admit")
  /\ GoesOn(t, IF LiveAgent(stored, Head(Todo(t))[2].job.agent) THEN Rest(t) ELSE <<>>)
  /\ UNCHANGED <<stored, indexPending, checkPending, alarm, checkSyncs, outside, asked>>

WriteIndex(t) ==
  /\ At(t, "index")
  /\ \E outcome \in Outcomes :
       /\ Await(t, [kind |-> "index", fresh |-> TRUE, outcome |-> outcome])
       /\ row' = IF Written(outcome) THEN SummaryOf(stored) ELSE row
  /\ UNCHANGED <<stored, indexPending, checkPending, alarm, checkSyncs, jobs, newest, asked>>

(* A sync joins the queue, where it waits for those before it. *)
QueueCheck(t) ==
  /\ At(t, "check") \/ At(t, "retryCheck")
  /\ checkSyncs' = Append(checkSyncs, t)
  /\ tasks' = [tasks EXCEPT ![t].todo =
       (IF At(t, "check") THEN <<<<"sync">>>> ELSE <<<<"sync">>, <<"checkDone">>>>) \o Tail(@)]
  /\ running' = IF checkSyncs = <<>> THEN t ELSE None
  /\ UNCHANGED <<stored, indexPending, checkPending, alarm, outside, asked>>

NewId == CHOOSE id \in CheckIds : id \notin {newest.id, stored.checkRunId}

SyncCheck(t) ==
  /\ running \in {t, None} /\ checkSyncs # <<>> /\ Head(checkSyncs) = t /\ tasks[t].io = None
  /\ IF checkPending /\ WantsCheck(stored)
     THEN \E outcome \in Outcomes :
       LET creates == stored.checkRunId = NoCheck \/ stored.checkReposts > 0
           io == [kind |-> IF creates THEN "create" ELSE "update",
                  fresh |-> TRUE, outcome |-> outcome,
                  read |-> IF creates THEN stored ELSE None,
                  id |-> IF creates THEN NewId ELSE stored.checkRunId]
       IN /\ Await(t, io)
          /\ newest' = IF Written(outcome) /\ (creates \/ newest.id = io.id)
                       THEN [id |-> io.id, check |-> CheckRunOf(stored)] ELSE newest
          /\ UNCHANGED <<checkPending, alarm, checkSyncs>>
     ELSE /\ checkPending' = FALSE
          /\ IF checkPending THEN alarm' = AlarmFor(stored, indexPending) ELSE UNCHANGED alarm
          /\ checkSyncs' = Tail(checkSyncs)
          /\ GoesOnIn(tasks, t, Rest(t), indexPending, FALSE)
          /\ UNCHANGED newest
  /\ UNCHANGED <<stored, indexPending, jobs, row, asked>>

Dispatch(t) ==
  /\ At(t, "dispatch")
  /\ \E outcome \in Outcomes :
       LET job == Job(Head(Todo(t))[2])
       IN /\ Await(t, [kind |-> "dispatch", job |-> job, outcome |-> outcome])
          /\ jobs' = IF Written(outcome) THEN jobs \union {job} ELSE jobs
  /\ UNCHANGED <<stored, indexPending, checkPending, alarm, checkSyncs, newest, row, asked>>

Cancel(t) ==
  /\ At(t, "cancel")
  /\ Await(t, [kind |-> "cancel"])
  /\ UNCHANGED <<stored, indexPending, checkPending, alarm, checkSyncs, outside, asked>>

-----------------------------------------------------------------------------
(* Replies *)

IndexReply(t) ==
  /\ Awaits(t, "index")
  /\ LET io == tasks[t].io
         settles == io.outcome = "ok" /\ io.fresh
     IN /\ indexPending' = (indexPending /\ ~settles)
        /\ GoesOnIn(IF settles THEN Outdated(tasks, IndexWrites) ELSE tasks, t, Rest(t),
                    indexPending', checkPending)
  /\ alarm' = AlarmFor(stored, indexPending' \/ checkPending)
  /\ UNCHANGED <<stored, checkPending, checkSyncs, outside, asked>>

(* Faulty: a sync that failed stays at the head of the queue. *)
SyncEndsQueued(t, settles) ==
  /\ checkPending' = (checkPending /\ ~settles)
  /\ alarm' = AlarmFor(stored', indexPending \/ checkPending')
  /\ checkSyncs' = IF settles THEN Tail(checkSyncs) ELSE checkSyncs
  /\ GoesOnIn(tasks, t, Rest(t), indexPending, checkPending')

(* settle() and the end of the sync, or just its end when the write failed. *)
SyncEnds(t, settles) ==
  /\ checkPending' = (checkPending /\ ~settles)
  /\ alarm' = AlarmFor(stored', indexPending \/ checkPending')
  /\ checkSyncs' = Tail(checkSyncs)
  /\ GoesOnIn(tasks, t, Rest(t), indexPending, checkPending')

UpdateReply(t) ==
  /\ Awaits(t, "update")
  /\ UNCHANGED <<stored, indexPending, outside, asked>>
  /\ SyncEnds(t, tasks[t].io.outcome = "ok" /\ tasks[t].io.fresh)

(* Faulty: the id goes into the state read before GitHub was asked. *)
CreatedFromRead(io, now) == OnCheckCreated(io.read, io.id).state

(* The id goes into the state as it is now: it may have changed while GitHub was creating. *)
Created(io, now) ==
  LET asks == io.read.checkReposts
  IN IF asks = 0 THEN OnCheckCreated(now, io.id).state ELSE OnCheckReposted(now, io.id, asks).state

CreateReply(t) ==
  /\ Awaits(t, "create")
  /\ LET io == tasks[t].io
     IN IF io.outcome # "ok"
        THEN UNCHANGED stored /\ SyncEnds(t, FALSE)
        ELSE /\ stored' = Created(io, stored)
             /\ IF io.read.checkRunId = NoCheck THEN SyncEnds(t, io.fresh)
                ELSE /\ Await(t, [kind |-> "replace", fresh |-> io.fresh])
                     /\ UNCHANGED <<checkPending, checkSyncs, alarm>>
  /\ UNCHANGED <<indexPending, outside, asked>>

(* The old check run is marked replaced; a failure of that is only logged. *)
ReplaceReply(t) ==
  /\ Awaits(t, "replace")
  /\ UNCHANGED <<stored, indexPending, outside, asked>>
  /\ SyncEnds(t, tasks[t].io.fresh)

DispatchReply(t) ==
  /\ Awaits(t, "dispatch")
  /\ LET io == tasks[t].io
         result == [kind |-> IF io.outcome = "ok" THEN "dispatched" ELSE "failure", job |-> io.job]
     IN GoesOn(t, StepOf(result) \o Rest(t))
  /\ UNCHANGED <<stored, indexPending, checkPending, alarm, checkSyncs, outside, asked>>

CancelReply(t) ==
  /\ Awaits(t, "cancel")
  /\ GoesOn(t, Rest(t))
  /\ UNCHANGED <<stored, indexPending, checkPending, alarm, checkSyncs, outside, asked>>

(* The nonce matched the state authorize() loaded before this await. *)
NonceReply(t) ==
  /\ Awaits(t, "nonce")
  /\ GoesOn(t, Todo(t))
  /\ UNCHANGED <<stored, indexPending, checkPending, alarm, checkSyncs, outside, asked>>

-----------------------------------------------------------------------------
(* What reaches the object *)

InFlight(kinds) ==
  \E t \in Task : \E i \in DOMAIN Todo(t) :
    Len(Todo(t)[i]) = 2 /\ Todo(t)[i][1] = "apply" /\ Todo(t)[i][2].kind \in kinds

(* Whether a call or a dispatch of one of these agents' jobs is under way. *)
JobsBusy(agents) ==
  \E t \in Task :
    \/ tasks[t].io # None /\ tasks[t].io.kind = "dispatch" /\ tasks[t].io.job.agent \in agents
    \/ \E i \in DOMAIN Todo(t) :
         \/ Todo(t)[i][1] = "dispatch" /\ Todo(t)[i][2] \in agents
         \/ /\ Todo(t)[i][1] = "apply" /\ "job" \in DOMAIN Todo(t)[i][2]
            /\ Todo(t)[i][2].job.agent \in agents

(* The bounds on what owners ask, and on what jobs report while they do. *)
WithinBounds(request) ==
  /\ request.kind \in AskKinds => stored.checkReposts < MaxReposts /\ ~InFlight(AskKinds)
  /\ request.kind = "retry" =>
       /\ \A a \in request.target : stored.agents[a].retries < MaxRetries
       /\ LateCalls \/ ~JobsBusy(request.target)
  /\ request.kind \in Reports => LateCalls \/ ~InFlight({"retry"})

(* A call arrives.  One made for a job first checks its nonce, which is the one of the agent's   *)
(* attempt, or the call ends there.                                                              *)
Call(t, request) ==
  /\ running = None /\ tasks[t] = Idle
  /\ WithinBounds(request)
  /\ request.kind \in JobKinds => request.job = Job(request.job.agent)
  /\ request.kind = "brief" => stored.jobRuns[request.job.agent] = NoJob
  /\ IF request.kind \in JobKinds
     THEN /\ tasks' = [tasks EXCEPT ![t].todo = TodoOf(request), ![t].io = [kind |-> "nonce"]]
          /\ UNCHANGED running
     ELSE GoesOn(t, TodoOf(request))
  /\ UNCHANGED <<stored, indexPending, checkPending, alarm, checkSyncs, outside, asked>>

(* One alarm() runs at a time; its alarm is gone when it starts. *)
AlarmFires(t) ==
  /\ running = None /\ tasks[t] = Idle /\ \A u \in Task : ~tasks[u].tick
  /\ \/ alarm = "retry"
     \/ alarm = "deadline" /\ AlarmDue(stored)
  /\ alarm' = "none"
  /\ GoesOnIn([tasks EXCEPT ![t].tick = TRUE], t, StepOf([kind |-> "tick"]),
              indexPending, checkPending)
  /\ UNCHANGED <<stored, indexPending, checkPending, checkSyncs, outside, asked>>

Elapse ==
  /\ running = None
  /\ Elapsed(stored) # stored
  /\ stored' = Elapsed(stored)
  /\ UNCHANGED <<indexPending, checkPending, alarm, memory, outside, asked>>

(* The platform runs again the alarm whose handler a reset cut short. *)
Reset ==
  /\ Resets /\ running = None
  /\ \E t \in Task : tasks[t] # Idle
  /\ tasks' = [t \in Task |-> Idle]
  /\ checkSyncs' = <<>>
  /\ alarm' = IF \E t \in Task : tasks[t].tick THEN "retry" ELSE alarm
  /\ UNCHANGED <<stored, indexPending, checkPending, running, outside, asked>>

-----------------------------------------------------------------------------

(* start(): the first commit, its effects yet to run. *)
Init ==
  \E agents \in SUBSET Agent, title \in Title, t \in Task :
    LET created == CreateRun(agents, title)
    IN /\ stored = created.state
       /\ indexPending = TRUE /\ checkPending = TRUE
       /\ alarm = "retry"
       /\ tasks = [u \in Task |-> IF u = t THEN [Idle EXCEPT !.todo = EffectsOf(created.fx)] ELSE Idle]
       /\ running = t
       /\ checkSyncs = <<>>
       /\ jobs = {} /\ newest = NotOurs /\ row = None
       /\ asked = {}

Next ==
  \/ \E t \in Task :
       \/ Apply(t) \/ Admit(t) \/ WriteIndex(t) \/ QueueCheck(t) \/ SyncCheck(t) \/ Dispatch(t) \/ Cancel(t)
       \/ IndexReply(t) \/ UpdateReply(t) \/ CreateReply(t) \/ ReplaceReply(t)
       \/ DispatchReply(t) \/ CancelReply(t) \/ NonceReply(t)
       \/ AlarmFires(t)
       \/ \E request \in Requests : Call(t, request)
  \/ Elapse
  \/ Reset

Spec == Init /\ [][Next]_vars

-----------------------------------------------------------------------------
(* Types *)

(* The storage holds a run, and the syncs queued are those of calls under way, each once. *)
TypeOK ==
  /\ RunOK(stored)
  /\ alarm \in {"deadline", "retry", "none"}
  /\ running \in Task \union {None}
  /\ \A t \in Task : Todo(t) = <<>> => tasks[t] = Idle
  /\ ToSet(checkSyncs) = {t \in Task : Todo(t) # <<>> /\ Head(Todo(t))[1] = "sync"}
  /\ IsInjective(checkSyncs)

-----------------------------------------------------------------------------
(* Safety *)

(* The index mark stays set until the row in D1 says what the run's state says: "a write that    *)
(* lands after a newer commit leaves that commit's mark set" (do.ts index, settle).              *)
RowDelivered == ~indexPending => row = SummaryOf(stored)

(* The check mark stays set until the newest check run on the head is the run's own, under the   *)
(* id the state holds, and concludes what the state does: through creates and updates that cross *)
(* with commits, replies that get lost, reposts asked while one is with GitHub, and resets       *)
(* (syncCheck, writeCheck, wantsCheck).                                                          *)
CheckDelivered ==
  ~checkPending /\ WantsCheck(stored) =>
    newest = [id |-> stored.checkRunId, check |-> CheckRunOf(stored)]

(* A row still owed once every call is done is retried by the alarm: nobody else would come back *)
(* to the run (index, arm).                                                                      *)
AllDone == \A t \in Task : tasks[t] = Idle
RowRetried == AllDone /\ indexPending => alarm # "none"

(* "The mark stays until GitHub has taken the write, and the alarm or the next call into the run *)
(* retries it": a check still owed once every call is done has an alarm to retry it (do.ts       *)
(* syncCheck).                                                                                   *)
CheckRetried == AllDone /\ checkPending => alarm # "none"

(* Each change of the stored state is one step of the machine on the state it replaces, however  *)
(* calls cross: none is computed from a state read before an await (step, writeCheck).           *)
Machine == INSTANCE RunMachine WITH
  run <- stored, check <- CheckRunOf(stored), row <- SummaryOf(stored), cancelled <- asked,
  Reruns <- TRUE, Uploaders <- Agent
ImplementsMachine == Machine!Spec

(* "A fresh nonce that its old job's late reports fail": what a report changes is the agent of   *)
(* the attempt that sent it (machine.ts retryAgents, do.ts admit).                               *)
LateReportsFail ==
  [][\A t \in Task :
       (/\ At(t, "apply") /\ Head(Todo(t))[2].kind \in JobKinds \ {"transcript"}
        /\ stored' # stored)
       => Head(Todo(t))[2].job = Job(Head(Todo(t))[2].job.agent)]_vars
=============================================================================
