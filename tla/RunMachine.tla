----------------------------- MODULE RunMachine -----------------------------
(***************************************************************************)
(* One review run driven through every handler of machine.ts, each applied *)
(* to the stored state with its effects executed at once.  This is what a  *)
(* run promises its dashboard, its index row and its check run on GitHub;  *)
(* RunDO shows how the Durable Object keeps the promise when the effects   *)
(* take time and fail.                                                     *)
(***************************************************************************)
EXTENDS RunState

CONSTANTS MaxRetries,   \* bound: retries of one agent
          MaxReposts,   \* bound: asks for a repost outstanding at once
          CheckIds,     \* ids GitHub gives check runs
          Reruns,       \* bound: whether a job may be re-run on GitHub and ask its brief again
          Uploaders     \* bound: the agents whose transcript arrives

ASSUME CheckIdsAssumption == CheckIds \subseteq Nat \ {NoCheck}

VARIABLES
  run,        \* the stored RunState
  check,      \* what the check effect last put on GitHub
  row,        \* what the index effect last put in D1 and the lobby
  cancelled   \* the jobs GitHub was asked to cancel

vars == <<run, check, row, cancelled>>

(* A transition is committed only when it changes the state.  (It is bound by \E, not by LET,   *)
(* so that TLC computes it once where it evaluates ENABLED.)                                     *)
Apply(transition) ==
  \E t \in {transition} :
    /\ t.state # run
    /\ run' = t.state
    /\ check' = IF t.fx.check THEN CheckRunOf(t.state) ELSE check
    /\ row' = IF t.fx.index THEN SummaryOf(t.state) ELSE row
    /\ cancelled' = cancelled \union t.fx.cancel

Init ==
  \E agents \in SUBSET Agent, title \in Title :
    /\ run = CreateRun(agents, title).state
    /\ check = CheckRunOf(run)
    /\ row = SummaryOf(run)
    /\ cancelled = {}

Roster == DOMAIN run.agents

(* An agent's job presents the attempt its nonce was minted for. *)
Attempt(a) == run.agents[a].retries + 1

Dispatched(a) == Apply(OnDispatched(run, a))
Events(a) == Apply(OnEvents(run, a, 1))
Briefed(a) ==
  /\ Reruns \/ ~run.agents[a].briefed
  /\ Apply(OnBriefed(run, a, Attempt(a)))
Reports(a, v) == Apply(OnVerdict(run, a, v))
Fails(a) == Apply(OnFailure(run, a))
TranscriptStored(a) == Apply(OnTranscript(run, a))
Tick == Apply(OnTick(run))
Stop == Apply(StopRun(run))
Land == Apply(LandRun(run))
Retry(target) ==
  /\ \A a \in RetryableAgents(run, target) : run.agents[a].retries < MaxRetries
  /\ run.checkReposts < MaxReposts
  /\ Apply(RetryAgents(run, target))
Bypass == run.checkReposts < MaxReposts /\ Apply(BypassDesign(run))
Retitle(title) == Apply(OnRetitled(run, title))
CheckCreated(id) == Apply(OnCheckCreated(run, id))
Repost == run.checkReposts < MaxReposts /\ Apply(AskCheckRepost(run))
CheckReposted(id) ==
  \E asked \in 1 .. run.checkReposts : Apply(OnCheckReposted(run, id, asked))
Elapse ==
  /\ Elapsed(run) # run
  /\ run' = Elapsed(run)
  /\ UNCHANGED <<check, row, cancelled>>

Next ==
  \/ \E a \in Roster :
       \/ Dispatched(a) \/ Events(a) \/ Briefed(a) \/ Fails(a)
       \/ a \in Uploaders /\ TranscriptStored(a)
       \/ \E v \in Verdicts : Reports(a, v)
       \/ Retry({a})
  \/ Retry(Roster)
  \/ Tick \/ Stop \/ Land \/ Bypass \/ Repost \/ Elapse
  \/ \E title \in Title : Retitle(title)
  \/ \E id \in CheckIds : CheckCreated(id) \/ CheckReposted(id)

Spec == Init /\ [][Next]_vars

(* Time passes, and the alarm armed for the next deadline fires once it is due. *)
FairSpec == Spec /\ WF_vars(Elapse) /\ WF_vars(AlarmDue(run) /\ Tick)

-----------------------------------------------------------------------------
(* Types *)

(* A run's fields hold what machine.ts declares for them, all over the same agents. *)
TypeOK == RunOK(run) /\ JobsOK(cancelled)

-----------------------------------------------------------------------------
(* Safety *)

(* The three notions of being out agree: see WaitingOK.                                          *)
WaitingIsWaitingForSomeone == WaitingOK(run)

(* "Only clear passes": with the outcome clear every agent of the roster reported, none failed   *)
(* or was stopped, and the only hazard anyone found is the one missing-design finding of Granite *)
(* Chief's that the owner waived (reviewOutcome, openHazards).                                   *)
ClearMeansClear ==
  ReviewOutcome(run) = "clear" =>
    \A a \in Roster :
      \/ run.agents[a].status = "clear" /\ run.agents[a].hazards = NoHazards
      \/ /\ run.agents[a].status = "hazards" /\ a = GraniteChief /\ run.designBypassed
         /\ run.agents[a].hazards = [design |-> 1, other |-> 0]

(* The Conditions report stored when the sweep closed still says what the review found, after a  *)
(* bypass, a stop or a landing; a reopened sweep has none (sweptState, bypassDesign).            *)
ReportCurrent ==
  run.notes = IF run.steps["sweep"] = "done" THEN ConditionsReport(run) ELSE NoNotes

(* Every transition that changes what the index row or the check run says owes the write: "the  *)
(* last change of a run has no later check effect to send it", and nothing else would write the  *)
(* row of a finished run again.                                                                  *)
WritesFollow == row = SummaryOf(run) /\ check = CheckRunOf(run)

(* nextAlarm is "the earliest moment onTick has something to do, so an alarm set for it always   *)
(* makes progress": a due alarm changes the run, an undue one does not, and what a tick leaves   *)
(* behind is never due at once, or its alarm would re-fire forever.                              *)
AlarmMakesProgress ==
  LET ticked == OnTick(run).state
  IN /\ AlarmDue(run) <=> ticked # run
     /\ ~AlarmDue(ticked)

(* The job a stop would cancel is that of the agent's own attempt, and no cancel is ever asked   *)
(* for the job an agent still at work runs in: "the old jobs are no longer the agents'".         *)
JobsAreTheAgentsOwn ==
  \A a \in Roster :
    /\ run.jobRuns[a] \in {NoJob, Attempt(a)}
    /\ Live(run.agents[a]) => [agent |-> a, job |-> Attempt(a)] \notin cancelled

-----------------------------------------------------------------------------
(* Steps *)

(* What was reported stands.  Once an agent is finished, no late report, tick, stop or landing   *)
(* changes its status or its hazards: only the owner's retry of a failed agent does, while the   *)
(* run is open, and it keeps nothing of the failed attempt.  "A finished sweep keeps its         *)
(* conclusion whatever became of the run": a run that has ended never opens again and its        *)
(* outcome is fixed, and ending a swept run changes no outcome.                                  *)
AgentStands(a) ==
  \/ run'.agents[a] = run.agents[a]
  \/ run'.agents[a] = [run.agents[a] EXCEPT !.hasTranscript = TRUE]
  \/ /\ run.agents[a].status = "error" /\ Open(run)
     /\ run'.agents[a] = FreshAgent(run.agents[a].retries + 1)
     /\ run'.jobRuns[a] = NoJob /\ a \notin run'.stalledLogged
ConclusionStands ==
  /\ Ended(run) => Ended(run') /\ (run.status = "landed" => run'.status = "landed")
  /\ Ended(run') /\ run.status # "on_the_hill" => ReviewOutcome(run') = ReviewOutcome(run)
ReportsStand ==
  [][(\A a \in Roster : ~Live(run.agents[a]) => AgentStands(a)) /\ ConclusionStands]_vars

(* A job GitHub has started is asked to cancel in the step that abandons it: its agent is        *)
(* stopped with the run, or retried (halted, retryAgents).                                       *)
AbandonedJobIsCancelled ==
  [][\A a \in Roster :
       /\ run.jobRuns[a] # NoJob
       /\ \/ Live(run.agents[a]) /\ run'.agents[a].status = "stopped"
          \/ run'.agents[a].retries > run.agents[a].retries
       => [agent |-> a, job |-> run.jobRuns[a]] \in cancelled']_vars

-----------------------------------------------------------------------------
(* Liveness *)

(* A review ends: whatever the agents do or fail to do, the run comes off the hill.  A job       *)
(* re-run on GitHub restarts its agent's clocks, so this is checked without reruns: onEvents     *)
(* pushes only the stall clock back, and a stalled agent's timeout still comes (deadlinesOf).    *)
ReviewEnds == run.status = "on_the_hill" ~> run.status # "on_the_hill"
=============================================================================
