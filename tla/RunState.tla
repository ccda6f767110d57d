------------------------------ MODULE RunState ------------------------------
(***************************************************************************)
(* The state of one review run and the pure functions over it, from        *)
(* basetobase/dispatch/src/run/machine.ts.  Every handler of that file     *)
(* takes the stored state and returns a transition: the new state and the  *)
(* effects the caller must execute.  A handler that has nothing to do      *)
(* returns the state it was given, with no effects.                        *)
(*                                                                         *)
(* Abstractions.  Of an agent's timestamps the model keeps which of        *)
(* dispatchedAt and briefedAt are set and two ages, in clock units capped  *)
(* at the longest limit they are compared with: clock, that of the one its *)
(* failing deadline counts from (briefedAt, else dispatchedAt, else        *)
(* retriedAt ?? createdAt), and quiet, that of lastEventAt ?? briefedAt.   *)
(* A hazard list is two counts: the hazards titled "No approved design"    *)
(* and the others.  A report (Conditions report, check summary) is what    *)
(* its text is computed from.                                              *)
(***************************************************************************)
EXTENDS Integers

CONSTANTS
  Agent,          \* agent ids the roster can give a run, one per role
  GraniteChief,   \* the role whose missing-design hazard an owner may waive
  Verdicts,       \* the verdicts agents are able to report
  Title,          \* PR titles
  STALL, AGENT_TIMEOUT, JOB_START   \* the three limits, in clock units

Hazards == [design : Nat, other : Nat]
NoHazards == [design |-> 0, other |-> 0]

(* What parseVerdict lets through: hazards exactly when the status says so. *)
IsVerdict(v) ==
  /\ v \in [status : {"clear", "hazards"}, hazards : Hazards]
  /\ v.status = "clear" <=> v.hazards = NoHazards

ASSUME LimitsAssumption ==
  /\ STALL \in Nat \ {0}
  /\ AGENT_TIMEOUT \in Nat \ {0}
  /\ JOB_START \in Nat \ {0}
ASSUME VerdictsAssumption == \A v \in Verdicts : IsVerdict(v)

LiveStatus == {"queued", "dispatched", "running", "stalled"}
AgentStatus == LiveStatus \union {"clear", "hazards", "error", "stopped"}
RunStatus == {"on_the_hill", "swept", "landed", "stopped"}
Step == {"lift_line", "trail_map", "sweep", "huddle", "summit", "drop_in", "send_it"}
StepStatus == {"pending", "active", "done", "stopped", "skipped"}
Outcome == {"pending", "none", "clear", "hazards", "failed"}

-----------------------------------------------------------------------------
(* Ages *)

Cap == CHOOSE c \in {STALL, AGENT_TIMEOUT, JOB_START} :
         \A limit \in {STALL, AGENT_TIMEOUT, JOB_START} : limit <= c
Age == 0 .. Cap
Older(age) == IF age = Cap THEN Cap ELSE age + 1

-----------------------------------------------------------------------------
(* State *)

AgentState ==
  [status : AgentStatus, retries : Nat, hazards : Hazards, hasTranscript : BOOLEAN,
   dispatched : BOOLEAN, briefed : BOOLEAN, clock : Age, quiet : Age]

NoJob == 0
NoCheck == 0
NoNotes == [outcome |-> "pending"]
Report(agents) ==
  [outcome : Outcome, reported : SUBSET agents, failed : SUBSET agents,
   open : [agents -> Int], bypassed : BOOLEAN]

(* A run of these agents.  Absent optional fields are NoJob, NoCheck and zero asks; notes are    *)
(* the sweep's, as those of the other steps never change again.                                  *)
RunType(agents) ==
  [status : RunStatus, prTitle : Title, steps : [Step -> StepStatus],
   notes : {NoNotes} \union Report(agents), agents : [agents -> AgentState],
   designBypassed : BOOLEAN, stalledLogged : SUBSET agents,
   checkRunId : Nat, checkReposts : Nat, jobRuns : [agents -> Nat]]

RunOK(s) == DOMAIN s.agents \subseteq Agent /\ s \in RunType(DOMAIN s.agents)

FreshAgent(retries) ==
  [status |-> "queued", retries |-> retries, hazards |-> NoHazards, hasTranscript |-> FALSE,
   dispatched |-> FALSE, briefed |-> FALSE, clock |-> 0, quiet |-> 0]

(* A finished agent's clocks are read no more. *)
Finished(agent, status) == [agent EXCEPT !.status = status, !.clock = 0, !.quiet = 0]

Live(agent) == agent.status \in LiveStatus
Open(s) == s.status \in {"on_the_hill", "swept"}
(* Faulty: a finished agent still taken for one the run waits for. *)
LiveAgentFinished(s, a) == s.status = "on_the_hill" /\ a \in DOMAIN s.agents

LiveAgent(s, a) ==
  s.status = "on_the_hill" /\ a \in DOMAIN s.agents /\ Live(s.agents[a])
PatchAgent(s, a, agent) == [s EXCEPT !.agents = [@ EXCEPT ![a] = agent]]

-----------------------------------------------------------------------------
(* The review's outcome, and what the check run and the index row say of it *)

Waived(s, a) ==
  s.designBypassed /\ a = GraniteChief /\ s.agents[a].hazards.design > 0
(* Faulty: the bypass waives whatever Granite Chief found. *)
OpenHazardsAllWaived(s, a) ==
  IF Waived(s, a) THEN 0 ELSE s.agents[a].hazards.design + s.agents[a].hazards.other

OpenHazards(s, a) ==
  s.agents[a].hazards.design + s.agents[a].hazards.other - (IF Waived(s, a) THEN 1 ELSE 0)

Flagged(s, a) ==
  \/ OpenHazards(s, a) > 0
  \/ s.agents[a].status = "hazards" /\ s.agents[a].hazards = NoHazards

ReviewOutcome(s) ==
  IF s.steps["sweep"] # "done" THEN "pending"
  ELSE IF \E a \in DOMAIN s.agents : s.agents[a].status \in {"error", "stopped"} THEN "failed"
  ELSE IF \E a \in DOMAIN s.agents : Flagged(s, a) THEN "hazards"
  ELSE IF DOMAIN s.agents = {} THEN "none" ELSE "clear"

(* The tally and the findings, which the texts are made from. *)
ConditionsReport(s) ==
  [outcome  |-> ReviewOutcome(s),
   reported |-> {a \in DOMAIN s.agents : ~Live(s.agents[a]) /\ s.agents[a].status # "stopped"},
   failed   |-> {a \in DOMAIN s.agents : s.agents[a].status = "error"},
   open     |-> [a \in DOMAIN s.agents |-> OpenHazards(s, a)],
   bypassed |-> s.designBypassed]

Ended(s) == s.status \in {"stopped", "landed"}

CheckRunOf(s) ==
  [conclusion |->
     CASE ReviewOutcome(s) = "pending" ->
            IF Ended(s) THEN <<"cancelled", s.status>> ELSE <<"in_progress">>
       [] ReviewOutcome(s) = "none"  -> <<"neutral">>
       [] ReviewOutcome(s) = "clear" -> <<"success">>
       [] OTHER -> <<"failure">>,
   report |-> ConditionsReport(s)]

WantsCheck(s) == s.checkRunId # NoCheck \/ ~Ended(s) \/ ReviewOutcome(s) # "pending"

StepOrder == <<"lift_line", "trail_map", "sweep", "huddle", "summit", "drop_in", "send_it">>

CurrentStep(s) ==
  LET At(status) == {i \in 1 .. 7 : s.steps[StepOrder[i]] \in status}
      reached == At(StepStatus \ {"pending"})
  IN IF At({"active"}) # {}
     THEN StepOrder[CHOOSE i \in At({"active"}) : \A j \in At({"active"}) : i <= j]
     ELSE StepOrder[CHOOSE i \in reached : \A j \in reached : j <= i]

SummaryOf(s) ==
  [prTitle |-> s.prTitle, status |-> s.status, outcome |-> ReviewOutcome(s),
   currentStep |-> CurrentStep(s), bypassed |-> s.designBypassed]

-----------------------------------------------------------------------------
(* Transitions.  The effects of a transition always run in this order:     *)
(* log, index, dispatch, broadcast, check, cancel.                         *)

Fx(index, dispatch, check, cancel) ==
  [index |-> index, dispatch |-> dispatch, check |-> check, cancel |-> cancel]
NoFx == Fx(FALSE, {}, FALSE, {})
To(s, fx) == [state |-> s, fx |-> fx]
Unchanged(s) == To(s, NoFx)

JobCancels(s, agents) ==
  {[agent |-> a, job |-> s.jobRuns[a]] : a \in {b \in agents : s.jobRuns[b] # NoJob}}

SweptState(s) ==
  LET swept == [s EXCEPT !.steps = [@ EXCEPT !["sweep"] = "done"], !.status = "swept"]
  IN [swept EXCEPT !.notes = ConditionsReport(swept)]
AllIn(s) == \A a \in DOMAIN s.agents : ~Live(s.agents[a])

CloseSweepIfDone(s) ==
  IF AllIn(s) THEN To(SweptState(s), Fx(TRUE, {}, TRUE, {}))
  ELSE To(s, Fx(FALSE, {}, TRUE, {}))

CreateRun(agents, title) ==
  LET s == [status |-> "on_the_hill", prTitle |-> title,
            steps |-> [st \in Step |-> CASE st \in {"lift_line", "trail_map"} -> "done"
                                         [] st = "sweep" -> "active"
                                         [] OTHER -> "pending"],
            notes |-> NoNotes, agents |-> [a \in agents |-> FreshAgent(0)],
            designBypassed |-> FALSE, stalledLogged |-> {},
            checkRunId |-> NoCheck, checkReposts |-> 0, jobRuns |-> [a \in agents |-> NoJob]]
  IN To(IF AllIn(s) THEN SweptState(s) ELSE s, Fx(TRUE, agents, TRUE, {}))

OnDispatched(s, a) ==
  IF ~LiveAgent(s, a) \/ s.agents[a].status # "queued" THEN Unchanged(s)
  ELSE To(PatchAgent(s, a, [s.agents[a] EXCEPT !.status = "dispatched", !.dispatched = TRUE,
                              !.clock = IF s.agents[a].briefed THEN @ ELSE 0]), NoFx)

(* count: the lines of the batch the log did not hold yet. *)
OnEvents(s, a, count) ==
  IF ~LiveAgent(s, a) \/ count < 1 THEN Unchanged(s)
  ELSE To(PatchAgent(s, a, [s.agents[a] EXCEPT !.status = "running", !.dispatched = TRUE,
                              !.quiet = 0,
                              !.clock = IF s.agents[a].briefed \/ s.agents[a].dispatched
                                        THEN @ ELSE 0]), NoFx)

OnBriefed(s, a, job) ==
  IF ~LiveAgent(s, a) THEN Unchanged(s)
  ELSE To([PatchAgent(s, a, [s.agents[a] EXCEPT !.briefed = TRUE, !.clock = 0, !.quiet = 0,
                               !.status = IF @ = "stalled" THEN "running" ELSE @])
             EXCEPT !.jobRuns = [@ EXCEPT ![a] = job]], NoFx)

OnVerdict(s, a, v) ==
  IF ~LiveAgent(s, a) THEN Unchanged(s)
  ELSE CloseSweepIfDone(
         PatchAgent(s, a, [Finished(s.agents[a], v.status) EXCEPT !.hazards = v.hazards]))

Failed(s, agents) ==
  [s EXCEPT !.agents = [a \in DOMAIN s.agents |->
     IF a \in agents THEN Finished(s.agents[a], "error") ELSE s.agents[a]]]

(* Faulty: the last agent's failure does not close the sweep. *)
OnFailureLeavesOpen(s, a) ==
  IF ~LiveAgent(s, a) THEN Unchanged(s) ELSE To(Failed(s, {a}), Fx(FALSE, {}, TRUE, {}))

OnFailure(s, a) ==
  IF ~LiveAgent(s, a) THEN Unchanged(s) ELSE CloseSweepIfDone(Failed(s, {a}))

OnTranscript(s, a) ==
  IF a \notin DOMAIN s.agents THEN Unchanged(s)
  ELSE To(PatchAgent(s, a, [s.agents[a] EXCEPT !.hasTranscript = TRUE]), NoFx)

-----------------------------------------------------------------------------
(* Deadlines: the time left until onTick must act on an agent *)

FailsIn(agent) ==
  (CASE agent.briefed -> AGENT_TIMEOUT
     [] ~agent.briefed /\ ~agent.dispatched -> STALL
     [] OTHER -> JOB_START) - agent.clock
(* Faulty: an agent already marked stalled is watched on, so its stall is due at every alarm. *)
StallWatchedAgain(agent) == agent.briefed

StallWatched(agent) == agent.briefed /\ agent.status # "stalled"
StallsIn(agent) == STALL - agent.quiet

(* The moments the deadlines fall due, as the time left. *)
DeadlinesOf(agent) ==
  IF ~Live(agent) THEN {}
  ELSE {FailsIn(agent)} \union (IF StallWatched(agent) THEN {StallsIn(agent)} ELSE {})

(* Faulty: a stalled agent is never timed out. *)
DueToFailUnlessStalled(s) == {a \in DOMAIN s.agents :
  Live(s.agents[a]) /\ s.agents[a].status # "stalled" /\ FailsIn(s.agents[a]) <= 0}

DueToFail(s) == {a \in DOMAIN s.agents : Live(s.agents[a]) /\ FailsIn(s.agents[a]) <= 0}
DueToStall(s) == {a \in DOMAIN s.agents \ DueToFail(s) :
  Live(s.agents[a]) /\ StallWatched(s.agents[a]) /\ StallsIn(s.agents[a]) <= 0}

Stalled(s, agents) ==
  [s EXCEPT !.agents = [a \in DOMAIN s.agents |->
              IF a \in agents THEN [s.agents[a] EXCEPT !.status = "stalled"] ELSE s.agents[a]],
            !.stalledLogged = @ \union agents]

OnTick(s) ==
  LET next == Failed(Stalled(s, DueToStall(s)), DueToFail(s))
  IN IF s.status # "on_the_hill" \/ DueToFail(s) \union DueToStall(s) = {} THEN Unchanged(s)
     ELSE IF DueToFail(s) = {} THEN To(next, NoFx)
     ELSE CloseSweepIfDone(next)

(* The times left until the moments nextAlarm takes the earliest of. *)
AlarmTimes(s) ==
  IF s.status # "on_the_hill" THEN {}
  ELSE UNION {DeadlinesOf(s.agents[a]) : a \in DOMAIN s.agents}
AlarmDue(s) == \E t \in AlarmTimes(s) : t <= 0

-----------------------------------------------------------------------------
(* The end of a run, and what an owner may do to an open one *)

Halted(s) ==
  [s EXCEPT !.steps = [st \in Step |-> IF s.steps[st] = "active" THEN "stopped" ELSE s.steps[st]],
            !.agents = [a \in DOMAIN s.agents |->
               IF Live(s.agents[a]) THEN Finished(s.agents[a], "stopped")
               ELSE s.agents[a]]]
(* Faulty: asks which agents are live once none is. *)
HaltCancelsAfter(s) == JobCancels(s, {a \in DOMAIN s.agents : Live(Halted(s).agents[a])})

HaltCancels(s) == JobCancels(s, {a \in DOMAIN s.agents : Live(s.agents[a])})

StopRun(s) ==
  CASE s.status = "swept" -> To([s EXCEPT !.status = "stopped"], Fx(TRUE, {}, FALSE, {}))
    [] s.status = "on_the_hill" ->
         To([Halted(s) EXCEPT !.status = "stopped"], Fx(TRUE, {}, TRUE, HaltCancels(s)))
    [] OTHER -> Unchanged(s)

SkipIfPending(status) == IF status = "pending" THEN "skipped" ELSE status

LandedSteps(steps) ==
  [steps EXCEPT !["huddle"] = SkipIfPending(@), !["summit"] = SkipIfPending(@),
                !["drop_in"] = "done", !["send_it"] = "skipped"]

(* Faulty: the check of a review merged before its end is left in progress. *)
LandRunUnchecked(s) ==
  IF s.status = "landed" THEN Unchanged(s)
  ELSE To([Halted(s) EXCEPT !.status = "landed", !.steps = LandedSteps(@)],
          Fx(TRUE, {}, FALSE, HaltCancels(s)))

LandRun(s) ==
  LET landed == [Halted(s) EXCEPT !.status = "landed", !.steps = LandedSteps(@)]
  IN IF s.status = "landed" THEN Unchanged(s)
     ELSE To(landed, Fx(TRUE, {}, ReviewOutcome(landed) = "pending", HaltCancels(s)))

(* target: the agents the request names, one agent or a step's. *)
RetryableAgents(s, target) ==
  IF ~Open(s) THEN {} ELSE {a \in DOMAIN s.agents \cap target : s.agents[a].status = "error"}

(* Faulty: a retried agent keeps the job of its failed attempt. *)
JobsKept(s, ids) == s.jobRuns

JobsWithout(s, ids) == [a \in DOMAIN s.agents |-> IF a \in ids THEN NoJob ELSE s.jobRuns[a]]
RetryAgents(s, target) ==
  LET ids == RetryableAgents(s, target)
  IN IF ids = {} THEN Unchanged(s)
     ELSE To([s EXCEPT
                !.status = "on_the_hill", !.steps = [@ EXCEPT !["sweep"] = "active"], !.notes = NoNotes,
                !.agents = [a \in DOMAIN s.agents |->
                   IF a \in ids THEN FreshAgent(s.agents[a].retries + 1) ELSE s.agents[a]],
                !.jobRuns = JobsWithout(s, ids),
                !.stalledLogged = @ \ ids, !.checkReposts = @ + 1],
             Fx(TRUE, ids, TRUE, JobCancels(s, ids)))

CanBypassDesign(s) ==
  /\ Open(s) /\ ~s.designBypassed
  /\ GraniteChief \in DOMAIN s.agents /\ s.agents[GraniteChief].hazards.design > 0

(* Faulty: the stored report is not made anew. *)
BypassDesignKeepsReport(s) ==
  IF ~CanBypassDesign(s) THEN Unchanged(s)
  ELSE To([s EXCEPT !.designBypassed = TRUE, !.checkReposts = @ + 1], Fx(TRUE, {}, TRUE, {}))

BypassDesign(s) ==
  LET bypassed == [s EXCEPT !.designBypassed = TRUE, !.checkReposts = @ + 1]
      state == IF s.steps["sweep"] = "done"
               THEN [bypassed EXCEPT !.notes = ConditionsReport(bypassed)] ELSE bypassed
  IN IF ~CanBypassDesign(s) THEN Unchanged(s) ELSE To(state, Fx(TRUE, {}, TRUE, {}))

OnRetitled(s, title) ==
  IF s.prTitle = title THEN Unchanged(s)
  ELSE To([s EXCEPT !.prTitle = title], Fx(TRUE, {}, FALSE, {}))

OnCheckCreated(s, id) ==
  IF s.checkRunId # NoCheck THEN Unchanged(s) ELSE To([s EXCEPT !.checkRunId = id], NoFx)

AskCheckRepost(s) ==
  IF ~Open(s) THEN Unchanged(s)
  ELSE To([s EXCEPT !.checkReposts = @ + 1], Fx(FALSE, {}, TRUE, {}))

(* Faulty: an ask made while the repost was with GitHub is forgotten. *)
OnCheckRepostedForgets(s, id, asked) ==
  To([s EXCEPT !.checkReposts = 0, !.checkRunId = id], NoFx)

OnCheckReposted(s, id, asked) ==
  To([s EXCEPT !.checkReposts = IF @ = asked THEN 0 ELSE @, !.checkRunId = id], NoFx)

(* Time passing: the ages a deadline still reads grow. *)
Elapsed(s) ==
  LET Aged(agent) ==
        IF ~Live(agent) THEN agent
        ELSE [agent EXCEPT !.clock = Older(@), !.quiet = IF agent.briefed THEN Older(@) ELSE @]
  IN [s EXCEPT !.agents = [a \in DOMAIN s.agents |-> Aged(s.agents[a])]]

-----------------------------------------------------------------------------
(* What a run is between two handlers *)

(* A run is on the hill exactly while an agent is out, with its sweep active; once swept the     *)
(* sweep is done and no agent was stopped out of it, and a run that ended mid-review shows the   *)
(* sweep stopped and at least one agent with it.  Ten handlers move one of the three.            *)
WaitingOK(s) ==
  /\ s.status = "on_the_hill" <=> \E a \in DOMAIN s.agents : Live(s.agents[a])
  /\ s.status = "on_the_hill" <=> s.steps["sweep"] = "active"
  /\ s.status = "swept" => s.steps["sweep"] = "done"
  /\ Ended(s) => s.steps["sweep"] \in {"done", "stopped"}
  /\ s.steps["sweep"] = "stopped" <=> \E a \in DOMAIN s.agents : s.agents[a].status = "stopped"

(* Jobs asked to cancel. *)
JobsOK(jobs) == \A j \in jobs : j.agent \in Agent /\ j.job \in Nat
=============================================================================
