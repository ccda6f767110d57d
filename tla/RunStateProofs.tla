--------------------------- MODULE RunStateProofs ---------------------------
(***************************************************************************)
(* What each handler of machine.ts does to a run, for every roster, every  *)
(* set of verdicts and every limit.  Good: it keeps the types and the      *)
(* three notions of being out on the hill.  Kept: it owes the writes its   *)
(* change calls for, keeps what finished agents reported and how the run   *)
(* ended, and asks to cancel the jobs it abandons.  RunMachineProofs and   *)
(* RunDOProofs rest on these, whoever calls the handlers.                  *)
(***************************************************************************)
EXTENDS RunState, TLAPS

(* The runs handlers are given and return. *)
Good(s) == RunOK(s) /\ WaitingOK(s)

LEMMA CapLemma == Cap \in Nat /\ STALL <= Cap /\ AGENT_TIMEOUT <= Cap /\ JOB_START <= Cap
<1> DEFINE limits == {STALL, AGENT_TIMEOUT, JOB_START}
<1>1. \E c \in limits : \A limit \in limits : limit <= c
  BY LimitsAssumption
<1> QED
  BY <1>1, LimitsAssumption DEF Cap

LEMMA ZeroAge == 0 \in Age
  BY CapLemma DEF Age

LEMMA OlderLemma == \A age \in Age : Older(age) \in Age
  BY CapLemma DEF Age, Older

LEMMA PatchAgentLemma ==
  ASSUME NEW s, RunOK(s), NEW a \in DOMAIN s.agents, NEW agent \in AgentState
  PROVE  /\ RunOK(PatchAgent(s, a, agent))
         /\ PatchAgent(s, a, agent).agents = [s.agents EXCEPT ![a] = agent]
         /\ PatchAgent(s, a, agent).status = s.status
         /\ PatchAgent(s, a, agent).steps = s.steps
         /\ PatchAgent(s, a, agent).notes = s.notes
  BY DEF RunOK, RunType, PatchAgent

(* Replacing a live agent by a live one waits for the same agents. *)
LEMMA LivePatchGood ==
  ASSUME NEW s, Good(s), NEW a, LiveAgent(s, a), NEW agent \in AgentState, Live(agent)
  PROVE  Good(PatchAgent(s, a, agent))
<1> DEFINE r == PatchAgent(s, a, agent)
<1>1. /\ RunOK(r) /\ r.agents = [s.agents EXCEPT ![a] = agent]
      /\ r.status = s.status /\ r.steps = s.steps
  BY PatchAgentLemma DEF Good, LiveAgent
<1>2. DOMAIN r.agents = DOMAIN s.agents /\ r.agents[a] = agent
      /\ \A b \in DOMAIN s.agents \ {a} : r.agents[b] = s.agents[b]
  BY <1>1 DEF LiveAgent, Good, RunOK, RunType
<1>3. WaitingOK(r)
  BY <1>1, <1>2 DEF Good, WaitingOK, LiveAgent, Live, LiveStatus, Ended
<1> QED
  BY <1>1, <1>3 DEF Good

LEMMA AgentTypes ==
  ASSUME NEW s, RunOK(s), NEW a \in DOMAIN s.agents
  PROVE  s.agents[a] \in AgentState
  BY DEF RunOK, RunType

LEMMA ReportLemma ==
  ASSUME NEW s, RunOK(s)
  PROVE  ConditionsReport(s) \in Report(DOMAIN s.agents)
<1>1. \A a \in DOMAIN s.agents : OpenHazards(s, a) \in Int
  BY AgentTypes DEF OpenHazards, AgentState, Hazards
<1>2. ReviewOutcome(s) \in Outcome
  BY DEF ReviewOutcome, Outcome
<1>3. s.designBypassed \in BOOLEAN
  BY DEF RunOK, RunType
<1> HIDE DEF OpenHazards, ReviewOutcome
<1> QED
  BY <1>1, <1>2, <1>3 DEF ConditionsReport, Report

(* Closing the sweep once nobody is out. *)
LEMMA SweptGood ==
  ASSUME NEW s, RunOK(s), AllIn(s), \A a \in DOMAIN s.agents : s.agents[a].status # "stopped"
  PROVE  Good(SweptState(s))
<1> DEFINE swept == [s EXCEPT !.steps = [@ EXCEPT !["sweep"] = "done"], !.status = "swept"]
           r == [swept EXCEPT !.notes = ConditionsReport(swept)]
<1>1. RunOK(swept) /\ swept.agents = s.agents /\ swept.status = "swept"
      /\ swept.steps["sweep"] = "done"
  BY DEF RunOK, RunType, RunStatus, Step, StepStatus
<1>2. ConditionsReport(swept) \in Report(DOMAIN swept.agents)
  BY <1>1, ReportLemma
<1> HIDE DEF swept
<1>3. RunOK(r) /\ r.agents = swept.agents /\ r.status = swept.status /\ r.steps = swept.steps
  BY <1>1, <1>2 DEF RunOK, RunType
<1>4. WaitingOK(r)
  BY <1>1, <1>3 DEF WaitingOK, AllIn, Live, LiveStatus, Ended
<1> QED
  BY <1>3, <1>4 DEF Good, SweptState, swept

(* A run still on the hill, some of whose agents have just finished without being stopped. *)
LEMMA CloseGood ==
  ASSUME NEW s, RunOK(s), s.status = "on_the_hill", s.steps["sweep"] = "active",
         \A a \in DOMAIN s.agents : s.agents[a].status # "stopped"
  PROVE  Good(CloseSweepIfDone(s).state)
<1>1. CASE AllIn(s)
  BY <1>1, SweptGood DEF CloseSweepIfDone, To
<1>2. CASE ~AllIn(s)
  BY <1>2 DEF CloseSweepIfDone, To, AllIn, Good, WaitingOK, Ended
<1> QED
  BY <1>1, <1>2

LEMMA UnchangedLemma == \A s : Unchanged(s).state = s /\ Unchanged(s).fx = NoFx
  BY DEF Unchanged, To

-----------------------------------------------------------------------------
(* Every handler returns a good run. *)

LEMMA LiveAgentLemma ==
  ASSUME NEW s, Good(s), NEW a, LiveAgent(s, a)
  PROVE  /\ a \in DOMAIN s.agents /\ s.agents[a] \in AgentState /\ Live(s.agents[a])
         /\ s.status = "on_the_hill" /\ s.steps["sweep"] = "active"
         /\ \A b \in DOMAIN s.agents : s.agents[b].status # "stopped"
  BY AgentTypes DEF Good, LiveAgent, WaitingOK

LEMMA OnDispatchedGood ==
  ASSUME NEW s, Good(s), NEW a
  PROVE  Good(OnDispatched(s, a).state)
<1> DEFINE agent == [s.agents[a] EXCEPT !.status = "dispatched", !.dispatched = TRUE,
                       !.clock = IF s.agents[a].briefed THEN @ ELSE 0]
<1>1. CASE LiveAgent(s, a) /\ s.agents[a].status = "queued"
  <2>0. s.agents[a] \in AgentState /\ Live(s.agents[a])
    BY <1>1, LiveAgentLemma
  <2>1. agent \in AgentState /\ Live(agent)
    BY <2>0, ZeroAge DEF AgentState, AgentStatus, LiveStatus, Live
  <2> HIDE DEF agent
  <2>2. Good(PatchAgent(s, a, agent))
    BY <1>1, <2>1, LivePatchGood
  <2> QED
    BY <1>1, <2>2 DEF OnDispatched, To, agent
<1>2. CASE ~LiveAgent(s, a) \/ s.agents[a].status # "queued"
  BY <1>2 DEF OnDispatched, Unchanged, To
<1> QED
  BY <1>1, <1>2

LEMMA OnEventsGood ==
  ASSUME NEW s, Good(s), NEW a, NEW count
  PROVE  Good(OnEvents(s, a, count).state)
<1> DEFINE agent == [s.agents[a] EXCEPT !.status = "running", !.dispatched = TRUE, !.quiet = 0,
                       !.clock = IF s.agents[a].briefed \/ s.agents[a].dispatched
                                 THEN @ ELSE 0]
<1>1. CASE ~(~LiveAgent(s, a) \/ count < 1)
  <2>0. s.agents[a] \in AgentState /\ Live(s.agents[a])
    BY <1>1, LiveAgentLemma
  <2>1. agent \in AgentState /\ Live(agent)
    BY <2>0, ZeroAge DEF AgentState, AgentStatus, LiveStatus, Live
  <2> HIDE DEF agent
  <2>2. Good(PatchAgent(s, a, agent))
    BY <1>1, <2>1, LivePatchGood
  <2> QED
    BY <1>1, <2>2 DEF OnEvents, To, agent
<1>2. CASE ~LiveAgent(s, a) \/ count < 1
  BY <1>2 DEF OnEvents, Unchanged, To
<1> QED
  BY <1>1, <1>2

LEMMA OnBriefedGood ==
  ASSUME NEW s, Good(s), NEW a, NEW job \in Nat
  PROVE  Good(OnBriefed(s, a, job).state)
<1> DEFINE agent == [s.agents[a] EXCEPT !.briefed = TRUE, !.clock = 0, !.quiet = 0,
                       !.status = IF @ = "stalled" THEN "running" ELSE @]
           r == PatchAgent(s, a, agent)
           t == [r EXCEPT !.jobRuns = [@ EXCEPT ![a] = job]]
<1>1. CASE LiveAgent(s, a)
  <2>0. s.agents[a] \in AgentState /\ Live(s.agents[a])
    BY <1>1, LiveAgentLemma
  <2>1. agent \in AgentState /\ Live(agent)
    BY <2>0, ZeroAge DEF AgentState, AgentStatus, LiveStatus, Live
  <2> HIDE DEF agent
  <2>2. Good(r)
    BY <1>1, <2>1, LivePatchGood
  <2> HIDE DEF r
  <2>3. RunOK(t) /\ t.agents = r.agents /\ t.status = r.status /\ t.steps = r.steps
    BY <2>2 DEF Good, RunOK, RunType
  <2>4. Good(t)
    BY <2>2, <2>3 DEF Good, WaitingOK, Ended
  <2> QED
    BY <1>1, <2>4 DEF OnBriefed, To, t, r, agent
<1>2. CASE ~LiveAgent(s, a)
  BY <1>2 DEF OnBriefed, Unchanged, To
<1> QED
  BY <1>1, <1>2

LEMMA OnVerdictGood ==
  ASSUME NEW s, Good(s), NEW a, NEW v \in Verdicts
  PROVE  Good(OnVerdict(s, a, v).state)
<1> DEFINE agent == [Finished(s.agents[a], v.status) EXCEPT !.hazards = v.hazards]
           r == PatchAgent(s, a, agent)
<1>1. CASE LiveAgent(s, a)
  <2>0. s.agents[a] \in AgentState /\ IsVerdict(v)
    BY <1>1, LiveAgentLemma, VerdictsAssumption
  <2>1. agent \in AgentState /\ agent.status # "stopped"
    BY <2>0, ZeroAge DEF AgentState, AgentStatus, IsVerdict, Finished
  <2> HIDE DEF agent
  <2>2. /\ RunOK(r) /\ r.agents = [s.agents EXCEPT ![a] = agent]
        /\ r.status = s.status /\ r.steps = s.steps
    BY <1>1, <2>1, PatchAgentLemma, LiveAgentLemma DEF Good
  <2>3. \A b \in DOMAIN r.agents : r.agents[b].status # "stopped"
    BY <1>1, <2>1, <2>2, LiveAgentLemma DEF Good, RunOK, RunType
  <2> HIDE DEF r
  <2>4. Good(CloseSweepIfDone(r).state)
    BY <1>1, <2>2, <2>3, LiveAgentLemma, CloseGood
  <2> QED
    BY <1>1, <2>4 DEF OnVerdict, r, agent
<1>2. CASE ~LiveAgent(s, a)
  BY <1>2 DEF OnVerdict, Unchanged, To
<1> QED
  BY <1>1, <1>2

LEMMA FinishedLemma ==
  ASSUME NEW agent \in AgentState, NEW status \in AgentStatus
  PROVE  Finished(agent, status) \in AgentState /\ Finished(agent, status).status = status
  BY ZeroAge DEF Finished, AgentState

LEMMA FailedLemma ==
  ASSUME NEW s, RunOK(s), NEW agents
  PROVE  /\ RunOK(Failed(s, agents))
         /\ DOMAIN Failed(s, agents).agents = DOMAIN s.agents
         /\ \A b \in DOMAIN s.agents : Failed(s, agents).agents[b] =
              IF b \in agents THEN Finished(s.agents[b], "error") ELSE s.agents[b]
         /\ Failed(s, agents).status = s.status
         /\ Failed(s, agents).steps = s.steps
<1>1. \A b \in DOMAIN s.agents : Finished(s.agents[b], "error") \in AgentState
  BY AgentTypes, FinishedLemma DEF AgentStatus
<1> QED
  BY <1>1, AgentTypes DEF Failed, RunOK, RunType

LEMMA OnFailureGood ==
  ASSUME NEW s, Good(s), NEW a
  PROVE  Good(OnFailure(s, a).state)
<1>1. CASE LiveAgent(s, a)
  <2> DEFINE r == Failed(s, {a})
  <2>1. \A b \in DOMAIN s.agents : Finished(s.agents[b], "error").status = "error"
    BY AgentTypes, FinishedLemma DEF Good, AgentStatus
  <2>2. /\ RunOK(r) /\ r.status = "on_the_hill" /\ r.steps["sweep"] = "active"
        /\ \A b \in DOMAIN r.agents : r.agents[b].status # "stopped"
    BY <1>1, <2>1, FailedLemma, LiveAgentLemma DEF Good
  <2> HIDE DEF r
  <2>3. Good(CloseSweepIfDone(r).state)
    BY <2>2, CloseGood
  <2> QED
    BY <1>1, <2>3 DEF OnFailure, r
<1>2. CASE ~LiveAgent(s, a)
  BY <1>2 DEF OnFailure, Unchanged, To
<1> QED
  BY <1>1, <1>2

(* A change to fields WaitingOK does not read. *)
LEMMA OtherFieldsGood ==
  ASSUME NEW s, Good(s), NEW r, RunOK(r),
         DOMAIN r.agents = DOMAIN s.agents, r.status = s.status, r.steps = s.steps,
         \A b \in DOMAIN s.agents : r.agents[b].status = s.agents[b].status
  PROVE  Good(r)
  BY DEF Good, WaitingOK, Live, Ended

LEMMA OnTranscriptGood ==
  ASSUME NEW s, Good(s), NEW a
  PROVE  Good(OnTranscript(s, a).state)
<1> DEFINE agent == [s.agents[a] EXCEPT !.hasTranscript = TRUE]
           r == PatchAgent(s, a, agent)
<1>1. CASE a \in DOMAIN s.agents
  <2>1. agent \in AgentState /\ agent.status = s.agents[a].status
    BY <1>1, AgentTypes DEF Good, AgentState
  <2> HIDE DEF agent
  <2>2. RunOK(r) /\ r.agents = [s.agents EXCEPT ![a] = agent]
        /\ r.status = s.status /\ r.steps = s.steps
    BY <1>1, <2>1, PatchAgentLemma DEF Good
  <2>3. Good(r)
    BY <2>1, <2>2, OtherFieldsGood
  <2> QED
    BY <1>1, <2>3 DEF OnTranscript, To, agent
<1>2. CASE a \notin DOMAIN s.agents
  BY <1>2 DEF OnTranscript, Unchanged, To
<1> QED
  BY <1>1, <1>2

LEMMA StalledLemma ==
  ASSUME NEW s, RunOK(s), NEW agents \in SUBSET DOMAIN s.agents
  PROVE  /\ RunOK(Stalled(s, agents))
         /\ DOMAIN Stalled(s, agents).agents = DOMAIN s.agents
         /\ \A b \in DOMAIN s.agents : Stalled(s, agents).agents[b] =
              IF b \in agents THEN [s.agents[b] EXCEPT !.status = "stalled"] ELSE s.agents[b]
         /\ Stalled(s, agents).status = s.status
         /\ Stalled(s, agents).steps = s.steps
<1>1. \A b \in DOMAIN s.agents : [s.agents[b] EXCEPT !.status = "stalled"] \in AgentState
  BY AgentTypes DEF AgentState, AgentStatus, LiveStatus
<1> QED
  BY <1>1, AgentTypes DEF Stalled, RunOK, RunType

LEMMA OnTickGood ==
  ASSUME NEW s, Good(s)
  PROVE  Good(OnTick(s).state)
<1> DEFINE stalled == Stalled(s, DueToStall(s))
           next == Failed(stalled, DueToFail(s))
<1>0. DueToStall(s) \subseteq DOMAIN s.agents /\ DueToFail(s) \subseteq DOMAIN s.agents
  BY DEF DueToStall, DueToFail
<1>1. CASE s.status # "on_the_hill" \/ DueToFail(s) \union DueToStall(s) = {}
  BY <1>1 DEF OnTick, Unchanged, To
<1>2. CASE ~(s.status # "on_the_hill" \/ DueToFail(s) \union DueToStall(s) = {})
  <2>1. /\ RunOK(stalled) /\ DOMAIN stalled.agents = DOMAIN s.agents
        /\ stalled.status = s.status /\ stalled.steps = s.steps
        /\ \A b \in DOMAIN s.agents : stalled.agents[b] =
             IF b \in DueToStall(s) THEN [s.agents[b] EXCEPT !.status = "stalled"] ELSE s.agents[b]
    BY <1>0, StalledLemma DEF Good
  <2>2. \A b \in DOMAIN s.agents : /\ stalled.agents[b] \in AgentState
                                   /\ b \in DueToStall(s) => stalled.agents[b].status = "stalled"
                                   /\ b \notin DueToStall(s) => stalled.agents[b] = s.agents[b]
    BY <2>1, AgentTypes DEF AgentState, Good
  <2> HIDE DEF stalled
  <2>3. /\ RunOK(next) /\ DOMAIN next.agents = DOMAIN s.agents
        /\ next.status = s.status /\ next.steps = s.steps
        /\ \A b \in DOMAIN s.agents : next.agents[b] =
             IF b \in DueToFail(s) THEN Finished(stalled.agents[b], "error") ELSE stalled.agents[b]
    BY <2>1, FailedLemma
  <2>4. \A b \in DueToFail(s) : next.agents[b].status = "error"
    BY <1>0, <2>2, <2>3, FinishedLemma DEF AgentStatus
  <2> HIDE DEF next
  <2>5. CASE DueToFail(s) = {}
    <3>1. \A b \in DOMAIN s.agents : b \in DueToStall(s) => Live(s.agents[b])
      BY DEF DueToStall
    <3>2. WaitingOK(next)
      BY <2>1, <2>2, <2>3, <2>5, <3>1 DEF Good, WaitingOK, Live, LiveStatus, Ended
    <3> QED
      BY <1>2, <2>3, <2>5, <3>2 DEF OnTick, To, Good, next, stalled
  <2>6. CASE DueToFail(s) # {}
    <3>1. \A b \in DOMAIN s.agents : s.agents[b].status # "stopped"
      BY <1>2 DEF Good, WaitingOK
    <3>2. \A b \in DOMAIN next.agents : next.agents[b].status # "stopped"
      BY <2>2, <2>3, <2>4, <3>1
    <3>3. next.status = "on_the_hill" /\ next.steps["sweep"] = "active"
      BY <1>2, <2>3 DEF Good, WaitingOK
    <3>4. Good(CloseSweepIfDone(next).state)
      BY <2>3, <3>2, <3>3, CloseGood
    <3> QED
      BY <1>2, <2>6, <3>4 DEF OnTick, next, stalled
  <2> QED
    BY <2>5, <2>6
<1> QED
  BY <1>1, <1>2

LEMMA HaltedLemma ==
  ASSUME NEW s, Good(s)
  PROVE  /\ RunOK(Halted(s))
         /\ DOMAIN Halted(s).agents = DOMAIN s.agents
         /\ \A b \in DOMAIN s.agents : ~Live(Halted(s).agents[b])
         /\ \A b \in DOMAIN s.agents : Halted(s).agents[b].status = "stopped" <=>
              (Live(s.agents[b]) \/ s.agents[b].status = "stopped")
         /\ Halted(s).steps = [st \in Step |-> IF s.steps[st] = "active" THEN "stopped"
                                               ELSE s.steps[st]]
         /\ Halted(s).steps["sweep"] = "stopped" <=>
              \E b \in DOMAIN s.agents : Halted(s).agents[b].status = "stopped"
         /\ Halted(s).steps["sweep"] \in {"done", "stopped"}
<1>0. \A b \in DOMAIN s.agents : s.agents[b] \in AgentState
  BY AgentTypes DEF Good
<1>1. \A b \in DOMAIN s.agents : Finished(s.agents[b], "stopped") \in AgentState
                                 /\ Finished(s.agents[b], "stopped").status = "stopped"
  BY <1>0, FinishedLemma DEF AgentStatus
<1>2. /\ RunOK(Halted(s)) /\ DOMAIN Halted(s).agents = DOMAIN s.agents
      /\ Halted(s).steps = [st \in Step |-> IF s.steps[st] = "active" THEN "stopped"
                                            ELSE s.steps[st]]
      /\ \A b \in DOMAIN s.agents : Halted(s).agents[b] =
           IF Live(s.agents[b]) THEN Finished(s.agents[b], "stopped") ELSE s.agents[b]
  BY <1>0, <1>1 DEF Good, Halted, RunOK, RunType, StepStatus
<1>3. \A b \in DOMAIN s.agents :
        /\ ~Live(Halted(s).agents[b])
        /\ Halted(s).agents[b].status = "stopped" <=>
             (Live(s.agents[b]) \/ s.agents[b].status = "stopped")
  BY <1>1, <1>2 DEF Live, LiveStatus
<1>4. Halted(s).steps["sweep"] = IF s.steps["sweep"] = "active" THEN "stopped"
                                 ELSE s.steps["sweep"]
  BY <1>2 DEF Step
<1>5. s.status \in RunStatus
  BY DEF Good, RunOK, RunType
<1>6. /\ Halted(s).steps["sweep"] = "stopped" <=>
           \E b \in DOMAIN s.agents : Halted(s).agents[b].status = "stopped"
      /\ Halted(s).steps["sweep"] \in {"done", "stopped"}
  BY <1>3, <1>4, <1>5 DEF Good, WaitingOK, Ended, RunStatus
<1> QED
  BY <1>2, <1>3, <1>6

LEMMA StopRunGood ==
  ASSUME NEW s, Good(s)
  PROVE  Good(StopRun(s).state)
<1>1. CASE s.status = "swept"
  <2> DEFINE r == [s EXCEPT !.status = "stopped"]
  <2>1. RunOK(r) /\ r.agents = s.agents /\ r.steps = s.steps /\ r.status = "stopped"
    BY DEF Good, RunOK, RunType, RunStatus
  <2> HIDE DEF r
  <2>2. Good(r)
    BY <1>1, <2>1 DEF Good, WaitingOK, Ended
  <2> QED
    BY <1>1, <2>2 DEF StopRun, To, r
<1>2. CASE s.status = "on_the_hill"
  <2> DEFINE h == Halted(s)
             r == [h EXCEPT !.status = "stopped"]
  <2>1. RunOK(h) BY HaltedLemma
  <2>2. /\ DOMAIN h.agents = DOMAIN s.agents /\ \A b \in DOMAIN s.agents : ~Live(h.agents[b])
        /\ h.steps["sweep"] = "stopped" <=> \E b \in DOMAIN s.agents : h.agents[b].status = "stopped"
        /\ h.steps["sweep"] \in {"done", "stopped"}
    BY HaltedLemma
  <2> HIDE DEF h
  <2>3. RunOK(r) /\ r.agents = h.agents /\ r.steps = h.steps /\ r.status = "stopped"
    BY <2>1 DEF RunOK, RunType, RunStatus
  <2> HIDE DEF r
  <2>4. Good(r)
    BY <2>2, <2>3 DEF Good, WaitingOK, Ended
  <2> QED
    BY <1>2, <2>4 DEF StopRun, To, r, h
<1>3. CASE s.status \notin {"swept", "on_the_hill"}
  BY <1>3 DEF StopRun, Unchanged, To
<1> QED
  BY <1>1, <1>2, <1>3

LEMMA LandRunGood ==
  ASSUME NEW s, Good(s)
  PROVE  Good(LandRun(s).state)
<1>1. CASE s.status = "landed"
  BY <1>1 DEF LandRun, Unchanged, To
<1>2. CASE s.status # "landed"
  <2> DEFINE h == Halted(s)
             steps == LandedSteps(h.steps)
             r == [h EXCEPT !.status = "landed", !.steps = steps]
  <2>1. RunOK(h) BY HaltedLemma
  <2>2. /\ DOMAIN h.agents = DOMAIN s.agents /\ \A b \in DOMAIN s.agents : ~Live(h.agents[b])
        /\ h.steps["sweep"] = "stopped" <=> \E b \in DOMAIN s.agents : h.agents[b].status = "stopped"
        /\ h.steps["sweep"] \in {"done", "stopped"}
    BY HaltedLemma
  <2> HIDE DEF h
  <2>5. h.steps \in [Step -> StepStatus]
    BY <2>1 DEF RunOK, RunType
  <2>6. steps \in [Step -> StepStatus] /\ steps["sweep"] = h.steps["sweep"]
    BY <2>5 DEF LandedSteps, Step, StepStatus, SkipIfPending
  <2> HIDE DEF steps
  <2>3. /\ RunOK(r) /\ r.agents = h.agents /\ r.steps["sweep"] = h.steps["sweep"]
        /\ r.status = "landed"
    BY <2>1, <2>6 DEF RunOK, RunType, RunStatus
  <2>5a. LandRun(s).state = r
    BY <1>2 DEF LandRun, To, r, steps, h
  <2> HIDE DEF r
  <2>4. Good(r)
    BY <2>2, <2>3 DEF Good, WaitingOK, Ended
  <2> QED
    BY <2>4, <2>5a
<1> QED
  BY <1>1, <1>2

LEMMA FreshAgentLemma ==
  ASSUME NEW n \in Nat
  PROVE  FreshAgent(n) \in AgentState /\ FreshAgent(n).status = "queued"
         /\ FreshAgent(n).hazards = NoHazards
  BY ZeroAge DEF FreshAgent, AgentState, AgentStatus, LiveStatus, Hazards, NoHazards

LEMMA RetryAgentsGood ==
  ASSUME NEW s, Good(s), NEW target
  PROVE  Good(RetryAgents(s, target).state)
<1> DEFINE ids == RetryableAgents(s, target)
<1>1. CASE ids = {}
  BY <1>1 DEF RetryAgents, Unchanged, To
<1>2. CASE ids # {}
  <2> DEFINE
        agents == [b \in DOMAIN s.agents |->
                     IF b \in ids THEN FreshAgent(s.agents[b].retries + 1) ELSE s.agents[b]]
        jobs == [b \in DOMAIN s.agents |-> IF b \in ids THEN NoJob ELSE s.jobRuns[b]]
        steps == [s.steps EXCEPT !["sweep"] = "active"]
        reposts == s.checkReposts + 1
        r == [s EXCEPT !.status = "on_the_hill", !.steps = steps, !.notes = NoNotes,
                       !.agents = agents, !.jobRuns = jobs,
                       !.stalledLogged = @ \ ids, !.checkReposts = reposts]
  <2>1. ids \subseteq DOMAIN s.agents /\ Open(s)
    BY <1>2 DEF RetryableAgents
  <2>2. \A b \in DOMAIN s.agents : s.agents[b].retries + 1 \in Nat /\ s.agents[b] \in AgentState
    BY AgentTypes DEF Good, AgentState
  <2>3. agents \in [DOMAIN s.agents -> AgentState] /\ jobs \in [DOMAIN s.agents -> Nat]
    BY <2>2, FreshAgentLemma DEF Good, RunOK, RunType, NoJob
  <2>4. \A b \in DOMAIN s.agents : /\ b \in ids => agents[b].status = "queued"
                                   /\ b \notin ids => agents[b] = s.agents[b]
    BY <2>2, FreshAgentLemma
  <2>5. ids \subseteq DOMAIN s.agents
    BY <2>1
  <2>9. /\ steps \in [Step -> StepStatus] /\ steps["sweep"] = "active" /\ reposts \in Nat
    BY DEF Good, RunOK, RunType, Step, StepStatus
  <2> HIDE DEF agents, jobs, ids, steps, reposts
  <2>6. /\ RunOK(r) /\ r.agents = agents /\ DOMAIN agents = DOMAIN s.agents
        /\ r.steps["sweep"] = "active" /\ r.status = "on_the_hill"
    BY <2>3, <2>5, <2>9 DEF Good, RunOK, RunType, RunStatus
  <2> HIDE DEF r
  <2>7. \A b \in DOMAIN s.agents : s.agents[b].status # "stopped"
    BY <2>1 DEF Good, WaitingOK, Open
  <2>8. WaitingOK(r)
    BY <1>2, <2>4, <2>5, <2>6, <2>7 DEF WaitingOK, Live, LiveStatus, Ended
  <2> QED
    BY <1>2, <2>6, <2>8 DEF RetryAgents, JobsWithout, To, Good, r, agents, jobs, ids, steps, reposts
<1> QED
  BY <1>1, <1>2

LEMMA BypassDesignGood ==
  ASSUME NEW s, Good(s)
  PROVE  Good(BypassDesign(s).state)
<1> DEFINE reposts == s.checkReposts + 1
           bypassed == [s EXCEPT !.designBypassed = TRUE, !.checkReposts = reposts]
           noted == [bypassed EXCEPT !.notes = ConditionsReport(bypassed)]
<1>0. reposts \in Nat
  BY DEF Good, RunOK, RunType
<1> HIDE DEF reposts
<1>1. RunOK(bypassed) /\ bypassed.agents = s.agents /\ bypassed.steps = s.steps
      /\ bypassed.status = s.status
  BY <1>0 DEF Good, RunOK, RunType
<1>2. Good(bypassed)
  BY <1>1, OtherFieldsGood
<1>3. ConditionsReport(bypassed) \in Report(DOMAIN bypassed.agents)
  BY <1>1, ReportLemma
<1> HIDE DEF bypassed
<1>4. RunOK(noted) /\ noted.agents = bypassed.agents /\ noted.steps = bypassed.steps
      /\ noted.status = bypassed.status
  BY <1>1, <1>3 DEF RunOK, RunType
<1>5. Good(noted)
  BY <1>2, <1>4, OtherFieldsGood
<1> QED
  BY <1>2, <1>5 DEF BypassDesign, Unchanged, To, reposts, bypassed, noted

LEMMA MarkersGood ==
  ASSUME NEW s, Good(s), NEW title \in Title, NEW id \in Nat, NEW asked
  PROVE  /\ Good(OnRetitled(s, title).state)
         /\ Good(OnCheckCreated(s, id).state)
         /\ Good(AskCheckRepost(s).state)
         /\ Good(OnCheckReposted(s, id, asked).state)
<1>1. Good([s EXCEPT !.prTitle = title])
  <2> DEFINE r == [s EXCEPT !.prTitle = title]
  <2>1. RunOK(r) /\ r.agents = s.agents /\ r.steps = s.steps /\ r.status = s.status
    BY DEF Good, RunOK, RunType
  <2> QED BY <2>1, OtherFieldsGood
<1>2. Good([s EXCEPT !.checkRunId = id])
  <2> DEFINE r == [s EXCEPT !.checkRunId = id]
  <2>1. RunOK(r) /\ r.agents = s.agents /\ r.steps = s.steps /\ r.status = s.status
    BY DEF Good, RunOK, RunType
  <2> QED BY <2>1, OtherFieldsGood
<1>3. Good([s EXCEPT !.checkReposts = @ + 1])
  <2> DEFINE r == [s EXCEPT !.checkReposts = @ + 1]
  <2>1. RunOK(r) /\ r.agents = s.agents /\ r.steps = s.steps /\ r.status = s.status
    BY DEF Good, RunOK, RunType
  <2> QED BY <2>1, OtherFieldsGood
<1>4. Good([s EXCEPT !.checkReposts = IF @ = asked THEN 0 ELSE @, !.checkRunId = id])
  <2> DEFINE r == [s EXCEPT !.checkReposts = IF @ = asked THEN 0 ELSE @, !.checkRunId = id]
  <2>1. RunOK(r) /\ r.agents = s.agents /\ r.steps = s.steps /\ r.status = s.status
    BY DEF Good, RunOK, RunType
  <2> QED BY <2>1, OtherFieldsGood
<1> QED
  BY <1>1, <1>2, <1>3, <1>4
     DEF OnRetitled, OnCheckCreated, AskCheckRepost, OnCheckReposted, Unchanged, To

LEMMA ElapsedGood ==
  ASSUME NEW s, Good(s)
  PROVE  Good(Elapsed(s))
<1> DEFINE Aged(agent) ==
             IF ~Live(agent) THEN agent
             ELSE [agent EXCEPT !.clock = Older(@),
                                !.quiet = IF agent.briefed THEN Older(@) ELSE @]
           r == [s EXCEPT !.agents = [b \in DOMAIN s.agents |-> Aged(s.agents[b])]]
<1>1. \A agent \in AgentState : Aged(agent) \in AgentState /\ Aged(agent).status = agent.status
  BY OlderLemma DEF AgentState
<1> HIDE DEF Aged
<1>2. \A b \in DOMAIN s.agents : s.agents[b] \in AgentState
  BY AgentTypes DEF Good
<1>3. /\ RunOK(r) /\ DOMAIN r.agents = DOMAIN s.agents /\ r.steps = s.steps
      /\ r.status = s.status
      /\ \A b \in DOMAIN s.agents : r.agents[b].status = s.agents[b].status
  BY <1>1, <1>2 DEF Good, RunOK, RunType
<1>4. Good(r)
  BY <1>3, OtherFieldsGood
<1> QED
  BY <1>4 DEF Elapsed, r, Aged

LEMMA CreateRunGood ==
  ASSUME NEW agents \in SUBSET Agent, NEW title \in Title
  PROVE  Good(CreateRun(agents, title).state)
<1> DEFINE
      s == [status |-> "on_the_hill", prTitle |-> title,
            steps |-> [st \in Step |-> CASE st \in {"lift_line", "trail_map"} -> "done"
                                         [] st = "sweep" -> "active"
                                         [] OTHER -> "pending"],
            notes |-> NoNotes, agents |-> [a \in agents |-> FreshAgent(0)],
            designBypassed |-> FALSE, stalledLogged |-> {},
            checkRunId |-> NoCheck, checkReposts |-> 0, jobRuns |-> [a \in agents |-> NoJob]]
<1>1. FreshAgent(0) \in AgentState /\ FreshAgent(0).status = "queued"
  BY FreshAgentLemma
<1>2. /\ s.steps \in [Step -> StepStatus] /\ s.steps["sweep"] = "active"
  BY DEF Step, StepStatus
<1>3. /\ RunOK(s) /\ s.status = "on_the_hill" /\ DOMAIN s.agents = agents
      /\ \A a \in agents : s.agents[a].status = "queued"
  BY <1>1, <1>2 DEF RunOK, RunType, RunStatus, NoCheck, NoJob
<1> HIDE DEF s
<1>4. CASE AllIn(s)
  <2>1. Good(SweptState(s))
    BY <1>3, <1>4, SweptGood
  <2> QED
    BY <1>4, <2>1 DEF CreateRun, To, s
<1>5. CASE ~AllIn(s)
  <2>1. Good(s)
    BY <1>2, <1>3, <1>5 DEF Good, WaitingOK, AllIn, Ended
  <2> QED
    BY <1>5, <2>1 DEF CreateRun, To, s
<1> QED
  BY <1>4, <1>5

LEMMA JobCancelsOK ==
  ASSUME NEW s, RunOK(s), NEW agents \in SUBSET DOMAIN s.agents
  PROVE  JobsOK(JobCancels(s, agents))
  BY DEF JobsOK, JobCancels, RunOK, RunType

LEMMA CancelsOK ==
  ASSUME NEW s, RunOK(s), NEW a, NEW job, NEW v, NEW target, NEW title, NEW id, NEW asked
  PROVE  /\ JobsOK(OnDispatched(s, a).fx.cancel)
         /\ JobsOK(OnEvents(s, a, 1).fx.cancel)
         /\ JobsOK(OnBriefed(s, a, job).fx.cancel)
         /\ JobsOK(OnVerdict(s, a, v).fx.cancel)
         /\ JobsOK(OnFailure(s, a).fx.cancel)
         /\ JobsOK(OnTranscript(s, a).fx.cancel)
         /\ JobsOK(OnTick(s).fx.cancel)
         /\ JobsOK(StopRun(s).fx.cancel)
         /\ JobsOK(LandRun(s).fx.cancel)
         /\ JobsOK(RetryAgents(s, target).fx.cancel)
         /\ JobsOK(BypassDesign(s).fx.cancel)
         /\ JobsOK(OnRetitled(s, title).fx.cancel)
         /\ JobsOK(OnCheckCreated(s, id).fx.cancel)
         /\ JobsOK(AskCheckRepost(s).fx.cancel)
         /\ JobsOK(OnCheckReposted(s, id, asked).fx.cancel)
<1>1. JobsOK({}) BY DEF JobsOK
<1>2. NoFx.cancel = {} BY DEF NoFx, Fx
<1>3. \A t : Unchanged(t).fx.cancel = {} BY <1>2, UnchangedLemma
<1>4. \A t : To(t, NoFx).fx.cancel = {} BY <1>2 DEF To
<1>5. \A t, index, checked : To(t, Fx(index, {}, checked, {})).fx.cancel = {} BY DEF To, Fx
<1>6. \A t : CloseSweepIfDone(t).fx.cancel = {} BY <1>5 DEF CloseSweepIfDone
<1>7. JobsOK(HaltCancels(s)) BY JobCancelsOK DEF HaltCancels
<1>8. JobsOK(JobCancels(s, RetryableAgents(s, target)))
  BY JobCancelsOK DEF RetryableAgents
<1>10. JobsOK(OnDispatched(s, a).fx.cancel) BY <1>1, <1>3, <1>4 DEF OnDispatched
<1>11. JobsOK(OnEvents(s, a, 1).fx.cancel) BY <1>1, <1>3, <1>4 DEF OnEvents
<1>12. JobsOK(OnBriefed(s, a, job).fx.cancel) BY <1>1, <1>3, <1>4 DEF OnBriefed
<1>13. JobsOK(OnVerdict(s, a, v).fx.cancel) BY <1>1, <1>3, <1>6 DEF OnVerdict
<1>14. JobsOK(OnFailure(s, a).fx.cancel) BY <1>1, <1>3, <1>6 DEF OnFailure
<1>15. JobsOK(OnTranscript(s, a).fx.cancel) BY <1>1, <1>3, <1>4 DEF OnTranscript
<1>16. JobsOK(OnTick(s).fx.cancel) BY <1>1, <1>3, <1>4, <1>6 DEF OnTick
<1>17. JobsOK(StopRun(s).fx.cancel) BY <1>1, <1>7 DEF StopRun, To, Fx, Unchanged, NoFx
<1>18. JobsOK(LandRun(s).fx.cancel) BY <1>1, <1>7 DEF LandRun, To, Fx, Unchanged, NoFx
<1>19. JobsOK(RetryAgents(s, target).fx.cancel)
  BY <1>1, <1>8 DEF RetryAgents, To, Fx, Unchanged, NoFx
<1>20. JobsOK(BypassDesign(s).fx.cancel)
  BY <1>1 DEF BypassDesign, To, Fx, Unchanged, NoFx
<1>21. JobsOK(OnRetitled(s, title).fx.cancel)
  BY <1>1 DEF OnRetitled, To, Fx, Unchanged, NoFx
<1>22. JobsOK(OnCheckCreated(s, id).fx.cancel) BY <1>1, <1>3, <1>4 DEF OnCheckCreated
<1>23. JobsOK(AskCheckRepost(s).fx.cancel)
  BY <1>1 DEF AskCheckRepost, To, Fx, Unchanged, NoFx
<1>24. JobsOK(OnCheckReposted(s, id, asked).fx.cancel) BY <1>1, <1>4 DEF OnCheckReposted
<1> QED
  BY <1>10, <1>11, <1>12, <1>13, <1>14, <1>15, <1>16, <1>17, <1>18, <1>19, <1>20, <1>21,
     <1>22, <1>23, <1>24

-----------------------------------------------------------------------------
(* The report is there when the sweep is done, and says what the agents say. *)
Noted(s) == s.notes = IF s.steps["sweep"] = "done" THEN ConditionsReport(s) ELSE NoNotes

(* An agent of s that finished, in the run r a handler made of s. *)
AgentKept(s, r, a) ==
  \/ r.agents[a] = s.agents[a]
  \/ r.agents[a] = [s.agents[a] EXCEPT !.hasTranscript = TRUE]
  \/ /\ s.agents[a].status = "error" /\ Open(s)
     /\ r.agents[a] = FreshAgent(s.agents[a].retries + 1)
     /\ r.jobRuns[a] = NoJob /\ a \notin r.stalledLogged

Concluded(s, r) ==
  /\ Ended(s) => Ended(r) /\ (s.status = "landed" => r.status = "landed")
  /\ Ended(r) /\ s.status # "on_the_hill" => ReviewOutcome(r) = ReviewOutcome(s)

(* The job of an agent is kept, or becomes that of its attempt; a new attempt has none. *)
SameAttempt(s, r, a) ==
  /\ r.agents[a].retries = s.agents[a].retries
  /\ Live(r.agents[a]) => Live(s.agents[a])
  /\ r.jobRuns[a] \in {s.jobRuns[a], s.agents[a].retries + 1}
NewAttempt(s, r, a) == r.agents[a].retries = s.agents[a].retries + 1 /\ r.jobRuns[a] = NoJob

(* The job of an agent that is stopped or retried is cancelled, if GitHub has started one. *)
JobCancelled(s, cancel, a) ==
  s.jobRuns[a] = NoJob \/ [agent |-> a, job |-> s.jobRuns[a]] \in cancel
StoppedCancelled(s, r, cancel) ==
  \A a \in DOMAIN s.agents :
    Live(s.agents[a]) /\ r.agents[a].status = "stopped" => JobCancelled(s, cancel, a)

JobsMove(s, r, cancel) ==
  /\ \A a \in DOMAIN s.agents :
       \/ NewAttempt(s, r, a) /\ JobCancelled(s, cancel, a)
       \/ SameAttempt(s, r, a) /\ (Live(r.agents[a]) => \A c \in cancel : c.agent # a)
  /\ StoppedCancelled(s, r, cancel)
  /\ \A c \in cancel : c.agent \in DOMAIN s.agents /\ c.job = s.jobRuns[c.agent]

(* A transition writes what it changes, and keeps the rest. *)
Kept(s, t) ==
  /\ t.fx.index \/ SummaryOf(t.state) = SummaryOf(s)
  /\ t.fx.check \/ CheckRunOf(t.state) = CheckRunOf(s)
  /\ Noted(t.state)
  /\ DOMAIN t.state.agents = DOMAIN s.agents
  /\ \A a \in DOMAIN s.agents : ~Live(s.agents[a]) => AgentKept(s, t.state, a)
  /\ Concluded(s, t.state)
  /\ JobsMove(s, t.state, t.fx.cancel)

-----------------------------------------------------------------------------
(* Changes that say nothing new *)

(* The same step of the run, and agents that hold what they held. *)
SameStep(s, r) ==
  /\ r.status = s.status /\ r.steps = s.steps /\ r.notes = s.notes
  /\ r.designBypassed = s.designBypassed /\ DOMAIN r.agents = DOMAIN s.agents
SameAgents(s, r) ==
  \A a \in DOMAIN s.agents :
    /\ r.agents[a].hazards = s.agents[a].hazards
    /\ \/ r.agents[a].status = s.agents[a].status
       \/ Live(r.agents[a]) /\ Live(s.agents[a])

LEMMA SameReport ==
  ASSUME NEW s, NEW r, r.steps["sweep"] = s.steps["sweep"], r.designBypassed = s.designBypassed,
         DOMAIN r.agents = DOMAIN s.agents, SameAgents(s, r)
  PROVE  ReviewOutcome(r) = ReviewOutcome(s) /\ ConditionsReport(r) = ConditionsReport(s)
<1>1. \A a \in DOMAIN s.agents : OpenHazards(r, a) = OpenHazards(s, a)
  BY DEF SameAgents, OpenHazards, Waived
<1>2. \A a \in DOMAIN s.agents :
        /\ Live(r.agents[a]) <=> Live(s.agents[a])
        /\ \A status \in {"error", "stopped", "hazards"} :
             r.agents[a].status = status <=> s.agents[a].status = status
  BY DEF SameAgents, Live, LiveStatus
<1>3. \A a \in DOMAIN s.agents : Flagged(r, a) <=> Flagged(s, a)
  BY <1>1, <1>2 DEF SameAgents, Flagged
<1>4. ReviewOutcome(r) = ReviewOutcome(s)
  BY <1>2, <1>3 DEF ReviewOutcome
<1>5. /\ {a \in DOMAIN r.agents : ~Live(r.agents[a]) /\ r.agents[a].status # "stopped"}
           = {a \in DOMAIN s.agents : ~Live(s.agents[a]) /\ s.agents[a].status # "stopped"}
      /\ {a \in DOMAIN r.agents : r.agents[a].status = "error"}
           = {a \in DOMAIN s.agents : s.agents[a].status = "error"}
  BY <1>2
<1>6. [a \in DOMAIN r.agents |-> OpenHazards(r, a)] = [a \in DOMAIN s.agents |-> OpenHazards(s, a)]
  BY <1>1
<1> HIDE DEF OpenHazards, ReviewOutcome
<1> QED
  BY <1>4, <1>5, <1>6 DEF ConditionsReport

LEMMA SameWrites ==
  ASSUME NEW s, NEW r, SameStep(s, r), SameAgents(s, r)
  PROVE  /\ ReviewOutcome(r) = ReviewOutcome(s)
         /\ CheckRunOf(r) = CheckRunOf(s)
         /\ r.prTitle = s.prTitle => SummaryOf(r) = SummaryOf(s)
         /\ Noted(s) => Noted(r)
<1>1. ReviewOutcome(r) = ReviewOutcome(s) /\ ConditionsReport(r) = ConditionsReport(s)
  BY SameReport DEF SameStep
<1>2. CurrentStep(r) = CurrentStep(s)
  BY DEF SameStep, CurrentStep
<1> QED
  BY <1>1, <1>2 DEF SameStep, CheckRunOf, SummaryOf, Ended, Noted

(* A transition that says nothing new, but for the title. *)
LEMMA CalmKept ==
  ASSUME NEW s, Noted(s), NEW t, SameStep(s, t.state), SameAgents(s, t.state),
         t.fx.index \/ t.state.prTitle = s.prTitle, t.fx.cancel = {},
         \A a \in DOMAIN s.agents :
           /\ ~Live(s.agents[a]) => AgentKept(s, t.state, a)
           /\ t.state.agents[a].retries = s.agents[a].retries
           /\ t.state.jobRuns[a] \in {s.jobRuns[a], s.agents[a].retries + 1}
  PROVE  Kept(s, t)
<1>1. \A a \in DOMAIN s.agents : Live(t.state.agents[a]) => Live(s.agents[a])
  BY DEF SameAgents, Live
<1>2. StoppedCancelled(s, t.state, t.fx.cancel)
  BY DEF SameAgents, StoppedCancelled, Live, LiveStatus
<1>3. JobsMove(s, t.state, t.fx.cancel)
  BY <1>1, <1>2 DEF JobsMove, SameAttempt
<1>4. Concluded(s, t.state)
  BY SameWrites DEF Concluded, SameStep, Ended
<1> QED
  BY <1>3, <1>4, SameWrites DEF Kept, SameStep

LEMMA UnchangedKept == ASSUME NEW s, Noted(s) PROVE Kept(s, Unchanged(s))
<1> DEFINE t == Unchanged(s)
<1>1. t.state = s /\ t.fx.cancel = {}
  BY DEF Unchanged, To, NoFx, Fx
<1> HIDE DEF t
<1>2. SameStep(s, t.state) /\ SameAgents(s, t.state)
  BY <1>1 DEF SameStep, SameAgents
<1>3. \A a \in DOMAIN s.agents : AgentKept(s, t.state, a)
  BY <1>1 DEF AgentKept
<1> QED
  BY <1>1, <1>2, <1>3, CalmKept DEF t

-----------------------------------------------------------------------------
(* Handlers that say nothing new *)

LEMMA PatchFacts ==
  ASSUME NEW s, RunOK(s), NEW a \in DOMAIN s.agents, NEW agent
  PROVE  LET r == PatchAgent(s, a, agent)
         IN /\ r.status = s.status /\ r.steps = s.steps /\ r.notes = s.notes /\ r.prTitle = s.prTitle
            /\ r.designBypassed = s.designBypassed /\ r.jobRuns = s.jobRuns
            /\ r.stalledLogged = s.stalledLogged
            /\ DOMAIN r.agents = DOMAIN s.agents /\ r.agents[a] = agent
            /\ \A b \in DOMAIN s.agents \ {a} : r.agents[b] = s.agents[b]
  BY DEF RunOK, RunType, PatchAgent

(* A live agent that stays live, or one of which only the transcript is new. *)
LEMMA CalmPatch ==
  ASSUME NEW s, RunOK(s), Noted(s), NEW a \in DOMAIN s.agents, NEW agent \in AgentState,
         agent.hazards = s.agents[a].hazards, agent.retries = s.agents[a].retries,
         \/ Live(agent) /\ Live(s.agents[a])
         \/ agent = [s.agents[a] EXCEPT !.hasTranscript = TRUE] /\ agent.status = s.agents[a].status,
         NEW t, t.fx.cancel = {},
         LET r == PatchAgent(s, a, agent)
         IN /\ SameStep(r, t.state) /\ t.state.prTitle = r.prTitle /\ t.state.agents = r.agents
            /\ t.state.jobRuns \in {r.jobRuns, [r.jobRuns EXCEPT ![a] = s.agents[a].retries + 1]}
  PROVE  Kept(s, t)
<1> DEFINE r == PatchAgent(s, a, agent)
<1>1. /\ r.status = s.status /\ r.steps = s.steps /\ r.notes = s.notes /\ r.prTitle = s.prTitle
      /\ r.designBypassed = s.designBypassed /\ r.jobRuns = s.jobRuns
      /\ DOMAIN r.agents = DOMAIN s.agents /\ r.agents[a] = agent
      /\ \A b \in DOMAIN s.agents \ {a} : r.agents[b] = s.agents[b]
  BY PatchFacts
<1>2. DOMAIN s.jobRuns = DOMAIN s.agents
  BY DEF RunOK, RunType
<1> HIDE DEF r
<1>3. /\ SameStep(s, t.state) /\ t.state.prTitle = s.prTitle /\ t.state.agents[a] = agent
      /\ \A b \in DOMAIN s.agents \ {a} : t.state.agents[b] = s.agents[b]
  BY <1>1 DEF SameStep, r
<1>4. \A b \in DOMAIN s.agents : t.state.jobRuns[b] \in {s.jobRuns[b], s.agents[b].retries + 1}
  BY <1>1, <1>2 DEF r
<1>5. SameAgents(s, t.state)
  BY <1>3 DEF SameAgents
<1>6. \A b \in DOMAIN s.agents : ~Live(s.agents[b]) => AgentKept(s, t.state, b)
  BY <1>3 DEF AgentKept
<1>7. \A b \in DOMAIN s.agents : t.state.agents[b].retries = s.agents[b].retries
  BY <1>3
<1> QED
  BY <1>3, <1>4, <1>5, <1>6, <1>7, CalmKept

LEMMA ToFacts == \A s, fx : To(s, fx).state = s /\ To(s, fx).fx = fx
  BY DEF To

LEMMA NoFxFacts == NoFx.cancel = {}
  BY DEF NoFx, Fx

LEMMA OnDispatchedKept == ASSUME NEW s, Good(s), Noted(s), NEW a PROVE Kept(s, OnDispatched(s, a))
<1> DEFINE agent == [s.agents[a] EXCEPT !.status = "dispatched", !.dispatched = TRUE,
                       !.clock = IF s.agents[a].briefed THEN @ ELSE 0]
           t == OnDispatched(s, a)
<1>1. CASE LiveAgent(s, a) /\ s.agents[a].status = "queued"
  <2>1. a \in DOMAIN s.agents /\ s.agents[a] \in AgentState /\ Live(s.agents[a])
    BY <1>1, LiveAgentLemma
  <2>2. /\ agent \in AgentState /\ Live(agent)
        /\ agent.hazards = s.agents[a].hazards /\ agent.retries = s.agents[a].retries
    BY <2>1, ZeroAge DEF AgentState, AgentStatus, LiveStatus, Live
  <2>3. t = To(PatchAgent(s, a, agent), NoFx)
    BY <1>1 DEF OnDispatched
  <2> HIDE DEF agent, t
  <2>4. t.state = PatchAgent(s, a, agent) /\ t.fx.cancel = {}
    BY <2>3, ToFacts, NoFxFacts
  <2>5. Kept(s, t)
    BY <2>1, <2>2, <2>4, CalmPatch DEF SameStep, Good
  <2> QED
    BY <2>5 DEF t
<1>2. CASE ~LiveAgent(s, a) \/ s.agents[a].status # "queued"
  BY <1>2, UnchangedKept DEF OnDispatched
<1> QED
  BY <1>1, <1>2

LEMMA OnEventsKept == ASSUME NEW s, Good(s), Noted(s), NEW a, NEW count PROVE Kept(s, OnEvents(s, a, count))
<1> DEFINE agent == [s.agents[a] EXCEPT !.status = "running", !.dispatched = TRUE, !.quiet = 0,
                       !.clock = IF s.agents[a].briefed \/ s.agents[a].dispatched
                                 THEN @ ELSE 0]
           t == OnEvents(s, a, count)
<1>1. CASE ~(~LiveAgent(s, a) \/ count < 1)
  <2>1. a \in DOMAIN s.agents /\ s.agents[a] \in AgentState /\ Live(s.agents[a])
    BY <1>1, LiveAgentLemma
  <2>2. /\ agent \in AgentState /\ Live(agent)
        /\ agent.hazards = s.agents[a].hazards /\ agent.retries = s.agents[a].retries
    BY <2>1, ZeroAge DEF AgentState, AgentStatus, LiveStatus, Live
  <2>3. t = To(PatchAgent(s, a, agent), NoFx)
    BY <1>1 DEF OnEvents
  <2> HIDE DEF agent, t
  <2>4. t.state = PatchAgent(s, a, agent) /\ t.fx.cancel = {}
    BY <2>3, ToFacts, NoFxFacts
  <2>5. Kept(s, t)
    BY <2>1, <2>2, <2>4, CalmPatch DEF SameStep, Good
  <2> QED
    BY <2>5 DEF t
<1>2. CASE ~LiveAgent(s, a) \/ count < 1
  BY <1>2, UnchangedKept DEF OnEvents
<1> QED
  BY <1>1, <1>2

(* An agent's job presents the attempt its nonce was minted for. *)
LEMMA OnBriefedKept ==
  ASSUME NEW s, Good(s), Noted(s), NEW a
  PROVE  Kept(s, OnBriefed(s, a, s.agents[a].retries + 1))
<1> DEFINE agent == [s.agents[a] EXCEPT !.briefed = TRUE, !.clock = 0, !.quiet = 0,
                       !.status = IF @ = "stalled" THEN "running" ELSE @]
           job == s.agents[a].retries + 1
           r == PatchAgent(s, a, agent)
           t == OnBriefed(s, a, job)
<1>1. CASE LiveAgent(s, a)
  <2>1. a \in DOMAIN s.agents /\ s.agents[a] \in AgentState /\ Live(s.agents[a])
    BY <1>1, LiveAgentLemma
  <2>2. /\ agent \in AgentState /\ Live(agent)
        /\ agent.hazards = s.agents[a].hazards /\ agent.retries = s.agents[a].retries
    BY <2>1, ZeroAge DEF AgentState, AgentStatus, LiveStatus, Live
  <2>3. t = To([r EXCEPT !.jobRuns = [@ EXCEPT ![a] = job]], NoFx)
    BY <1>1 DEF OnBriefed
  <2> HIDE DEF agent, t, job
  <2>4. RunOK(r)
    BY <2>1, <2>2, PatchAgentLemma DEF Good
  <2> HIDE DEF r
  <2>5. t.state = [r EXCEPT !.jobRuns = [@ EXCEPT ![a] = job]] /\ t.fx.cancel = {}
    BY <2>3, ToFacts, NoFxFacts
  <2>6. /\ SameStep(r, t.state) /\ t.state.prTitle = r.prTitle /\ t.state.agents = r.agents
        /\ t.state.jobRuns = [r.jobRuns EXCEPT ![a] = job]
    BY <2>4, <2>5 DEF SameStep, RunOK, RunType
  <2>7. Kept(s, t)
    BY <2>1, <2>2, <2>5, <2>6, CalmPatch DEF Good, r, job
  <2> QED
    BY <2>7 DEF t, job
<1>2. CASE ~LiveAgent(s, a)
  BY <1>2, UnchangedKept DEF OnBriefed
<1> QED
  BY <1>1, <1>2

LEMMA OnTranscriptKept == ASSUME NEW s, Good(s), Noted(s), NEW a PROVE Kept(s, OnTranscript(s, a))
<1> DEFINE agent == [s.agents[a] EXCEPT !.hasTranscript = TRUE]
           t == OnTranscript(s, a)
<1>1. CASE a \in DOMAIN s.agents
  <2>1. s.agents[a] \in AgentState
    BY <1>1, AgentTypes DEF Good
  <2>2. /\ agent \in AgentState /\ agent.status = s.agents[a].status
        /\ agent.hazards = s.agents[a].hazards /\ agent.retries = s.agents[a].retries
    BY <2>1 DEF AgentState
  <2>3. t = To(PatchAgent(s, a, agent), NoFx)
    BY <1>1 DEF OnTranscript
  <2>4. agent = [s.agents[a] EXCEPT !.hasTranscript = TRUE]
    OBVIOUS
  <2> HIDE DEF agent, t
  <2>5. t.state = PatchAgent(s, a, agent) /\ t.fx.cancel = {}
    BY <2>3, ToFacts, NoFxFacts
  <2>6. Kept(s, t)
    BY <1>1, <2>2, <2>4, <2>5, CalmPatch DEF SameStep, Good
  <2> QED
    BY <2>6 DEF t
<1>2. CASE a \notin DOMAIN s.agents
  BY <1>2, UnchangedKept DEF OnTranscript
<1> QED
  BY <1>1, <1>2

(* Fields none of this reads, and the title. *)
LEMMA MarkerKept ==
  ASSUME NEW s, Noted(s), NEW t, SameStep(s, t.state), t.state.agents = s.agents,
         t.state.jobRuns = s.jobRuns, t.fx.index \/ t.state.prTitle = s.prTitle, t.fx.cancel = {}
  PROVE  Kept(s, t)
<1>1. SameAgents(s, t.state)
  BY DEF SameAgents
<1>2. \A a \in DOMAIN s.agents : AgentKept(s, t.state, a)
  BY DEF AgentKept
<1> QED
  BY <1>1, <1>2, CalmKept

LEMMA MarkersKept ==
  ASSUME NEW s, Good(s), Noted(s), NEW title, NEW id, NEW asked
  PROVE  /\ Kept(s, OnRetitled(s, title))
         /\ Kept(s, OnCheckCreated(s, id))
         /\ Kept(s, AskCheckRepost(s))
         /\ Kept(s, OnCheckReposted(s, id, asked))
<1>1. Kept(s, To([s EXCEPT !.prTitle = title], Fx(TRUE, {}, FALSE, {})))
  <2> DEFINE r == [s EXCEPT !.prTitle = title]
             t == To(r, Fx(TRUE, {}, FALSE, {}))
  <2>1. SameStep(s, r) /\ r.agents = s.agents /\ r.jobRuns = s.jobRuns
    BY DEF Good, RunOK, RunType, SameStep
  <2>2. t = To(r, Fx(TRUE, {}, FALSE, {}))
    OBVIOUS
  <2> HIDE DEF r, t
  <2>3. t.state = r /\ t.fx.index /\ t.fx.cancel = {}
    BY <2>2 DEF To, Fx
  <2>4. Kept(s, t)
    BY <2>1, <2>3, MarkerKept
  <2> QED
    BY <2>4 DEF t, r
<1>2. Kept(s, To([s EXCEPT !.checkRunId = id], NoFx))
  <2> DEFINE r == [s EXCEPT !.checkRunId = id]
             t == To(r, NoFx)
  <2>1. SameStep(s, r) /\ r.agents = s.agents /\ r.jobRuns = s.jobRuns /\ r.prTitle = s.prTitle
    BY DEF Good, RunOK, RunType, SameStep
  <2>2. t.state = r /\ t.fx.cancel = {}
    BY ToFacts, NoFxFacts
  <2> HIDE DEF r, t
  <2>3. Kept(s, t)
    BY <2>1, <2>2, MarkerKept
  <2> QED
    BY <2>3 DEF t, r
<1>3. Kept(s, To([s EXCEPT !.checkReposts = @ + 1], Fx(FALSE, {}, TRUE, {})))
  <2> DEFINE r == [s EXCEPT !.checkReposts = @ + 1]
             t == To(r, Fx(FALSE, {}, TRUE, {}))
  <2>1. SameStep(s, r) /\ r.agents = s.agents /\ r.jobRuns = s.jobRuns /\ r.prTitle = s.prTitle
    BY DEF Good, RunOK, RunType, SameStep
  <2>2. t = To(r, Fx(FALSE, {}, TRUE, {}))
    OBVIOUS
  <2> HIDE DEF r, t
  <2>3. t.state = r /\ t.fx.cancel = {}
    BY <2>2 DEF To, Fx
  <2>4. Kept(s, t)
    BY <2>1, <2>3, MarkerKept
  <2> QED
    BY <2>4 DEF t, r
<1>4. Kept(s, OnCheckReposted(s, id, asked))
  <2> DEFINE r == [s EXCEPT !.checkReposts = IF @ = asked THEN 0 ELSE @, !.checkRunId = id]
             t == To(r, NoFx)
  <2>1. SameStep(s, r) /\ r.agents = s.agents /\ r.jobRuns = s.jobRuns /\ r.prTitle = s.prTitle
    BY DEF Good, RunOK, RunType, SameStep
  <2>2. t.state = r /\ t.fx.cancel = {}
    BY ToFacts, NoFxFacts
  <2> HIDE DEF r, t
  <2>3. Kept(s, t)
    BY <2>1, <2>2, MarkerKept
  <2> QED
    BY <2>3 DEF OnCheckReposted, t, r
<1> QED
  BY <1>1, <1>2, <1>3, <1>4, UnchangedKept DEF OnRetitled, OnCheckCreated, AskCheckRepost

-----------------------------------------------------------------------------
(* Handlers after which an agent is in *)

(* r is s on the hill with some live agents gone in or stalled. *)
SomeIn(s, r) ==
  /\ SameStep(s, r) /\ r.prTitle = s.prTitle /\ r.jobRuns = s.jobRuns
  /\ \A a \in DOMAIN s.agents :
       /\ r.agents[a].retries = s.agents[a].retries
       /\ Live(s.agents[a]) \/ r.agents[a] = s.agents[a]
       /\ r.agents[a].status # "stopped" \/ r.agents[a] = s.agents[a]

LEMMA SweptFacts ==
  ASSUME NEW s, RunOK(s)
  PROVE  LET r == SweptState(s)
         IN /\ r.status = "swept" /\ r.steps["sweep"] = "done" /\ r.agents = s.agents
            /\ r.jobRuns = s.jobRuns /\ Noted(r)
<1> DEFINE swept == [s EXCEPT !.steps = [@ EXCEPT !["sweep"] = "done"], !.status = "swept"]
           r == [swept EXCEPT !.notes = ConditionsReport(swept)]
<1>1. /\ RunOK(swept) /\ swept.agents = s.agents /\ swept.status = "swept"
      /\ swept.steps["sweep"] = "done" /\ swept.jobRuns = s.jobRuns
  BY DEF RunOK, RunType, RunStatus, Step, StepStatus
<1> HIDE DEF swept
<1>2. /\ r.agents = swept.agents /\ r.status = swept.status /\ r.steps = swept.steps
      /\ r.jobRuns = swept.jobRuns /\ r.designBypassed = swept.designBypassed
      /\ r.notes = ConditionsReport(swept)
  BY <1>1 DEF RunOK, RunType
<1> HIDE DEF r
<1>3. ConditionsReport(r) = ConditionsReport(swept)
  BY <1>2, SameReport DEF SameAgents
<1> QED
  BY <1>1, <1>2, <1>3 DEF SweptState, Noted, swept, r

LEMMA CloseKept ==
  ASSUME NEW s, Good(s), Noted(s), s.status = "on_the_hill", NEW r, RunOK(r), SomeIn(s, r)
  PROVE  Kept(s, CloseSweepIfDone(r))
<1> DEFINE t == CloseSweepIfDone(r)
<1>1. s.steps["sweep"] = "active" /\ ~Ended(s) /\ DOMAIN r.agents = DOMAIN s.agents
  BY DEF Good, WaitingOK, Ended, SomeIn, SameStep
<1>2. CASE AllIn(r)
  <2>1. t.state = SweptState(r) /\ t.fx.index /\ t.fx.check /\ t.fx.cancel = {}
    BY <1>2 DEF CloseSweepIfDone, To, Fx
  <2> HIDE DEF t
  <2>2. /\ t.state.agents = r.agents /\ t.state.jobRuns = s.jobRuns /\ Noted(t.state)
        /\ t.state.status = "swept"
    BY <2>1, SweptFacts DEF SomeIn
  <2>3. \A a \in DOMAIN s.agents : ~Live(s.agents[a]) => AgentKept(s, t.state, a)
    BY <2>2 DEF AgentKept, SomeIn
  <2>4. StoppedCancelled(s, t.state, t.fx.cancel)
    BY <2>2 DEF StoppedCancelled, SomeIn, Live, LiveStatus
  <2>5. JobsMove(s, t.state, t.fx.cancel)
    BY <1>1, <1>2, <2>1, <2>2, <2>4 DEF JobsMove, SameAttempt, SomeIn, AllIn
  <2>6. Concluded(s, t.state)
    BY <1>1, <2>2 DEF Concluded, Ended
  <2> QED
    BY <1>1, <2>1, <2>2, <2>3, <2>5, <2>6 DEF Kept, t
<1>3. CASE ~AllIn(r)
  <2>1. t.state = r /\ t.fx.check /\ t.fx.cancel = {}
    BY <1>3 DEF CloseSweepIfDone, To, Fx
  <2> HIDE DEF t
  <2>2. ReviewOutcome(r) = "pending" /\ ReviewOutcome(s) = "pending"
    BY <1>1 DEF ReviewOutcome, SomeIn, SameStep
  <2>3. CurrentStep(r) = CurrentStep(s)
    BY DEF SomeIn, SameStep, CurrentStep
  <2>4. SummaryOf(r) = SummaryOf(s)
    BY <2>2, <2>3 DEF SummaryOf, SomeIn, SameStep
  <2>5. Noted(r)
    BY <1>1 DEF Noted, SomeIn, SameStep
  <2>6. \A a \in DOMAIN s.agents : ~Live(s.agents[a]) => AgentKept(s, r, a)
    BY DEF AgentKept, SomeIn
  <2>7. StoppedCancelled(s, r, {})
    BY DEF StoppedCancelled, SomeIn, Live, LiveStatus
  <2>8. JobsMove(s, r, {})
    BY <2>7 DEF JobsMove, SameAttempt, SomeIn
  <2>9. Concluded(s, r)
    BY <1>1 DEF Concluded, Ended, SomeIn, SameStep
  <2> QED
    BY <1>1, <2>1, <2>4, <2>5, <2>6, <2>8, <2>9 DEF Kept, t
<1> QED
  BY <1>2, <1>3

LEMMA OnVerdictKept == ASSUME NEW s, Good(s), Noted(s), NEW a, NEW v \in Verdicts PROVE Kept(s, OnVerdict(s, a, v))
<1> DEFINE agent == [Finished(s.agents[a], v.status) EXCEPT !.hazards = v.hazards]
           r == PatchAgent(s, a, agent)
<1>1. CASE LiveAgent(s, a)
  <2>1. a \in DOMAIN s.agents /\ s.agents[a] \in AgentState /\ Live(s.agents[a]) /\ IsVerdict(v)
        /\ s.status = "on_the_hill"
    BY <1>1, LiveAgentLemma, VerdictsAssumption
  <2>2. agent \in AgentState /\ agent.retries = s.agents[a].retries /\ agent.status # "stopped"
    BY <2>1, ZeroAge DEF AgentState, AgentStatus, IsVerdict, Finished
  <2> HIDE DEF agent
  <2>3. RunOK(r)
    BY <2>1, <2>2, PatchAgentLemma DEF Good
  <2>4. SomeIn(s, r)
    BY <2>1, <2>2, PatchFacts DEF SomeIn, SameStep, Good
  <2> HIDE DEF r
  <2>5. Kept(s, CloseSweepIfDone(r))
    BY <2>1, <2>3, <2>4, CloseKept
  <2> QED
    BY <1>1, <2>5 DEF OnVerdict, r, agent
<1>2. CASE ~LiveAgent(s, a)
  BY <1>2, UnchangedKept DEF OnVerdict
<1> QED
  BY <1>1, <1>2

LEMMA FailedFacts ==
  ASSUME NEW s, RunOK(s), NEW agents \in SUBSET DOMAIN s.agents, \A a \in agents : Live(s.agents[a])
  PROVE  SomeIn(s, Failed(s, agents))
<1>1. /\ SameStep(s, Failed(s, agents)) /\ Failed(s, agents).prTitle = s.prTitle
      /\ Failed(s, agents).jobRuns = s.jobRuns
  BY DEF Failed, RunOK, RunType, SameStep
<1>2. \A a \in DOMAIN s.agents :
        LET agent == Finished(s.agents[a], "error")
        IN agent.retries = s.agents[a].retries /\ agent.status = "error"
  BY AgentTypes DEF Finished, AgentState
<1> QED
  BY <1>1, <1>2, FailedLemma DEF SomeIn

LEMMA OnFailureKept == ASSUME NEW s, Good(s), Noted(s), NEW a PROVE Kept(s, OnFailure(s, a))
<1>1. CASE LiveAgent(s, a)
  <2> DEFINE r == Failed(s, {a})
  <2>1. RunOK(r) /\ SomeIn(s, r) /\ s.status = "on_the_hill"
    BY <1>1, FailedLemma, FailedFacts, LiveAgentLemma DEF Good
  <2> HIDE DEF r
  <2>2. Kept(s, CloseSweepIfDone(r))
    BY <2>1, CloseKept
  <2> QED
    BY <1>1, <2>2 DEF OnFailure, r
<1>2. CASE ~LiveAgent(s, a)
  BY <1>2, UnchangedKept DEF OnFailure
<1> QED
  BY <1>1, <1>2

LEMMA OnTickKept == ASSUME NEW s, Good(s), Noted(s) PROVE Kept(s, OnTick(s))
<1> DEFINE stalled == Stalled(s, DueToStall(s))
           next == Failed(stalled, DueToFail(s))
<1>1. /\ DueToStall(s) \in SUBSET DOMAIN s.agents /\ DueToFail(s) \in SUBSET DOMAIN s.agents
      /\ \A a \in DueToStall(s) \union DueToFail(s) : Live(s.agents[a])
      /\ DueToStall(s) \cap DueToFail(s) = {}
  BY DEF DueToStall, DueToFail
<1>2. CASE s.status # "on_the_hill" \/ DueToFail(s) \union DueToStall(s) = {}
  BY <1>2, UnchangedKept DEF OnTick
<1>3. CASE ~(s.status # "on_the_hill" \/ DueToFail(s) \union DueToStall(s) = {})
  <2>1. /\ RunOK(stalled) /\ DOMAIN stalled.agents = DOMAIN s.agents
        /\ \A a \in DOMAIN s.agents : stalled.agents[a] =
             IF a \in DueToStall(s) THEN [s.agents[a] EXCEPT !.status = "stalled"] ELSE s.agents[a]
    BY <1>1, StalledLemma DEF Good
  <2>2. SameStep(s, stalled) /\ stalled.prTitle = s.prTitle /\ stalled.jobRuns = s.jobRuns
    BY <1>1 DEF Stalled, Good, RunOK, RunType, SameStep
  <2>3. \A a \in DOMAIN s.agents :
          /\ stalled.agents[a].retries = s.agents[a].retries
          /\ stalled.agents[a].hazards = s.agents[a].hazards
          /\ a \in DueToStall(s) => stalled.agents[a].status = "stalled"
    BY <2>1, AgentTypes DEF Good, AgentState
  <2> HIDE DEF stalled
  <2>4. SomeIn(stalled, next) /\ RunOK(next)
    BY <1>1, <2>1, FailedFacts, FailedLemma
  <2> HIDE DEF next
  <2>5. SomeIn(s, next)
    BY <1>1, <2>1, <2>2, <2>3, <2>4 DEF SomeIn, SameStep
  <2>6. CASE DueToFail(s) # {}
    <3>1. OnTick(s) = CloseSweepIfDone(next)
      BY <1>3, <2>6 DEF OnTick, next, stalled
    <3> QED
      BY <1>3, <2>4, <2>5, <3>1, CloseKept
  <2>7. CASE DueToFail(s) = {}
    <3> DEFINE t == OnTick(s)
    <3>1. t = To(next, NoFx)
      BY <1>3, <2>7 DEF OnTick, next, stalled
    <3> HIDE DEF t
    <3>2. t.state = next /\ t.fx.cancel = {}
      BY <3>1, ToFacts, NoFxFacts
    <3>3. \A a \in DOMAIN s.agents : next.agents[a] = stalled.agents[a]
      BY <2>1, <2>7, FailedLemma DEF next
    <3>4. SameAgents(s, next)
      BY <1>1, <2>1, <2>3, <3>3 DEF SameAgents, Live, LiveStatus
    <3>5. \A a \in DOMAIN s.agents : ~Live(s.agents[a]) => AgentKept(s, next, a)
      BY <2>5 DEF SomeIn, AgentKept
    <3>6. Kept(s, t)
      BY <2>5, <3>2, <3>4, <3>5, CalmKept DEF SomeIn
    <3> QED
      BY <3>6 DEF t
  <2> QED
    BY <2>6, <2>7
<1> QED
  BY <1>2, <1>3

-----------------------------------------------------------------------------
(* The end of a run, and what an owner does *)

LEMMA CancelFacts ==
  ASSUME NEW s, NEW agents
  PROVE  /\ \A c \in JobCancels(s, agents) : c.agent \in agents /\ c.job = s.jobRuns[c.agent]
         /\ \A a \in agents : JobCancelled(s, JobCancels(s, agents), a)
  BY DEF JobCancels, JobCancelled

LEMMA HaltedFacts ==
  ASSUME NEW s, Good(s)
  PROVE  LET h == Halted(s)
         IN /\ h.notes = s.notes /\ h.prTitle = s.prTitle /\ h.designBypassed = s.designBypassed
            /\ h.jobRuns = s.jobRuns /\ DOMAIN h.agents = DOMAIN s.agents
            /\ \A a \in DOMAIN s.agents :
                 /\ h.agents[a].retries = s.agents[a].retries
                 /\ ~Live(h.agents[a])
                 /\ Live(s.agents[a]) \/ h.agents[a] = s.agents[a]
            /\ h.steps["sweep"] = IF s.steps["sweep"] = "active" THEN "stopped" ELSE s.steps["sweep"]
            /\ s.status # "on_the_hill" => h.steps["sweep"] = s.steps["sweep"] /\ SameAgents(s, h)
<1> DEFINE h == Halted(s)
<1>1. \A a \in DOMAIN s.agents : s.agents[a] \in AgentState
  BY AgentTypes DEF Good
<1>2. /\ h.notes = s.notes /\ h.prTitle = s.prTitle /\ h.designBypassed = s.designBypassed
      /\ h.jobRuns = s.jobRuns /\ DOMAIN h.agents = DOMAIN s.agents
      /\ \A a \in DOMAIN s.agents : h.agents[a] =
           IF Live(s.agents[a]) THEN Finished(s.agents[a], "stopped") ELSE s.agents[a]
      /\ h.steps = [st \in Step |-> IF s.steps[st] = "active" THEN "stopped" ELSE s.steps[st]]
  BY DEF Good, RunOK, RunType, Halted
<1>3. \A a \in DOMAIN s.agents : Finished(s.agents[a], "stopped").retries = s.agents[a].retries
  BY <1>1 DEF Finished, AgentState
<1>4. \A a \in DOMAIN s.agents : ~Live(h.agents[a])
  BY HaltedLemma
<1> HIDE DEF h
<1>5. h.steps["sweep"] = IF s.steps["sweep"] = "active" THEN "stopped" ELSE s.steps["sweep"]
  BY <1>2 DEF Step
<1>6. s.status # "on_the_hill" => s.steps["sweep"] # "active" /\ \A a \in DOMAIN s.agents : ~Live(s.agents[a])
  BY DEF Good, WaitingOK
<1>7. s.status # "on_the_hill" => h.steps["sweep"] = s.steps["sweep"] /\ SameAgents(s, h)
  BY <1>2, <1>5, <1>6 DEF SameAgents
<1> QED
  BY <1>2, <1>3, <1>4, <1>5, <1>7 DEF h

LEMMA StopRunKept == ASSUME NEW s, Good(s), Noted(s) PROVE Kept(s, StopRun(s))
<1> DEFINE t == StopRun(s)
<1>1. CASE s.status = "swept"
  <2> DEFINE r == [s EXCEPT !.status = "stopped"]
  <2>1. t.state = r /\ t.fx.index /\ t.fx.cancel = {}
    BY <1>1 DEF StopRun, To, Fx
  <2>2. /\ r.agents = s.agents /\ r.steps = s.steps /\ r.status = "stopped" /\ r.notes = s.notes
        /\ r.designBypassed = s.designBypassed /\ r.jobRuns = s.jobRuns
    BY DEF Good, RunOK, RunType
  <2> HIDE DEF t, r
  <2>3. SameAgents(s, r)
    BY <2>2 DEF SameAgents
  <2>4. ReviewOutcome(r) = ReviewOutcome(s) /\ ConditionsReport(r) = ConditionsReport(s)
    BY <2>2, <2>3, SameReport
  <2>5. s.steps["sweep"] = "done"
    BY <1>1 DEF Good, WaitingOK
  <2>6. ReviewOutcome(s) # "pending"
    BY <2>5 DEF ReviewOutcome
  <2>7. CheckRunOf(r) = CheckRunOf(s)
    BY <2>4, <2>6 DEF CheckRunOf
  <2>8. Noted(r)
    BY <2>2, <2>4 DEF Noted
  <2>9. \A a \in DOMAIN s.agents : AgentKept(s, r, a)
    BY <2>2 DEF AgentKept
  <2>10. JobsMove(s, r, {})
    BY <2>2 DEF JobsMove, SameAttempt, StoppedCancelled, Live, LiveStatus
  <2>11. Concluded(s, r)
    BY <1>1, <2>2, <2>4 DEF Concluded, Ended
  <2> QED
    BY <2>1, <2>2, <2>7, <2>8, <2>9, <2>10, <2>11 DEF Kept, t
<1>2. CASE s.status = "on_the_hill"
  <2> DEFINE h == Halted(s)
             r == [h EXCEPT !.status = "stopped"]
  <2>1. t.state = r /\ t.fx.index /\ t.fx.check /\ t.fx.cancel = HaltCancels(s)
    BY <1>2 DEF StopRun, To, Fx
  <2>2. /\ h.notes = s.notes /\ h.jobRuns = s.jobRuns /\ DOMAIN h.agents = DOMAIN s.agents
        /\ \A a \in DOMAIN s.agents : /\ h.agents[a].retries = s.agents[a].retries
                                      /\ ~Live(h.agents[a])
                                      /\ Live(s.agents[a]) \/ h.agents[a] = s.agents[a]
        /\ h.steps["sweep"] = IF s.steps["sweep"] = "active" THEN "stopped" ELSE s.steps["sweep"]
    BY HaltedFacts
  <2>3. RunOK(h)
    BY HaltedLemma
  <2> HIDE DEF h, t
  <2>4. /\ r.agents = h.agents /\ r.steps = h.steps /\ r.status = "stopped" /\ r.notes = h.notes
        /\ r.jobRuns = h.jobRuns
    BY <2>3 DEF RunOK, RunType
  <2> HIDE DEF r
  <2>5. s.steps["sweep"] = "active"
    BY <1>2 DEF Good, WaitingOK
  <2>6. Noted(r)
    BY <2>2, <2>4, <2>5 DEF Noted
  <2>7. \A a \in DOMAIN s.agents : ~Live(s.agents[a]) => AgentKept(s, r, a)
    BY <2>2, <2>4 DEF AgentKept
  <2>8. /\ \A c \in HaltCancels(s) : c.agent \in DOMAIN s.agents /\ c.job = s.jobRuns[c.agent]
        /\ StoppedCancelled(s, r, HaltCancels(s))
    BY CancelFacts DEF HaltCancels, StoppedCancelled
  <2>9. JobsMove(s, r, HaltCancels(s))
    BY <2>2, <2>4, <2>8 DEF JobsMove, SameAttempt
  <2>10. Concluded(s, r)
    BY <1>2 DEF Concluded, Ended
  <2> QED
    BY <2>1, <2>2, <2>4, <2>6, <2>7, <2>9, <2>10 DEF Kept, t
<1>3. CASE s.status \notin {"swept", "on_the_hill"}
  BY <1>3, UnchangedKept DEF StopRun
<1> QED
  BY <1>1, <1>2, <1>3

LEMMA LandRunKept == ASSUME NEW s, Good(s), Noted(s) PROVE Kept(s, LandRun(s))
<1>1. CASE s.status = "landed"
  BY <1>1, UnchangedKept DEF LandRun
<1>2. CASE s.status # "landed"
  <2> DEFINE h == Halted(s)
             steps == LandedSteps(h.steps)
             r == [h EXCEPT !.status = "landed", !.steps = steps]
             t == LandRun(s)
  <2>1. /\ t.state = r /\ t.fx.index /\ t.fx.cancel = HaltCancels(s)
        /\ t.fx.check <=> ReviewOutcome(r) = "pending"
    <3>1. t = To(r, Fx(TRUE, {}, ReviewOutcome(r) = "pending", HaltCancels(s)))
      BY <1>2 DEF LandRun
    <3> HIDE DEF t, r
    <3> QED
      BY <3>1 DEF To, Fx
  <2>2. /\ h.notes = s.notes /\ h.designBypassed = s.designBypassed
        /\ h.jobRuns = s.jobRuns /\ DOMAIN h.agents = DOMAIN s.agents
        /\ \A a \in DOMAIN s.agents : /\ h.agents[a].retries = s.agents[a].retries
                                      /\ ~Live(h.agents[a])
                                      /\ Live(s.agents[a]) \/ h.agents[a] = s.agents[a]
        /\ h.steps["sweep"] = IF s.steps["sweep"] = "active" THEN "stopped" ELSE s.steps["sweep"]
        /\ s.status # "on_the_hill" => h.steps["sweep"] = s.steps["sweep"] /\ SameAgents(s, h)
    BY HaltedFacts
  <2>3. RunOK(h)
    BY HaltedLemma
  <2> HIDE DEF h, t
  <2>4. steps["sweep"] = h.steps["sweep"]
    BY <2>3 DEF RunOK, RunType, LandedSteps, Step
  <2> HIDE DEF steps
  <2>5. /\ r.agents = h.agents /\ r.steps["sweep"] = h.steps["sweep"] /\ r.status = "landed"
        /\ r.notes = h.notes /\ r.jobRuns = h.jobRuns /\ r.designBypassed = h.designBypassed
    BY <2>3, <2>4 DEF RunOK, RunType
  <2> HIDE DEF r
  <2>6. ASSUME s.status # "on_the_hill"
        PROVE  ReviewOutcome(r) = ReviewOutcome(s) /\ ConditionsReport(r) = ConditionsReport(s)
    <3>1. SameAgents(s, r) /\ r.steps["sweep"] = s.steps["sweep"]
      BY <2>2, <2>5, <2>6 DEF SameAgents
    <3> QED
      BY <2>2, <2>5, <3>1, SameReport
  <2>7. s.status = "on_the_hill" => r.steps["sweep"] = "stopped" /\ s.steps["sweep"] # "done"
    BY <2>2, <2>5 DEF Good, WaitingOK
  <2>8. ReviewOutcome(r) = "pending" \/ CheckRunOf(r) = CheckRunOf(s)
    <3>1. CASE s.status = "on_the_hill"
      BY <2>7, <3>1 DEF ReviewOutcome
    <3>2. CASE s.status # "on_the_hill"
      BY <2>6, <3>2 DEF CheckRunOf
    <3> QED
      BY <3>1, <3>2
  <2>9. Noted(r)
    BY <2>2, <2>5, <2>6, <2>7 DEF Noted
  <2>10. \A a \in DOMAIN s.agents : ~Live(s.agents[a]) => AgentKept(s, r, a)
    BY <2>2, <2>5 DEF AgentKept
  <2>11. /\ \A c \in HaltCancels(s) : c.agent \in DOMAIN s.agents /\ c.job = s.jobRuns[c.agent]
        /\ StoppedCancelled(s, r, HaltCancels(s))
    BY CancelFacts DEF HaltCancels, StoppedCancelled
  <2>12. JobsMove(s, r, HaltCancels(s))
    BY <2>2, <2>5, <2>11 DEF JobsMove, SameAttempt
  <2>13. Concluded(s, r)
    BY <2>5, <2>6 DEF Concluded, Ended
  <2> QED
    BY <2>1, <2>2, <2>5, <2>8, <2>9, <2>10, <2>12, <2>13 DEF Kept, t
<1> QED
  BY <1>1, <1>2

LEMMA RetryAgentsKept == ASSUME NEW s, Good(s), Noted(s), NEW target PROVE Kept(s, RetryAgents(s, target))
<1> DEFINE ids == RetryableAgents(s, target)
           t == RetryAgents(s, target)
<1>1. CASE ids = {}
  BY <1>1, UnchangedKept DEF RetryAgents
<1>2. CASE ids # {}
  <2> DEFINE agents == [b \in DOMAIN s.agents |->
                          IF b \in ids THEN FreshAgent(s.agents[b].retries + 1) ELSE s.agents[b]]
             jobs == JobsWithout(s, ids)
             steps == [s.steps EXCEPT !["sweep"] = "active"]
             reposts == s.checkReposts + 1
             logged == s.stalledLogged \ ids
             r == [s EXCEPT !.status = "on_the_hill", !.steps = steps, !.notes = NoNotes,
                            !.agents = agents, !.jobRuns = jobs,
                            !.stalledLogged = logged, !.checkReposts = reposts]
  <2>1. t = To(r, Fx(TRUE, ids, TRUE, JobCancels(s, ids)))
    BY <1>2 DEF RetryAgents
  <2>2. /\ ids \subseteq DOMAIN s.agents /\ Open(s)
        /\ \A b \in ids : s.agents[b].status = "error"
    BY <1>2 DEF RetryableAgents
  <2>3. steps["sweep"] = "active"
    BY DEF Good, RunOK, RunType, Step
  <2>4. /\ DOMAIN agents = DOMAIN s.agents
        /\ \A b \in DOMAIN s.agents :
             /\ b \in ids => agents[b] = FreshAgent(s.agents[b].retries + 1) /\ jobs[b] = NoJob
             /\ b \notin ids => agents[b] = s.agents[b] /\ jobs[b] = s.jobRuns[b]
    BY DEF JobsWithout
  <2> HIDE DEF ids, agents, jobs, steps, reposts, t
  <2>5. /\ r.agents = agents /\ r.jobRuns = jobs /\ r.steps = steps /\ r.notes = NoNotes
        /\ r.status = "on_the_hill" /\ r.stalledLogged = logged
    BY DEF Good, RunOK, RunType
  <2> HIDE DEF r
  <2>6. t.state = r /\ t.fx.index /\ t.fx.check /\ t.fx.cancel = JobCancels(s, ids)
    BY <2>1 DEF To, Fx
  <2>7. Noted(r)
    BY <2>3, <2>5 DEF Noted
  <2>8. \A b \in DOMAIN s.agents : AgentKept(s, r, b)
    BY <2>2, <2>4, <2>5 DEF AgentKept
  <2>9. /\ \A c \in JobCancels(s, ids) : c.agent \in ids /\ c.job = s.jobRuns[c.agent]
        /\ \A b \in ids : JobCancelled(s, JobCancels(s, ids), b)
    BY CancelFacts
  <2>10. ASSUME NEW b \in ids PROVE NewAttempt(s, r, b)
    <3>1. r.agents[b] = FreshAgent(s.agents[b].retries + 1) /\ r.jobRuns[b] = NoJob
      BY <2>2, <2>4, <2>5
    <3>2. FreshAgent(s.agents[b].retries + 1).retries = s.agents[b].retries + 1
      BY DEF FreshAgent
    <3> QED
      BY <3>1, <3>2 DEF NewAttempt
  <2>11. \A b \in DOMAIN s.agents \ ids :
           SameAttempt(s, r, b) /\ \A c \in JobCancels(s, ids) : c.agent # b
    BY <2>4, <2>5, <2>9 DEF SameAttempt
  <2>12. StoppedCancelled(s, r, JobCancels(s, ids))
    BY <2>4, <2>5, <2>9 DEF StoppedCancelled, Live, LiveStatus
  <2>13. JobsMove(s, r, JobCancels(s, ids))
    BY <2>2, <2>9, <2>10, <2>11, <2>12 DEF JobsMove
  <2>14. Concluded(s, r)
    BY <2>2, <2>5 DEF Concluded, Ended, Open
  <2> QED
    BY <2>4, <2>5, <2>6, <2>7, <2>8, <2>13, <2>14 DEF Kept, t
<1> QED
  BY <1>1, <1>2

LEMMA BypassDesignKept == ASSUME NEW s, Good(s), Noted(s) PROVE Kept(s, BypassDesign(s))
<1> DEFINE reposts == s.checkReposts + 1
           bypassed == [s EXCEPT !.designBypassed = TRUE, !.checkReposts = reposts]
           noted == [bypassed EXCEPT !.notes = ConditionsReport(bypassed)]
           r == IF s.steps["sweep"] = "done" THEN noted ELSE bypassed
           t == BypassDesign(s)
<1>1. CASE ~CanBypassDesign(s)
  BY <1>1, UnchangedKept DEF BypassDesign
<1>2. CASE CanBypassDesign(s)
  <2>1. t = To(r, Fx(TRUE, {}, TRUE, {}))
    BY <1>2 DEF BypassDesign
  <2>2. /\ DOMAIN bypassed = DOMAIN s
        /\ bypassed.agents = s.agents /\ bypassed.steps = s.steps /\ bypassed.status = s.status
        /\ bypassed.jobRuns = s.jobRuns /\ bypassed.notes = s.notes
    BY DEF Good, RunOK, RunType
  <2> HIDE DEF bypassed, t
  <2>3. /\ noted.agents = bypassed.agents /\ noted.steps = bypassed.steps
        /\ noted.status = bypassed.status /\ noted.jobRuns = bypassed.jobRuns
        /\ noted.designBypassed = bypassed.designBypassed
        /\ noted.notes = ConditionsReport(bypassed)
    BY <2>2 DEF Good, RunOK, RunType
  <2> HIDE DEF noted
  <2>4. ConditionsReport(noted) = ConditionsReport(bypassed)
    BY <2>3, SameReport DEF SameAgents
  <2>5. Noted(r)
    BY <2>2, <2>3, <2>4 DEF Noted
  <2>6. r.agents = s.agents /\ r.status = s.status /\ r.jobRuns = s.jobRuns
    BY <2>2, <2>3
  <2> HIDE DEF r
  <2>7. t.state = r /\ t.fx.index /\ t.fx.check /\ t.fx.cancel = {}
    BY <2>1 DEF To, Fx
  <2>8. \A a \in DOMAIN s.agents : AgentKept(s, r, a)
    BY <2>6 DEF AgentKept
  <2>9. JobsMove(s, r, {})
    BY <2>6 DEF JobsMove, SameAttempt, StoppedCancelled, Live, LiveStatus
  <2>10. Concluded(s, r)
    BY <1>2, <2>6 DEF Concluded, Ended, CanBypassDesign, Open
  <2> QED
    BY <2>5, <2>6, <2>7, <2>8, <2>9, <2>10 DEF Kept, t
<1> QED
  BY <1>1, <1>2

LEMMA ElapsedKept == ASSUME NEW s, Good(s), Noted(s) PROVE Kept(s, To(Elapsed(s), NoFx))
<1> DEFINE Aged(agent) ==
             IF ~Live(agent) THEN agent
             ELSE [agent EXCEPT !.clock = Older(@),
                                !.quiet = IF agent.briefed THEN Older(@) ELSE @]
           r == [s EXCEPT !.agents = [b \in DOMAIN s.agents |-> Aged(s.agents[b])]]
           t == To(r, NoFx)
<1>1. \A agent \in AgentState :
        /\ Aged(agent).status = agent.status /\ Aged(agent).hazards = agent.hazards
        /\ Aged(agent).retries = agent.retries
        /\ ~Live(agent) => Aged(agent) = agent
  BY DEF AgentState
<1> HIDE DEF Aged
<1>2. \A b \in DOMAIN s.agents : s.agents[b] \in AgentState
  BY AgentTypes DEF Good
<1>3. /\ SameStep(s, r) /\ r.prTitle = s.prTitle /\ r.jobRuns = s.jobRuns
      /\ \A b \in DOMAIN s.agents : r.agents[b] = Aged(s.agents[b])
  BY DEF Good, RunOK, RunType, SameStep
<1> HIDE DEF r
<1>4. SameAgents(s, r)
  BY <1>1, <1>2, <1>3 DEF SameAgents
<1>5. \A b \in DOMAIN s.agents : ~Live(s.agents[b]) => AgentKept(s, r, b)
  BY <1>1, <1>2, <1>3 DEF AgentKept
<1>6. \A b \in DOMAIN s.agents : r.agents[b].retries = s.agents[b].retries
  BY <1>1, <1>2, <1>3
<1>7. t.state = r /\ t.fx.cancel = {}
  BY ToFacts, NoFxFacts
<1> HIDE DEF t
<1>8. Kept(s, t)
  BY <1>3, <1>4, <1>5, <1>6, <1>7, CalmKept
<1> QED
  BY <1>8 DEF Elapsed, r, t, Aged
=============================================================================
