-------------------------- MODULE RunMachineProofs --------------------------
(***************************************************************************)
(* What every handler of a run keeps, for every roster, every set of       *)
(* verdicts and every limit: the types and the three notions of being out  *)
(* on the hill, that only clear passes, and then what a run says stays     *)
(* true of it: its Conditions report, the writes it owes, what its agents  *)
(* reported and how it ended, whose jobs it cancels, and its alarm.        *)
(***************************************************************************)
EXTENDS RunMachine, RunStateProofs, TLAPS

-----------------------------------------------------------------------------
(* The inductive invariant of types and of who a run waits for *)

Inv == Good(run) /\ JobsOK(cancelled)

LEMMA ApplyInv ==
  ASSUME NEW t, Good(t.state), JobsOK(t.fx.cancel), Inv, Apply(t)
  PROVE  Inv'
<1>1. run' = t.state /\ cancelled' = cancelled \union t.fx.cancel
  BY DEF Apply
<1>2. JobsOK(cancelled')
  BY <1>1 DEF JobsOK, Inv
<1> QED
  BY <1>1, <1>2 DEF Inv, Good, RunOK, WaitingOK, JobsOK, Live, Ended

LEMMA InitInv == Init => Inv
<1> SUFFICES ASSUME NEW agents \in SUBSET Agent, NEW title \in Title,
                    run = CreateRun(agents, title).state, cancelled = {}
             PROVE  Inv
  BY DEF Init
<1>1. Good(run) BY CreateRunGood
<1> QED
  BY <1>1 DEF Inv, JobsOK

LEMMA NextInv == Inv /\ [Next]_vars => Inv'
<1> SUFFICES ASSUME Inv, [Next]_vars PROVE Inv'
  OBVIOUS
<1>1. Good(run) /\ RunOK(run) /\ JobsOK(cancelled)
  BY DEF Inv, Good
<1>2. ASSUME NEW a \in Roster, Dispatched(a) PROVE Inv'
  BY <1>1, <1>2, OnDispatchedGood, CancelsOK, ApplyInv DEF Dispatched
<1>3. ASSUME NEW a \in Roster, Events(a) PROVE Inv'
  BY <1>1, <1>3, OnEventsGood, CancelsOK, ApplyInv DEF Events
<1>4. ASSUME NEW a \in Roster, Briefed(a) PROVE Inv'
  <2>1. Attempt(a) \in Nat
    BY <1>1, AgentTypes DEF Attempt, AgentState, Roster
  <2> QED
    BY <1>1, <1>4, <2>1, OnBriefedGood, CancelsOK, ApplyInv DEF Briefed
<1>5. ASSUME NEW a \in Roster, Fails(a) PROVE Inv'
  BY <1>1, <1>5, OnFailureGood, CancelsOK, ApplyInv DEF Fails
<1>6. ASSUME NEW a \in Roster, TranscriptStored(a) PROVE Inv'
  BY <1>1, <1>6, OnTranscriptGood, CancelsOK, ApplyInv DEF TranscriptStored
<1>7. ASSUME NEW a \in Roster, NEW v \in Verdicts, Reports(a, v) PROVE Inv'
  BY <1>1, <1>7, OnVerdictGood, CancelsOK, ApplyInv DEF Reports
<1>8. ASSUME NEW target, Retry(target) PROVE Inv'
  BY <1>1, <1>8, RetryAgentsGood, CancelsOK, ApplyInv DEF Retry
<1>9. CASE Tick
  BY <1>1, <1>9, OnTickGood, CancelsOK, ApplyInv DEF Tick
<1>10. CASE Stop
  BY <1>1, <1>10, StopRunGood, CancelsOK, ApplyInv DEF Stop
<1>11. CASE Land
  BY <1>1, <1>11, LandRunGood, CancelsOK, ApplyInv DEF Land
<1>12. CASE Bypass
  BY <1>1, <1>12, BypassDesignGood, CancelsOK, ApplyInv DEF Bypass
<1>13. CASE Repost
  <2>1. run.prTitle \in Title /\ 0 \in Nat
    BY <1>1 DEF RunOK, RunType
  <2>2. Good(AskCheckRepost(run).state)
    BY <1>1, <2>1, MarkersGood
  <2> QED
    BY <1>1, <1>13, <2>2, CancelsOK, ApplyInv DEF Repost
<1>14. CASE Elapse
  BY <1>1, <1>14, ElapsedGood DEF Elapse, Inv, Good, RunOK, WaitingOK, JobsOK, Live, Ended
<1>15. ASSUME NEW title \in Title, Retitle(title) PROVE Inv'
  <2>1. Good(OnRetitled(run, title).state)
    BY <1>1, MarkersGood
  <2> QED
    BY <1>1, <1>15, <2>1, CancelsOK, ApplyInv DEF Retitle
<1>16. ASSUME NEW id \in CheckIds, CheckCreated(id) PROVE Inv'
  <2>1. run.prTitle \in Title /\ id \in Nat
    BY <1>1, CheckIdsAssumption DEF RunOK, RunType
  <2>2. Good(OnCheckCreated(run, id).state)
    BY <1>1, <2>1, MarkersGood
  <2> QED
    BY <1>1, <1>16, <2>2, CancelsOK, ApplyInv DEF CheckCreated
<1>17. ASSUME NEW id \in CheckIds, CheckReposted(id) PROVE Inv'
  <2>1. run.prTitle \in Title /\ id \in Nat
    BY <1>1, CheckIdsAssumption DEF RunOK, RunType
  <2>2. \A asked : Good(OnCheckReposted(run, id, asked).state)
    BY <1>1, <2>1, MarkersGood
  <2> QED
    BY <1>1, <1>17, <2>2, CancelsOK, ApplyInv DEF CheckReposted
<1>18. CASE UNCHANGED vars
  BY <1>1, <1>18 DEF vars, Inv, Good, RunOK, WaitingOK, JobsOK, Live, Ended
<1> QED
  BY <1>2, <1>3, <1>4, <1>5, <1>6, <1>7, <1>8, <1>9, <1>10, <1>11, <1>12, <1>13, <1>14,
     <1>15, <1>16, <1>17, <1>18 DEF Next

(* Every step of machine.ts keeps the run and the cancelled jobs well typed. *)
THEOREM TypeCorrect == Spec => []TypeOK
<1>1. Inv => TypeOK
  BY DEF Inv, Good, TypeOK
<1> QED
  BY <1>1, InitInv, NextInv, PTL DEF Spec

(* A run is on the hill exactly while it waits for an agent (WaitingIsWaitingForSomeone), for    *)
(* every roster and whatever order its handlers run in.                                          *)
THEOREM WaitingTheorem == Spec => []WaitingIsWaitingForSomeone
<1>1. Inv => WaitingIsWaitingForSomeone
  BY DEF Inv, Good, WaitingIsWaitingForSomeone
<1> QED
  BY <1>1, InitInv, NextInv, PTL DEF Spec

-----------------------------------------------------------------------------
(* An agent holds hazards exactly when its status says so, which is what makes a clear outcome   *)
(* mean that nobody found any.                                                                   *)

AgentOK(agent) == agent.hazards # NoHazards <=> agent.status = "hazards"
HazardsOK(s) == \A a \in DOMAIN s.agents : AgentOK(s.agents[a])

LEMMA CloseAgents ==
  ASSUME NEW s, RunOK(s)
  PROVE  CloseSweepIfDone(s).state.agents = s.agents
<1>1. SweptState(s).agents = s.agents
  BY DEF SweptState, RunOK, RunType
<1> QED
  BY <1>1 DEF CloseSweepIfDone, To

LEMMA PatchHazards ==
  ASSUME NEW s, RunOK(s), HazardsOK(s), NEW a \in DOMAIN s.agents,
         NEW agent \in AgentState, AgentOK(agent)
  PROVE  HazardsOK(PatchAgent(s, a, agent))
<1>1. PatchAgent(s, a, agent).agents = [s.agents EXCEPT ![a] = agent]
  BY PatchAgentLemma
<1> QED
  BY <1>1 DEF HazardsOK

LEMMA OnDispatchedHazards ==
  ASSUME NEW s, Good(s), HazardsOK(s), NEW a
  PROVE  HazardsOK(OnDispatched(s, a).state)
<1> DEFINE agent == [s.agents[a] EXCEPT !.status = "dispatched", !.dispatched = TRUE,
                       !.clock = IF s.agents[a].briefed THEN @ ELSE 0]
<1>1. CASE LiveAgent(s, a) /\ s.agents[a].status = "queued"
  <2>1. RunOK(s) /\ a \in DOMAIN s.agents /\ s.agents[a] \in AgentState /\ AgentOK(s.agents[a])
    BY <1>1, LiveAgentLemma DEF Good, HazardsOK
  <2>2. agent \in AgentState /\ AgentOK(agent)
    BY <1>1, <2>1, ZeroAge DEF AgentState, AgentStatus, LiveStatus, AgentOK
  <2> HIDE DEF agent
  <2>3. HazardsOK(PatchAgent(s, a, agent))
    BY <2>1, <2>2, PatchHazards
  <2> QED
    BY <1>1, <2>3 DEF OnDispatched, To, agent
<1> QED
  BY <1>1, UnchangedLemma DEF OnDispatched

LEMMA OnEventsHazards ==
  ASSUME NEW s, Good(s), HazardsOK(s), NEW a, NEW count
  PROVE  HazardsOK(OnEvents(s, a, count).state)
<1> DEFINE agent == [s.agents[a] EXCEPT !.status = "running", !.dispatched = TRUE,
                       !.quiet = 0,
                       !.clock = IF s.agents[a].briefed \/ s.agents[a].dispatched THEN @ ELSE 0]
<1>1. CASE LiveAgent(s, a) /\ ~(count < 1)
  <2>1. /\ RunOK(s) /\ a \in DOMAIN s.agents /\ s.agents[a] \in AgentState
        /\ Live(s.agents[a]) /\ AgentOK(s.agents[a])
    BY <1>1, LiveAgentLemma DEF Good, HazardsOK
  <2>2. agent \in AgentState /\ AgentOK(agent)
    BY <2>1, ZeroAge DEF AgentState, AgentStatus, LiveStatus, Live, AgentOK
  <2> HIDE DEF agent
  <2>3. HazardsOK(PatchAgent(s, a, agent))
    BY <2>1, <2>2, PatchHazards
  <2> QED
    BY <1>1, <2>3 DEF OnEvents, To, agent
<1> QED
  BY <1>1, UnchangedLemma DEF OnEvents

LEMMA OnBriefedHazards ==
  ASSUME NEW s, Good(s), HazardsOK(s), NEW a, NEW job
  PROVE  HazardsOK(OnBriefed(s, a, job).state)
<1> DEFINE agent == [s.agents[a] EXCEPT !.briefed = TRUE, !.clock = 0, !.quiet = 0,
                       !.status = IF @ = "stalled" THEN "running" ELSE @]
           p == PatchAgent(s, a, agent)
<1>1. CASE LiveAgent(s, a)
  <2>1. /\ RunOK(s) /\ a \in DOMAIN s.agents /\ s.agents[a] \in AgentState
        /\ Live(s.agents[a]) /\ AgentOK(s.agents[a])
    BY <1>1, LiveAgentLemma DEF Good, HazardsOK
  <2>2. agent \in AgentState /\ AgentOK(agent)
    BY <2>1, ZeroAge DEF AgentState, AgentStatus, LiveStatus, Live, AgentOK
  <2> HIDE DEF agent
  <2>3. HazardsOK(p) /\ RunOK(p)
    BY <2>1, <2>2, PatchHazards, PatchAgentLemma
  <2>4. OnBriefed(s, a, job).state = [p EXCEPT !.jobRuns = [@ EXCEPT ![a] = job]]
    BY <1>1 DEF OnBriefed, To, agent
  <2> HIDE DEF p
  <2>5. [p EXCEPT !.jobRuns = [@ EXCEPT ![a] = job]].agents = p.agents
    BY <2>3 DEF RunOK, RunType
  <2> QED
    BY <2>3, <2>4, <2>5 DEF HazardsOK
<1> QED
  BY <1>1, UnchangedLemma DEF OnBriefed

LEMMA OnVerdictHazards ==
  ASSUME NEW s, Good(s), HazardsOK(s), NEW a, NEW v \in Verdicts
  PROVE  HazardsOK(OnVerdict(s, a, v).state)
<1> DEFINE agent == [Finished(s.agents[a], v.status) EXCEPT !.hazards = v.hazards]
           p == PatchAgent(s, a, agent)
<1>1. CASE LiveAgent(s, a)
  <2>1. RunOK(s) /\ a \in DOMAIN s.agents /\ s.agents[a] \in AgentState
    BY <1>1, LiveAgentLemma DEF Good
  <2>2. IsVerdict(v)
    BY VerdictsAssumption
  <2>3. agent \in AgentState /\ AgentOK(agent)
    BY <2>1, <2>2, ZeroAge DEF AgentState, AgentStatus, Finished, IsVerdict, AgentOK
  <2> HIDE DEF agent
  <2>4. HazardsOK(p) /\ RunOK(p)
    BY <2>1, <2>3, PatchHazards, PatchAgentLemma
  <2>5. OnVerdict(s, a, v) = CloseSweepIfDone(p)
    BY <1>1 DEF OnVerdict, agent
  <2> HIDE DEF p
  <2> QED
    BY <2>4, <2>5, CloseAgents DEF HazardsOK
<1> QED
  BY <1>1, UnchangedLemma DEF OnVerdict

LEMMA FailedHazards ==
  ASSUME NEW s, RunOK(s), HazardsOK(s), NEW agents,
         \A a \in agents \cap DOMAIN s.agents : Live(s.agents[a])
  PROVE  HazardsOK(Failed(s, agents))
<1> SUFFICES ASSUME NEW b \in DOMAIN s.agents PROVE AgentOK(Failed(s, agents).agents[b])
  BY FailedLemma DEF HazardsOK
<1>1. s.agents[b] \in AgentState /\ AgentOK(s.agents[b])
  BY AgentTypes DEF HazardsOK
<1>2. Failed(s, agents).agents[b] =
        IF b \in agents THEN Finished(s.agents[b], "error") ELSE s.agents[b]
  BY FailedLemma
<1>3. b \in agents => AgentOK(Finished(s.agents[b], "error"))
  BY <1>1 DEF AgentOK, AgentState, Finished, Live, LiveStatus
<1> QED
  BY <1>1, <1>2, <1>3

LEMMA OnFailureHazards ==
  ASSUME NEW s, Good(s), HazardsOK(s), NEW a
  PROVE  HazardsOK(OnFailure(s, a).state)
<1>1. CASE LiveAgent(s, a)
  <2>1. RunOK(s) /\ Live(s.agents[a])
    BY <1>1, LiveAgentLemma DEF Good
  <2>2. HazardsOK(Failed(s, {a})) /\ RunOK(Failed(s, {a}))
    BY <2>1, FailedHazards, FailedLemma
  <2> QED
    BY <1>1, <2>2, CloseAgents DEF OnFailure, HazardsOK
<1> QED
  BY <1>1, UnchangedLemma DEF OnFailure

LEMMA OnTranscriptHazards ==
  ASSUME NEW s, Good(s), HazardsOK(s), NEW a
  PROVE  HazardsOK(OnTranscript(s, a).state)
<1> DEFINE agent == [s.agents[a] EXCEPT !.hasTranscript = TRUE]
<1>1. CASE a \in DOMAIN s.agents
  <2>1. RunOK(s) /\ s.agents[a] \in AgentState /\ AgentOK(s.agents[a])
    BY <1>1, AgentTypes DEF Good, HazardsOK
  <2>2. agent \in AgentState /\ AgentOK(agent)
    BY <2>1 DEF AgentState, AgentOK
  <2> HIDE DEF agent
  <2>3. HazardsOK(PatchAgent(s, a, agent))
    BY <1>1, <2>1, <2>2, PatchHazards
  <2> QED
    BY <1>1, <2>3 DEF OnTranscript, To, agent
<1> QED
  BY <1>1, UnchangedLemma DEF OnTranscript

LEMMA OnTickHazards ==
  ASSUME NEW s, Good(s), HazardsOK(s)
  PROVE  HazardsOK(OnTick(s).state)
<1> DEFINE stalled == Stalled(s, DueToStall(s))
           next == Failed(stalled, DueToFail(s))
<1>1. CASE s.status # "on_the_hill" \/ DueToFail(s) \union DueToStall(s) = {}
  BY <1>1, UnchangedLemma DEF OnTick
<1>2. CASE ~(s.status # "on_the_hill" \/ DueToFail(s) \union DueToStall(s) = {})
  <2>1. /\ \A b \in DueToStall(s) : b \in DOMAIN s.agents /\ Live(s.agents[b])
        /\ \A b \in DueToFail(s) : /\ b \in DOMAIN s.agents /\ Live(s.agents[b])
                                   /\ b \notin DueToStall(s)
    BY DEF DueToStall, DueToFail
  <2>2. RunOK(s) /\ DueToStall(s) \in SUBSET DOMAIN s.agents
    BY <2>1 DEF Good
  <2>3. /\ RunOK(stalled) /\ DOMAIN stalled.agents = DOMAIN s.agents
        /\ \A b \in DOMAIN s.agents : stalled.agents[b] =
             IF b \in DueToStall(s) THEN [s.agents[b] EXCEPT !.status = "stalled"] ELSE s.agents[b]
    BY <2>2, StalledLemma
  <2> HIDE DEF stalled
  <2>4. ASSUME NEW b \in DOMAIN s.agents PROVE AgentOK(stalled.agents[b])
    <3>1. s.agents[b] \in AgentState /\ AgentOK(s.agents[b])
      BY <2>2, AgentTypes DEF HazardsOK
    <3>2. Live(s.agents[b]) => AgentOK([s.agents[b] EXCEPT !.status = "stalled"])
      BY <3>1 DEF AgentOK, AgentState, Live, LiveStatus
    <3> QED
      BY <2>1, <2>3, <3>1, <3>2
  <2>5. HazardsOK(stalled) /\ \A b \in DueToFail(s) : Live(stalled.agents[b])
    BY <2>1, <2>3, <2>4 DEF HazardsOK
  <2>6. HazardsOK(next) /\ RunOK(next)
    BY <2>3, <2>5, FailedHazards, FailedLemma
  <2>7. OnTick(s).state = next \/ OnTick(s) = CloseSweepIfDone(next)
    BY <1>2 DEF OnTick, To, next, stalled
  <2> HIDE DEF next
  <2> QED
    BY <2>6, <2>7, CloseAgents DEF HazardsOK
<1> QED
  BY <1>1, <1>2

LEMMA HaltedHazards ==
  ASSUME NEW s, Good(s), HazardsOK(s)
  PROVE  /\ HazardsOK(StopRun(s).state)
         /\ HazardsOK(LandRun(s).state)
<1>1. /\ RunOK(s) /\ RunOK(Halted(s)) /\ DOMAIN Halted(s).agents = DOMAIN s.agents
  BY HaltedLemma DEF Good
<1>2. \A b \in DOMAIN s.agents : Halted(s).agents[b] =
        IF Live(s.agents[b]) THEN Finished(s.agents[b], "stopped") ELSE s.agents[b]
  BY <1>1 DEF Halted, RunOK, RunType
<1>3. ASSUME NEW b \in DOMAIN s.agents PROVE AgentOK(Halted(s).agents[b])
  <2>1. s.agents[b] \in AgentState /\ AgentOK(s.agents[b])
    BY <1>1, AgentTypes DEF HazardsOK
  <2>2. Live(s.agents[b]) => AgentOK(Finished(s.agents[b], "stopped"))
    BY <2>1 DEF AgentOK, AgentState, Finished, Live, LiveStatus
  <2> QED
    BY <1>2, <2>1, <2>2
<1>4. StopRun(s).state.agents \in {s.agents, Halted(s).agents}
  BY <1>1 DEF StopRun, To, Unchanged, RunOK, RunType
<1>5. LandRun(s).state.agents \in {s.agents, Halted(s).agents}
  BY <1>1 DEF LandRun, To, Unchanged, RunOK, RunType
<1> QED
  BY <1>1, <1>3, <1>4, <1>5 DEF HazardsOK

LEMMA RetryAgentsHazards ==
  ASSUME NEW s, Good(s), HazardsOK(s), NEW target
  PROVE  HazardsOK(RetryAgents(s, target).state)
<1> DEFINE ids == RetryableAgents(s, target)
           agents == [b \in DOMAIN s.agents |->
                        IF b \in ids THEN FreshAgent(s.agents[b].retries + 1) ELSE s.agents[b]]
<1>1. RunOK(s) /\ \A b \in DOMAIN s.agents : AgentOK(s.agents[b]) /\ s.agents[b].retries + 1 \in Nat
  BY AgentTypes DEF Good, HazardsOK, AgentState
<1>2. \A n \in Nat : AgentOK(FreshAgent(n))
  BY FreshAgentLemma DEF AgentOK
<1>3. \A b \in DOMAIN agents : AgentOK(agents[b])
  BY <1>1, <1>2
<1>4. RetryAgents(s, target).state.agents \in {s.agents, agents}
  BY <1>1 DEF RetryAgents, To, Unchanged, RunOK, RunType
<1> HIDE DEF agents
<1> QED
  BY <1>1, <1>3, <1>4 DEF HazardsOK

(* What the remaining handlers do leaves every agent alone. *)
LEMMA OthersHazards ==
  ASSUME NEW s, Good(s), HazardsOK(s), NEW title, NEW id, NEW asked
  PROVE  /\ HazardsOK(BypassDesign(s).state)
         /\ HazardsOK(OnRetitled(s, title).state)
         /\ HazardsOK(OnCheckCreated(s, id).state)
         /\ HazardsOK(AskCheckRepost(s).state)
         /\ HazardsOK(OnCheckReposted(s, id, asked).state)
<1>1. RunOK(s) BY DEF Good
<1>2. BypassDesign(s).state.agents = s.agents
  BY <1>1 DEF BypassDesign, To, Unchanged, RunOK, RunType
<1>3. OnRetitled(s, title).state.agents = s.agents
  BY <1>1 DEF OnRetitled, To, Unchanged, RunOK, RunType
<1>4. OnCheckCreated(s, id).state.agents = s.agents
  BY <1>1 DEF OnCheckCreated, To, Unchanged, RunOK, RunType
<1>5. AskCheckRepost(s).state.agents = s.agents
  BY <1>1 DEF AskCheckRepost, To, Unchanged, RunOK, RunType
<1>6. OnCheckReposted(s, id, asked).state.agents = s.agents
  BY <1>1 DEF OnCheckReposted, To, RunOK, RunType
<1> QED
  BY <1>2, <1>3, <1>4, <1>5, <1>6 DEF HazardsOK

LEMMA ElapsedHazards ==
  ASSUME NEW s, Good(s), HazardsOK(s)
  PROVE  HazardsOK(Elapsed(s))
<1> DEFINE Aged(agent) ==
             IF ~Live(agent) THEN agent
             ELSE [agent EXCEPT !.clock = Older(@),
                                !.quiet = IF agent.briefed THEN Older(@) ELSE @]
<1>1. \A agent \in AgentState : AgentOK(agent) => AgentOK(Aged(agent))
  BY DEF AgentState, AgentOK
<1>2. RunOK(s) /\ Elapsed(s).agents = [b \in DOMAIN s.agents |-> Aged(s.agents[b])]
  BY DEF Good, RunOK, RunType, Elapsed
<1> HIDE DEF Aged
<1> QED
  BY <1>1, <1>2, AgentTypes DEF HazardsOK

LEMMA CreateRunHazards ==
  ASSUME NEW agents \in SUBSET Agent, NEW title \in Title
  PROVE  HazardsOK(CreateRun(agents, title).state)
<1>1. CreateRun(agents, title).state.agents = [a \in agents |-> FreshAgent(0)]
  BY DEF CreateRun, To, SweptState
<1>2. AgentOK(FreshAgent(0))
  BY FreshAgentLemma DEF AgentOK
<1> QED
  BY <1>1, <1>2 DEF HazardsOK

HazardsInv == Inv /\ HazardsOK(run)

LEMMA ApplyHazards ==
  ASSUME NEW t, HazardsOK(t.state), Apply(t)
  PROVE  HazardsOK(run')
  BY DEF Apply

LEMMA NextHazards == HazardsInv /\ [Next]_vars => HazardsOK(run)'
<1> SUFFICES ASSUME HazardsInv, [Next]_vars PROVE HazardsOK(run')
  BY DEF HazardsOK, AgentOK
<1>1. Good(run) /\ HazardsOK(run)
  BY DEF HazardsInv, Inv
<1>2. ASSUME NEW a \in Roster, Dispatched(a) PROVE HazardsOK(run')
  BY <1>1, <1>2, OnDispatchedHazards, ApplyHazards DEF Dispatched
<1>3. ASSUME NEW a \in Roster, Events(a) PROVE HazardsOK(run')
  BY <1>1, <1>3, OnEventsHazards, ApplyHazards DEF Events
<1>4. ASSUME NEW a \in Roster, Briefed(a) PROVE HazardsOK(run')
  BY <1>1, <1>4, OnBriefedHazards, ApplyHazards DEF Briefed
<1>5. ASSUME NEW a \in Roster, Fails(a) PROVE HazardsOK(run')
  BY <1>1, <1>5, OnFailureHazards, ApplyHazards DEF Fails
<1>6. ASSUME NEW a \in Roster, TranscriptStored(a) PROVE HazardsOK(run')
  BY <1>1, <1>6, OnTranscriptHazards, ApplyHazards DEF TranscriptStored
<1>7. ASSUME NEW a \in Roster, NEW v \in Verdicts, Reports(a, v) PROVE HazardsOK(run')
  BY <1>1, <1>7, OnVerdictHazards, ApplyHazards DEF Reports
<1>8. ASSUME NEW target, Retry(target) PROVE HazardsOK(run')
  BY <1>1, <1>8, RetryAgentsHazards, ApplyHazards DEF Retry
<1>9. CASE Tick
  BY <1>1, <1>9, OnTickHazards, ApplyHazards DEF Tick
<1>10. CASE Stop
  BY <1>1, <1>10, HaltedHazards, ApplyHazards DEF Stop
<1>11. CASE Land
  BY <1>1, <1>11, HaltedHazards, ApplyHazards DEF Land
<1>12. CASE Bypass
  BY <1>1, <1>12, OthersHazards, ApplyHazards DEF Bypass
<1>13. CASE Repost
  BY <1>1, <1>13, OthersHazards, ApplyHazards DEF Repost
<1>14. CASE Elapse
  BY <1>1, <1>14, ElapsedHazards DEF Elapse
<1>15. ASSUME NEW title \in Title, Retitle(title) PROVE HazardsOK(run')
  BY <1>1, <1>15, OthersHazards, ApplyHazards DEF Retitle
<1>16. ASSUME NEW id \in CheckIds, CheckCreated(id) PROVE HazardsOK(run')
  BY <1>1, <1>16, OthersHazards, ApplyHazards DEF CheckCreated
<1>17. ASSUME NEW id \in CheckIds, CheckReposted(id) PROVE HazardsOK(run')
  BY <1>1, <1>17, OthersHazards, ApplyHazards DEF CheckReposted
<1>18. CASE UNCHANGED vars
  BY <1>1, <1>18 DEF vars
<1> QED
  BY <1>2, <1>3, <1>4, <1>5, <1>6, <1>7, <1>8, <1>9, <1>10, <1>11, <1>12, <1>13, <1>14,
     <1>15, <1>16, <1>17, <1>18 DEF Next

LEMMA InitHazards == Init => HazardsOK(run)
  BY CreateRunHazards DEF Init

(* What makes an outcome clear: the sweep is done, so nobody is out (Good), none failed or was   *)
(* stopped, so each reported clear or hazards, and none has an open hazard.                      *)
LEMMA ClearLemma == HazardsInv => ClearMeansClear
<1> SUFFICES ASSUME HazardsInv, ReviewOutcome(run) = "clear", NEW a \in Roster
             PROVE  \/ run.agents[a].status = "clear" /\ run.agents[a].hazards = NoHazards
                    \/ /\ run.agents[a].status = "hazards" /\ a = GraniteChief
                       /\ run.designBypassed
                       /\ run.agents[a].hazards = [design |-> 1, other |-> 0]
  BY DEF ClearMeansClear
<1>1. /\ Good(run) /\ run.agents[a] \in AgentState /\ AgentOK(run.agents[a])
  BY AgentTypes DEF HazardsInv, Inv, Good, HazardsOK, Roster
<1>2. /\ run.steps["sweep"] = "done" /\ ~Flagged(run, a)
      /\ run.agents[a].status \notin {"error", "stopped"}
  BY DEF ReviewOutcome, Roster
<1>3. run.agents[a].status \in {"clear", "hazards"}
  BY <1>1, <1>2 DEF Good, WaitingOK, Live, AgentState, AgentStatus, Roster
<1>4. CASE run.agents[a].status = "clear"
  BY <1>1, <1>4 DEF AgentOK
<1>5. CASE run.agents[a].status = "hazards"
  <2> DEFINE d == run.agents[a].hazards.design
             o == run.agents[a].hazards.other
  <2>1. /\ d \in Nat /\ o \in Nat /\ run.agents[a].hazards = [design |-> d, other |-> o]
        /\ run.agents[a].hazards # NoHazards
    BY <1>1, <1>5 DEF AgentState, Hazards, AgentOK
  <2>2. d + o > 0
    BY <2>1 DEF NoHazards
  <2>3. ~(d + o - (IF Waived(run, a) THEN 1 ELSE 0) > 0)
    BY <1>2 DEF Flagged, OpenHazards
  <2>4. Waived(run, a)
    BY <2>1, <2>2, <2>3
  <2>5. run.designBypassed /\ a = GraniteChief /\ d > 0
    BY <2>4 DEF Waived
  <2>6. d = 1 /\ o = 0
    BY <2>1, <2>2, <2>3, <2>4, <2>5
  <2> QED
    BY <1>5, <2>1, <2>5, <2>6
<1> QED
  BY <1>3, <1>4, <1>5

(* "Only clear passes" (ClearMeansClear): a run's outcome is clear only if each of its agents    *)
(* reported, and nothing any of them found is open but what the owner waived.                    *)
THEOREM ClearTheorem == Spec => []ClearMeansClear
<1>1. Init => HazardsInv
  BY InitInv, InitHazards DEF HazardsInv
<1>2. HazardsInv /\ [Next]_vars => HazardsInv'
  BY NextInv, NextHazards DEF HazardsInv
<1> QED
  BY <1>1, <1>2, ClearLemma, PTL DEF Spec

-----------------------------------------------------------------------------
(* Every step takes a transition that keeps what the run said *)

Took(t) ==
  /\ run' = t.state
  /\ check' = IF t.fx.check THEN CheckRunOf(t.state) ELSE check
  /\ row' = IF t.fx.index THEN SummaryOf(t.state) ELSE row
  /\ cancelled' = cancelled \union t.fx.cancel

LEMMA ApplyTook == ASSUME NEW t, Kept(run, t), Apply(t) PROVE \E u : Kept(run, u) /\ Took(u)
  BY DEF Apply, Took

LEMMA NextTook ==
  ASSUME Inv, Noted(run), [Next]_vars
  PROVE  \E t : Kept(run, t) /\ Took(t)
<1> DEFINE Goal == \E t : Kept(run, t) /\ Took(t)
<1> SUFFICES Goal
  OBVIOUS
<1>1. Good(run) /\ Noted(run)
  BY DEF Inv
<1> HIDE DEF Goal
<1>0. ASSUME NEW t, Kept(run, t), Apply(t) PROVE Goal
  BY <1>0, ApplyTook DEF Goal
<1>2. ASSUME NEW a \in Roster, Dispatched(a) PROVE Goal
  BY <1>0, <1>1, <1>2, OnDispatchedKept DEF Dispatched
<1>3. ASSUME NEW a \in Roster, Events(a) PROVE Goal
  BY <1>0, <1>1, <1>3, OnEventsKept DEF Events
<1>4. ASSUME NEW a \in Roster, Briefed(a) PROVE Goal
  BY <1>0, <1>1, <1>4, OnBriefedKept DEF Briefed, Attempt
<1>5. ASSUME NEW a \in Roster, Fails(a) PROVE Goal
  BY <1>0, <1>1, <1>5, OnFailureKept DEF Fails
<1>6. ASSUME NEW a \in Roster, TranscriptStored(a) PROVE Goal
  BY <1>0, <1>1, <1>6, OnTranscriptKept DEF TranscriptStored
<1>7. ASSUME NEW a \in Roster, NEW v \in Verdicts, Reports(a, v) PROVE Goal
  BY <1>0, <1>1, <1>7, OnVerdictKept DEF Reports
<1>8. ASSUME NEW target, Retry(target) PROVE Goal
  BY <1>0, <1>1, <1>8, RetryAgentsKept DEF Retry
<1>9. CASE Tick
  BY <1>0, <1>1, <1>9, OnTickKept DEF Tick
<1>10. CASE Stop
  BY <1>0, <1>1, <1>10, StopRunKept DEF Stop
<1>11. CASE Land
  BY <1>0, <1>1, <1>11, LandRunKept DEF Land
<1>12. CASE Bypass
  BY <1>0, <1>1, <1>12, BypassDesignKept DEF Bypass
<1>13. CASE Repost
  BY <1>0, <1>1, <1>13, MarkersKept DEF Repost
<1>14. CASE Elapse
  <2>1. Kept(run, To(Elapsed(run), NoFx))
    BY <1>1, ElapsedKept
  <2>2. Took(To(Elapsed(run), NoFx))
    BY <1>14 DEF Elapse, Took, To, NoFx, Fx
  <2> QED
    BY <2>1, <2>2 DEF Goal
<1>15. ASSUME NEW title \in Title, Retitle(title) PROVE Goal
  BY <1>0, <1>1, <1>15, MarkersKept DEF Retitle
<1>16. ASSUME NEW id \in CheckIds, CheckCreated(id) PROVE Goal
  BY <1>0, <1>1, <1>16, MarkersKept DEF CheckCreated
<1>17. ASSUME NEW id \in CheckIds, CheckReposted(id) PROVE Goal
  BY <1>0, <1>1, <1>17, MarkersKept DEF CheckReposted
<1>18. CASE UNCHANGED vars
  <2>1. Kept(run, Unchanged(run))
    BY <1>1, UnchangedKept
  <2>2. Took(Unchanged(run))
    BY <1>18 DEF vars, Took, Unchanged, To, NoFx, Fx
  <2> QED
    BY <2>1, <2>2 DEF Goal
<1>19. Goal
  BY <1>2, <1>3, <1>4, <1>5, <1>6, <1>7, <1>8, <1>9, <1>10, <1>11, <1>12, <1>13, <1>14,
     <1>15, <1>16, <1>17, <1>18 DEF Next
<1> QED
  BY <1>19

-----------------------------------------------------------------------------
(* The inductive invariant *)

(* A job asked to cancel is of an attempt made so far, and no live agent's own. *)
JobsMatch(s, jobs) ==
  \A a \in DOMAIN s.agents :
    /\ s.jobRuns[a] \in {NoJob, s.agents[a].retries + 1}
    /\ \A c \in jobs :
         c.agent = a => /\ c.job <= s.agents[a].retries + 1
                        /\ Live(s.agents[a]) => c.job # s.agents[a].retries + 1

ReviewInv == Inv /\ Noted(run) /\ WritesFollow /\ JobsMatch(run, cancelled)

LEMMA JobsStep ==
  ASSUME NEW s, Good(s), NEW r, Good(r), DOMAIN r.agents = DOMAIN s.agents,
         NEW jobs, JobsOK(jobs), NEW new, JobsOK(new), JobsMatch(s, jobs), JobsMove(s, r, new)
  PROVE  JobsMatch(r, jobs \union new)
<1> SUFFICES ASSUME NEW a \in DOMAIN s.agents
             PROVE  /\ r.jobRuns[a] \in {NoJob, r.agents[a].retries + 1}
                    /\ \A c \in jobs \union new :
                         c.agent = a => /\ c.job <= r.agents[a].retries + 1
                                        /\ Live(r.agents[a]) => c.job # r.agents[a].retries + 1
  BY DEF JobsMatch
<1> DEFINE n == s.agents[a].retries + 1
           m == r.agents[a].retries + 1
<1>1. n \in Nat /\ n > 0 /\ m \in Nat
  BY AgentTypes DEF Good, AgentState
<1>2. \A c \in jobs \union new : c.job \in Nat
  BY DEF JobsOK
<1>3. s.jobRuns[a] \in {NoJob, n}
  BY DEF JobsMatch
<1>4. \A c \in jobs : c.agent = a => c.job <= n /\ (Live(s.agents[a]) => c.job # n)
  BY DEF JobsMatch
<1>5. \A c \in new : c.agent = a => c.job <= n
  BY <1>1, <1>3 DEF JobsMove, NoJob
<1>6. CASE NewAttempt(s, r, a)
  <2>1. m = n + 1 /\ r.jobRuns[a] = NoJob
    BY <1>1, <1>6 DEF NewAttempt
  <2> HIDE DEF n, m
  <2> QED
    BY <1>1, <1>2, <1>4, <1>5, <2>1 DEF m
<1>7. CASE SameAttempt(s, r, a) /\ (Live(r.agents[a]) => \A c \in new : c.agent # a)
  <2>1. /\ m = n /\ Live(r.agents[a]) => Live(s.agents[a])
        /\ r.jobRuns[a] \in {s.jobRuns[a], n}
    BY <1>7 DEF SameAttempt
  <2>2. m = n
    BY <1>7 DEF SameAttempt
  <2> HIDE DEF n, m
  <2> QED
    BY <1>3, <1>4, <1>5, <1>7, <2>1, <2>2 DEF m
<1> QED
  BY <1>6, <1>7 DEF JobsMove

LEMMA InitReview == Init => ReviewInv
<1> SUFFICES ASSUME NEW agents \in SUBSET Agent, NEW title \in Title,
                    run = CreateRun(agents, title).state, check = CheckRunOf(run),
                    row = SummaryOf(run), cancelled = {}, Inv
             PROVE  ReviewInv
  BY InitInv DEF Init
<1> DEFINE
      s == [status |-> "on_the_hill", prTitle |-> title,
            steps |-> [st \in Step |-> CASE st \in {"lift_line", "trail_map"} -> "done"
                                         [] st = "sweep" -> "active"
                                         [] OTHER -> "pending"],
            notes |-> NoNotes, agents |-> [a \in agents |-> FreshAgent(0)],
            designBypassed |-> FALSE, stalledLogged |-> {},
            checkRunId |-> NoCheck, checkReposts |-> 0, jobRuns |-> [a \in agents |-> NoJob]]
<1>1. FreshAgent(0) \in AgentState /\ FreshAgent(0).status = "queued"
  BY FreshAgentLemma
<1>2. /\ s.steps \in [Step -> StepStatus] /\ s.steps["sweep"] = "active"
  BY DEF Step, StepStatus
<1>3. /\ RunOK(s) /\ DOMAIN s.agents = agents /\ Noted(s)
      /\ \A a \in agents : s.jobRuns[a] = NoJob
  BY <1>1, <1>2 DEF RunOK, RunType, RunStatus, NoCheck, NoJob, Noted
<1> HIDE DEF s
<1>4. run = SweptState(s) \/ run = s
  BY DEF CreateRun, To, s
<1>5. Noted(run) /\ run.agents = s.agents /\ run.jobRuns = s.jobRuns
  BY <1>3, <1>4, SweptFacts
<1>6. JobsMatch(run, cancelled)
  BY <1>3, <1>5 DEF JobsMatch
<1> QED
  BY <1>5, <1>6 DEF ReviewInv, WritesFollow

LEMMA NextReview == ReviewInv /\ [Next]_vars => ReviewInv'
<1> SUFFICES ASSUME ReviewInv, [Next]_vars PROVE ReviewInv'
  OBVIOUS
<1>1. PICK t : Kept(run, t) /\ Took(t)
  BY NextTook DEF ReviewInv
<1> DEFINE r == t.state
           new == t.fx.cancel
<1>2. Inv'
  BY NextInv DEF ReviewInv
<1>3. /\ run' = r /\ cancelled' = cancelled \union new
      /\ check' = IF t.fx.check THEN CheckRunOf(r) ELSE check
      /\ row' = IF t.fx.index THEN SummaryOf(r) ELSE row
  BY <1>1 DEF Took
<1>4. /\ t.fx.index \/ SummaryOf(r) = SummaryOf(run)
      /\ t.fx.check \/ CheckRunOf(r) = CheckRunOf(run)
      /\ Noted(r) /\ DOMAIN r.agents = DOMAIN run.agents /\ JobsMove(run, r, new)
  BY <1>1 DEF Kept
<1>5. row = SummaryOf(run) /\ check = CheckRunOf(run) /\ JobsMatch(run, cancelled)
  BY DEF ReviewInv, WritesFollow
<1>6. Good(run) /\ JobsOK(cancelled)
  BY DEF ReviewInv, Inv
<1>7. Good(run') /\ JobsOK(cancelled')
  BY <1>2 DEF Inv, Good, RunOK, WaitingOK, JobsOK, Live, Ended
<1>8. Good(r) /\ JobsOK(new)
  BY <1>3, <1>7 DEF JobsOK
<1> HIDE DEF r, new
<1>9. row' = SummaryOf(run') /\ check' = CheckRunOf(run')
  BY <1>3, <1>4, <1>5
<1>10. Noted(run') /\ JobsMatch(run', cancelled')
  BY <1>3, <1>4, <1>5, <1>6, <1>8, JobsStep
<1>11. WritesFollow'
  BY <1>9 DEF WritesFollow, SummaryOf, CheckRunOf, ReviewOutcome, CurrentStep, Ended, Live,
              Flagged, OpenHazards, Waived
<1>12. Noted(run)' /\ JobsMatch(run, cancelled)'
  BY <1>10 DEF Noted, ConditionsReport, ReviewOutcome, Live, Flagged, OpenHazards, Waived,
               JobsMatch
<1> QED
  BY <1>2, <1>11, <1>12 DEF ReviewInv

-----------------------------------------------------------------------------
(* What holds of every reachable run, and of every step *)

LEMMA ReviewLemma == Spec => []ReviewInv
<1>1. Init => ReviewInv
  BY InitReview
<1>2. ReviewInv /\ [Next]_vars => ReviewInv'
  BY NextReview
<1> QED
  BY <1>1, <1>2, PTL DEF Spec

(* The index row and the check run say what the run says after every step: no handler of         *)
(* machine.ts changes what they show without owing the write (WritesFollow).                     *)
THEOREM WritesFollowTheorem == Spec => []WritesFollow
<1>1. ReviewInv => WritesFollow
  BY DEF ReviewInv
<1> QED
  BY <1>1, ReviewLemma, PTL

(* The stored Conditions report is there exactly while the sweep is done and says what the       *)
(* review found, whatever bypass, stop, landing or retry came after it (sweptState).             *)
THEOREM ReportCurrentTheorem == Spec => []ReportCurrent
<1>1. ReviewInv => ReportCurrent
  BY DEF ReviewInv, ReportCurrent, Noted
<1> QED
  BY <1>1, ReviewLemma, PTL

(* A run records of each agent no job but that of its own attempt, and never asked to cancel the *)
(* job a live agent runs in (onBriefed, halted, retryAgents).                                    *)
THEOREM JobsTheorem == Spec => []JobsAreTheAgentsOwn
<1>1. ReviewInv => JobsAreTheAgentsOwn
  BY DEF ReviewInv, JobsMatch, JobsAreTheAgentsOwn, Attempt, Roster
<1> QED
  BY <1>1, ReviewLemma, PTL

(* No step changes what a finished agent reported but the owner's retry of a failed one, and     *)
(* none reopens a run that ended or changes its outcome (ReportsStand).                          *)
THEOREM ReportsStandTheorem == Spec => ReportsStand
<1>1. ReviewInv /\ [Next]_vars =>
        (\A a \in Roster : ~Live(run.agents[a]) => AgentStands(a)) /\ ConclusionStands
  <2> SUFFICES ASSUME ReviewInv, [Next]_vars
               PROVE  /\ \A a \in Roster : ~Live(run.agents[a]) => AgentStands(a)
                      /\ ConclusionStands
    OBVIOUS
  <2>1. PICK t : Kept(run, t) /\ Took(t)
    BY NextTook DEF ReviewInv
  <2>2. /\ \A a \in DOMAIN run.agents : ~Live(run.agents[a]) => AgentKept(run, run', a)
        /\ Concluded(run, run')
    BY <2>1 DEF Kept, Took
  <2>3. \A a \in Roster : ~Live(run.agents[a]) => AgentStands(a)
    BY <2>2 DEF AgentKept, AgentStands, Roster
  <2>4. ConclusionStands
    BY <2>2 DEF Concluded, ConclusionStands
  <2> QED
    BY <2>3, <2>4
<1> QED
  BY <1>1, ReviewLemma, PTL DEF Spec, ReportsStand

(* A job GitHub has started is asked to cancel in the step that abandons it: no handler stops or  *)
(* retries an agent without the cancel of the job recorded for it (halted, retryAgents).          *)
THEOREM AbandonedJobTheorem == Spec => AbandonedJobIsCancelled
<1>1. ReviewInv /\ [Next]_vars =>
        \A a \in Roster :
          /\ run.jobRuns[a] # NoJob
          /\ \/ Live(run.agents[a]) /\ run'.agents[a].status = "stopped"
             \/ run'.agents[a].retries > run.agents[a].retries
          => [agent |-> a, job |-> run.jobRuns[a]] \in cancelled'
  <2> SUFFICES ASSUME ReviewInv, [Next]_vars, NEW a \in Roster, run.jobRuns[a] # NoJob,
                      \/ Live(run.agents[a]) /\ run'.agents[a].status = "stopped"
                      \/ run'.agents[a].retries > run.agents[a].retries
               PROVE  [agent |-> a, job |-> run.jobRuns[a]] \in cancelled'
    OBVIOUS
  <2>1. PICK t : Kept(run, t) /\ Took(t)
    BY NextTook DEF ReviewInv
  <2>2. JobsMove(run, run', t.fx.cancel) /\ cancelled' = cancelled \union t.fx.cancel
    BY <2>1 DEF Kept, Took
  <2>3. run.agents[a].retries \in Nat
    BY AgentTypes DEF ReviewInv, Inv, Good, Roster, AgentState
  <2>4. JobCancelled(run, t.fx.cancel, a)
    BY <2>2, <2>3 DEF JobsMove, StoppedCancelled, SameAttempt, Roster
  <2> QED
    BY <2>2, <2>4 DEF JobCancelled
<1> QED
  BY <1>1, ReviewLemma, PTL DEF Spec, AbandonedJobIsCancelled

-----------------------------------------------------------------------------
(* The alarm: an agent is due when one of its deadlines has passed *)

AgentDue(agent) ==
  Live(agent) /\ (FailsIn(agent) <= 0 \/ (StallWatched(agent) /\ StallsIn(agent) <= 0))

LEMMA DueLemma ==
  ASSUME NEW s
  PROVE  /\ AlarmDue(s) <=> s.status = "on_the_hill" /\ \E a \in DOMAIN s.agents : AgentDue(s.agents[a])
         /\ \A a \in DOMAIN s.agents :
              AgentDue(s.agents[a]) <=> a \in DueToFail(s) \union DueToStall(s)
<1>1. ASSUME NEW agent PROVE AgentDue(agent) <=> \E t \in DeadlinesOf(agent) : t <= 0
  <2>1. CASE ~Live(agent)
    BY <2>1 DEF AgentDue, DeadlinesOf
  <2>2. CASE Live(agent) /\ StallWatched(agent)
    <3>1. DeadlinesOf(agent) = {FailsIn(agent), StallsIn(agent)}
      BY <2>2, Zenon DEF DeadlinesOf
    <3> QED
      BY <2>2, <3>1 DEF AgentDue
  <2>3. CASE Live(agent) /\ ~StallWatched(agent)
    <3>1. DeadlinesOf(agent) = {FailsIn(agent)}
      BY <2>3 DEF DeadlinesOf
    <3> QED
      BY <2>3, <3>1 DEF AgentDue
  <2> QED
    BY <2>1, <2>2, <2>3
<1>2. ASSUME NEW a \in DOMAIN s.agents
      PROVE  AgentDue(s.agents[a]) <=> a \in DueToFail(s) \union DueToStall(s)
  <2>1. a \in DueToFail(s) <=> Live(s.agents[a]) /\ FailsIn(s.agents[a]) <= 0
    BY DEF DueToFail
  <2>2. a \in DueToStall(s) <=> /\ a \notin DueToFail(s) /\ Live(s.agents[a])
                               /\ StallWatched(s.agents[a]) /\ StallsIn(s.agents[a]) <= 0
    BY DEF DueToStall
  <2> QED
    BY <2>1, <2>2, Zenon DEF AgentDue
<1>3. CASE s.status = "on_the_hill"
  <2>1. AlarmTimes(s) = UNION {DeadlinesOf(s.agents[a]) : a \in DOMAIN s.agents}
    BY <1>3 DEF AlarmTimes
  <2>2. (\E t \in AlarmTimes(s) : t <= 0)
          <=> \E a \in DOMAIN s.agents : \E t \in DeadlinesOf(s.agents[a]) : t <= 0
    BY <2>1
  <2> QED
    BY <1>1, <1>2, <1>3, <2>2 DEF AlarmDue
<1>4. CASE s.status # "on_the_hill"
  BY <1>2, <1>4 DEF AlarmDue, AlarmTimes
<1> QED
  BY <1>3, <1>4

(* Marking an agent stalled leaves its other deadline, and no stall to watch for. *)
LEMMA StalledNotDue ==
  ASSUME NEW agent \in AgentState, ~(FailsIn(agent) <= 0)
  PROVE  ~AgentDue([agent EXCEPT !.status = "stalled"])
<1> DEFINE marked == [agent EXCEPT !.status = "stalled"]
<1>1. /\ marked.status = "stalled" /\ marked.briefed = agent.briefed
      /\ marked.dispatched = agent.dispatched /\ marked.clock = agent.clock
  BY DEF AgentState
<1> HIDE DEF marked
<1>2. FailsIn(marked) = FailsIn(agent) /\ ~StallWatched(marked)
  BY <1>1 DEF FailsIn, StallWatched
<1>3. ~AgentDue(marked)
  BY <1>2 DEF AgentDue
<1> QED
  BY <1>3 DEF marked

LEMMA CloseTicked ==
  ASSUME NEW r, RunOK(r)
  PROVE  LET c == CloseSweepIfDone(r).state
         IN c.agents = r.agents /\ (c = r \/ c.status = "swept")
<1>1. CloseSweepIfDone(r).state = IF AllIn(r) THEN SweptState(r) ELSE r
  BY ToFacts DEF CloseSweepIfDone
<1>2. SweptState(r).agents = r.agents /\ SweptState(r).status = "swept"
  BY SweptFacts
<1> QED
  BY <1>1, <1>2

LEMMA TickLemma ==
  ASSUME NEW s, Good(s)
  PROVE  /\ AlarmDue(s) <=> OnTick(s).state # s
         /\ ~AlarmDue(OnTick(s).state)
<1> DEFINE stalled == Stalled(s, DueToStall(s))
           next == Failed(stalled, DueToFail(s))
           ticked == OnTick(s).state
<1>1. CASE s.status # "on_the_hill" \/ DueToFail(s) \union DueToStall(s) = {}
  <2>1. OnTick(s).state = s
    BY <1>1, UnchangedLemma DEF OnTick
  <2>2. ~AlarmDue(s)
    BY <1>1, DueLemma
  <2> QED
    BY <2>1, <2>2
<1>2. CASE ~(s.status # "on_the_hill" \/ DueToFail(s) \union DueToStall(s) = {})
  <2>1. /\ DueToStall(s) \subseteq DOMAIN s.agents /\ DueToFail(s) \subseteq DOMAIN s.agents
        /\ DueToStall(s) \cap DueToFail(s) = {}
    BY DEF DueToStall, DueToFail
  <2>2. AlarmDue(s)
    BY <1>2, <2>1, DueLemma
  <2>3. /\ RunOK(stalled) /\ DOMAIN stalled.agents = DOMAIN s.agents
        /\ \A a \in DOMAIN s.agents : stalled.agents[a] =
             IF a \in DueToStall(s) THEN [s.agents[a] EXCEPT !.status = "stalled"] ELSE s.agents[a]
    BY <2>1, StalledLemma DEF Good
  <2>4. \A a \in DOMAIN s.agents : s.agents[a] \in AgentState /\ stalled.agents[a] \in AgentState
    BY <2>3, AgentTypes DEF Good
  <2> HIDE DEF stalled
  <2>5. /\ RunOK(next) /\ DOMAIN next.agents = DOMAIN s.agents
        /\ \A a \in DOMAIN s.agents : next.agents[a] =
             IF a \in DueToFail(s) THEN Finished(stalled.agents[a], "error") ELSE stalled.agents[a]
    BY <2>3, FailedLemma
  <2> HIDE DEF next
  <2>6. ticked = next \/ ticked = CloseSweepIfDone(next).state
    BY <1>2, ToFacts DEF OnTick, next, stalled
  <2>7. ticked.agents = next.agents
    BY <2>5, <2>6, CloseTicked
  <2> HIDE DEF ticked
  <2>8. ASSUME NEW a \in DueToFail(s)
        PROVE  next.agents[a].status = "error"
    BY <2>1, <2>4, <2>5, <2>8, FinishedLemma DEF AgentStatus
  <2>9. ASSUME NEW a \in DueToStall(s)
        PROVE  next.agents[a].status = "stalled" /\ s.agents[a].status # "stalled" /\ ~AgentDue(next.agents[a])
    <3>1. next.agents[a] = [s.agents[a] EXCEPT !.status = "stalled"]
      BY <2>1, <2>3, <2>5, <2>9
    <3>2. s.agents[a] \in AgentState /\ ~(FailsIn(s.agents[a]) <= 0) /\ s.agents[a].status # "stalled"
      BY <2>1, <2>4, <2>9 DEF DueToStall, DueToFail, StallWatched
    <3>3. [s.agents[a] EXCEPT !.status = "stalled"].status = "stalled"
      BY <3>2 DEF AgentState
    <3> QED
      BY <3>1, <3>2, <3>3, StalledNotDue
  <2>10. ASSUME NEW a \in DOMAIN s.agents PROVE ~AgentDue(next.agents[a])
    <3>1. CASE a \in DueToFail(s)
      BY <2>8, <3>1 DEF AgentDue, Live, LiveStatus
    <3>2. CASE a \in DueToStall(s)
      BY <2>9, <3>2
    <3>3. CASE a \notin DueToFail(s) \union DueToStall(s)
      BY <2>3, <2>5, <3>3, DueLemma
    <3> QED
      BY <3>1, <3>2, <3>3
  <2>11. ~AlarmDue(ticked)
    BY <2>5, <2>7, <2>10, DueLemma
  <2>12. ticked # s
    <3>1. PICK a \in DueToFail(s) \union DueToStall(s) : TRUE
      BY <1>2
    <3>2. CASE a \in DueToFail(s)
      BY <2>7, <2>8, <3>2 DEF DueToFail, Live, LiveStatus
    <3>3. CASE a \in DueToStall(s)
      BY <2>7, <2>9, <3>3
    <3> QED
      BY <3>1, <3>2, <3>3
  <2> QED
    BY <2>2, <2>11, <2>12 DEF ticked
<1> QED
  BY <1>1, <1>2

(* The alarm armed for a run's next deadline always makes progress: due, its tick changes the     *)
(* run; not due, it does not; and what the tick leaves behind is never due at once (nextAlarm).   *)
THEOREM AlarmTheorem == Spec => []AlarmMakesProgress
<1>1. ReviewInv => AlarmMakesProgress
  BY TickLemma DEF ReviewInv, Inv, AlarmMakesProgress
<1> QED
  BY <1>1, ReviewLemma, PTL
=============================================================================
