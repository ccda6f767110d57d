---------------------------- MODULE RunDOProofs ----------------------------
(***************************************************************************)
(* That the Durable Object delivers what it owes, for every roster, any    *)
(* number of calls at once, any outcome of the calls it makes, and resets: *)
(* the index row and the check run that a cleared mark stands for, and the *)
(* alarm a mark still set has.  And that crossing calls are invisible: the *)
(* state it stores moves by steps of RunMachine only.                      *)
(***************************************************************************)
EXTENDS RunDO, RunStateProofs, FiniteSetTheorems, WellFoundedInduction, TLAPS

-----------------------------------------------------------------------------
(* Transitions: what the object needs of every handler it applies. *)

(* The check run's id stays, and an ask for a repost owes a check. *)
CheckKept(s, t) ==
  /\ t.state.checkRunId = s.checkRunId
  /\ \/ t.state.checkReposts = s.checkReposts
     \/ t.fx.check /\ t.state.checkReposts = s.checkReposts + 1

FxOK(s, fx) ==
  /\ fx.index \in BOOLEAN /\ fx.check \in BOOLEAN
  /\ fx.dispatch \in SUBSET DOMAIN s.agents
  /\ \E agents \in SUBSET DOMAIN s.agents : fx.cancel = JobCancels(s, agents)

(* What a handler may do to a run it is given. *)
Moved(s, t) ==
  /\ Good(t.state) /\ Noted(t.state)
  /\ DOMAIN t.state.agents = DOMAIN s.agents
  /\ t.fx.index \/ SummaryOf(t.state) = SummaryOf(s)
  /\ t.fx.check \/ CheckRunOf(t.state) = CheckRunOf(s)
  /\ Concluded(s, t.state)
  /\ CheckKept(s, t)
  /\ FxOK(s, t.fx)

(* CheckKept and FxOK, for a transition that asks for nothing but its writes. *)
Plain(s, t) ==
  /\ t.state.checkRunId = s.checkRunId /\ t.state.checkReposts = s.checkReposts
  /\ t.fx.index \in BOOLEAN /\ t.fx.check \in BOOLEAN
  /\ t.fx.dispatch = {} /\ t.fx.cancel = {}

LEMMA NoCancels == \A s : JobCancels(s, {}) = {}
  BY DEF JobCancels

LEMMA PlainOK ==
  ASSUME NEW s, NEW t, Plain(s, t)
  PROVE  CheckKept(s, t) /\ FxOK(s, t.fx)
  BY NoCancels DEF Plain, CheckKept, FxOK

LEMMA PlainTo ==
  ASSUME NEW s, NEW r, r.checkRunId = s.checkRunId, r.checkReposts = s.checkReposts,
         NEW index \in BOOLEAN, NEW check \in BOOLEAN
  PROVE  Plain(s, To(r, Fx(index, {}, check, {}))) /\ Plain(s, To(r, NoFx))
  BY DEF Plain, To, Fx, NoFx

LEMMA PlainUnchanged == \A s : Plain(s, Unchanged(s))
  BY DEF Plain, Unchanged, To, Fx, NoFx

(* Changes of other fields. *)
SameCheck(s, r) == r.checkRunId = s.checkRunId /\ r.checkReposts = s.checkReposts

LEMMA OtherChanges ==
  ASSUME NEW s, RunOK(s), NEW a, NEW agent, NEW agents, NEW status, NEW steps
  PROVE  /\ SameCheck(s, PatchAgent(s, a, agent))
         /\ SameCheck(s, Failed(s, agents))
         /\ SameCheck(s, Stalled(s, agents))
         /\ SameCheck(s, Halted(s))
         /\ SameCheck(s, SweptState(s))
         /\ SameCheck(s, [s EXCEPT !.status = status])
         /\ SameCheck(s, [s EXCEPT !.status = status, !.steps = steps])
  BY DEF RunOK, RunType, SameCheck, PatchAgent, Failed, Stalled, Halted, SweptState

LEMMA ClosePlain ==
  ASSUME NEW s, NEW r, RunOK(r), SameCheck(s, r)
  PROVE  Plain(s, CloseSweepIfDone(r))
<1>1. SameCheck(s, SweptState(r))
  BY OtherChanges DEF SameCheck
<1> QED
  BY <1>1, PlainTo DEF CloseSweepIfDone, SameCheck

LEMMA ReportsMoved ==
  ASSUME NEW s, RunOK(s), NEW a, NEW job, NEW v, NEW count
  PROVE  /\ Plain(s, OnDispatched(s, a)) /\ Plain(s, OnEvents(s, a, count))
         /\ Plain(s, OnBriefed(s, a, job)) /\ Plain(s, OnTranscript(s, a))
         /\ LiveAgent(s, a) /\ v.status \in AgentStatus /\ v.hazards \in Hazards
              => Plain(s, OnVerdict(s, a, v))
         /\ Plain(s, OnFailure(s, a))
<1>1. \A agent : SameCheck(s, PatchAgent(s, a, agent))
  BY OtherChanges
<1>2. \A agent, to : SameCheck(s, [PatchAgent(s, a, agent) EXCEPT !.jobRuns = to])
  BY <1>1 DEF RunOK, RunType, SameCheck, PatchAgent
<1>3. \A r : SameCheck(s, r) => Plain(s, To(r, NoFx))
  BY PlainTo DEF SameCheck
<1>4. Plain(s, OnDispatched(s, a))
  BY <1>1, <1>3, PlainUnchanged DEF OnDispatched
<1>5. Plain(s, OnEvents(s, a, count))
  BY <1>1, <1>3, PlainUnchanged DEF OnEvents
<1>6. Plain(s, OnTranscript(s, a))
  BY <1>1, <1>3, PlainUnchanged DEF OnTranscript
<1>7. Plain(s, OnBriefed(s, a, job))
  BY <1>2, <1>3, PlainUnchanged DEF OnBriefed
<1>8. ASSUME LiveAgent(s, a), v.status \in AgentStatus, v.hazards \in Hazards
      PROVE  Plain(s, OnVerdict(s, a, v))
  <2> DEFINE agent == [Finished(s.agents[a], v.status) EXCEPT !.hazards = v.hazards]
             r == PatchAgent(s, a, agent)
  <2>1. s.agents[a] \in AgentState /\ a \in DOMAIN s.agents
    BY <1>8, AgentTypes DEF LiveAgent
  <2>2. agent \in AgentState
    BY <1>8, <2>1, FinishedLemma DEF AgentState
  <2> HIDE DEF agent
  <2>3. RunOK(r) /\ SameCheck(s, r)
    BY <1>1, <2>1, <2>2, PatchAgentLemma
  <2>4. Plain(s, CloseSweepIfDone(r))
    BY <2>3, ClosePlain
  <2> QED
    BY <1>8, <2>4 DEF OnVerdict, r, agent
<1>9. Plain(s, OnFailure(s, a))
  <2>1. RunOK(Failed(s, {a})) /\ SameCheck(s, Failed(s, {a}))
    BY OtherChanges, FailedLemma
  <2> QED
    BY <2>1, ClosePlain, PlainUnchanged DEF OnFailure
<1> QED
  BY <1>4, <1>5, <1>6, <1>7, <1>8, <1>9

LEMMA TickMoved == ASSUME NEW s, RunOK(s) PROVE Plain(s, OnTick(s))
<1> DEFINE stalled == Stalled(s, DueToStall(s))
           next == Failed(stalled, DueToFail(s))
<1>1. RunOK(stalled) /\ SameCheck(s, stalled)
  <2>1. DueToStall(s) \in SUBSET DOMAIN s.agents
    BY DEF DueToStall
  <2> QED
    BY <2>1, OtherChanges, StalledLemma
<1>2. RunOK(next) /\ SameCheck(stalled, next)
  BY <1>1, OtherChanges, FailedLemma
<1> HIDE DEF stalled
<1>3. SameCheck(s, next)
  BY <1>1, <1>2 DEF SameCheck
<1> HIDE DEF next
<1>4. Plain(s, CloseSweepIfDone(next)) /\ Plain(s, To(next, NoFx))
  BY <1>2, <1>3, ClosePlain, PlainTo DEF SameCheck
<1> QED
  BY <1>4, PlainUnchanged DEF OnTick, next, stalled

(* A stop or a landing: it may ask to cancel the jobs of the agents that are out. *)
LEMMA EndsMoved ==
  ASSUME NEW s, RunOK(s)
  PROVE  \A t \in {StopRun(s), LandRun(s)} : CheckKept(s, t) /\ FxOK(s, t.fx)
<1>1. HaltCancels(s) = JobCancels(s, {a \in DOMAIN s.agents : Live(s.agents[a])})
  BY DEF HaltCancels
<1>2. \A index, check \in BOOLEAN : FxOK(s, Fx(index, {}, check, HaltCancels(s)))
  BY <1>1 DEF FxOK, Fx
<1>3. \A index, check \in BOOLEAN : FxOK(s, Fx(index, {}, check, {}))
  BY NoCancels DEF FxOK, Fx
<1>4. FxOK(s, NoFx) /\ \A r, fx : To(r, fx).state = r /\ To(r, fx).fx = fx
  BY NoCancels, ToFacts DEF FxOK, Fx, NoFx
<1>5. \A status, steps :
        /\ SameCheck(s, [s EXCEPT !.status = status])
        /\ SameCheck(s, [Halted(s) EXCEPT !.status = status])
        /\ SameCheck(s, [Halted(s) EXCEPT !.status = status, !.steps = LandedSteps(@)])
  BY DEF Halted, RunOK, RunType, SameCheck
<1>6. \A r, fx : SameCheck(s, r) => CheckKept(s, To(r, fx))
  BY <1>4 DEF SameCheck, CheckKept
<1>7. CheckKept(s, Unchanged(s)) /\ FxOK(s, Unchanged(s).fx)
  BY <1>4 DEF Unchanged, CheckKept
<1> DEFINE stopped == [s EXCEPT !.status = "stopped"]
           halted == [Halted(s) EXCEPT !.status = "stopped"]
           landed == [Halted(s) EXCEPT !.status = "landed", !.steps = LandedSteps(@)]
           now == ReviewOutcome(landed) = "pending"
<1>8. SameCheck(s, stopped) /\ SameCheck(s, halted) /\ SameCheck(s, landed) /\ now \in BOOLEAN
  BY <1>5
<1>9. /\ StopRun(s) \in {To(stopped, Fx(TRUE, {}, FALSE, {})), Unchanged(s),
                          To(halted, Fx(TRUE, {}, TRUE, HaltCancels(s)))}
      /\ LandRun(s) \in {To(landed, Fx(TRUE, {}, now, HaltCancels(s))), Unchanged(s)}
  BY DEF StopRun, LandRun
<1> HIDE DEF stopped, halted, landed, now
<1> DEFINE OK(t) == CheckKept(s, t) /\ FxOK(s, t.fx)
<1>10. \A r, fx : SameCheck(s, r) /\ FxOK(s, fx) => OK(To(r, fx))
  BY <1>4, <1>6
<1>11. OK(Unchanged(s))
  BY <1>7
<1> HIDE DEF OK
<1>12. OK(StopRun(s))
  <2>1. OK(To(stopped, Fx(TRUE, {}, FALSE, {})))
    BY <1>3, <1>8, <1>10
  <2>2. OK(To(halted, Fx(TRUE, {}, TRUE, HaltCancels(s))))
    BY <1>2, <1>8, <1>10
  <2> QED
    BY <2>1, <2>2, <1>9, <1>11
<1>13. OK(LandRun(s))
  <2>1. OK(To(landed, Fx(TRUE, {}, now, HaltCancels(s))))
    BY <1>2, <1>8, <1>10
  <2> QED
    BY <2>1, <1>9, <1>11
<1> QED
  BY <1>12, <1>13 DEF OK

(* A retry, a bypass and an ask: a repost is asked for. *)
LEMMA AsksMoved ==
  ASSUME NEW s, RunOK(s), NEW target, NEW title
  PROVE  \A t \in {RetryAgents(s, target), BypassDesign(s), AskCheckRepost(s), OnRetitled(s, title)} :
           CheckKept(s, t) /\ FxOK(s, t.fx)
<1> DEFINE ids == RetryableAgents(s, target)
           reposts == s.checkReposts + 1
           Asked(r) == r.checkRunId = s.checkRunId /\ r.checkReposts = reposts
<1>1. ids \in SUBSET DOMAIN s.agents
  BY DEF RetryableAgents
<1>2. CheckKept(s, Unchanged(s)) /\ FxOK(s, Unchanged(s).fx)
  BY PlainUnchanged, PlainOK
<1>3. ASSUME NEW r, Asked(r), NEW index \in BOOLEAN,
             NEW agents \in SUBSET DOMAIN s.agents
      PROVE  LET t == To(r, Fx(index, agents, TRUE, JobCancels(s, agents)))
             IN CheckKept(s, t) /\ FxOK(s, t.fx)
  BY <1>3 DEF CheckKept, FxOK, To, Fx
<1>4. RetryAgents(s, target) = Unchanged(s) \/
        \E r : Asked(r) /\ RetryAgents(s, target) = To(r, Fx(TRUE, ids, TRUE, JobCancels(s, ids)))
  BY DEF RetryAgents, RunOK, RunType
<1>5. BypassDesign(s) = Unchanged(s) \/
        \E r : Asked(r) /\ BypassDesign(s) = To(r, Fx(TRUE, {}, TRUE, {}))
  BY DEF BypassDesign, RunOK, RunType
<1>6. AskCheckRepost(s) = Unchanged(s) \/
        \E r : Asked(r) /\ AskCheckRepost(s) = To(r, Fx(FALSE, {}, TRUE, {}))
  BY DEF AskCheckRepost, RunOK, RunType
<1>7. CheckKept(s, OnRetitled(s, title)) /\ FxOK(s, OnRetitled(s, title).fx)
  <2>1. Plain(s, To([s EXCEPT !.prTitle = title], Fx(TRUE, {}, FALSE, {})))
    BY PlainTo DEF RunOK, RunType
  <2> QED
    BY <2>1, <1>2, PlainOK DEF OnRetitled
<1> HIDE DEF Asked, ids
<1> QED
  BY <1>1, <1>2, <1>3, <1>4, <1>5, <1>6, <1>7, NoCancels

LEMMA KeptMoved ==
  ASSUME NEW s, NEW t, Kept(s, t), Good(t.state), CheckKept(s, t), FxOK(s, t.fx)
  PROVE  Moved(s, t)
  BY DEF Kept, Moved

(* A brief tells nothing new, whichever job of its agent asks for it. *)
LEMMA BriefMoved ==
  ASSUME NEW s, Good(s), Noted(s), NEW a, NEW job \in Nat
  PROVE  Moved(s, OnBriefed(s, a, job))
<1> DEFINE own == s.agents[a].retries + 1
           t == OnBriefed(s, a, own)
           r == OnBriefed(s, a, job)
<1>1. Good(r.state) /\ Plain(s, r)
  BY OnBriefedGood, ReportsMoved DEF Good
<1>2. Kept(s, t)
  BY OnBriefedKept
<1>3. /\ SameStep(t.state, r.state) /\ r.state.agents = t.state.agents
      /\ r.state.prTitle = t.state.prTitle /\ r.fx = t.fx
  BY DEF OnBriefed, SameStep, To, Unchanged, PatchAgent, Good, RunOK, RunType
<1> HIDE DEF t, r
<1>4. SameAgents(t.state, r.state) /\ Noted(t.state)
  BY <1>2, <1>3 DEF SameAgents, Kept
<1>5. /\ ReviewOutcome(r.state) = ReviewOutcome(t.state)
      /\ CheckRunOf(r.state) = CheckRunOf(t.state)
      /\ SummaryOf(r.state) = SummaryOf(t.state) /\ Noted(r.state)
  BY <1>3, <1>4, SameWrites
<1>6. CheckKept(s, r) /\ FxOK(s, r.fx)
  BY <1>1, PlainOK
<1>7. Concluded(s, r.state)
  BY <1>2, <1>3, <1>5 DEF Kept, Concluded, SameStep, Ended
<1>8. Moved(s, r)
  BY <1>1, <1>2, <1>3, <1>5, <1>6, <1>7 DEF Kept, Moved, SameStep
<1> QED
  BY <1>8 DEF r

(* The requests a task holds, of a run of these agents. *)
JobsOf(agents) == [agent : agents, attempt : Nat]
JobRequestsOf(agents) ==
  [kind : (JobKinds \ {"verdict"}) \union {"dispatched"}, job : JobsOf(agents)]
    \union [kind : {"verdict"}, job : JobsOf(agents), verdict : Verdicts]
RequestsOf(agents) ==
  JobRequestsOf(agents)
    \union [kind : {"stop", "land", "bypass", "repost", "tick"}]
    \union [kind : {"retitle"}, title : Title]
    \union [kind : {"retry"}, target : SUBSET agents]

LEMMA VerdictMoved ==
  ASSUME NEW s, Good(s), Noted(s), NEW a, NEW v \in Verdicts
  PROVE  Moved(s, OnVerdict(s, a, v))
<1>1. v.status \in AgentStatus /\ v.hazards \in Hazards
  BY VerdictsAssumption DEF IsVerdict, AgentStatus
<1>2. Plain(s, OnVerdict(s, a, v))
  BY <1>1, ReportsMoved, PlainUnchanged DEF OnVerdict, Good
<1> QED
  BY <1>2, PlainOK, OnVerdictGood, OnVerdictKept, KeptMoved

LEMMA HandledMoved ==
  ASSUME NEW s, Good(s), Noted(s), NEW request \in RequestsOf(DOMAIN s.agents)
  PROVE  Moved(s, Handled(request, s))
<1>0. RunOK(s)
  BY DEF Good
<1>1. ASSUME NEW a, NEW t \in {OnDispatched(s, a), OnEvents(s, a, 1), OnFailure(s, a),
        OnTranscript(s, a)}
      PROVE  Moved(s, t)
  <2>1. Plain(s, t)
    BY <1>0, <1>1, ReportsMoved
  <2>2. Good(t.state)
    BY <1>1, OnDispatchedGood, OnEventsGood, OnFailureGood, OnTranscriptGood
  <2>3. Kept(s, t)
    BY <1>1, OnDispatchedKept, OnEventsKept, OnFailureKept, OnTranscriptKept
  <2> QED
    BY <2>1, <2>2, <2>3, PlainOK, KeptMoved
<1>2. \A a : \A v \in Verdicts : Moved(s, OnVerdict(s, a, v))
  BY VerdictMoved
<1>3. Moved(s, OnTick(s))
  BY <1>0, TickMoved, PlainOK, OnTickGood, OnTickKept, KeptMoved
<1>4. Moved(s, StopRun(s)) /\ Moved(s, LandRun(s))
  BY <1>0, EndsMoved, StopRunGood, StopRunKept, LandRunGood, LandRunKept, KeptMoved
<1>5. \A target : Moved(s, RetryAgents(s, target))
  BY <1>0, AsksMoved, RetryAgentsGood, RetryAgentsKept, KeptMoved
<1>6. Moved(s, BypassDesign(s))
  BY <1>0, AsksMoved, BypassDesignGood, BypassDesignKept, KeptMoved
<1>7. Moved(s, AskCheckRepost(s)) /\ \A title \in Title : Moved(s, OnRetitled(s, title))
  <2>1. s.prTitle \in Title /\ 0 \in Nat
    BY <1>0 DEF RunOK, RunType
  <2>2. Good(AskCheckRepost(s).state) /\ \A title \in Title : Good(OnRetitled(s, title).state)
    BY <2>1, MarkersGood
  <2>3. Kept(s, AskCheckRepost(s)) /\ \A title : Kept(s, OnRetitled(s, title))
    BY MarkersKept
  <2>4. \A title, t : t \in {AskCheckRepost(s), OnRetitled(s, title)} =>
                        CheckKept(s, t) /\ FxOK(s, t.fx)
    BY <1>0, AsksMoved
  <2> QED
    BY <2>2, <2>3, <2>4, KeptMoved
<1>8. CASE request \in JobRequestsOf(DOMAIN s.agents)
  <2>1. request.job \in JobsOf(DOMAIN s.agents)
    BY <1>8 DEF JobRequestsOf
  <2>2. request.job.attempt \in Nat
    BY <2>1 DEF JobsOf
  <2>3. \/ request.kind \in {"brief", "events", "failure", "transcript", "dispatched"}
        \/ request.kind = "verdict" /\ request.verdict \in Verdicts
    BY <1>8 DEF JobRequestsOf, JobKinds
  <2> DEFINE a == request.job.agent
  <2>4. CASE request.kind = "brief"
    <3>1. Handled(request, s) = OnBriefed(s, a, request.job.attempt)
      BY <2>4 DEF Handled
    <3> QED
      BY <2>2, <3>1, BriefMoved
  <2>5. CASE request.kind = "verdict"
    <3>1. Handled(request, s) = OnVerdict(s, a, request.verdict)
      BY <2>5 DEF Handled
    <3> QED
      BY <2>3, <2>5, <3>1, <1>2
  <2>6. CASE request.kind \in {"events", "failure", "transcript", "dispatched"}
    <3>1. Handled(request, s) \in {OnDispatched(s, a), OnEvents(s, a, 1), OnFailure(s, a),
                                  OnTranscript(s, a)}
      BY <2>6 DEF Handled
    <3> QED
      BY <3>1, <1>1
  <2> QED
    BY <2>3, <2>4, <2>5, <2>6
<1>9. CASE request \notin JobRequestsOf(DOMAIN s.agents)
  <2>1. \/ request.kind \in {"stop", "land", "bypass", "repost", "tick", "retry"}
        \/ request.kind = "retitle" /\ request.title \in Title
    BY <1>9 DEF RequestsOf
  <2>2. CASE request.kind = "stop"
    BY <2>2, <1>4 DEF Handled
  <2>3. CASE request.kind = "land"
    BY <2>3, <1>4 DEF Handled
  <2>4. CASE request.kind = "bypass"
    BY <2>4, <1>6 DEF Handled
  <2>5. CASE request.kind = "repost"
    BY <2>5, <1>7 DEF Handled
  <2>6. CASE request.kind = "tick"
    BY <2>6, <1>3 DEF Handled
  <2>7. CASE request.kind = "retry"
    BY <2>7, <1>5 DEF Handled
  <2>8. CASE request.kind = "retitle"
    BY <2>1, <2>8, <1>7 DEF Handled
  <2> QED
    BY <2>1, <2>2, <2>3, <2>4, <2>5, <2>6, <2>7, <2>8
<1> QED
  BY <1>8, <1>9

-----------------------------------------------------------------------------
(* What a task has to do: sequences of operations. *)

LEMMA Least ==
  ASSUME NEW T \in SUBSET Nat, T # {}
  PROVE  Min(T) \in T /\ \A y \in T : Min(T) <= y
<1> DEFINE R == OpToRel(<, Nat)
<1>1. IsWellFoundedOn(R, Nat)
  BY NatLessThanWellFounded
<1>2. \A x, y \in Nat : x < y => <<x, y>> \in R
  BY DEF OpToRel
<1> HIDE DEF R
<1>3. PICK x \in T : \A y \in T : ~(<<y, x>> \in R)
  BY <1>1, WFMin
<1>4. \A y \in T : ~(y < x)
  BY <1>2, <1>3
<1>5. \E n \in T : \A y \in T : n <= y
  BY <1>4
<1> QED
  BY <1>5 DEF Min

LEMMA Concat ==
  ASSUME NEW S, NEW s \in Seq(S), NEW t \in Seq(S)
  PROVE  /\ s \o t \in Seq(S) /\ Len(s \o t) = Len(s) + Len(t)
         /\ \A i \in 1 .. Len(s) : (s \o t)[i] = s[i]
OBVIOUS

LEMMA Suffix ==
  ASSUME NEW S, NEW s \in Seq(S), NEW k \in 1 .. Len(s)
  PROVE  LET r == SubSeq(s, k, Len(s))
         IN r \in Seq(S) /\ r # <<>> /\ r[1] = s[k] /\ Head(r) = s[k]
<1> DEFINE r == SubSeq(s, k, Len(s))
<1>1. r \in Seq(S) /\ Len(r) = Len(s) - k + 1
  OBVIOUS
<1>2. r[1] = s[k]
  OBVIOUS
<1> HIDE DEF r
<1>3. r # <<>> /\ Head(r) = r[1]
  BY <1>1
<1> QED
  BY <1>1, <1>2, <1>3 DEF r

(* A finite set, put in some order. *)
LEMMA SetToSeqOK ==
  ASSUME NEW S, IsFiniteSet(S)
  PROVE  SetToSeq(S) \in Seq(S)
<1>1. Cardinality(S) \in Nat /\ ExistsBijection(1..Cardinality(S), S)
  BY FS_CardinalityType
<1>2. \E f \in [1..Cardinality(S) -> S] : IsInjective(f)
  BY <1>1 DEF ExistsBijection, Bijection, Injection, IsInjective
<1>3. SetToSeq(S) \in [1..Cardinality(S) -> S]
  BY <1>2 DEF SetToSeq
<1> QED
  BY <1>1, <1>3

LEMMA CancelsFinite ==
  ASSUME NEW s, NEW agents, IsFiniteSet(agents)
  PROVE  IsFiniteSet({<<"cancel", j>> : j \in JobCancels(s, agents)})
<1> DEFINE own == {a \in agents : s.jobRuns[a] # NoJob}
           all == {<<"cancel", j>> : j \in JobCancels(s, agents)}
           f == [a \in own |-> <<"cancel", [agent |-> a, job |-> s.jobRuns[a]]>>]
<1>1. IsFiniteSet(own)
  BY FS_Subset
<1>2. \A j : j \in JobCancels(s, agents) <=> \E a \in own : j = [agent |-> a, job |-> s.jobRuns[a]]
  BY DEF JobCancels
<1>3. f \in Surjection(own, all)
  BY <1>2 DEF Surjection
<1> QED
  BY <1>1, <1>3, FS_Surjection

LEMMA DispatchesFinite ==
  ASSUME NEW agents, IsFiniteSet(agents)
  PROVE  IsFiniteSet({<<"dispatch", a>> : a \in agents})
<1> DEFINE all == {<<"dispatch", a>> : a \in agents}
           f == [a \in agents |-> <<"dispatch", a>>]
<1>1. f \in Surjection(agents, all)
  BY DEF Surjection
<1> QED
  BY <1>1, FS_Surjection

(* The operations a task may have ahead, and the sync only its first can be. *)
EffectOps(agents) ==
  {<<"index">>, <<"check">>, <<"checkDone">>}
    \union {<<"dispatch", a>> : a \in agents}
    \union {<<"cancel", j>> : j \in [agent : agents, job : Nat]}
Ops(agents) ==
  EffectOps(agents) \union {<<"retryCheck">>}
    \union {<<"apply", request>> : request \in RequestsOf(agents)}
    \union {<<"admit", request>> : request \in JobRequestsOf(agents)}
Sync == <<"sync">>

LEMMA OpFacts ==
  ASSUME NEW agents, NEW op \in Ops(agents)
  PROVE  /\ op # Sync /\ op[1] # "sync"
         /\ op[1] = "apply" => op[2] \in RequestsOf(agents)
         /\ op[1] = "dispatch" => op[2] \in agents
         /\ op[1] = "index" => op = <<"index">>
  BY DEF Ops, EffectOps, Sync

LEMMA EffectsOK ==
  ASSUME NEW s, RunOK(s), NEW fx, FxOK(s, fx)
  PROVE  EffectsOf(fx) \in Seq(EffectOps(DOMAIN s.agents)) \cap Seq(Ops(DOMAIN s.agents))
<1> DEFINE D == DOMAIN s.agents
           S == EffectOps(D)
           dispatches == {<<"dispatch", a>> : a \in fx.dispatch}
           cancels == {<<"cancel", j>> : j \in fx.cancel}
<1>1. IsFiniteSet(D)
  BY FiniteAssumption, FS_Subset DEF RunOK
<1>2. SetToSeq(dispatches) \in Seq(S)
  <2>1. fx.dispatch \in SUBSET D
    BY DEF FxOK
  <2>2. IsFiniteSet(fx.dispatch)
    BY <1>1, <2>1, FS_Subset
  <2>3. SetToSeq(dispatches) \in Seq(dispatches)
    BY <2>2, DispatchesFinite, SetToSeqOK
  <2>4. dispatches \subseteq S
    BY <2>1 DEF EffectOps
  <2> HIDE DEF dispatches, S
  <2> QED
    BY <2>3, <2>4
<1>3. SetToSeq(cancels) \in Seq(S)
  <2>1. PICK agents \in SUBSET D : fx.cancel = JobCancels(s, agents)
    BY DEF FxOK
  <2>2. IsFiniteSet(agents)
    BY <1>1, <2>1, FS_Subset
  <2>3. SetToSeq(cancels) \in Seq(cancels)
    BY <2>1, <2>2, CancelsFinite, SetToSeqOK
  <2>4. fx.cancel \subseteq [agent : D, job : Nat]
    BY <2>1 DEF JobCancels, RunOK, RunType
  <2>5. cancels \subseteq S
    BY <2>4 DEF EffectOps
  <2> HIDE DEF cancels, S
  <2> QED
    BY <2>3, <2>5
<1>4. \A op \in {<<"index">>, <<"check">>, <<"checkDone">>} : <<op>> \in Seq(S) /\ <<>> \in Seq(S)
  <2>1. <<"index">> \in S /\ <<"check">> \in S /\ <<"checkDone">> \in S
    BY DEF EffectOps
  <2> HIDE DEF S
  <2> QED
    BY <2>1
<1>5. EffectsOf(fx) = (IF fx.index THEN <<<<"index">>>> ELSE <<>>)
         \o SetToSeq(dispatches) \o (IF fx.check THEN <<<<"check">>>> ELSE <<>>)
         \o SetToSeq(cancels) \o (IF fx.check THEN <<<<"checkDone">>>> ELSE <<>>)
  BY DEF EffectsOf
<1> DEFINE index == IF fx.index THEN <<<<"index">>>> ELSE <<>>
           check == IF fx.check THEN <<<<"check">>>> ELSE <<>>
           done == IF fx.check THEN <<<<"checkDone">>>> ELSE <<>>
           dispatch == SetToSeq(dispatches)
           cancel == SetToSeq(cancels)
<1>6. index \in Seq(S) /\ check \in Seq(S) /\ done \in Seq(S)
  BY <1>4
<1> HIDE DEF S, index, check, done, dispatch, cancel
<1>7. index \o dispatch \in Seq(S)
  BY <1>2, <1>6, Concat DEF dispatch
<1>8. index \o dispatch \o check \in Seq(S)
  BY <1>6, <1>7, Concat
<1>9. index \o dispatch \o check \o cancel \in Seq(S)
  BY <1>3, <1>8, Concat DEF cancel
<1>10. index \o dispatch \o check \o cancel \o done \in Seq(S)
  BY <1>6, <1>9, Concat
<1>11. EffectsOf(fx) \in Seq(S)
  BY <1>5, <1>10 DEF index, check, done, dispatch, cancel
<1>12. S \subseteq Ops(D)
  BY DEF S, Ops
<1>13. \A seq \in Seq(S) : seq \in Seq(Ops(D))
  <2> HIDE DEF D
  <2> QED
    BY <1>12
<1> QED
  BY <1>11, <1>13 DEF S

-----------------------------------------------------------------------------
(* The inductive invariant *)

AnyOutcome == {"ok", "refused", "lost"}
IoOf(agents) ==
  [kind : {"index"}, fresh : BOOLEAN, outcome : AnyOutcome]
    \union [kind : {"create"}, fresh : BOOLEAN, outcome : AnyOutcome,
            read : RunType(agents), id : CheckIds]
    \union [kind : {"update"}, fresh : BOOLEAN, outcome : AnyOutcome, read : {None}, id : CheckIds]
    \union [kind : {"replace"}, fresh : BOOLEAN]
    \union [kind : {"dispatch"}, job : JobsOf(agents), outcome : AnyOutcome]
    \union [kind : {"cancel", "nonce"}]

(* What a task awaits is what its next operation asks for; a nonce comes before them all. *)
Fits(task) ==
  IF task.io.kind = "nonce" THEN ~task.tick /\ Head(task.todo) # Sync
  ELSE Head(task.todo)[1] = IF task.io.kind \in CheckWrites THEN "sync" ELSE task.io.kind

TaskOK(agents, task) ==
  /\ task \in [todo : Seq(Ops(agents) \union {Sync}), io : IoOf(agents) \union {None},
               tick : BOOLEAN]
  /\ task.todo = <<>> => task = Idle
  /\ task.todo # <<>> => Tail(task.todo) \in Seq(Ops(agents))
  /\ task.io # None => Fits(task)

Syncing(task) == task.todo # <<>> /\ Head(task.todo) = Sync

(* The run is a good one, and the calls under way hold what the handlers take. *)
Stored == Good(stored) /\ Noted(stored) /\ jobs \in SUBSET JobsOf(DOMAIN stored.agents)
Marks ==
  indexPending \in BOOLEAN /\ checkPending \in BOOLEAN /\ alarm \in {"deadline", "retry", "none"}
Tasks ==
  /\ running \in Task \union {None}
  /\ tasks = [t \in Task |-> tasks[t]]
  /\ \A t \in Task : TaskOK(DOMAIN stored.agents, tasks[t])
  /\ running \in Task => tasks[running].io = None

(* Only the head of the queue writes the check run, while the mark is set. *)
Queued ==
  /\ checkSyncs \in Seq(Task) /\ IsInjective(checkSyncs)
  /\ ToSet(checkSyncs) = {t \in Task : Syncing(tasks[t])}
  /\ \A t \in Task : tasks[t].io # None /\ tasks[t].io.kind \in CheckWrites =>
       checkPending /\ checkSyncs # <<>> /\ t = Head(checkSyncs)

(* An index write that may clear the mark wrote what the run's state still says. *)
RowIs ==
  /\ ~indexPending => row = SummaryOf(stored)
  /\ \A t \in Task : LET io == tasks[t].io IN
       io # None /\ io.kind = "index" /\ io.outcome = "ok" /\ io.fresh => row = SummaryOf(stored)

(* A check write that may clear the mark wrote what the state still concludes, on the newest     *)
(* check run; and what the run holds is the newest, unless a repost is asked for.                *)
Says(now, id, check) == check = [id |-> id, check |-> CheckRunOf(now)]
WriteOK(now, io, check) ==
  /\ io.kind = "update" /\ io.outcome = "ok" /\ io.fresh => Says(now, now.checkRunId, check)
  /\ io.kind = "replace" /\ io.fresh => Says(now, now.checkRunId, check)
  /\ io.kind = "create" /\ io.outcome = "ok" =>
       /\ io.read.checkReposts <= now.checkReposts
       /\ io.read.checkReposts = now.checkReposts => check.id = io.id
       /\ io.fresh => io.read.checkReposts = now.checkReposts /\ Says(now, io.id, check)
       /\ io.read.checkRunId = NoCheck <=> now.checkRunId = NoCheck
       /\ io.read.checkReposts = 0 => io.read.checkRunId = NoCheck
CheckIs ==
  /\ newest.id \in CheckIds \union {NoCheck} /\ stored.checkRunId \in CheckIds \union {NoCheck}
  /\ stored.checkRunId # NoCheck /\ stored.checkReposts = 0 => newest.id = stored.checkRunId
  /\ ~checkPending /\ WantsCheck(stored) => Says(stored, stored.checkRunId, newest)
  /\ \A t \in Task : tasks[t].io # None => WriteOK(stored, tasks[t].io, newest)

(* The alarm of a row still owed is gone only while its handler is at the write. *)
Alarmed ==
  indexPending /\ alarm = "none" =>
    \E t \in Task : tasks[t].tick /\ tasks[t].todo # <<>> /\ Head(tasks[t].todo) = <<"index">>

Inv == Stored /\ Marks /\ Tasks /\ Queued /\ RowIs /\ CheckIs /\ Alarmed

LEMMA IdleOK == \A agents : TaskOK(agents, Idle) /\ ~Syncing(Idle)
<1>1. \A S : <<>> \in Seq(S)
  OBVIOUS
<1> QED
  BY <1>1 DEF TaskOK, Idle, Syncing

(* The operations of a task whose next one is not a sync. *)
LEMMA TodoLemma ==
  ASSUME NEW agents, NEW task, TaskOK(agents, task), task.todo # <<>>
  PROVE  /\ Head(task.todo) \in Ops(agents) \union {Sync}
         /\ Head(task.todo) # Sync => task.todo \in Seq(Ops(agents))
         /\ Tail(task.todo) \in Seq(Ops(agents))
         /\ task.todo \in Seq(Ops(agents) \union {Sync})
         /\ Head(task.todo) = task.todo[1] /\ Len(task.todo) > 0
<1> DEFINE S == Ops(agents)
           todo == task.todo
<1>1. todo \in Seq(S \union {Sync}) /\ Tail(todo) \in Seq(S)
  BY DEF TaskOK
<1> HIDE DEF S, todo
<1>2. todo # <<>>
  BY DEF todo
<1>3. Head(todo) \in S \union {Sync} /\ todo = <<Head(todo)>> \o Tail(todo) /\ Head(todo) = todo[1]
      /\ Len(todo) > 0
  BY <1>1, <1>2
<1>4. Head(todo) # Sync => todo \in Seq(S)
  BY <1>1, <1>3
<1> QED
  BY <1>1, <1>3, <1>4 DEF S, todo

-----------------------------------------------------------------------------
(* A task that goes on: it is done or runs its next operation, and of the others only the        *)
(* freshness of a write of these kinds may have changed.                                         *)

Aged(old, new, kinds) ==
  IF old.io # None /\ old.io.kind \in kinds THEN new = [old EXCEPT !.io.fresh = FALSE] ELSE new = old

Went(t, kinds, agents) ==
  /\ tasks' = [u \in Task |-> tasks'[u]]
  /\ \A u \in Task \ {t} : Aged(tasks[u], tasks'[u], kinds)
  /\ \/ tasks'[t] = Idle /\ running' = None
     \/ /\ tasks'[t] \in [todo : Seq(Ops(agents)), io : {None}, tick : BOOLEAN]
        /\ tasks'[t].todo # <<>> /\ running' = t

Writes == IndexWrites \union CheckWrites

LEMMA AgedLemma ==
  ASSUME NEW agents, NEW old, TaskOK(agents, old), NEW kinds \in SUBSET Writes, NEW new,
         Aged(old, new, kinds)
  PROVE  /\ TaskOK(agents, new) /\ new.todo = old.todo /\ new.tick = old.tick
         /\ old.io = None => new.io = None
         /\ new.io # None =>
              /\ old.io # None /\ new.io.kind = old.io.kind
              /\ new.io = old.io \/ ~new.io.fresh
              /\ new.io.kind \in kinds => ~new.io.fresh
              /\ new.io.kind \in {"index", "create", "update"} => new.io.outcome = old.io.outcome
              /\ new.io.kind = "create" => new.io.read = old.io.read /\ new.io.id = old.io.id
<1>1. CASE old.io # None /\ old.io.kind \in kinds
  <2> DEFINE io == [old.io EXCEPT !.fresh = FALSE]
  <2>1. old.io \in IoOf(agents) /\ old.io.kind \in Writes
    BY <1>1 DEF TaskOK
  <2>2. /\ io \in IoOf(agents) /\ io.kind = old.io.kind /\ ~io.fresh
        /\ io.kind \in {"index", "create", "update"} => io.outcome = old.io.outcome
        /\ io.kind = "create" => io.read = old.io.read /\ io.id = old.io.id
    BY <2>1 DEF IoOf, Writes, IndexWrites, CheckWrites
  <2>3. new = [old EXCEPT !.io = io]
    BY <1>1 DEF Aged
  <2> HIDE DEF io
  <2>4. new.io = io /\ new.todo = old.todo /\ new.tick = old.tick
    BY <2>3 DEF TaskOK
  <2>5. TaskOK(agents, new)
    <3>1. new \in [todo : Seq(Ops(agents) \union {Sync}), io : IoOf(agents) \union {None},
                   tick : BOOLEAN]
      BY <2>2, <2>3 DEF TaskOK
    <3>2. new.todo = <<>> => new = Idle
      BY <1>1, <2>4 DEF TaskOK, Idle
    <3>3. Fits(old) => Fits(new)
      BY <2>2, <2>4 DEF Fits
    <3> QED
      BY <1>1, <2>4, <3>1, <3>2, <3>3 DEF TaskOK
  <2> QED
    BY <1>1, <2>2, <2>4, <2>5
<1>2. CASE ~(old.io # None /\ old.io.kind \in kinds)
  BY <1>2 DEF Aged
<1> QED
  BY <1>1, <1>2

LEMMA OutdatedLemma ==
  ASSUME NEW all, NEW kinds, NEW t \in Task
  PROVE  Aged(all[t], Outdated(all, kinds)[t], kinds)
  BY DEF Outdated, Aged

LEMMA OutdatedTwice ==
  ASSUME NEW agents, NEW all, \A t \in Task : TaskOK(agents, all[t]),
         NEW first \in {{}, IndexWrites}, NEW second \in {{}, CheckWrites}, NEW t \in Task
  PROVE  Aged(all[t], Outdated(Outdated(all, first), second)[t], first \union second)
<1> DEFINE old == all[t]
           mid == Outdated(all, first)[t]
           new == Outdated(Outdated(all, first), second)[t]
<1>1. Aged(old, mid, first) /\ Aged(mid, new, second)
  BY OutdatedLemma
<1>2. first \in SUBSET Writes /\ TaskOK(agents, old)
  BY DEF Writes
<1>3. CASE old.io # None /\ old.io.kind \in first
  <2>1. mid = [old EXCEPT !.io.fresh = FALSE]
    BY <1>1, <1>3 DEF Aged
  <2>2. old.io \in IoOf(agents) /\ old.io.kind = "index"
    BY <1>2, <1>3 DEF TaskOK, IndexWrites
  <2>3. mid.io.kind = "index"
    BY <2>1, <2>2, <1>2 DEF TaskOK, IoOf
  <2>4. new = mid
    BY <1>1, <2>3 DEF Aged, CheckWrites
  <2> QED
    BY <1>3, <2>1, <2>4 DEF Aged
<1>4. CASE ~(old.io # None /\ old.io.kind \in first)
  BY <1>1, <1>4 DEF Aged
<1> QED
  BY <1>3, <1>4

(* goesOn: the next operation is an index write when one is owed and comes first. *)
LEMMA GoesOnLemma ==
  ASSUME NEW S, NEW todo \in Seq(S), NEW t \in Task, NEW all, NEW index, NEW check,
         GoesOnIn(all, t, todo, index, check)
  PROVE  \/ /\ tasks' = [all EXCEPT ![t] = Idle] /\ running' = None
            /\ ~(index /\ todo # <<>> /\ Head(todo) = <<"index">>)
         \/ \E k \in 1 .. Len(todo) :
              /\ tasks' = [all EXCEPT ![t] =
                             [@ EXCEPT !.todo = SubSeq(todo, k, Len(todo)), !.io = None]]
              /\ running' = t
              /\ index /\ todo # <<>> /\ Head(todo) = <<"index">> => k = 1
<1> DEFINE Nothing(i) ==
             \/ todo[i] = <<"index">> /\ ~index
             \/ /\ todo[i] = <<"retryCheck">>
                /\ \/ ~check
                   \/ OwesCheck(SubSeq(todo, i, Len(todo)))
                   \/ \E u \in Task \ {t} : OwesCheck(all[u].todo)
             \/ todo[i] = <<"checkDone">>
           acts == {i \in DOMAIN todo : ~Nothing(i)}
<1>1. /\ tasks' = [all EXCEPT ![t] =
                     IF acts = {} THEN Idle
                     ELSE [@ EXCEPT !.todo = SubSeq(todo, Min(acts), Len(todo)), !.io = None]]
      /\ running' = IF acts = {} THEN None ELSE t
  BY DEF GoesOnIn
<1>2. DOMAIN todo = 1 .. Len(todo) /\ Len(todo) \in Nat
  OBVIOUS
<1>3. todo # <<>> => 1 \in DOMAIN todo /\ Head(todo) = todo[1]
  OBVIOUS
<1>4. index /\ todo # <<>> /\ Head(todo) = <<"index">> => 1 \in acts
  BY <1>3
<1>5. acts \in SUBSET Nat /\ acts \subseteq 1 .. Len(todo)
  BY <1>2
<1> HIDE DEF acts
<1>6. CASE acts = {}
  BY <1>1, <1>4, <1>6
<1>7. CASE acts # {}
  <2>1. Min(acts) \in acts /\ \A i \in acts : Min(acts) <= i
    BY <1>5, <1>7, Least
  <2>2. Min(acts) \in 1 .. Len(todo)
    BY <1>5, <2>1
  <2>3. 1 \in acts => Min(acts) = 1
    BY <2>1, <2>2, <1>2
  <2> QED
    BY <1>1, <1>4, <1>7, <2>2, <2>3
<1> QED
  BY <1>6, <1>7

LEMMA GoesOnWent ==
  ASSUME Tasks, NEW agents, NEW todo \in Seq(Ops(agents)), NEW t \in Task, NEW kinds,
         NEW all, all = [u \in Task |-> all[u]],
         \A u \in Task \ {t} : Aged(tasks[u], all[u], kinds),
         NEW T1, NEW T2, all[t] \in [todo : T1, io : T2, tick : BOOLEAN], NEW index, NEW check,
           GoesOnIn(all, t, todo, index, check)
  PROVE  /\ Went(t, kinds, agents)
         /\ index /\ todo # <<>> /\ Head(todo) = <<"index">> =>
              Head(tasks'[t].todo) = <<"index">> /\ tasks'[t].tick = all[t].tick /\ running' = t
<1> DEFINE next(k) == [all[t] EXCEPT !.todo = SubSeq(todo, k, Len(todo)), !.io = None]
<1>1. \A k \in 1 .. Len(todo) :
        /\ SubSeq(todo, k, Len(todo)) \in Seq(Ops(agents)) /\ SubSeq(todo, k, Len(todo)) # <<>>
        /\ Head(SubSeq(todo, k, Len(todo))) = todo[k]
  BY Suffix
<1>2. \A rest \in Seq(Ops(agents)) :
        LET new == [all[t] EXCEPT !.todo = rest, !.io = None]
        IN /\ new \in [todo : Seq(Ops(agents)), io : {None}, tick : BOOLEAN]
           /\ new.todo = rest /\ new.tick = all[t].tick
  <2> HIDE DEF next
  <2> DEFINE S == Seq(Ops(agents))
  <2>1. \A rest \in S : LET new == [all[t] EXCEPT !.todo = rest, !.io = None]
        IN /\ new \in [todo : S, io : {None}, tick : BOOLEAN]
           /\ new.todo = rest /\ new.tick = all[t].tick
    <3> HIDE DEF S
    <3> QED OBVIOUS
  <2> QED
    BY <2>1
<1>3. CASE tasks' = [all EXCEPT ![t] = Idle] /\ running' = None
           /\ ~(index /\ todo # <<>> /\ Head(todo) = <<"index">>)
  BY <1>3 DEF Went
<1>4. ASSUME NEW k \in 1 .. Len(todo), tasks' = [all EXCEPT ![t] = next(k)], running' = t,
             index /\ todo # <<>> /\ Head(todo) = <<"index">> => k = 1
      PROVE  /\ Went(t, kinds, agents)
             /\ index /\ todo # <<>> /\ Head(todo) = <<"index">> =>
                  Head(tasks'[t].todo) = <<"index">> /\ tasks'[t].tick = all[t].tick /\ running' = t
  <2>1. tasks'[t] = next(k)
    BY <1>4
  <2>2. \A u \in Task \ {t} : tasks'[u] = all[u]
    BY <1>4
  <2>3. tasks' = [u \in Task |-> tasks'[u]]
    BY <1>4
  <2>4. /\ tasks'[t] \in [todo : Seq(Ops(agents)), io : {None}, tick : BOOLEAN]
        /\ tasks'[t].todo # <<>> /\ tasks'[t].tick = all[t].tick /\ Head(tasks'[t].todo) = todo[k]
    <3> DEFINE rest == SubSeq(todo, k, Len(todo))
    <3>1. tasks'[t] = [all[t] EXCEPT !.todo = rest, !.io = None]
      BY <2>1
    <3>2. rest \in Seq(Ops(agents)) /\ rest # <<>> /\ Head(rest) = todo[k]
      BY <1>1
    <3> HIDE DEF rest
    <3> QED
      BY <1>2, <3>1, <3>2
  <2>5. k = 1 => todo[k] = Head(todo)
    BY <1>4
  <2> QED
    BY <1>4, <2>2, <2>3, <2>4, <2>5 DEF Went
<1> QED
  BY <1>3, <1>4, GoesOnLemma

-----------------------------------------------------------------------------
(* What a task's going on keeps *)

(* Every io in flight was in flight, and is fresh only if it was and is not of these kinds. *)
IosKept(kinds) ==
  \A u \in Task : tasks'[u].io # None =>
    /\ tasks[u].io # None /\ tasks'[u].io.kind = tasks[u].io.kind
    /\ tasks'[u].io = tasks[u].io \/ ~tasks'[u].io.fresh
    /\ tasks'[u].io.kind \in kinds => ~tasks'[u].io.fresh
    /\ tasks'[u].io.kind \in {"index", "create", "update"} =>
         tasks'[u].io.outcome = tasks[u].io.outcome
    /\ tasks'[u].io.kind = "create" =>
         tasks'[u].io.read = tasks[u].io.read /\ tasks'[u].io.id = tasks[u].io.id

LEMMA WentLemma ==
  ASSUME Tasks, NEW t \in Task, NEW kinds \in SUBSET Writes,
         Went(t, kinds, DOMAIN stored.agents), DOMAIN stored'.agents = DOMAIN stored.agents
  PROVE  /\ Tasks' /\ IosKept(kinds)
         /\ \A u \in Task \ {t} : Syncing(tasks'[u]) <=> Syncing(tasks[u])
         /\ ~Syncing(tasks'[t]) /\ tasks'[t].io = None
         /\ \A u \in Task \ {t} : tasks'[u].todo = tasks[u].todo /\ tasks'[u].tick = tasks[u].tick
<1> DEFINE D == DOMAIN stored.agents
<1>1. ASSUME NEW u \in Task \ {t}
      PROVE  /\ TaskOK(D, tasks'[u]) /\ tasks'[u].todo = tasks[u].todo
             /\ tasks'[u].tick = tasks[u].tick
  BY <1>1, AgedLemma DEF Tasks, Went
<1>2. TaskOK(D, tasks'[t]) /\ ~Syncing(tasks'[t]) /\ tasks'[t].io = None
  <2>1. CASE tasks'[t] = Idle
    <3>1. Idle.io = None
      BY DEF Idle
    <3>2. TaskOK(D, Idle) /\ ~Syncing(Idle)
      BY IdleOK
    <3> QED
      BY <2>1, <3>1, <3>2
  <2>2. CASE tasks'[t] # Idle
    <3> DEFINE todo == tasks'[t].todo
               S == Ops(D)
    <3>1. tasks'[t] \in [todo : Seq(S), io : {None}, tick : BOOLEAN] /\ todo # <<>>
      BY <2>2 DEF Went
    <3>2. todo \in Seq(S)
      BY <3>1
    <3>3. Sync \notin S
      BY OpFacts
    <3> HIDE DEF todo, S
    <3>4. Head(todo) \in S /\ Tail(todo) \in Seq(S) /\ todo \in Seq(S \union {Sync})
      BY <3>1, <3>2 DEF todo
    <3>5. tasks'[t] \in [todo : Seq(S \union {Sync}), io : IoOf(D) \union {None}, tick : BOOLEAN]
      BY <3>1, <3>4 DEF todo
    <3>6. ~Syncing(tasks'[t]) /\ tasks'[t].io = None
      BY <3>1, <3>3, <3>4 DEF Syncing, todo
    <3>7. Tail(tasks'[t].todo) \in Seq(Ops(D)) /\ tasks'[t].todo # <<>>
      BY <3>1, <3>4 DEF S, todo
    <3>8. tasks'[t] \in [todo : Seq(Ops(D) \union {Sync}), io : IoOf(D) \union {None},
                         tick : BOOLEAN]
      BY <3>5 DEF S
    <3> HIDE DEF D
    <3> QED
      BY <3>6, <3>7, <3>8 DEF TaskOK
  <2> QED
    BY <2>1, <2>2
<1>3. Tasks'
  <2>1. running' \in Task \union {None} /\ (running' \in Task => tasks'[running'].io = None)
    BY <1>2, RunDOAssumption DEF Went
  <2>2. \A u \in Task : TaskOK(DOMAIN stored'.agents, tasks'[u])
    BY <1>1, <1>2
  <2>3. tasks' = [u \in Task |-> tasks'[u]]
    BY DEF Went
  <2> QED
    BY <2>1, <2>2, <2>3 DEF Tasks
<1>4. IosKept(kinds)
  <2>1. \A u \in Task \ {t} : TaskOK(D, tasks[u]) /\ Aged(tasks[u], tasks'[u], kinds)
    BY DEF Tasks, Went
  <2> HIDE DEF D
  <2> SUFFICES ASSUME NEW u \in Task, tasks'[u].io # None
               PROVE  /\ tasks[u].io # None /\ tasks'[u].io.kind = tasks[u].io.kind
                      /\ tasks'[u].io = tasks[u].io \/ ~tasks'[u].io.fresh
                      /\ tasks'[u].io.kind \in kinds => ~tasks'[u].io.fresh
                      /\ tasks'[u].io.kind \in {"index", "create", "update"} =>
                           tasks'[u].io.outcome = tasks[u].io.outcome
                      /\ tasks'[u].io.kind = "create" =>
                           tasks'[u].io.read = tasks[u].io.read /\ tasks'[u].io.id = tasks[u].io.id
    BY DEF IosKept
  <2>2. u \in Task \ {t}
    BY <1>2
  <2> QED
    BY <2>1, <2>2, AgedLemma
<1>5. \A u \in Task \ {t} : Syncing(tasks'[u]) <=> Syncing(tasks[u])
  BY <1>1 DEF Syncing
<1> QED
  BY <1>1, <1>2, <1>3, <1>4, <1>5

(* A task not at its sync goes on: the queue stays. *)
LEMMA QueueStays ==
  ASSUME Tasks, Queued, NEW t \in Task, NEW kinds \in SUBSET Writes,
         Went(t, kinds, DOMAIN stored.agents), DOMAIN stored'.agents = DOMAIN stored.agents,
         ~Syncing(tasks[t]), checkSyncs' = checkSyncs, checkPending => checkPending'
  PROVE  Queued'
<1>1. /\ IosKept(kinds) /\ ~Syncing(tasks'[t])
      /\ \A u \in Task \ {t} : Syncing(tasks'[u]) <=> Syncing(tasks[u])
  BY WentLemma
<1>2. {u \in Task : Syncing(tasks'[u])} = {u \in Task : Syncing(tasks[u])}
  BY <1>1
<1>3. \A u \in Task : tasks'[u].io # None /\ tasks'[u].io.kind \in CheckWrites =>
        tasks[u].io # None /\ tasks[u].io.kind \in CheckWrites
  BY <1>1 DEF IosKept
<1> QED
  BY <1>2, <1>3 DEF Queued

(* The sync at the head of the queue ends: the queue moves up, and nobody is at a write. *)
LEMMA QueueMoves ==
  ASSUME Tasks, Queued, NEW t \in Task, NEW kinds \in SUBSET Writes,
         Went(t, kinds, DOMAIN stored.agents), DOMAIN stored'.agents = DOMAIN stored.agents,
         checkSyncs # <<>>, t = Head(checkSyncs), checkSyncs' = Tail(checkSyncs)
  PROVE  Queued'
<1>1. /\ IosKept(kinds) /\ ~Syncing(tasks'[t]) /\ tasks'[t].io = None
      /\ \A u \in Task \ {t} : Syncing(tasks'[u]) <=> Syncing(tasks[u])
  BY WentLemma
<1>2. /\ checkSyncs' \in Seq(Task) /\ IsInjective(checkSyncs')
      /\ ToSet(checkSyncs') = ToSet(checkSyncs) \ {t}
  <2> DEFINE q == checkSyncs
  <2>1. q \in Seq(Task) /\ q # <<>> /\ t = Head(q) /\ \A a, b \in DOMAIN q : q[a] = q[b] => a = b
    BY DEF Queued, IsInjective
  <2>2. /\ Tail(q) \in Seq(Task) /\ Len(Tail(q)) = Len(q) - 1
        /\ \A i \in 1 .. Len(Tail(q)) : Tail(q)[i] = q[i + 1]
        /\ DOMAIN q = 1 .. Len(q) /\ DOMAIN Tail(q) = 1 .. Len(Tail(q)) /\ q[1] = t /\ Len(q) \in Nat
    BY <2>1
  <2> HIDE DEF q
  <2>3. ASSUME NEW a \in DOMAIN Tail(q), NEW b \in DOMAIN Tail(q), Tail(q)[a] = Tail(q)[b]
        PROVE  a = b
    BY <2>1, <2>2, <2>3
  <2>4. ASSUME NEW a \in DOMAIN Tail(q)
        PROVE  a + 1 \in DOMAIN q /\ a + 1 # 1 /\ Tail(q)[a] = q[a + 1] /\ Tail(q)[a] # t
    BY <2>1, <2>2
  <2>5. ASSUME NEW a \in DOMAIN q, q[a] # t
        PROVE  a - 1 \in DOMAIN Tail(q) /\ Tail(q)[a - 1] = q[a]
    BY <2>2, <2>5
  <2>6. ASSUME NEW v PROVE v \in ToSet(Tail(q)) <=> v \in ToSet(q) /\ v # t
    <3>1. v \in ToSet(Tail(q)) <=> \E a \in DOMAIN Tail(q) : v = Tail(q)[a]
      BY DEF ToSet
    <3>2. v \in ToSet(q) <=> \E a \in DOMAIN q : v = q[a]
      BY DEF ToSet
    <3> QED
      BY <2>4, <2>5, <3>1, <3>2
  <2> QED
    BY <2>2, <2>3, <2>6 DEF IsInjective, q
<1>3. {u \in Task : Syncing(tasks'[u])} = {u \in Task : Syncing(tasks[u])} \ {t}
  BY <1>1
<1>4. \A u \in Task : ~(tasks'[u].io # None /\ tasks'[u].io.kind \in CheckWrites)
  BY <1>1 DEF IosKept, Queued
<1> QED
  BY <1>2, <1>3, <1>4 DEF Queued

(* What the row says stays true, or a write of it is owed again and none under way may settle it. *)
LEMMA RowStays ==
  ASSUME RowIs, NEW kinds, IosKept(kinds), row' = row,
         \/ /\ SummaryOf(stored') = SummaryOf(stored)
            /\ ~indexPending' => ~indexPending \/ row = SummaryOf(stored)
         \/ IndexWrites \subseteq kinds /\ indexPending'
  PROVE  RowIs'
<1>1. ASSUME NEW u \in Task, tasks'[u].io # None, tasks'[u].io.kind = "index",
             tasks'[u].io.outcome = "ok", tasks'[u].io.fresh
      PROVE  row' = SummaryOf(stored')
  <2>1. /\ tasks'[u].io = tasks[u].io /\ tasks[u].io # None /\ tasks'[u].io.kind \notin kinds
    BY <1>1 DEF IosKept
  <2> QED
    BY <1>1, <2>1 DEF RowIs, IndexWrites
<1>2. ~indexPending' => row' = SummaryOf(stored')
  BY DEF RowIs
<1> QED
  BY <1>1, <1>2 DEF RowIs

(* What the newest check run says stays true, or a write of it is owed again and none under way  *)
(* may settle it; after a repost the run's own is no longer known to be the newest.              *)
LEMMA CheckStays ==
  ASSUME Stored, Tasks, CheckIs, NEW kinds, IosKept(kinds),
         stored'.checkRunId = stored.checkRunId,
         \/ newest' = newest
         \/ newest' = NotOurs /\ stored'.checkReposts = stored.checkReposts + 1 /\ checkPending'
              /\ CheckWrites \subseteq kinds,
         \/ /\ stored'.checkReposts = stored.checkReposts
            /\ CheckRunOf(stored') = CheckRunOf(stored)
            /\ WantsCheck(stored') => WantsCheck(stored)
            /\ ~checkPending' /\ WantsCheck(stored) =>
                 ~checkPending \/ Says(stored, stored.checkRunId, newest)
         \/ /\ stored'.checkReposts \in {stored.checkReposts, stored.checkReposts + 1}
            /\ checkPending' /\ CheckWrites \subseteq kinds
  PROVE  CheckIs'
<1>1. stored.checkReposts \in Nat
  BY DEF Stored, Good, RunOK, RunType
<1>2. newest'.id \in CheckIds \union {NoCheck} /\ stored'.checkRunId \in CheckIds \union {NoCheck}
  BY DEF CheckIs, NotOurs
<1>3. stored'.checkRunId # NoCheck /\ stored'.checkReposts = 0 => newest'.id = stored'.checkRunId
  BY <1>1 DEF CheckIs
<1>4. ~checkPending' /\ WantsCheck(stored') => Says(stored', stored'.checkRunId, newest')
  BY DEF CheckIs, Says
<1>5. ASSUME NEW u \in Task, tasks'[u].io # None
      PROVE  WriteOK(stored', tasks'[u].io, newest')
  <2> DEFINE old == tasks[u].io
             new == tasks'[u].io
  <2>1. /\ old # None /\ new.kind = old.kind
        /\ new.fresh => new = old /\ new.kind \notin kinds
        /\ new.kind \in {"index", "create", "update"} => new.outcome = old.outcome
        /\ new.kind = "create" => new.read = old.read /\ new.id = old.id
    BY <1>5 DEF IosKept
  <2>2. WriteOK(stored, old, newest)
    BY <2>1 DEF CheckIs
  <2>3. old.kind = "create" => old.read.checkReposts \in Nat
    BY <2>1 DEF Tasks, TaskOK, IoOf, RunType
  <2> HIDE DEF old, new
  <2>4. new.kind \in CheckWrites /\ new.fresh =>
          /\ stored'.checkReposts = stored.checkReposts
          /\ CheckRunOf(stored') = CheckRunOf(stored) /\ newest' = newest
    BY <2>1, <1>1
  <2>5. new.kind = "update" /\ new.outcome = "ok" /\ new.fresh =>
          Says(stored', stored'.checkRunId, newest')
    BY <2>1, <2>2, <2>4 DEF WriteOK, Says, CheckWrites
  <2>6. new.kind = "replace" /\ new.fresh => Says(stored', stored'.checkRunId, newest')
    BY <2>1, <2>2, <2>4 DEF WriteOK, Says, CheckWrites
  <2>7. ASSUME new.kind = "create", new.outcome = "ok"
        PROVE  /\ new.read.checkReposts <= stored'.checkReposts
               /\ new.read.checkReposts = stored'.checkReposts => newest'.id = new.id
               /\ new.fresh => new.read.checkReposts = stored'.checkReposts
                               /\ Says(stored', new.id, newest')
               /\ new.read.checkRunId = NoCheck <=> stored'.checkRunId = NoCheck
               /\ new.read.checkReposts = 0 => new.read.checkRunId = NoCheck
    <3>1. old.kind = "create" /\ old.outcome = "ok" /\ new.read = old.read /\ new.id = old.id
          /\ old.read.checkReposts \in Nat
      BY <2>1, <2>3, <2>7
    <3>2. /\ old.read.checkReposts <= stored.checkReposts
          /\ old.read.checkReposts = stored.checkReposts => newest.id = old.id
          /\ old.fresh => old.read.checkReposts = stored.checkReposts /\ Says(stored, old.id, newest)
          /\ old.read.checkRunId = NoCheck <=> stored.checkRunId = NoCheck
          /\ old.read.checkReposts = 0 => old.read.checkRunId = NoCheck
      BY <2>2, <3>1 DEF WriteOK
    <3>3. new.fresh => new.read.checkReposts = stored'.checkReposts /\ Says(stored', new.id, newest')
      BY <2>1, <2>4, <2>7, <3>1, <3>2 DEF Says, CheckWrites
    <3>4. new.read.checkReposts <= stored'.checkReposts
      BY <1>1, <3>1, <3>2
    <3>5. new.read.checkReposts = stored'.checkReposts => newest'.id = new.id
      BY <1>1, <3>1, <3>2
    <3> QED
      BY <3>1, <3>2, <3>3, <3>4, <3>5
  <2> QED
    BY <2>5, <2>6, <2>7 DEF WriteOK, new
<1> QED
  BY <1>2, <1>3, <1>4, <1>5 DEF CheckIs

LEMMA AlarmForLemma ==
  ASSUME NEW s, NEW pending
  PROVE  /\ AlarmFor(s, pending) \in {"deadline", "retry", "none"}
         /\ pending => AlarmFor(s, pending) # "none"
  BY DEF AlarmFor

(* The alarm was not gone, or was for a task that is still there. *)
LEMMA AlarmStays ==
  ASSUME Alarmed, NEW t \in Task,
         \A u \in Task \ {t} : tasks'[u].todo = tasks[u].todo /\ tasks'[u].tick = tasks[u].tick,
         indexPending' /\ alarm' = "none" =>
           /\ indexPending /\ alarm = "none"
           /\ tasks[t].tick /\ tasks[t].todo # <<>> => Head(tasks[t].todo) # <<"index">>
  PROVE  Alarmed'
  BY DEF Alarmed

-----------------------------------------------------------------------------
(* Where a task is *)

LEMMA AtLemma ==
  ASSUME Tasks, NEW t \in Task, NEW op, op # "sync", At(t, op)
  PROVE  LET D == DOMAIN stored.agents
         IN /\ running = t /\ tasks[t].io = None /\ TaskOK(D, tasks[t])
            /\ tasks[t].todo # <<>> /\ Head(tasks[t].todo)[1] = op
            /\ Head(tasks[t].todo) \in Ops(D) /\ ~Syncing(tasks[t])
            /\ tasks[t].todo \in Seq(Ops(D)) /\ Rest(t) \in Seq(Ops(D))
            /\ op # "index" => Head(tasks[t].todo) # <<"index">>
<1> DEFINE D == DOMAIN stored.agents
<1>1. /\ running = t /\ tasks[t].io = None /\ TaskOK(D, tasks[t])
      /\ tasks[t].todo # <<>> /\ Head(tasks[t].todo)[1] = op
  BY DEF At, Todo, Tasks
<1>2. Head(tasks[t].todo) # Sync
  BY <1>1 DEF Sync
<1>3. op # "index" => Head(tasks[t].todo) # <<"index">>
  BY <1>1
<1>4. /\ Head(tasks[t].todo) \in Ops(D) /\ tasks[t].todo \in Seq(Ops(D))
      /\ Rest(t) \in Seq(Ops(D))
  BY <1>1, <1>2, TodoLemma DEF Rest, Todo
<1> QED
  BY <1>1, <1>2, <1>3, <1>4 DEF Syncing

LEMMA AwaitsLemma ==
  ASSUME Tasks, NEW t \in Task, NEW kind, Awaits(t, kind)
  PROVE  LET D == DOMAIN stored.agents
             task == tasks[t]
         IN /\ running = None /\ TaskOK(D, task) /\ task.io \in IoOf(D) /\ task.io.kind = kind
            /\ task.todo # <<>> /\ Rest(t) \in Seq(Ops(D)) /\ task.io # None
            /\ Syncing(task) <=> kind \in CheckWrites
            /\ kind = "index" => Head(task.todo) = <<"index">>
            /\ kind \in {"dispatch", "cancel"} => Head(task.todo) # <<"index">>
            /\ kind = "nonce" => ~task.tick /\ task.todo \in Seq(Ops(D))
<1> DEFINE D == DOMAIN stored.agents
           task == tasks[t]
<1>1. running = None /\ TaskOK(D, task) /\ task.io # None /\ task.io.kind = kind
  BY DEF Awaits, Tasks
<1>2. task.io \in IoOf(D) /\ Fits(task) /\ task.todo # <<>>
  BY <1>1 DEF TaskOK, Idle
<1> HIDE DEF task, D
<1>3. /\ Head(task.todo) \in Ops(D) \union {Sync} /\ Tail(task.todo) \in Seq(Ops(D))
      /\ Head(task.todo) # Sync => task.todo \in Seq(Ops(D))
  BY <1>1, <1>2, TodoLemma
<1>4. /\ Head(task.todo)[1] = "sync" <=> Head(task.todo) = Sync
      /\ Head(task.todo)[1] = "index" <=> Head(task.todo) = <<"index">>
  BY <1>3, OpFacts DEF Sync
<1>5. kind \in {"index", "create", "update", "replace", "dispatch", "cancel", "nonce"}
  BY <1>1, <1>2 DEF IoOf
<1>6. Syncing(task) <=> kind \in CheckWrites
  BY <1>1, <1>2, <1>4, <1>5 DEF Fits, Syncing, CheckWrites
<1>7. /\ kind = "index" => Head(task.todo) = <<"index">>
      /\ kind \in {"dispatch", "cancel"} => Head(task.todo) # <<"index">>
      /\ kind = "nonce" => ~task.tick /\ Head(task.todo) # Sync
  BY <1>1, <1>2, <1>4, <1>5 DEF Fits, CheckWrites
<1> QED
  BY <1>1, <1>2, <1>3, <1>6, <1>7 DEF Rest, Todo, task, D

(* A task that goes on while nothing else changes. *)
LEMMA CalmStep ==
  ASSUME Inv, NEW t \in Task, NEW todo \in Seq(Ops(DOMAIN stored.agents)), GoesOn(t, todo),
         ~Syncing(tasks[t]),
         tasks[t].tick /\ tasks[t].todo # <<>> => Head(tasks[t].todo) # <<"index">>,
         UNCHANGED <<stored, indexPending, checkPending, alarm, checkSyncs, outside>>
  PROVE  Inv'
<1> DEFINE D == DOMAIN stored.agents
<1>1. Stored /\ Marks /\ Tasks /\ Queued /\ RowIs /\ CheckIs /\ Alarmed /\ {} \in SUBSET Writes
  BY DEF Inv
<1>2. UNCHANGED <<stored, jobs, newest, row>>
  BY DEF outside
<1>3. Went(t, {}, D)
  <2>1. tasks = [u \in Task |-> tasks[u]] /\ \A u \in Task \ {t} : Aged(tasks[u], tasks[u], {})
    BY <1>1 DEF Tasks, Aged
  <2>2. tasks[t] \in [todo : Seq(Ops(D) \union {Sync}), io : IoOf(D) \union {None}, tick : BOOLEAN]
    BY <1>1 DEF Tasks, TaskOK
  <2>3. GoesOnIn(tasks, t, todo, indexPending, checkPending)
    BY DEF GoesOn
  <2> HIDE DEF D
  <2> QED
    BY <1>1, <2>1, <2>2, <2>3, GoesOnWent DEF D
<1>4. /\ Tasks' /\ IosKept({})
      /\ \A u \in Task \ {t} : tasks'[u].todo = tasks[u].todo /\ tasks'[u].tick = tasks[u].tick
  BY <1>1, <1>2, <1>3, WentLemma
<1>5. Queued'
  BY <1>1, <1>2, <1>3, QueueStays
<1>6. RowIs'
  BY <1>1, <1>2, <1>4, RowStays
<1>7. CheckIs'
  BY <1>1, <1>2, <1>4, CheckStays
<1>8. Alarmed'
  BY <1>1, <1>4, AlarmStays
<1>9. Stored' /\ Marks'
  BY <1>1, <1>2 DEF Stored, Marks
<1> QED
  BY <1>4, <1>5, <1>6, <1>7, <1>8, <1>9 DEF Inv

-----------------------------------------------------------------------------
(* Steps of the running task *)

LEMMA WantsLemma ==
  ASSUME NEW s, NEW r, Concluded(s, r), r.checkRunId = s.checkRunId, WantsCheck(r)
  PROVE  WantsCheck(s)
  BY DEF Concluded, WantsCheck, Ended

LEMMA CommitInv ==
  ASSUME Inv, NEW t \in Task, At(t, "apply"), NEW request, request = Head(tasks[t].todo)[2],
         Handled(request, stored).state # stored, Commit(t, request, Handled(request, stored))
  PROVE  Inv'
<1> DEFINE D == DOMAIN stored.agents
           transition == Handled(request, stored)
           fx == transition.fx
           first == IF fx.index THEN IndexWrites ELSE {}
           second == IF fx.check THEN CheckWrites ELSE {}
           kinds == first \union second
           kept == Outdated(Outdated(tasks, first), second)
           todo == EffectsOf(fx) \o Rest(t)
<1>1. Stored /\ Marks /\ Tasks /\ Queued /\ RowIs /\ CheckIs /\ Alarmed /\ Good(stored) /\
        Noted(stored)
  BY DEF Inv, Stored
<1>2. /\ tasks[t].io = None /\ TaskOK(D, tasks[t]) /\ ~Syncing(tasks[t])
      /\ Head(tasks[t].todo) \in Ops(D) /\ Rest(t) \in Seq(Ops(D))
      /\ Head(tasks[t].todo)[1] = "apply"
  BY <1>1, AtLemma
<1>3. request \in RequestsOf(D)
  BY <1>2, OpFacts
<1>4. Moved(stored, transition)
  BY <1>1, <1>3, HandledMoved
<1>5. /\ stored' = transition.state /\ indexPending' = (indexPending \/ fx.index)
      /\ checkPending' = (checkPending \/ fx.check)
      /\ alarm' = AlarmFor(stored', indexPending' \/ checkPending')
      /\ GoesOnIn(kept, t, todo, indexPending', checkPending')
      /\ newest' = IF request.kind = "repost" THEN NotOurs ELSE newest
      /\ checkSyncs' = checkSyncs /\ jobs' = jobs /\ row' = row
  BY DEF Commit
<1> HIDE DEF transition
<1>6. fx.index \in BOOLEAN /\ fx.check \in BOOLEAN /\ DOMAIN stored'.agents = D
  BY <1>4, <1>5 DEF Moved, FxOK
<1>7. todo \in Seq(Ops(D))
  <2>1. EffectsOf(fx) \in Seq(Ops(D))
    BY <1>1, <1>4, EffectsOK DEF Moved, Good
  <2> QED
    BY <1>2, <2>1, Concat
<1> HIDE DEF todo
<1>8. kinds \in SUBSET Writes /\ first \in {{}, IndexWrites} /\ second \in {{}, CheckWrites}
  BY DEF Writes
<1>9. Went(t, kinds, D)
  <2>1. \A u \in Task : Aged(tasks[u], kept[u], kinds)
    <3>1. \A u \in Task : TaskOK(D, tasks[u])
      BY <1>1 DEF Tasks
    <3> HIDE DEF first, second, D
    <3> QED
      BY <1>8, <3>1, OutdatedTwice
  <2>2. kept = [u \in Task |-> kept[u]]
    BY DEF Outdated
  <2>3. kept[t] = tasks[t]
    BY <1>2, <2>1 DEF Aged
  <2>4. kept[t] \in [todo : Seq(Ops(D) \union {Sync}), io : IoOf(D) \union {None}, tick : BOOLEAN]
    BY <1>2, <2>3 DEF TaskOK
  <2> HIDE DEF kept, D, kinds
  <2> QED
    BY <1>1, <1>5, <1>7, <2>1, <2>2, <2>4, GoesOnWent
<1> HIDE DEF kept
<1>10. /\ Tasks' /\ IosKept(kinds)
       /\ \A u \in Task \ {t} : tasks'[u].todo = tasks[u].todo /\ tasks'[u].tick = tasks[u].tick
  <2> HIDE DEF kinds
  <2> QED
    BY <1>1, <1>6, <1>8, <1>9, WentLemma
<1>11. Queued'
  <2> HIDE DEF kinds
  <2> QED
    BY <1>1, <1>2, <1>5, <1>6, <1>8, <1>9, QueueStays
<1>12. RowIs'
  <2>1. fx.index \/ SummaryOf(stored') = SummaryOf(stored)
    BY <1>4, <1>5 DEF Moved
  <2>2. fx.index => IndexWrites \subseteq kinds /\ indexPending'
    BY <1>5
  <2>3. ~indexPending' => ~indexPending
    BY <1>5
  <2> HIDE DEF kinds
  <2> QED
    BY <1>1, <1>5, <1>10, <2>1, <2>2, <2>3, RowStays
<1>13. CheckIs'
  <2>1. fx.check => CheckWrites \subseteq kinds /\ checkPending'
    BY <1>5
  <2>2. stored'.checkRunId = stored.checkRunId
    BY <1>4, <1>5 DEF Moved, CheckKept
  <2>3. \/ newest' = newest
        \/ newest' = NotOurs /\ stored'.checkReposts = stored.checkReposts + 1 /\ fx.check
    <3>1. CASE request.kind = "repost"
      <4>1. transition = AskCheckRepost(stored)
        BY <3>1 DEF Handled, transition
      <4>2. transition.state # stored
        BY DEF transition
      <4>3. transition = To([stored EXCEPT !.checkReposts = @ + 1], Fx(FALSE, {}, TRUE, {}))
        BY <4>1, <4>2 DEF AskCheckRepost, Unchanged, To
      <4>4. stored'.checkReposts = stored.checkReposts + 1 /\ fx.check
        BY <1>1, <1>5, <4>3 DEF To, Fx, Good, RunOK, RunType
      <4> QED
        BY <1>5, <3>1, <4>4
    <3> QED
      BY <1>5, <3>1
  <2>4. /\ \/ stored'.checkReposts = stored.checkReposts
           \/ fx.check /\ stored'.checkReposts = stored.checkReposts + 1
        /\ fx.check \/ CheckRunOf(stored') = CheckRunOf(stored)
        /\ WantsCheck(stored') => WantsCheck(stored)
    BY <1>4, <1>5, <2>2, WantsLemma DEF Moved, CheckKept
  <2>5. ~checkPending' => ~checkPending
    BY <1>5
  <2> HIDE DEF kinds, fx
  <2> QED
    BY <1>1, <1>10, <2>1, <2>2, <2>3, <2>4, <2>5, CheckStays
<1>14. Alarmed'
  <2>1. ~(indexPending' /\ alarm' = "none")
    BY <1>5, AlarmForLemma
  <2> QED
    BY <2>1 DEF Alarmed
<1>15. Stored'
  BY <1>1, <1>4, <1>5, <1>6 DEF Stored, Moved
<1>16. Marks'
  <2>1. alarm' \in {"deadline", "retry", "none"}
    BY <1>5, AlarmForLemma
  <2> QED
    BY <1>1, <1>5, <1>6, <2>1 DEF Marks
<1> QED
  BY <1>10, <1>11, <1>12, <1>13, <1>14, <1>15, <1>16 DEF Inv

LEMMA StepOfOK ==
  ASSUME NEW agents, NEW request
  PROVE  /\ RetryPending \in Seq(Ops(agents))
         /\ request \in RequestsOf(agents) =>
              /\ StepOf(request) \in Seq(Ops(agents))
              /\ StepOf(request) # <<>> /\ Head(StepOf(request)) = <<"index">>
         /\ request \in JobRequestsOf(agents) =>
              RetryPending \o <<<<"admit", request>>>> \o StepOf(request) \in Seq(Ops(agents))
<1> DEFINE S == Ops(agents)
           apply == <<"apply", request>>
           admit == <<"admit", request>>
<1>1. <<"index">> \in S /\ <<"retryCheck">> \in S
  BY DEF Ops, EffectOps
<1>2. request \in RequestsOf(agents) => apply \in S
  BY DEF Ops, EffectOps
<1>3. request \in JobRequestsOf(agents) => admit \in S /\ request \in RequestsOf(agents)
  BY DEF Ops, EffectOps, RequestsOf
<1> HIDE DEF S, apply, admit
<1>4. RetryPending \in Seq(S) /\ Len(RetryPending) = 2 /\ RetryPending[1] = <<"index">>
  BY <1>1 DEF RetryPending
<1>5. StepOf(request) = RetryPending \o <<apply>>
  BY DEF StepOf, apply
<1>6. apply \in S => /\ StepOf(request) \in Seq(S) /\ StepOf(request) # <<>>
                     /\ Head(StepOf(request)) = <<"index">>
  <2> DEFINE p == RetryPending
  <2> HIDE DEF p
  <2> SUFFICES ASSUME apply \in S
               PROVE  /\ p \o <<apply>> \in Seq(S) /\ p \o <<apply>> # <<>>
                      /\ Head(p \o <<apply>>) = <<"index">>
    BY <1>5 DEF p
  <2>1. p \in Seq(S) /\ Len(p) = 2 /\ p[1] = <<"index">>
    BY <1>4 DEF p
  <2>2. p \o <<apply>> \in Seq(S) /\ Len(p \o <<apply>>) = 3 /\ (p \o <<apply>>)[1] = p[1]
    <3> DEFINE last == <<apply>>
    <3>1. last \in Seq(S) /\ Len(last) = 1 /\ 1 \in 1 .. Len(p)
      BY <2>1
    <3> HIDE DEF last
    <3>2. /\ p \o last \in Seq(S) /\ Len(p \o last) = Len(p) + Len(last)
          /\ \A i \in 1 .. Len(p) : (p \o last)[i] = p[i]
      <4>1. p \in Seq(S) /\ last \in Seq(S)
        BY <2>1, <3>1
      <4> QED
        BY <4>1, Concat
    <3>3. p \o last \in Seq(S) /\ Len(p \o last) = 3 /\ (p \o last)[1] = p[1]
      BY <2>1, <3>1, <3>2
    <3> QED
      BY <3>3 DEF last
  <2> DEFINE q == p \o <<apply>>
  <2> HIDE DEF q
  <2>3. q # <<>> /\ Head(q) = q[1]
    BY <2>2 DEF q
  <2> QED
    BY <2>1, <2>2, <2>3 DEF q
<1>7. admit \in S /\ apply \in S => RetryPending \o <<admit>> \o StepOf(request) \in Seq(S)
  <2> SUFFICES ASSUME admit \in S, apply \in S
               PROVE  RetryPending \o <<admit>> \o StepOf(request) \in Seq(S)
    OBVIOUS
  <2>1. <<admit>> \in Seq(S)
    OBVIOUS
  <2>2. RetryPending \o <<admit>> \in Seq(S)
    BY <1>4, <2>1, Concat
  <2> QED
    BY <1>6, <2>2, Concat
<1> QED
  BY <1>2, <1>3, <1>4, <1>6, <1>7 DEF S, apply, admit

LEMMA ApplyInv ==
  ASSUME Inv, NEW t \in Task, Apply(t)
  PROVE  Inv'
<1>1. At(t, "apply") /\ Tasks
  BY DEF Apply, Inv
<1>2. /\ ~Syncing(tasks[t]) /\ Rest(t) \in Seq(Ops(DOMAIN stored.agents))
      /\ Head(tasks[t].todo) # <<"index">>
  BY <1>1, AtLemma
<1> DEFINE request == Head(tasks[t].todo)[2]
<1>3. CASE Handled(request, stored).state # stored
  BY <1>1, <1>3, CommitInv DEF Apply, Todo
<1>4. CASE Handled(request, stored).state = stored
  BY <1>2, <1>4, CalmStep DEF Apply, Todo
<1> QED
  BY <1>3, <1>4

LEMMA AdmitInv ==
  ASSUME Inv, NEW t \in Task, Admit(t)
  PROVE  Inv'
<1> DEFINE S == Ops(DOMAIN stored.agents)
           todo == IF LiveAgent(stored, Head(Todo(t))[2].job.agent) THEN Rest(t) ELSE <<>>
<1>1. At(t, "admit") /\ Tasks
  BY DEF Admit, Inv
<1>2. ~Syncing(tasks[t]) /\ Rest(t) \in Seq(S) /\ Head(tasks[t].todo) # <<"index">>
  BY <1>1, AtLemma
<1> HIDE DEF S
<1>3. todo \in Seq(S)
  BY <1>2
<1>4. GoesOn(t, todo)
  BY DEF Admit
<1> HIDE DEF todo
<1> QED
  BY <1>2, <1>3, <1>4, CalmStep DEF Admit, S

LEMMA RepliesInv ==
  ASSUME Inv, NEW t \in Task, DispatchReply(t) \/ CancelReply(t) \/ NonceReply(t)
  PROVE  Inv'
<1> DEFINE D == DOMAIN stored.agents
<1>1. Tasks
  BY DEF Inv
<1>2. CASE CancelReply(t)
  <2>1. Awaits(t, "cancel") /\ GoesOn(t, Rest(t))
    BY <1>2 DEF CancelReply
  <2>2. ~Syncing(tasks[t]) /\ Rest(t) \in Seq(Ops(D)) /\ Head(tasks[t].todo) # <<"index">>
    BY <1>1, <2>1, AwaitsLemma DEF CheckWrites
  <2> QED
    BY <1>2, <2>1, <2>2, CalmStep DEF CancelReply
<1>3. CASE NonceReply(t)
  <2>1. Awaits(t, "nonce") /\ GoesOn(t, Todo(t))
    BY <1>3 DEF NonceReply
  <2>2. ~Syncing(tasks[t]) /\ Todo(t) \in Seq(Ops(D)) /\ ~tasks[t].tick
    BY <1>1, <2>1, AwaitsLemma DEF CheckWrites, Todo
  <2> QED
    BY <1>3, <2>1, <2>2, CalmStep DEF NonceReply
<1>4. CASE DispatchReply(t)
  <2> DEFINE io == tasks[t].io
             result == [kind |-> IF io.outcome = "ok" THEN "dispatched" ELSE "failure",
               job |-> io.job]
             todo == StepOf(result) \o Rest(t)
  <2>1. Awaits(t, "dispatch") /\ GoesOn(t, todo)
    BY <1>4 DEF DispatchReply
  <2>2. /\ ~Syncing(tasks[t]) /\ Rest(t) \in Seq(Ops(D)) /\ Head(tasks[t].todo) # <<"index">>
        /\ io \in IoOf(D) /\ io.kind = "dispatch"
    BY <1>1, <2>1, AwaitsLemma DEF CheckWrites
  <2>3. io.job \in JobsOf(D)
    BY <2>2 DEF IoOf
  <2> HIDE DEF io
  <2>4. result \in RequestsOf(D)
    BY <2>3 DEF RequestsOf, JobRequestsOf, JobKinds
  <2> HIDE DEF result
  <2>5. todo \in Seq(Ops(D))
    BY <2>2, <2>4, StepOfOK, Concat
  <2> HIDE DEF todo
  <2> QED
    BY <1>4, <2>1, <2>2, <2>5, CalmStep DEF DispatchReply
<1> QED
  BY <1>2, <1>3, <1>4

-----------------------------------------------------------------------------
(* A task that awaits something: its operations stay. *)

LEMMA AwaitLemma ==
  ASSUME Tasks, NEW t \in Task, tasks[t].todo # <<>>, NEW io \in IoOf(DOMAIN stored.agents),
         Fits([tasks[t] EXCEPT !.io = io]), Await(t, io),
         DOMAIN stored'.agents = DOMAIN stored.agents
  PROVE  /\ Tasks' /\ tasks'[t].io = io
         /\ \A u \in Task : tasks'[u].todo = tasks[u].todo /\ tasks'[u].tick = tasks[u].tick
         /\ \A u \in Task \ {t} : tasks'[u] = tasks[u]
         /\ \A u \in Task : Syncing(tasks'[u]) <=> Syncing(tasks[u])
<1> DEFINE D == DOMAIN stored.agents
           task == [tasks[t] EXCEPT !.io = io]
<1>1. tasks = [u \in Task |-> tasks[u]] /\ \A u \in Task : TaskOK(D, tasks[u])
  BY DEF Tasks
<1>2. tasks' = [tasks EXCEPT ![t] = task] /\ running' = None
  BY DEF Await
<1>3. task.io = io /\ task.todo = tasks[t].todo /\ task.tick = tasks[t].tick
  BY <1>1 DEF TaskOK
<1>4. TaskOK(D, task)
  <2>1. task \in [todo : Seq(Ops(D) \union {Sync}), io : IoOf(D) \union {None}, tick : BOOLEAN]
    BY <1>1 DEF TaskOK
  <2>2. Tail(task.todo) \in Seq(Ops(D))
    BY <1>1, <1>3 DEF TaskOK
  <2> HIDE DEF task, D
  <2> QED
    BY <1>3, <2>1, <2>2 DEF TaskOK, task
<1> HIDE DEF task
<1>5. /\ tasks' = [u \in Task |-> tasks'[u]] /\ tasks'[t] = task
      /\ \A u \in Task \ {t} : tasks'[u] = tasks[u]
  BY <1>1, <1>2
<1>6. \A u \in Task : tasks'[u].todo = tasks[u].todo /\ tasks'[u].tick = tasks[u].tick
  BY <1>3, <1>5
<1>7. Tasks'
  <2>1. running' \notin Task /\ running' \in Task \union {None}
    BY <1>2, RunDOAssumption
  <2>2. \A u \in Task : TaskOK(DOMAIN stored'.agents, tasks'[u])
    BY <1>1, <1>4, <1>5
  <2> QED
    BY <1>5, <2>1, <2>2 DEF Tasks
<1> QED
  BY <1>3, <1>5, <1>6, <1>7 DEF Syncing

(* An await that writes neither the check run nor, unless it says so, the row. *)
LEMMA AwaitStep ==
  ASSUME Inv, NEW t \in Task, tasks[t].todo # <<>>, NEW io \in IoOf(DOMAIN stored.agents),
         Fits([tasks[t] EXCEPT !.io = io]), Await(t, io), io.kind \in {"index", "dispatch", "cancel"},
         UNCHANGED <<stored, indexPending, checkPending, alarm, checkSyncs, newest>>,
         jobs' \in SUBSET JobsOf(DOMAIN stored.agents),
         row' = row \/ row' = SummaryOf(stored),
         io.kind = "index" /\ io.outcome = "ok" => row' = SummaryOf(stored)
  PROVE  Inv'
<1>1. Stored /\ Marks /\ Tasks /\ Queued /\ RowIs /\ CheckIs /\ Alarmed
  BY DEF Inv
<1>2. /\ Tasks' /\ tasks'[t].io = io
      /\ \A u \in Task : tasks'[u].todo = tasks[u].todo /\ tasks'[u].tick = tasks[u].tick
      /\ \A u \in Task \ {t} : tasks'[u] = tasks[u]
      /\ \A u \in Task : Syncing(tasks'[u]) <=> Syncing(tasks[u])
  BY <1>1, AwaitLemma
<1>3. Queued'
  <2>1. {u \in Task : Syncing(tasks'[u])} = {u \in Task : Syncing(tasks[u])}
    BY <1>2
  <2>2. \A u \in Task : tasks'[u].io # None /\ tasks'[u].io.kind \in CheckWrites =>
          tasks[u].io # None /\ tasks[u].io.kind \in CheckWrites
    BY <1>2 DEF CheckWrites
  <2> QED
    BY <1>1, <2>1, <2>2 DEF Queued
<1>4. RowIs'
  BY <1>1, <1>2 DEF RowIs
<1>5. CheckIs'
  <2>1. ASSUME NEW u \in Task, tasks'[u].io # None
        PROVE  WriteOK(stored, tasks'[u].io, newest)
    <3>1. CASE u = t
      BY <1>2, <3>1 DEF WriteOK
    <3>2. CASE u # t
      BY <1>1, <1>2, <2>1, <3>2 DEF CheckIs
    <3> QED
      BY <3>1, <3>2
  <2> QED
    BY <1>1, <2>1 DEF CheckIs
<1>6. Alarmed'
  BY <1>1, <1>2 DEF Alarmed
<1>7. Stored' /\ Marks'
  BY <1>1 DEF Stored, Marks
<1> QED
  BY <1>2, <1>3, <1>4, <1>5, <1>6, <1>7 DEF Inv

LEMMA FitsLemma ==
  ASSUME NEW agents, NEW task, TaskOK(agents, task), NEW io, io.kind # "nonce",
         Head(task.todo)[1] = IF io.kind \in CheckWrites THEN "sync" ELSE io.kind
  PROVE  Fits([task EXCEPT !.io = io])
<1>1. [task EXCEPT !.io = io].io = io /\ [task EXCEPT !.io = io].todo = task.todo
  BY DEF TaskOK
<1> QED
  BY <1>1 DEF Fits

LEMMA AwaitsInv ==
  ASSUME Inv, NEW t \in Task, WriteIndex(t) \/ Dispatch(t) \/ Cancel(t)
  PROVE  Inv'
<1> DEFINE D == DOMAIN stored.agents
<1>1. Stored /\ Tasks /\ Outcomes \subseteq AnyOutcome
  BY RunDOAssumption DEF Inv, AnyOutcome
<1>2. CASE WriteIndex(t)
  <2>1. PICK outcome \in Outcomes :
          /\ Await(t, [kind |-> "index", fresh |-> TRUE, outcome |-> outcome])
          /\ row' = IF Written(outcome) THEN SummaryOf(stored) ELSE row
    BY <1>2 DEF WriteIndex
  <2> DEFINE io == [kind |-> "index", fresh |-> TRUE, outcome |-> outcome]
  <2>2. io \in IoOf(D) /\ io.kind = "index" /\ io.outcome = outcome
    BY <1>1 DEF IoOf
  <2>3. At(t, "index")
    BY <1>2 DEF WriteIndex
  <2>4. TaskOK(D, tasks[t]) /\ tasks[t].todo # <<>> /\ Head(tasks[t].todo)[1] = "index"
    BY <1>1, <2>3, AtLemma
  <2>5. Await(t, io)
    BY <2>1
  <2> HIDE DEF io
  <2>6. Fits([tasks[t] EXCEPT !.io = io])
    BY <2>2, <2>4, FitsLemma DEF CheckWrites
  <2>7. /\ UNCHANGED <<stored, indexPending, checkPending, alarm, checkSyncs, newest>>
        /\ jobs' \in SUBSET JobsOf(D)
    BY <1>1, <1>2 DEF WriteIndex, Stored
  <2>8. /\ row' = row \/ row' = SummaryOf(stored)
        /\ io.outcome = "ok" => row' = SummaryOf(stored)
    BY <2>1, <2>2 DEF Written
  <2> QED
    BY <2>2, <2>4, <2>5, <2>6, <2>7, <2>8, AwaitStep
<1>3. CASE Dispatch(t)
  <2> DEFINE job == Job(Head(Todo(t))[2])
  <2>1. PICK outcome \in Outcomes :
          /\ Await(t, [kind |-> "dispatch", job |-> job, outcome |-> outcome])
          /\ jobs' = IF Written(outcome) THEN jobs \union {job} ELSE jobs
    BY <1>3 DEF Dispatch
  <2>2. At(t, "dispatch")
    BY <1>3 DEF Dispatch
  <2>3. /\ TaskOK(D, tasks[t]) /\ tasks[t].todo # <<>> /\ Head(tasks[t].todo)[1] = "dispatch"
        /\ Head(tasks[t].todo) \in Ops(D)
    BY <1>1, <2>2, AtLemma
  <2>4. job \in JobsOf(D)
    <3>1. Head(tasks[t].todo)[2] \in D
      BY <2>3, OpFacts
    <3> QED
      BY <1>1, <3>1 DEF Job, JobsOf, Todo, Stored, Good, RunOK, RunType, AgentState
  <2> HIDE DEF job
  <2> DEFINE io == [kind |-> "dispatch", job |-> job, outcome |-> outcome]
  <2>5. io \in IoOf(D) /\ io.kind = "dispatch"
    BY <1>1, <2>4 DEF IoOf
  <2>6. Await(t, io)
    BY <2>1
  <2> HIDE DEF io
  <2>7. Fits([tasks[t] EXCEPT !.io = io])
    BY <2>3, <2>5, FitsLemma DEF CheckWrites
  <2>8. /\ UNCHANGED <<stored, indexPending, checkPending, alarm, checkSyncs, newest, row>>
        /\ jobs' \in SUBSET JobsOf(D)
    BY <1>1, <1>3, <2>1, <2>4 DEF Dispatch, Stored
  <2> QED
    BY <2>3, <2>5, <2>6, <2>7, <2>8, AwaitStep
<1>4. CASE Cancel(t)
  <2> DEFINE io == [kind |-> "cancel"]
  <2>1. At(t, "cancel") /\ Await(t, io)
    BY <1>4 DEF Cancel
  <2>2. TaskOK(D, tasks[t]) /\ tasks[t].todo # <<>> /\ Head(tasks[t].todo)[1] = "cancel"
    BY <1>1, <2>1, AtLemma
  <2>3. io \in IoOf(D) /\ io.kind = "cancel"
    BY DEF IoOf
  <2> HIDE DEF io
  <2>4. Fits([tasks[t] EXCEPT !.io = io])
    BY <2>2, <2>3, FitsLemma DEF CheckWrites
  <2>5. /\ UNCHANGED <<stored, indexPending, checkPending, alarm, checkSyncs, newest, row>>
        /\ jobs' \in SUBSET JobsOf(D)
    BY <1>1, <1>4 DEF Cancel, Stored, outside
  <2> QED
    BY <2>1, <2>2, <2>3, <2>4, <2>5, AwaitStep
<1> QED
  BY <1>2, <1>3, <1>4

-----------------------------------------------------------------------------
(* Replies to writes *)

LEMMA IndexReplyInv ==
  ASSUME Inv, NEW t \in Task, IndexReply(t)
  PROVE  Inv'
<1> DEFINE D == DOMAIN stored.agents
           io == tasks[t].io
           settles == io.outcome = "ok" /\ io.fresh
           kinds == IF settles THEN IndexWrites ELSE {}
           all == IF settles THEN Outdated(tasks, IndexWrites) ELSE tasks
<1>1. Stored /\ Marks /\ Tasks /\ Queued /\ RowIs /\ CheckIs /\ Alarmed
  BY DEF Inv
<1>2. /\ Awaits(t, "index") /\ indexPending' = (indexPending /\ ~settles)
      /\ GoesOnIn(all, t, Rest(t), indexPending', checkPending)
      /\ alarm' = AlarmFor(stored, indexPending' \/ checkPending)
      /\ UNCHANGED <<stored, checkPending, checkSyncs, jobs, newest, row>>
  BY DEF IndexReply, outside
<1>3. /\ TaskOK(D, tasks[t]) /\ ~Syncing(tasks[t]) /\ Rest(t) \in Seq(Ops(D))
      /\ io # None /\ io.kind = "index" /\ io \in IoOf(D)
  BY <1>1, <1>2, AwaitsLemma DEF CheckWrites
<1>4. settles \in BOOLEAN /\ kinds \in SUBSET Writes /\ (settles => row = SummaryOf(stored))
  BY <1>1, <1>3 DEF RowIs, IoOf, Writes
<1>5. \A u \in Task : Aged(tasks[u], all[u], kinds)
  BY OutdatedLemma DEF Aged
<1>6. all = [u \in Task |-> all[u]]
  BY <1>1 DEF Outdated, Tasks
<1>7. TaskOK(D, all[t])
  <2> HIDE DEF all, kinds
  <2> QED
    BY <1>3, <1>4, <1>5, AgedLemma
<1> HIDE DEF all, settles, kinds
<1>8. Went(t, kinds, D)
  <2>1. all[t] \in [todo : Seq(Ops(D) \union {Sync}), io : IoOf(D) \union {None}, tick : BOOLEAN]
    BY <1>7 DEF TaskOK
  <2> HIDE DEF D
  <2> QED
    BY <1>1, <1>2, <1>3, <1>5, <1>6, <2>1, GoesOnWent
<1>9. Tasks' /\ IosKept(kinds)
  BY <1>1, <1>2, <1>4, <1>8, WentLemma
<1>10. Queued'
  BY <1>1, <1>2, <1>3, <1>4, <1>8, QueueStays
<1>11. RowIs'
  BY <1>1, <1>2, <1>4, <1>9, RowStays DEF Marks
<1>12. CheckIs'
  BY <1>1, <1>2, <1>9, CheckStays
<1>13. Alarmed' /\ Marks'
  BY <1>1, <1>2, <1>4, AlarmForLemma DEF Alarmed, Marks
<1>14. Stored'
  BY <1>1, <1>2 DEF Stored
<1> QED
  BY <1>9, <1>10, <1>11, <1>12, <1>13, <1>14 DEF Inv

(* The sync at the head of the queue ends, and no write of the check run is under way. *)
LEMMA SyncEndsInv ==
  ASSUME Inv, NEW t \in Task, Syncing(tasks[t]), checkSyncs # <<>>, t = Head(checkSyncs),
         checkSyncs' = Tail(checkSyncs), checkPending' \in BOOLEAN,
         GoesOnIn(tasks, t, Rest(t), indexPending, checkPending'),
         alarm' = AlarmFor(stored', indexPending \/ checkPending') \/ alarm' = alarm,
         UNCHANGED <<indexPending, jobs, newest, row>>,
         Good(stored'), Noted(stored'), DOMAIN stored'.agents = DOMAIN stored.agents,
         SummaryOf(stored') = SummaryOf(stored), stored'.checkRunId \in CheckIds \union {NoCheck},
         stored'.checkRunId # NoCheck /\ stored'.checkReposts = 0 => newest.id = stored'.checkRunId,
         ~checkPending' /\ WantsCheck(stored') => Says(stored', stored'.checkRunId, newest)
  PROVE  Inv'
<1> DEFINE D == DOMAIN stored.agents
<1>1. /\ Stored /\ Marks /\ Tasks /\ Queued /\ RowIs /\ CheckIs /\ Alarmed
      /\ {} \in SUBSET Writes
  BY DEF Inv
<1>2. /\ TaskOK(D, tasks[t]) /\ Head(tasks[t].todo) = Sync /\ Rest(t) \in Seq(Ops(D))
      /\ tasks[t].todo # <<>>
  BY <1>1 DEF Tasks, TaskOK, Syncing, Rest, Todo
<1>3. Went(t, {}, D)
  <2>1. tasks = [u \in Task |-> tasks[u]] /\ \A u \in Task \ {t} : Aged(tasks[u], tasks[u], {})
    BY <1>1 DEF Tasks, Aged
  <2>2. tasks[t] \in [todo : Seq(Ops(D) \union {Sync}), io : IoOf(D) \union {None}, tick : BOOLEAN]
    BY <1>2 DEF TaskOK
  <2> HIDE DEF D
  <2> QED
    BY <1>1, <1>2, <2>1, <2>2, GoesOnWent
<1>4. /\ Tasks' /\ IosKept({}) /\ tasks'[t].io = None
      /\ \A u \in Task \ {t} : tasks'[u].todo = tasks[u].todo /\ tasks'[u].tick = tasks[u].tick
  BY <1>1, <1>3, WentLemma
<1>5. Queued'
  BY <1>1, <1>3, QueueMoves
<1>6. RowIs'
  BY <1>1, <1>4, RowStays DEF Marks
<1>7. CheckIs'
  <2>1. \A u \in Task : tasks'[u].io # None => tasks'[u].io.kind \notin CheckWrites
    BY <1>1, <1>4 DEF IosKept, Queued
  <2>2. \A u \in Task : tasks'[u].io # None => WriteOK(stored', tasks'[u].io, newest')
    BY <2>1 DEF WriteOK, CheckWrites
  <2> QED
    BY <1>1, <2>2 DEF CheckIs
<1>8. Alarmed'
  <2>1. Head(tasks[t].todo) # <<"index">>
    BY <1>2 DEF Sync
  <2>2. indexPending' /\ alarm' = "none" => indexPending /\ alarm = "none"
    BY AlarmForLemma
  <2> QED
    BY <1>1, <1>4, <2>1, <2>2, AlarmStays
<1>9. Stored' /\ Marks'
  BY <1>1, AlarmForLemma DEF Stored, Marks
<1> QED
  BY <1>4, <1>5, <1>6, <1>7, <1>8, <1>9 DEF Inv

(* A write of the check run is of the head of the queue, while the mark is set. *)
LEMMA WriterIsHead ==
  ASSUME Inv, NEW t \in Task, NEW kind \in CheckWrites, Awaits(t, kind)
  PROVE  /\ Syncing(tasks[t]) /\ checkSyncs # <<>> /\ t = Head(checkSyncs) /\ checkPending
         /\ tasks[t].io # None /\ tasks[t].io.kind = kind
         /\ tasks[t].io \in IoOf(DOMAIN stored.agents)
         /\ WriteOK(stored, tasks[t].io, newest)
<1>1. Tasks /\ Queued /\ CheckIs
  BY DEF Inv
<1>2. /\ tasks[t].io # None /\ tasks[t].io.kind = kind /\ Syncing(tasks[t])
      /\ tasks[t].io \in IoOf(DOMAIN stored.agents)
  BY <1>1, AwaitsLemma
<1> QED
  BY <1>1, <1>2 DEF Queued, CheckIs

LEMMA WriteReplyInv ==
  ASSUME Inv, NEW t \in Task, UpdateReply(t) \/ ReplaceReply(t)
  PROVE  Inv'
<1> DEFINE io == tasks[t].io
<1>1. PICK kind \in {"update", "replace"}, settles \in {io.fresh, io.outcome = "ok" /\ io.fresh} :
        /\ Awaits(t, kind) /\ SyncEnds(t, settles)
        /\ kind = "update" => settles = (io.outcome = "ok" /\ io.fresh)
        /\ kind = "replace" => settles = io.fresh
        /\ UNCHANGED <<stored, indexPending, outside>>
  BY DEF UpdateReply, ReplaceReply
<1>2. /\ Syncing(tasks[t]) /\ checkSyncs # <<>> /\ t = Head(checkSyncs) /\ checkPending
      /\ io # None /\ io.kind = kind /\ io \in IoOf(DOMAIN stored.agents)
      /\ WriteOK(stored, io, newest)
  BY <1>1, WriterIsHead DEF CheckWrites
<1>3. settles \in BOOLEAN /\ (settles => Says(stored, stored.checkRunId, newest))
  BY <1>1, <1>2 DEF WriteOK, IoOf
<1>4. Stored /\ CheckIs /\ Good(stored) /\ Noted(stored)
  BY DEF Inv, Stored
<1>5. /\ checkPending' = (checkPending /\ ~settles) /\ checkSyncs' = Tail(checkSyncs)
      /\ GoesOnIn(tasks, t, Rest(t), indexPending, checkPending')
      /\ alarm' = AlarmFor(stored', indexPending \/ checkPending')
      /\ UNCHANGED <<indexPending, stored, jobs, newest, row>>
  BY <1>1 DEF SyncEnds, outside
<1>6. ~checkPending' => settles /\ checkPending' \in BOOLEAN
  BY <1>2, <1>5
<1>7. /\ stored'.checkRunId \in CheckIds \union {NoCheck}
      /\ stored'.checkRunId # NoCheck /\ stored'.checkReposts = 0 => newest.id = stored'.checkRunId
      /\ ~checkPending' /\ WantsCheck(stored') => Says(stored', stored'.checkRunId, newest)
  BY <1>3, <1>4, <1>5, <1>6 DEF CheckIs
<1> HIDE DEF io
<1> QED
  BY <1>2, <1>3, <1>4, <1>5, <1>7, SyncEndsInv

(* The id of the check run that was created goes into the state, with the asks it answers. *)
LEMMA CreatedLemma ==
  ASSUME Stored, NEW io, WriteOK(stored, io, newest), io.kind = "create", io.outcome = "ok",
         NEW agents, io \in IoOf(agents)
  PROVE  LET r == Created(io, stored)
         IN /\ Good(r) /\ Noted(r) /\ DOMAIN r.agents = DOMAIN stored.agents
            /\ SummaryOf(r) = SummaryOf(stored) /\ CheckRunOf(r) = CheckRunOf(stored)
            /\ r.checkRunId = io.id
            /\ r.checkReposts = 0 => newest.id = io.id
            /\ io.fresh => Says(r, io.id, newest)
<1> DEFINE asks == io.read.checkReposts
           made == OnCheckCreated(stored, io.id)
           posted == OnCheckReposted(stored, io.id, asks)
           r == Created(io, stored)
<1>1. /\ io.id \in CheckIds /\ io.id \in Nat /\ asks \in Nat
      /\ stored.checkReposts \in Nat /\ stored.prTitle \in Title /\ Good(stored) /\ Noted(stored)
      /\ stored = [f \in DOMAIN stored |-> stored[f]]
  <2>1. io.id \in CheckIds /\ asks \in Nat
    BY DEF IoOf, RunType
  <2>2. Good(stored) /\ Noted(stored)
    BY DEF Stored
  <2> QED
    BY <2>1, <2>2, RunDOAssumption DEF Good, RunOK, RunType
<1>2. /\ asks <= stored.checkReposts /\ (asks = stored.checkReposts => newest.id = io.id)
      /\ io.fresh => Says(stored, io.id, newest)
      /\ asks = 0 => stored.checkRunId = NoCheck
  BY DEF WriteOK
<1>3. r \in {made.state, posted.state}
  BY DEF Created
<1>4. Good(made.state) /\ Good(posted.state) /\ Kept(stored, made) /\ Kept(stored, posted)
  BY <1>1, MarkersGood, MarkersKept
<1>5. ~made.fx.index /\ ~posted.fx.index /\ ~made.fx.check /\ ~posted.fx.check
  BY DEF OnCheckCreated, OnCheckReposted, Unchanged, To, NoFx, Fx
<1>6. /\ Good(r) /\ Noted(r) /\ DOMAIN r.agents = DOMAIN stored.agents
      /\ SummaryOf(r) = SummaryOf(stored) /\ CheckRunOf(r) = CheckRunOf(stored)
  <2> HIDE DEF made, posted, r
  <2> QED
    BY <1>3, <1>4, <1>5 DEF Kept
<1>7. r.checkRunId = io.id /\ (r.checkReposts = 0 => asks = stored.checkReposts)
  <2>1. CASE asks = 0
    <3>1. r = [stored EXCEPT !.checkRunId = io.id]
      BY <1>2, <2>1 DEF Created, OnCheckCreated, To
    <3> QED
      BY <1>1, <2>1, <3>1 DEF Good, RunOK, RunType
  <2>2. CASE asks # 0
    <3>1. r = [stored EXCEPT !.checkReposts = IF @ = asks THEN 0 ELSE @, !.checkRunId = io.id]
      BY <2>2 DEF Created, OnCheckReposted, To
    <3> QED
      BY <1>1, <1>2, <2>2, <3>1 DEF Good, RunOK, RunType
  <2> QED
    BY <2>1, <2>2
<1> HIDE DEF r
<1>8. io.fresh => Says(r, io.id, newest)
  BY <1>2, <1>6 DEF Says
<1> QED
  BY <1>2, <1>6, <1>7, <1>8 DEF r

(* The head of the queue writes the check run. *)
LEMMA WriteCheckInv ==
  ASSUME Inv, NEW t \in Task, Syncing(tasks[t]), checkSyncs # <<>>, t = Head(checkSyncs),
    checkPending,
         NEW io \in IoOf(DOMAIN stored.agents), io.kind \in CheckWrites, Await(t, io),
         UNCHANGED <<indexPending, checkPending, alarm, checkSyncs, jobs, row>>,
         Good(stored'), Noted(stored'), DOMAIN stored'.agents = DOMAIN stored.agents,
         SummaryOf(stored') = SummaryOf(stored), stored'.checkRunId \in CheckIds \union {NoCheck},
         newest'.id \in CheckIds \union {NoCheck},
         stored'.checkRunId # NoCheck /\ stored'.checkReposts = 0 => newest'.id = stored'.checkRunId,
         WriteOK(stored', io, newest')
  PROVE  Inv'
<1>1. Stored /\ Marks /\ Tasks /\ Queued /\ RowIs /\ CheckIs /\ Alarmed
  BY DEF Inv
<1>2. TaskOK(DOMAIN stored.agents, tasks[t]) /\ tasks[t].todo # <<>> /\
        Head(tasks[t].todo)[1] = "sync"
  BY <1>1 DEF Tasks, Syncing, Sync
<1>3. Fits([tasks[t] EXCEPT !.io = io])
  BY <1>2, FitsLemma DEF CheckWrites
<1>4. /\ Tasks' /\ tasks'[t].io = io
      /\ \A u \in Task : tasks'[u].todo = tasks[u].todo /\ tasks'[u].tick = tasks[u].tick
      /\ \A u \in Task \ {t} : tasks'[u] = tasks[u]
      /\ \A u \in Task : Syncing(tasks'[u]) <=> Syncing(tasks[u])
  BY <1>1, <1>2, <1>3, AwaitLemma
<1>5. Queued'
  <2>1. {u \in Task : Syncing(tasks'[u])} = {u \in Task : Syncing(tasks[u])}
    BY <1>4
  <2>2. \A u \in Task : tasks'[u].io # None /\ tasks'[u].io.kind \in CheckWrites => u = t
    BY <1>1, <1>4 DEF Queued
  <2> QED
    BY <1>1, <2>1, <2>2 DEF Queued
<1>6. RowIs'
  <2>1. io.kind # "index"
    BY DEF CheckWrites
  <2> QED
    BY <1>1, <1>4, <2>1 DEF RowIs
<1>7. CheckIs'
  <2>1. ASSUME NEW u \in Task, tasks'[u].io # None
        PROVE  WriteOK(stored', tasks'[u].io, newest')
    <3>1. CASE u = t
      BY <1>4, <3>1
    <3>2. CASE u # t
      <4>1. tasks'[u].io.kind \notin CheckWrites
        BY <1>1, <1>4, <2>1, <3>2 DEF Queued
      <4> QED
        BY <4>1 DEF WriteOK, CheckWrites
    <3> QED
      BY <3>1, <3>2
  <2> QED
    BY <2>1 DEF CheckIs
<1>8. Alarmed'
  BY <1>1, <1>4 DEF Alarmed
<1>9. Stored' /\ Marks'
  BY <1>1 DEF Stored, Marks
<1> QED
  BY <1>4, <1>5, <1>6, <1>7, <1>8, <1>9 DEF Inv

LEMMA CreateReplyInv ==
  ASSUME Inv, NEW t \in Task, CreateReply(t)
  PROVE  Inv'
<1> DEFINE io == tasks[t].io
           D == DOMAIN stored.agents
<1>1. Awaits(t, "create") /\ UNCHANGED <<indexPending, jobs, newest, row>>
  BY DEF CreateReply, outside
<1>2. /\ Syncing(tasks[t]) /\ checkSyncs # <<>> /\ t = Head(checkSyncs) /\ checkPending
      /\ io # None /\ io.kind = "create" /\ io \in IoOf(D) /\ WriteOK(stored, io, newest)
  BY <1>1, WriterIsHead DEF CheckWrites
<1>3. Stored /\ CheckIs /\ Good(stored) /\ Noted(stored)
  BY DEF Inv, Stored
<1>4. io.fresh \in BOOLEAN /\ io.id \in CheckIds
  BY <1>2 DEF IoOf
<1>5. CASE io.outcome # "ok"
  <2>1. stored' = stored /\ SyncEnds(t, FALSE)
    BY <1>5 DEF CreateReply
  <2>2. /\ checkPending' = checkPending /\ checkSyncs' = Tail(checkSyncs)
        /\ GoesOnIn(tasks, t, Rest(t), indexPending, checkPending')
        /\ alarm' = AlarmFor(stored', indexPending \/ checkPending')
    BY <1>2, <2>1 DEF SyncEnds, Inv, Marks
  <2>3. /\ stored'.checkRunId \in CheckIds \union {NoCheck} /\ checkPending' \in BOOLEAN
        /\ stored'.checkRunId # NoCheck /\ stored'.checkReposts = 0 => newest.id = stored'.checkRunId
        /\ ~checkPending' /\ WantsCheck(stored') => Says(stored', stored'.checkRunId, newest)
    BY <1>2, <1>3, <2>1, <2>2 DEF CheckIs, Inv, Marks
  <2> HIDE DEF io
  <2> QED
    BY <1>1, <1>2, <1>3, <2>1, <2>2, <2>3, SyncEndsInv
<1>6. CASE io.outcome = "ok"
  <2>1. stored' = Created(io, stored)
    BY <1>6 DEF CreateReply
  <2> HIDE DEF io
  <2>2. /\ Good(stored') /\ Noted(stored') /\ DOMAIN stored'.agents = DOMAIN stored.agents
        /\ SummaryOf(stored') = SummaryOf(stored) /\ stored'.checkRunId = io.id
        /\ stored'.checkReposts = 0 => newest.id = io.id
        /\ io.fresh => Says(stored', io.id, newest)
    BY <1>2, <1>3, <1>6, <2>1, CreatedLemma
  <2>3. CASE io.read.checkRunId = NoCheck
    <3>1. SyncEnds(t, io.fresh)
      BY <1>6, <2>3 DEF CreateReply, io
    <3>2. /\ checkPending' = ~io.fresh /\ checkSyncs' = Tail(checkSyncs)
          /\ GoesOnIn(tasks, t, Rest(t), indexPending, checkPending')
          /\ alarm' = AlarmFor(stored', indexPending \/ checkPending')
      BY <1>2, <1>4, <3>1 DEF SyncEnds
    <3>3. /\ stored'.checkRunId \in CheckIds \union {NoCheck} /\ checkPending' \in BOOLEAN
          /\ stored'.checkRunId # NoCheck /\ stored'.checkReposts = 0 =>
               newest.id = stored'.checkRunId
          /\ ~checkPending' /\ WantsCheck(stored') => Says(stored', stored'.checkRunId, newest)
      BY <1>4, <2>2, <3>2
    <3> QED
      BY <1>1, <1>2, <2>2, <3>2, <3>3, SyncEndsInv
  <2>4. CASE io.read.checkRunId # NoCheck
    <3> DEFINE replace == [kind |-> "replace", fresh |-> io.fresh]
    <3>1. Await(t, replace) /\ UNCHANGED <<checkPending, checkSyncs, alarm>>
      BY <1>6, <2>4 DEF CreateReply, io
    <3>2. /\ replace \in IoOf(D) /\ replace.kind \in CheckWrites
          /\ WriteOK(stored', replace, newest')
      BY <1>1, <1>4, <2>2 DEF IoOf, CheckWrites, WriteOK
    <3>3. /\ stored'.checkRunId \in CheckIds \union {NoCheck}
          /\ newest'.id \in CheckIds \union {NoCheck}
          /\ stored'.checkRunId # NoCheck /\ stored'.checkReposts = 0 =>
               newest'.id = stored'.checkRunId
      BY <1>1, <1>3, <1>4, <2>2 DEF CheckIs
    <3> HIDE DEF replace
    <3> QED
      BY <1>1, <1>2, <2>2, <3>1, <3>2, <3>3, WriteCheckInv
  <2> QED
    BY <2>3, <2>4
<1> QED
  BY <1>5, <1>6

(* GitHub gives a check run an id that neither the newest nor the run's own has. *)
LEMMA NewIdLemma ==
  ASSUME CheckIs
  PROVE  NewId \in CheckIds
<1>1. \E id \in CheckIds : id \notin {newest.id, stored.checkRunId}
  BY FreshIdAssumption DEF CheckIs
<1> QED
  BY <1>1 DEF NewId

LEMMA SyncCheckInv ==
  ASSUME Inv, NEW t \in Task, SyncCheck(t)
  PROVE  Inv'
<1> DEFINE D == DOMAIN stored.agents
<1>1. /\ checkSyncs # <<>> /\ Head(checkSyncs) = t
      /\ UNCHANGED <<stored, indexPending, jobs, row>>
  BY DEF SyncCheck
<1>2. /\ Stored /\ Marks /\ Queued /\ CheckIs /\ Good(stored) /\ Noted(stored)
      /\ stored \in RunType(D) /\ stored.checkReposts \in Nat
  BY DEF Inv, Stored, Good, RunOK, RunType
<1>3. Syncing(tasks[t])
  <2>1. t \in ToSet(checkSyncs)
    BY <1>1, <1>2 DEF Queued, ToSet
  <2> QED
    BY <1>2, <2>1 DEF Queued
<1>4. /\ stored.checkRunId \in CheckIds \union {NoCheck}
      /\ newest.id \in CheckIds \union {NoCheck}
      /\ stored.checkRunId # NoCheck /\ stored.checkReposts = 0 => newest.id = stored.checkRunId
      /\ ~checkPending /\ WantsCheck(stored) => Says(stored, stored.checkRunId, newest)
  BY <1>2 DEF CheckIs
<1>5. CASE checkPending /\ WantsCheck(stored)
  <2> DEFINE creates == stored.checkRunId = NoCheck \/ stored.checkReposts > 0
             io(outcome) == [kind |-> IF creates THEN "create" ELSE "update",
                             fresh |-> TRUE, outcome |-> outcome,
                             read |-> IF creates THEN stored ELSE None,
                             id |-> IF creates THEN NewId ELSE stored.checkRunId]
             now == [id |-> IF creates THEN NewId ELSE stored.checkRunId,
                     check |-> CheckRunOf(stored)]
  <2>1. PICK outcome \in Outcomes :
          /\ Await(t, io(outcome))
          /\ newest' = IF Written(outcome) /\ (creates \/ newest.id = io(outcome).id)
                       THEN [id |-> io(outcome).id, check |-> CheckRunOf(stored)] ELSE newest
          /\ UNCHANGED <<checkPending, alarm, checkSyncs>>
    BY <1>5 DEF SyncCheck
  <2>2. outcome \in AnyOutcome
    BY RunDOAssumption DEF AnyOutcome
  <2>3. NewId \in CheckIds
    BY <1>2, NewIdLemma
  <2>4. newest' = newest \/ newest' = now
    BY <2>1
  <2>5. outcome = "ok" => newest' = now
    BY <1>2, <1>4, <2>1 DEF Written
  <2>6. newest'.id \in CheckIds \union {NoCheck}
    BY <1>4, <2>3, <2>4
  <2>7. stored.checkRunId # NoCheck /\ stored.checkReposts = 0 => newest'.id = stored.checkRunId
    BY <1>4, <2>4
  <2>8. CASE creates
    <3> DEFINE w == [kind |-> "create", fresh |-> TRUE, outcome |-> outcome, read |-> stored,
          id |-> NewId]
    <3>1. Await(t, w)
      BY <2>1, <2>8
    <3>2. w \in IoOf(D) /\ w.kind = "create" /\ w.kind \in CheckWrites
      BY <1>2, <2>2, <2>3 DEF IoOf, CheckWrites
    <3>3. outcome = "ok" => newest'.id = w.id /\ Says(stored, w.id, newest')
      BY <2>5, <2>8 DEF Says
    <3>4. w.read = stored /\ w.outcome = outcome
      OBVIOUS
    <3> HIDE DEF w
    <3>5. WriteOK(stored, w, newest')
      BY <1>2, <2>8, <3>2, <3>3, <3>4 DEF WriteOK
    <3> HIDE DEF D
    <3> QED
      BY <1>1, <1>2, <1>3, <1>4, <1>5, <2>1, <2>6, <2>7, <3>1, <3>2, <3>5, WriteCheckInv DEF D
  <2>9. CASE ~creates
    <3> DEFINE w == [kind |-> "update", fresh |-> TRUE, outcome |-> outcome, read |-> None,
                     id |-> stored.checkRunId]
    <3>1. Await(t, w)
      BY <2>1, <2>9
    <3>2. w \in IoOf(D) /\ w.kind = "update" /\ w.kind \in CheckWrites
      BY <1>4, <2>2, <2>9 DEF IoOf, CheckWrites
    <3>3. outcome = "ok" => Says(stored, stored.checkRunId, newest')
      BY <2>5, <2>9 DEF Says
    <3>4. w.outcome = outcome
      OBVIOUS
    <3> HIDE DEF w
    <3>5. WriteOK(stored, w, newest')
      BY <3>2, <3>3, <3>4 DEF WriteOK
    <3> HIDE DEF D
    <3> QED
      BY <1>1, <1>2, <1>3, <1>4, <1>5, <2>1, <2>6, <2>7, <3>1, <3>2, <3>5, WriteCheckInv DEF D
  <2> QED
    BY <2>8, <2>9
<1>6. CASE ~(checkPending /\ WantsCheck(stored))
  <2>1. /\ checkPending' = FALSE /\ checkSyncs' = Tail(checkSyncs) /\ newest' = newest
        /\ IF checkPending THEN alarm' = AlarmFor(stored, indexPending) ELSE UNCHANGED alarm
        /\ GoesOnIn(tasks, t, Rest(t), indexPending, FALSE)
    BY <1>6 DEF SyncCheck
  <2>2. alarm' = AlarmFor(stored', indexPending \/ checkPending') \/ alarm' = alarm
    <3>1. (indexPending \/ checkPending') = indexPending
      BY <1>2, <2>1 DEF Marks
    <3> QED
      BY <1>1, <2>1, <3>1
  <2>3. WantsCheck(stored) => Says(stored, stored.checkRunId, newest)
    BY <1>4, <1>6
  <2> QED
    BY <1>1, <1>2, <1>3, <1>4, <2>1, <2>2, <2>3, SyncEndsInv
<1> QED
  BY <1>5, <1>6

-----------------------------------------------------------------------------
(* A sync joins the queue *)

LEMMA PrependOne ==
  ASSUME NEW S, NEW s \in Seq(S), NEW x
  PROVE  LET r == <<x>> \o s
         IN r \in Seq(S \union {x}) /\ r # <<>> /\ Head(r) = x /\ Tail(r) = s
<1> DEFINE one == <<x>>
           r == one \o s
<1>1. one \in Seq(S \union {x}) /\ Len(one) = 1 /\ one[1] = x /\ s \in Seq(S \union {x})
  OBVIOUS
<1> HIDE DEF one
<1>2. /\ r \in Seq(S \union {x}) /\ Len(r) = 1 + Len(s)
      /\ \A i \in 1 .. Len(one) : r[i] = one[i]
      /\ \A i \in 1 .. Len(s) : r[i + 1] = s[i]
  <2> DEFINE S1 == S \union {x}
  <2>1. one \in Seq(S1) /\ s \in Seq(S1)
    BY <1>1
  <2> HIDE DEF S1
  <2>2. r \in Seq(S1) /\ Len(r) = Len(one) + Len(s) /\ \A i \in 1 .. Len(one) : r[i] = one[i]
    BY <2>1
  <2>3. \A i \in 1 .. Len(s) : r[Len(one) + i] = s[i]
    BY <2>1
  <2> HIDE DEF r
  <2>4. \A i \in 1 .. Len(s) : r[i + 1] = s[i]
    BY <1>1, <2>3
  <2> QED
    BY <1>1, <2>2, <2>4 DEF S1
<1> HIDE DEF r
<1>3. r # <<>> /\ Head(r) = x
  BY <1>1, <1>2
<1>4. Tail(r) = s
  <2>1. Tail(r) \in Seq(S \union {x}) /\ Len(Tail(r)) = Len(s) /\ Len(s) \in Nat
    BY <1>2, <1>3
  <2>2. \A i \in 1 .. Len(s) : Tail(r)[i] = s[i]
    BY <1>2, <1>3, <2>1
  <2> QED
    BY <1>1, <2>1, <2>2
<1> QED
  BY <1>2, <1>3, <1>4 DEF r, one

LEMMA QueueTodo ==
  ASSUME NEW agents, NEW rest \in Seq(Ops(agents)),
         NEW ahead \in {<<Sync>>, <<Sync, <<"checkDone">>>>}
  PROVE  LET todo == ahead \o rest
         IN /\ todo \in Seq(Ops(agents) \union {Sync}) /\ todo # <<>> /\ Head(todo) = Sync
            /\ Tail(todo) \in Seq(Ops(agents))
<1> DEFINE S == Ops(agents)
           done == <<"checkDone">>
<1>1. done \in S
  BY DEF Ops, EffectOps
<1> HIDE DEF S, done
<1>2. CASE ahead = <<Sync>>
  BY <1>2, PrependOne DEF S
<1>3. CASE ahead = <<Sync, done>>
  <2> DEFINE one == <<Sync>>
             two == <<done>>
             r == two \o rest
  <2>1. r \in Seq(S)
    <3>1. r \in Seq(S \union {done})
      BY PrependOne DEF S
    <3>2. S \union {done} = S
      BY <1>1
    <3> QED
      BY <3>1, <3>2
  <2>2. ahead \o rest = one \o r
    <3>1. ahead = one \o two
      BY <1>3
    <3>2. one \in Seq(S \union {Sync}) /\ two \in Seq(S \union {Sync}) /\
            rest \in Seq(S \union {Sync})
      BY <1>1 DEF S
    <3> HIDE DEF one, two
    <3>3. (one \o two) \o rest = one \o (two \o rest)
      BY <3>2
    <3> QED
      BY <3>1, <3>3
  <2> HIDE DEF r
  <2> QED
    BY <2>1, <2>2, PrependOne DEF S
<1> QED
  BY <1>2, <1>3 DEF done

LEMMA QueueCheckInv ==
  ASSUME Inv, NEW t \in Task, QueueCheck(t)
  PROVE  Inv'
<1> DEFINE D == DOMAIN stored.agents
           ahead == IF At(t, "check") THEN <<<<"sync">>>> ELSE <<<<"sync">>, <<"checkDone">>>>
           todo == ahead \o Rest(t)
           task == [tasks[t] EXCEPT !.todo = todo]
<1>1. Stored /\ Marks /\ Tasks /\ Queued /\ RowIs /\ CheckIs /\ Alarmed
  BY DEF Inv
<1>2. /\ At(t, "check") \/ At(t, "retryCheck")
      /\ checkSyncs' = Append(checkSyncs, t)
      /\ tasks' = [tasks EXCEPT ![t] = task]
      /\ running' = IF checkSyncs = <<>> THEN t ELSE None
      /\ UNCHANGED <<stored, indexPending, checkPending, alarm, jobs, newest, row>>
  BY DEF QueueCheck, outside, Rest, Todo
<1>3. /\ tasks[t].io = None /\ TaskOK(D, tasks[t]) /\ ~Syncing(tasks[t]) /\ Rest(t) \in Seq(Ops(D))
      /\ Head(tasks[t].todo) # <<"index">> /\ tasks[t].todo # <<>>
  <2>1. PICK op \in {"check", "retryCheck"} : At(t, op)
    BY <1>2
  <2> QED
    BY <1>1, <2>1, AtLemma
<1>4. /\ todo \in Seq(Ops(D) \union {Sync}) /\ todo # <<>> /\ Head(todo) = Sync
      /\ Tail(todo) \in Seq(Ops(D))
  BY <1>3, QueueTodo DEF Sync
<1> HIDE DEF todo
<1>5. task.todo = todo /\ task.io = None /\ task.tick = tasks[t].tick
  BY <1>3 DEF TaskOK
<1>6. TaskOK(D, task)
  <2>1. task \in [todo : Seq(Ops(D) \union {Sync}), io : IoOf(D) \union {None}, tick : BOOLEAN]
    <3>1. tasks[t] \in [todo : Seq(Ops(D) \union {Sync}), io : IoOf(D) \union {None}, tick : BOOLEAN]
      BY <1>3 DEF TaskOK
    <3> HIDE DEF D
    <3> QED
      BY <1>4, <3>1
  <2> HIDE DEF task, D
  <2> QED
    BY <1>4, <1>5, <2>1 DEF TaskOK
<1> HIDE DEF task
<1>7. tasks = [u \in Task |-> tasks[u]]
  BY <1>1 DEF Tasks
<1>8. /\ tasks' = [u \in Task |-> tasks'[u]] /\ tasks'[t] = task
      /\ \A u \in Task \ {t} : tasks'[u] = tasks[u]
  BY <1>2, <1>7
<1>9. \A u \in Task : tasks'[u].io = tasks[u].io /\ tasks'[u].tick = tasks[u].tick
  BY <1>3, <1>5, <1>8
<1>10. Tasks'
  <2>1. running' \in Task \union {None} /\ (running' \in Task => tasks'[running'].io = None)
    BY <1>2, <1>5, <1>8, RunDOAssumption
  <2>2. \A u \in Task : TaskOK(DOMAIN stored'.agents, tasks'[u])
    BY <1>1, <1>2, <1>6, <1>8 DEF Tasks
  <2> QED
    BY <1>8, <2>1, <2>2 DEF Tasks
<1>11. Queued'
  <2> DEFINE q == checkSyncs
  <2>1. /\ q \in Seq(Task) /\ \A a, b \in DOMAIN q : q[a] = q[b] => a = b
        /\ \A a \in DOMAIN q : q[a] # t
    BY <1>1, <1>3 DEF Queued, IsInjective, ToSet
  <2> HIDE DEF q
  <2>2. /\ Append(q, t) \in Seq(Task) /\ Append(q, t) # <<>> /\
             (q # <<>> => Head(Append(q, t)) = Head(q))
        /\ DOMAIN q = 1 .. Len(q) /\ DOMAIN Append(q, t) = 1 .. Len(q) + 1 /\ Len(q) \in Nat
        /\ \A a \in 1 .. Len(q) : Append(q, t)[a] = q[a]
        /\ Append(q, t)[Len(q) + 1] = t
    BY <2>1
  <2>3. \A a, b \in DOMAIN Append(q, t) : Append(q, t)[a] = Append(q, t)[b] => a = b
    BY <2>1, <2>2
  <2>4. ToSet(Append(q, t)) = ToSet(q) \union {t}
    BY <2>1, <2>2 DEF ToSet
  <2>5. Syncing(tasks'[t]) /\ \A u \in Task \ {t} : Syncing(tasks'[u]) <=> Syncing(tasks[u])
    BY <1>4, <1>5, <1>8 DEF Syncing
  <2>6. {u \in Task : Syncing(tasks'[u])} = {u \in Task : Syncing(tasks[u])} \union {t}
    BY <2>5
  <2>7. \A u \in Task : tasks'[u].io # None /\ tasks'[u].io.kind \in CheckWrites =>
          checkPending' /\ checkSyncs' # <<>> /\ u = Head(checkSyncs')
    BY <1>1, <1>2, <1>9, <2>2 DEF Queued, q
  <2> QED
    BY <1>1, <1>2, <2>2, <2>3, <2>4, <2>6, <2>7 DEF Queued, IsInjective, q
<1>12. RowIs'
  BY <1>1, <1>2, <1>9 DEF RowIs
<1>13. CheckIs'
  BY <1>1, <1>2, <1>9 DEF CheckIs
<1>14. Alarmed'
  <2>1. \A u \in Task \ {t} : tasks'[u].todo = tasks[u].todo /\ tasks'[u].tick = tasks[u].tick
    BY <1>8
  <2> QED
    BY <1>1, <1>2, <1>3, <2>1, AlarmStays
<1>15. Stored' /\ Marks'
  BY <1>1, <1>2 DEF Stored, Marks
<1> QED
  BY <1>10, <1>11, <1>12, <1>13, <1>14, <1>15 DEF Inv

-----------------------------------------------------------------------------
(* What reaches the object *)

LEMMA HeadConcat ==
  ASSUME NEW S, NEW s \in Seq(S), NEW r \in Seq(S), s # <<>>
  PROVE  s \o r \in Seq(S) /\ s \o r # <<>> /\ Head(s \o r) = Head(s)
<1> DEFINE q == s \o r
<1>1. q \in Seq(S) /\ Len(q) = Len(s) + Len(r) /\ \A i \in 1 .. Len(s) : q[i] = s[i]
  BY Concat
<1>2. Len(s) \in Nat /\ Len(s) > 0 /\ Head(s) = s[1] /\ Len(r) \in Nat
  OBVIOUS
<1> HIDE DEF q
<1>3. q # <<>> /\ Head(q) = q[1] /\ q[1] = s[1]
  BY <1>1, <1>2
<1> QED
  BY <1>1, <1>2, <1>3 DEF q

LEMMA RequestsLemma ==
  ASSUME Stored, NEW request \in Requests
  PROVE  /\ request.kind = "view" \/ request \in RequestsOf(DOMAIN stored.agents)
         /\ request.kind \in JobKinds => request \in JobRequestsOf(DOMAIN stored.agents)
<1> DEFINE D == DOMAIN stored.agents
           J == JobsOf(D)
<1>1. jobs \in SUBSET J /\ RetryTargets(D) \in SUBSET SUBSET D
  BY DEF Stored, RetryTargets
<1>2. CASE request \in [kind : Calls \cap (JobKinds \ {"verdict"}), job : jobs]
  <2>1. request \in [kind : (JobKinds \ {"verdict"}) \union {"dispatched"}, job : J]
    BY <1>1, <1>2
  <2> QED
    BY <2>1 DEF JobRequestsOf, RequestsOf
<1>3. CASE request \in [kind : Calls \cap {"verdict"}, job : jobs, verdict : Verdicts]
  <2>1. request \in [kind : {"verdict"}, job : J, verdict : Verdicts]
    BY <1>1, <1>3
  <2> QED
    BY <2>1 DEF JobRequestsOf, RequestsOf
<1>4. CASE request \in [kind : Calls \cap {"stop", "land", "bypass", "repost", "view"}]
  <2>1. request.kind \notin JobKinds
    BY <1>4 DEF JobKinds
  <2>2. request.kind = "view" \/ request \in [kind : {"stop", "land", "bypass", "repost", "tick"}]
    BY <1>4
  <2> QED
    BY <2>1, <2>2 DEF RequestsOf
<1>5. CASE request \in [kind : Calls \cap {"retitle"}, title : Title]
  <2>1. request.kind \notin JobKinds /\ request \in [kind : {"retitle"}, title : Title]
    BY <1>5 DEF JobKinds
  <2> QED
    BY <2>1 DEF RequestsOf
<1>6. CASE request \in [kind : Calls \cap {"retry"}, target : RetryTargets(D)]
  <2>1. request.kind \notin JobKinds /\ request \in [kind : {"retry"}, target : SUBSET D]
    BY <1>1, <1>6 DEF JobKinds
  <2> QED
    BY <2>1 DEF RequestsOf
<1> QED
  BY <1>2, <1>3, <1>4, <1>5, <1>6 DEF Requests

LEMMA TodoOfOK ==
  ASSUME Stored, NEW request \in Requests
  PROVE  /\ TodoOf(request) \in Seq(Ops(DOMAIN stored.agents)) /\ TodoOf(request) # <<>>
         /\ Head(TodoOf(request)) = <<"index">>
<1> DEFINE D == DOMAIN stored.agents
           S == Ops(D)
           admit == <<"admit", request>>
           last == <<admit>>
<1>1. RetryPending \in Seq(S) /\ RetryPending # <<>> /\ Head(RetryPending) = <<"index">>
  <2>1. RetryPending \in Seq(S)
    BY StepOfOK
  <2>2. RetryPending # <<>> /\ Head(RetryPending) = <<"index">>
    <3> DEFINE a == <<"index">>
               b == <<"retryCheck">>
    <3>1. RetryPending = <<a, b>>
      BY DEF RetryPending
    <3> HIDE DEF a, b
    <3>2. <<a, b>> # <<>> /\ Head(<<a, b>>) = a
      OBVIOUS
    <3> QED
      BY <3>1, <3>2 DEF a
  <2> QED
    BY <2>1, <2>2
<1>2. CASE request.kind = "view"
  <2>1. request.kind \notin Reports
    BY <1>2 DEF Reports
  <2>2. TodoOf(request) = RetryPending
    BY <1>2, <2>1 DEF TodoOf
  <2> QED
    BY <1>1, <2>2
<1>3. CASE request.kind \in Reports
  <2>1. request \in JobRequestsOf(D) /\ request.kind # "view"
    BY <1>3, RequestsLemma DEF Reports, JobKinds
  <2>2. admit \in S /\ StepOf(request) \in Seq(S)
    BY <2>1, StepOfOK DEF Ops, EffectOps, RequestsOf
  <2>3. TodoOf(request) = (RetryPending \o last) \o StepOf(request)
    BY <1>3, <2>1 DEF TodoOf
  <2> HIDE DEF S, admit
  <2>4. last \in Seq(S)
    BY <2>2
  <2> HIDE DEF last
  <2> DEFINE p == RetryPending \o last
  <2>5. p \in Seq(S) /\ p # <<>> /\ Head(p) = <<"index">>
    BY <1>1, <2>4, HeadConcat
  <2> HIDE DEF p
  <2>6. p \o StepOf(request) \in Seq(S) /\ p \o StepOf(request) # <<>>
        /\ Head(p \o StepOf(request)) = <<"index">>
    BY <2>2, <2>5, HeadConcat
  <2> QED
    BY <2>3, <2>6 DEF p, S
<1>4. CASE request.kind # "view" /\ request.kind \notin Reports
  <2>1. request \in RequestsOf(D)
    BY <1>4, RequestsLemma
  <2>2. TodoOf(request) = StepOf(request)
    BY <1>4 DEF TodoOf
  <2> QED
    BY <2>1, <2>2, StepOfOK
<1> QED
  BY <1>2, <1>3, <1>4

LEMMA FreshTask ==
  ASSUME NEW agents, NEW todo \in Seq(Ops(agents)), NEW io \in {None, [kind |-> "nonce"]},
         todo = <<>> => io = None
  PROVE  LET task == [todo |-> todo, io |-> io, tick |-> FALSE]
         IN TaskOK(agents, task) /\ ~Syncing(task)
<1> DEFINE S == Ops(agents)
           task == [todo |-> todo, io |-> io, tick |-> FALSE]
<1>1. Sync \notin S /\ [kind |-> "nonce"] \in IoOf(agents)
  BY OpFacts DEF IoOf
<1> HIDE DEF S
<1>2. todo \in Seq(S \union {Sync}) /\ (todo # <<>> => Head(todo) \in S /\ Tail(todo) \in Seq(S))
  BY DEF S
<1>3. io \in IoOf(agents) \union {None} /\ (io # None => io.kind = "nonce")
  BY <1>1
<1>4. task.todo = todo /\ task.io = io /\ task.tick = FALSE
  OBVIOUS
<1>5. task \in [todo : Seq(S \union {Sync}), io : IoOf(agents) \union {None}, tick : BOOLEAN]
  BY <1>2, <1>3
<1>6. todo = <<>> => task = Idle
  BY DEF Idle
<1> HIDE DEF task
<1>7. ~Syncing(task)
  BY <1>1, <1>2, <1>4 DEF Syncing
<1>8. io # None => Fits(task)
  BY <1>1, <1>2, <1>3, <1>4 DEF Fits
<1> QED
  BY <1>2, <1>4, <1>5, <1>6, <1>7, <1>8 DEF TaskOK, S, task

LEMMA CallInv ==
  ASSUME Inv, NEW t \in Task, NEW request \in Requests, Call(t, request)
  PROVE  Inv'
<1> DEFINE D == DOMAIN stored.agents
           nonce == [kind |-> "nonce"]
<1>1. Stored /\ Marks /\ Tasks /\ Queued /\ RowIs /\ CheckIs /\ Alarmed
  BY DEF Inv
<1>2. /\ running = None /\ tasks[t] = Idle
      /\ UNCHANGED <<stored, indexPending, checkPending, alarm, checkSyncs, outside>>
  BY DEF Call
<1>3. TodoOf(request) \in Seq(Ops(D)) /\ TodoOf(request) # <<>>
  BY <1>1, TodoOfOK
<1>4. ~Syncing(tasks[t]) /\ tasks[t].tick = FALSE /\ tasks[t].io = None
  <2>1. Idle.tick = FALSE /\ Idle.io = None
    BY DEF Idle
  <2> QED
    BY <1>2, <2>1, IdleOK
<1>5. CASE request.kind \notin JobKinds
  <2>1. GoesOn(t, TodoOf(request))
    BY <1>5 DEF Call
  <2> QED
    BY <1>2, <1>3, <1>4, <2>1, CalmStep
<1>6. CASE request.kind \in JobKinds
  <2> DEFINE todo == TodoOf(request)
             task == [todo |-> todo, io |-> nonce, tick |-> FALSE]
  <2>1. tasks' = [tasks EXCEPT ![t].todo = todo, ![t].io = nonce] /\ running' = running
    BY <1>6 DEF Call
  <2>2. tasks = [u \in Task |-> tasks[u]]
    BY <1>1 DEF Tasks
  <2> HIDE DEF todo, nonce
  <2>3. /\ tasks' = [u \in Task |-> tasks'[u]] /\ tasks'[t] = task
        /\ \A u \in Task \ {t} : tasks'[u] = tasks[u]
    <3>1. tasks'[t] = [Idle EXCEPT !.todo = todo, !.io = nonce]
      BY <1>2, <2>1, <2>2
    <3>2. tasks'[t] = task
      BY <3>1 DEF Idle
    <3> QED
      BY <2>1, <2>2, <3>2
  <2>4. TaskOK(D, task) /\ ~Syncing(task)
    BY <1>3, FreshTask DEF todo, nonce
  <2>5. task.io = nonce /\ nonce.kind = "nonce"
    BY DEF nonce
  <2> HIDE DEF task
  <2>6. Tasks'
    <3>1. running' \notin Task /\ running' \in Task \union {None}
      BY <1>2, <2>1, RunDOAssumption
    <3>2. \A u \in Task : TaskOK(DOMAIN stored'.agents, tasks'[u])
      BY <1>1, <1>2, <2>3, <2>4 DEF Tasks
    <3> QED
      BY <2>3, <3>1, <3>2 DEF Tasks
  <2>7. Queued'
    <3>1. {u \in Task : Syncing(tasks'[u])} = {u \in Task : Syncing(tasks[u])}
      BY <1>4, <2>3, <2>4
    <3>2. \A u \in Task : tasks'[u].io # None /\ tasks'[u].io.kind \in CheckWrites =>
            tasks[u].io # None /\ tasks[u].io.kind \in CheckWrites
      BY <2>3, <2>5 DEF CheckWrites
    <3> QED
      BY <1>1, <1>2, <3>1, <3>2 DEF Queued
  <2>8. RowIs'
    BY <1>1, <1>2, <2>3, <2>5 DEF RowIs, outside
  <2>9. CheckIs'
    <3>1. ASSUME NEW u \in Task, tasks'[u].io # None
          PROVE  WriteOK(stored', tasks'[u].io, newest')
      <4>1. CASE u = t
        BY <2>3, <2>5, <4>1 DEF WriteOK
      <4>2. CASE u # t
        BY <1>1, <1>2, <2>3, <3>1, <4>2 DEF CheckIs, outside
      <4> QED
        BY <4>1, <4>2
    <3> QED
      BY <1>1, <1>2, <3>1 DEF CheckIs, outside
  <2>10. Alarmed'
    BY <1>1, <1>2, <1>4, <2>3, AlarmStays
  <2>11. Stored' /\ Marks'
    BY <1>1, <1>2 DEF Stored, Marks, outside
  <2> QED
    BY <2>6, <2>7, <2>8, <2>9, <2>10, <2>11 DEF Inv
<1> QED
  BY <1>5, <1>6

LEMMA AlarmFiresInv ==
  ASSUME Inv, NEW t \in Task, AlarmFires(t)
  PROVE  Inv'
<1> DEFINE D == DOMAIN stored.agents
           request == [kind |-> "tick"]
           all == [tasks EXCEPT ![t].tick = TRUE]
           todo == StepOf(request)
<1>1. Stored /\ Marks /\ Tasks /\ Queued /\ RowIs /\ CheckIs /\ Alarmed /\ {} \in SUBSET Writes
  BY DEF Inv
<1>2. /\ running = None /\ tasks[t] = Idle /\ alarm' = "none"
      /\ GoesOnIn(all, t, todo, indexPending, checkPending)
      /\ UNCHANGED <<stored, indexPending, checkPending, checkSyncs, jobs, newest, row>>
  BY DEF AlarmFires, outside
<1>3. todo \in Seq(Ops(D)) /\ todo # <<>> /\ Head(todo) = <<"index">>
  <2>1. request \in RequestsOf(D)
    BY DEF RequestsOf
  <2> QED
    BY <2>1, StepOfOK
<1> HIDE DEF todo
<1>4. TaskOK(D, tasks[t]) /\ ~Syncing(tasks[t]) /\ tasks = [u \in Task |-> tasks[u]]
  BY <1>1, <1>2, IdleOK DEF Tasks
<1>5. /\ all = [u \in Task |-> all[u]] /\ all[t] = [tasks[t] EXCEPT !.tick = TRUE]
      /\ \A u \in Task \ {t} : all[u] = tasks[u]
  BY <1>4
<1> HIDE DEF all
<1>6. /\ all[t] \in [todo : Seq(Ops(D) \union {Sync}), io : IoOf(D) \union {None}, tick : BOOLEAN]
      /\ all[t].tick = TRUE
  <2>1. tasks[t] \in [todo : Seq(Ops(D) \union {Sync}), io : IoOf(D) \union {None}, tick : BOOLEAN]
    BY <1>4 DEF TaskOK
  <2> HIDE DEF D
  <2> QED
    BY <1>5, <2>1
<1>7. /\ Went(t, {}, D)
      /\ indexPending => Head(tasks'[t].todo) = <<"index">> /\ tasks'[t].tick = all[t].tick
                         /\ running' = t
  <2>1. \A u \in Task \ {t} : Aged(tasks[u], all[u], {})
    BY <1>5 DEF Aged
  <2>2. /\ todo \in Seq(Ops(D)) /\ all = [u \in Task |-> all[u]] /\ Tasks
        /\ all[t] \in [todo : Seq(Ops(D) \union {Sync}), io : IoOf(D) \union {None}, tick : BOOLEAN]
        /\ GoesOnIn(all, t, todo, indexPending, checkPending)
    BY <1>1, <1>2, <1>3, <1>5, <1>6
  <2> DEFINE kinds == {}
             T1 == Seq(Ops(D) \union {Sync})
             T2 == IoOf(D) \union {None}
  <2>3. /\ all[t] \in [todo : T1, io : T2, tick : BOOLEAN]
        /\ \A u \in Task \ {t} : Aged(tasks[u], all[u], kinds)
    BY <2>1, <2>2
  <2> HIDE DEF D, request, kinds, T1, T2
  <2>4. /\ Went(t, kinds, D)
        /\ indexPending /\ todo # <<>> /\ Head(todo) = <<"index">> =>
             Head(tasks'[t].todo) = <<"index">> /\ tasks'[t].tick = all[t].tick /\ running' = t
    BY <2>2, <2>3, GoesOnWent
  <2> QED
    BY <1>3, <2>4 DEF kinds
<1>8. Tasks' /\ IosKept({})
  BY <1>1, <1>2, <1>7, WentLemma
<1>9. Queued'
  BY <1>1, <1>2, <1>4, <1>7, QueueStays
<1>10. RowIs'
  BY <1>1, <1>2, <1>8, RowStays DEF Marks
<1>11. CheckIs'
  BY <1>1, <1>2, <1>8, CheckStays
<1>12. Alarmed'
  <2>1. indexPending => tasks'[t].todo # <<>>
    BY <1>7, RunDOAssumption DEF Went
  <2> QED
    BY <1>2, <1>6, <1>7, <2>1 DEF Alarmed
<1>13. Stored' /\ Marks'
  BY <1>1, <1>2 DEF Stored, Marks
<1> QED
  BY <1>8, <1>9, <1>10, <1>11, <1>12, <1>13 DEF Inv

LEMMA ElapseInv ==
  ASSUME Inv, Elapse
  PROVE  Inv'
<1> DEFINE r == Elapsed(stored)
<1>1. Stored /\ Marks /\ Tasks /\ Queued /\ RowIs /\ CheckIs /\ Alarmed
  BY DEF Inv
<1>2. /\ stored' = r
      /\ UNCHANGED <<indexPending, checkPending, alarm, tasks, running, checkSyncs, jobs, newest,
           row>>
  BY DEF Elapse, memory, outside
<1>3. Good(stored) /\ Noted(stored) /\ jobs \in SUBSET JobsOf(DOMAIN stored.agents)
  BY <1>1 DEF Stored
<1>4. Good(r) /\ Kept(stored, To(r, NoFx))
  BY <1>3, ElapsedGood, ElapsedKept
<1>5. r.checkRunId = stored.checkRunId /\ r.checkReposts = stored.checkReposts
  BY <1>3 DEF Elapsed, Good, RunOK, RunType
<1> HIDE DEF r
<1>6. /\ Noted(r) /\ DOMAIN r.agents = DOMAIN stored.agents /\ SummaryOf(r) = SummaryOf(stored)
      /\ CheckRunOf(r) = CheckRunOf(stored) /\ Concluded(stored, r)
  BY <1>4, ToFacts DEF Kept, NoFx, Fx
<1>7. Tasks'
  BY <1>1, <1>2, <1>6 DEF Tasks
<1>8. IosKept({})
  BY <1>2 DEF IosKept
<1>9. RowIs'
  BY <1>1, <1>2, <1>6, <1>8, RowStays DEF Marks
<1>10. WantsCheck(stored') => WantsCheck(stored)
  BY <1>2, <1>5, <1>6, WantsLemma
<1>11. CheckIs'
  BY <1>1, <1>2, <1>5, <1>6, <1>8, <1>10, CheckStays
<1>12. Queued' /\ Alarmed'
  BY <1>1, <1>2 DEF Queued, Alarmed
<1>13. Stored' /\ Marks'
  BY <1>1, <1>2, <1>3, <1>4, <1>6 DEF Stored, Marks
<1> QED
  BY <1>7, <1>9, <1>11, <1>12, <1>13 DEF Inv

LEMMA ResetInv ==
  ASSUME Inv, Reset
  PROVE  Inv'
<1>1. Stored /\ Marks /\ Tasks /\ Queued /\ RowIs /\ CheckIs /\ Alarmed
  BY DEF Inv
<1>2. /\ running = None /\ running' = None /\ tasks' = [t \in Task |-> Idle] /\ checkSyncs' = <<>>
      /\ alarm' = IF \E t \in Task : tasks[t].tick THEN "retry" ELSE alarm
      /\ UNCHANGED <<stored, indexPending, checkPending, jobs, newest, row>>
  BY DEF Reset, outside
<1>3. \A t \in Task : tasks'[t] = Idle /\ tasks'[t].io = None
  BY <1>2 DEF Idle
<1>4. Tasks'
  BY <1>2, <1>3, IdleOK, RunDOAssumption DEF Tasks
<1>5. Queued'
  <2>1. checkSyncs' \in Seq(Task) /\ IsInjective(checkSyncs') /\ ToSet(checkSyncs') = {}
    BY <1>2 DEF IsInjective, ToSet
  <2>2. {t \in Task : Syncing(tasks'[t])} = {}
    BY <1>3, IdleOK
  <2> QED
    BY <1>3, <2>1, <2>2 DEF Queued
<1>6. RowIs'
  BY <1>1, <1>2, <1>3 DEF RowIs
<1>7. CheckIs'
  BY <1>1, <1>2, <1>3 DEF CheckIs
<1>8. Alarmed'
  BY <1>1, <1>2 DEF Alarmed
<1>9. Stored' /\ Marks'
  BY <1>1, <1>2 DEF Stored, Marks
<1> QED
  BY <1>4, <1>5, <1>6, <1>7, <1>8, <1>9 DEF Inv

-----------------------------------------------------------------------------
(* The first commit *)

LEMMA CreatedRun ==
  ASSUME NEW agents \in SUBSET Agent, NEW title \in Title
  PROVE  LET created == CreateRun(agents, title)
         IN /\ Good(created.state) /\ Noted(created.state)
            /\ created.state.checkRunId = NoCheck
            /\ FxOK(created.state, created.fx)
<1> DEFINE
      s == [status |-> "on_the_hill", prTitle |-> title,
            steps |-> [st \in Step |-> CASE st \in {"lift_line", "trail_map"} -> "done"
                                         [] st = "sweep" -> "active"
                                         [] OTHER -> "pending"],
            notes |-> NoNotes, agents |-> [a \in agents |-> FreshAgent(0)],
            designBypassed |-> FALSE, stalledLogged |-> {},
            checkRunId |-> NoCheck, checkReposts |-> 0, jobRuns |-> [a \in agents |-> NoJob]]
      created == CreateRun(agents, title)
<1>1. FreshAgent(0) \in AgentState /\ FreshAgent(0).status = "queued"
  BY FreshAgentLemma
<1>2. /\ s.steps \in [Step -> StepStatus] /\ s.steps["sweep"] = "active"
  BY DEF Step, StepStatus
<1>3. /\ RunOK(s) /\ DOMAIN s.agents = agents /\ Noted(s) /\ s.checkRunId = NoCheck
  BY <1>1, <1>2 DEF RunOK, RunType, RunStatus, NoCheck, NoJob, Noted
<1> HIDE DEF s
<1>4. /\ created.state = SweptState(s) \/ created.state = s
      /\ created.fx = Fx(TRUE, agents, TRUE, {})
  BY DEF CreateRun, To, s
<1> HIDE DEF created
<1>5. /\ Noted(created.state) /\ created.state.agents = s.agents
      /\ created.state.checkRunId = NoCheck
  BY <1>3, <1>4, SweptFacts, OtherChanges DEF SameCheck
<1>6. FxOK(created.state, created.fx)
  BY <1>3, <1>4, <1>5, NoCancels DEF FxOK, Fx
<1>7. Good(created.state)
  BY CreateRunGood DEF created
<1> QED
  BY <1>5, <1>6, <1>7 DEF created

LEMMA IdleTodo ==
  ASSUME NEW todo
  PROVE  /\ [Idle EXCEPT !.todo = todo] = [todo |-> todo, io |-> None, tick |-> FALSE]
         /\ [Idle EXCEPT !.todo = todo].io = None
<1> DEFINE tick == FALSE
           todo0 == <<>>
           idle == [todo |-> todo0, io |-> None, tick |-> tick]
<1> HIDE DEF tick, todo0
<1>1. [idle EXCEPT !.todo = todo] = [todo |-> todo, io |-> None, tick |-> tick]
  OBVIOUS
<1>2. [todo |-> todo, io |-> None, tick |-> tick].io = None
  OBVIOUS
<1>3. Idle = idle
  BY DEF Idle, tick, todo0
<1> HIDE DEF idle
<1> QED
  BY <1>1, <1>2, <1>3 DEF tick

LEMMA InitInv == Init => Inv
<1> SUFFICES ASSUME Init PROVE Inv
  OBVIOUS
<1>1. PICK agents \in SUBSET Agent, title \in Title, t \in Task :
        LET created == CreateRun(agents, title)
        IN /\ stored = created.state /\ indexPending = TRUE /\ checkPending = TRUE
           /\ alarm = "retry"
           /\ tasks = [u \in Task |-> IF u = t THEN [Idle EXCEPT !.todo = EffectsOf(created.fx)]
                                      ELSE Idle]
           /\ running = t /\ checkSyncs = <<>> /\ jobs = {} /\ newest = NotOurs
  BY DEF Init
<1> DEFINE created == CreateRun(agents, title)
           D == DOMAIN stored.agents
           todo == EffectsOf(created.fx)
           task == [Idle EXCEPT !.todo = todo]
<1>2. Good(stored) /\ Noted(stored) /\ stored.checkRunId = NoCheck /\ FxOK(stored, created.fx)
  BY <1>1, CreatedRun
<1>3. todo \in Seq(Ops(D))
  BY <1>2, EffectsOK DEF Good
<1>4. tasks = [u \in Task |-> IF u = t THEN task ELSE Idle]
  BY <1>1
<1> HIDE DEF created, todo
<1>5. task = [todo |-> todo, io |-> None, tick |-> FALSE] /\ task.io = None
  BY IdleTodo
<1> HIDE DEF task
<1>6. TaskOK(D, task) /\ ~Syncing(task) /\ task.io = None
  BY <1>3, <1>5, FreshTask
<1>7. \A u \in Task : TaskOK(D, tasks[u]) /\ ~Syncing(tasks[u]) /\ tasks[u].io = None
  <2>1. Idle.io = None
    BY DEF Idle
  <2> QED
    BY <1>4, <1>6, <2>1, IdleOK
<1>8. Stored /\ Marks
  BY <1>1, <1>2 DEF Stored, Marks
<1>9. Tasks
  BY <1>1, <1>4, <1>7 DEF Tasks
<1>10. Queued
  <2>1. checkSyncs \in Seq(Task) /\ IsInjective(checkSyncs) /\ ToSet(checkSyncs) = {}
    BY <1>1 DEF IsInjective, ToSet
  <2> QED
    BY <1>7, <2>1 DEF Queued
<1>11. RowIs /\ CheckIs /\ Alarmed
  BY <1>1, <1>2, <1>7 DEF RowIs, CheckIs, Alarmed, NotOurs
<1> QED
  BY <1>8, <1>9, <1>10, <1>11 DEF Inv

-----------------------------------------------------------------------------
(* Every step keeps the invariant *)

LEMMA NextInv == Inv /\ [Next]_vars => Inv'
<1> SUFFICES ASSUME Inv, [Next]_vars PROVE Inv'
  OBVIOUS
<1>1. ASSUME NEW t \in Task, Apply(t) PROVE Inv'
  BY <1>1, ApplyInv
<1>2. ASSUME NEW t \in Task, Admit(t) PROVE Inv'
  BY <1>2, AdmitInv
<1>3. ASSUME NEW t \in Task, WriteIndex(t) \/ Dispatch(t) \/ Cancel(t) PROVE Inv'
  BY <1>3, AwaitsInv
<1>4. ASSUME NEW t \in Task, QueueCheck(t) PROVE Inv'
  BY <1>4, QueueCheckInv
<1>5. ASSUME NEW t \in Task, SyncCheck(t) PROVE Inv'
  BY <1>5, SyncCheckInv
<1>6. ASSUME NEW t \in Task, IndexReply(t) PROVE Inv'
  BY <1>6, IndexReplyInv
<1>7. ASSUME NEW t \in Task, UpdateReply(t) \/ ReplaceReply(t) PROVE Inv'
  BY <1>7, WriteReplyInv
<1>8. ASSUME NEW t \in Task, CreateReply(t) PROVE Inv'
  BY <1>8, CreateReplyInv
<1>9. ASSUME NEW t \in Task, DispatchReply(t) \/ CancelReply(t) \/ NonceReply(t) PROVE Inv'
  BY <1>9, RepliesInv
<1>10. ASSUME NEW t \in Task, AlarmFires(t) PROVE Inv'
  BY <1>10, AlarmFiresInv
<1>11. ASSUME NEW t \in Task, NEW request \in Requests, Call(t, request) PROVE Inv'
  BY <1>11, CallInv
<1>12. CASE Elapse
  BY <1>12, ElapseInv
<1>13. CASE Reset
  BY <1>13, ResetInv
<1>14. CASE UNCHANGED vars
  <2>1. UNCHANGED <<stored, indexPending, checkPending, alarm, tasks, running, checkSyncs, jobs,
                    newest, row>>
    BY <1>14 DEF vars, memory, outside
  <2> QED
    BY <2>1 DEF Inv, Stored, Marks, Tasks, Queued, RowIs, CheckIs, Alarmed
<1> QED
  BY <1>1, <1>2, <1>3, <1>4, <1>5, <1>6, <1>7, <1>8, <1>9, <1>10, <1>11, <1>12, <1>13, <1>14
     DEF Next

LEMMA InvLemma == Spec => []Inv
  BY InitInv, NextInv, PTL DEF Spec

(* The storage holds a run after every step, whatever the calls under way and the resets, and    *)
(* the syncs queued are those of calls under way, each once (TypeOK).                            *)
THEOREM TypeCorrect == Spec => []TypeOK
<1>1. Inv => TypeOK
  <2> SUFFICES ASSUME Inv PROVE TypeOK
    OBVIOUS
  <2>1. Stored /\ Marks /\ Tasks /\ Queued
    BY DEF Inv
  <2>2. RunOK(stored)
    BY <2>1 DEF Stored, Good
  <2>3. ASSUME NEW t \in Task
        PROVE  /\ Todo(t) = <<>> => tasks[t] = Idle
               /\ Syncing(tasks[t]) <=> Todo(t) # <<>> /\ Head(Todo(t))[1] = "sync"
    <3>1. TaskOK(DOMAIN stored.agents, tasks[t])
      BY <2>1 DEF Tasks
    <3>2. CASE Todo(t) = <<>>
      BY <3>1, <3>2 DEF TaskOK, Todo, Syncing
    <3>3. CASE Todo(t) # <<>>
      <4>1. Head(Todo(t)) \in Ops(DOMAIN stored.agents) \union {Sync}
        BY <3>1, <3>3, TodoLemma DEF Todo
      <4>2. Head(Todo(t))[1] = "sync" <=> Head(Todo(t)) = Sync
        BY <4>1, OpFacts DEF Sync
      <4> QED
        BY <3>3, <4>2 DEF Syncing, Todo
    <3> QED
      BY <3>2, <3>3
  <2>4. {t \in Task : Syncing(tasks[t])} = {t \in Task : Todo(t) # <<>> /\ Head(Todo(t))[1] = "sync"}
    BY <2>3
  <2> QED
    BY <2>1, <2>2, <2>3, <2>4 DEF TypeOK, Marks, Tasks, Queued
<1> QED
  BY <1>1, InvLemma, PTL

(* The row in D1 says what the run says whenever no write of it is owed, whichever commits and   *)
(* replies crossed and whatever a reset cut short (RowDelivered).                                *)
THEOREM RowDeliveredTheorem == Spec => []RowDelivered
<1>1. Inv => RowDelivered
  BY DEF Inv, RowIs, RowDelivered
<1> QED
  BY <1>1, InvLemma, PTL

(* The newest check run on the head is the run's own and concludes what the run does whenever    *)
(* no write of it is owed, through creates, updates and reposts that cross (CheckDelivered).     *)
THEOREM CheckDeliveredTheorem == Spec => []CheckDelivered
<1>1. Inv => CheckDelivered
  BY DEF Inv, CheckIs, Says, CheckDelivered
<1> QED
  BY <1>1, InvLemma, PTL

(* A row still owed when every call is done has an alarm to retry it (RowRetried). *)
THEOREM RowRetriedTheorem == Spec => []RowRetried
<1>1. Inv => RowRetried
  BY DEF Inv, Alarmed, RowRetried, AllDone, Idle
<1> QED
  BY <1>1, InvLemma, PTL

-----------------------------------------------------------------------------
(* Attempts: which handler starts one, and which asks for a repost. *)

SameRetries(s, r) ==
  /\ DOMAIN r.agents = DOMAIN s.agents
  /\ \A a \in DOMAIN s.agents : r.agents[a].retries = s.agents[a].retries

LEMMA PatchedRetries ==
  ASSUME NEW s, NEW a, NEW agent, RunOK(s), a \in DOMAIN s.agents,
         agent.retries = s.agents[a].retries
  PROVE  SameRetries(s, PatchAgent(s, a, agent))
BY DEF SameRetries, PatchAgent, RunOK, RunType

LEMMA OtherRetries ==
  ASSUME NEW s, RunOK(s), NEW agents
  PROVE  /\ SameRetries(s, Failed(s, agents)) /\ SameRetries(s, Stalled(s, agents))
         /\ SameRetries(s, Halted(s)) /\ SameRetries(s, SweptState(s))
<1>1. \A a \in DOMAIN s.agents : s.agents[a] \in AgentState
  BY AgentTypes
<1>2. \A a \in DOMAIN s.agents : \A status : Finished(s.agents[a], status).retries =
        s.agents[a].retries
  BY <1>1 DEF Finished, AgentState
<1>3. \A a \in DOMAIN s.agents : [s.agents[a] EXCEPT !.status = "stalled"].retries =
        s.agents[a].retries
  BY <1>1 DEF AgentState
<1>4. SameRetries(s, Failed(s, agents))
  BY <1>2 DEF SameRetries, Failed, RunOK, RunType
<1>5. SameRetries(s, Stalled(s, agents))
  BY <1>3 DEF SameRetries, Stalled, RunOK, RunType
<1>6. SameRetries(s, Halted(s))
  BY <1>2 DEF SameRetries, Halted, RunOK, RunType
<1>7. SameRetries(s, SweptState(s))
  BY DEF SameRetries, SweptState, RunOK, RunType
<1> QED
  BY <1>4, <1>5, <1>6, <1>7

LEMMA CloseRetries ==
  ASSUME NEW s, NEW r, RunOK(r), SameRetries(s, r)
  PROVE  SameRetries(s, CloseSweepIfDone(r).state)
<1>1. SameRetries(r, SweptState(r))
  BY OtherRetries
<1>2. SameRetries(s, SweptState(r))
  BY <1>1 DEF SameRetries
<1> QED
  BY <1>2 DEF CloseSweepIfDone, To

LEMMA ReportsRetries ==
  ASSUME NEW s, RunOK(s), NEW a, NEW job
  PROVE  /\ SameRetries(s, OnDispatched(s, a).state) /\ SameRetries(s, OnEvents(s, a, 1).state)
         /\ SameRetries(s, OnBriefed(s, a, job).state)
         /\ \A v \in Verdicts : SameRetries(s, OnVerdict(s, a, v).state)
         /\ SameRetries(s, OnFailure(s, a).state) /\ SameRetries(s, OnTranscript(s, a).state)
<1>1. SameRetries(s, Unchanged(s).state) /\ \A r, fx : To(r, fx).state = r
  BY DEF SameRetries, Unchanged, To
<1>2. a \in DOMAIN s.agents => s.agents[a] \in AgentState
  BY AgentTypes
<1>3. LiveAgent(s, a) => a \in DOMAIN s.agents
  BY DEF LiveAgent
<1>4. SameRetries(s, OnDispatched(s, a).state)
  <2> DEFINE agent == [s.agents[a] EXCEPT !.status = "dispatched", !.dispatched = TRUE,
                         !.clock = IF s.agents[a].briefed THEN @ ELSE 0]
  <2>1. a \in DOMAIN s.agents => agent.retries = s.agents[a].retries
    BY <1>2 DEF AgentState
  <2>2. OnDispatched(s, a) \in {Unchanged(s), To(PatchAgent(s, a, agent), NoFx)}
        /\ (OnDispatched(s, a) # Unchanged(s) => LiveAgent(s, a))
    BY DEF OnDispatched
  <2> HIDE DEF agent
  <2> QED
    BY <1>1, <1>3, <2>1, <2>2, PatchedRetries
<1>5. SameRetries(s, OnEvents(s, a, 1).state)
  <2> DEFINE agent == [s.agents[a] EXCEPT !.status = "running", !.dispatched = TRUE, !.quiet = 0,
                         !.clock = IF s.agents[a].briefed \/ s.agents[a].dispatched THEN @ ELSE 0]
  <2>1. a \in DOMAIN s.agents => agent.retries = s.agents[a].retries
    BY <1>2 DEF AgentState
  <2>2. OnEvents(s, a, 1) \in {Unchanged(s), To(PatchAgent(s, a, agent), NoFx)}
        /\ (OnEvents(s, a, 1) # Unchanged(s) => LiveAgent(s, a))
    BY DEF OnEvents
  <2> HIDE DEF agent
  <2> QED
    BY <1>1, <1>3, <2>1, <2>2, PatchedRetries
<1>6. SameRetries(s, OnBriefed(s, a, job).state)
  <2> DEFINE agent == [s.agents[a] EXCEPT !.briefed = TRUE, !.clock = 0, !.quiet = 0,
                         !.status = IF @ = "stalled" THEN "running" ELSE @]
             r == PatchAgent(s, a, agent)
  <2>1. a \in DOMAIN s.agents => agent.retries = s.agents[a].retries
    BY <1>2 DEF AgentState
  <2>2. OnBriefed(s, a, job) \in {Unchanged(s), To([r EXCEPT !.jobRuns = [@ EXCEPT ![a] = job]],
          NoFx)}
        /\ (OnBriefed(s, a, job) # Unchanged(s) => LiveAgent(s, a))
    BY DEF OnBriefed
  <2>3. [r EXCEPT !.jobRuns = [@ EXCEPT ![a] = job]].agents = r.agents
    BY DEF PatchAgent, RunOK, RunType
  <2>4. a \in DOMAIN s.agents => SameRetries(s, r)
    <3> HIDE DEF agent
    <3> QED BY <2>1, PatchedRetries
  <2> DEFINE last == [r EXCEPT !.jobRuns = [@ EXCEPT ![a] = job]]
  <2>5. a \in DOMAIN s.agents => SameRetries(s, last)
    BY <2>3, <2>4 DEF SameRetries
  <2> HIDE DEF r, last
  <2>6. OnBriefed(s, a, job) = Unchanged(s) \/
          (LiveAgent(s, a) /\ OnBriefed(s, a, job) = To(last, NoFx))
    BY <2>2 DEF r, last
  <2> QED
    BY <1>1, <1>3, <2>5, <2>6
<1>7. ASSUME NEW v \in Verdicts
      PROVE  SameRetries(s, OnVerdict(s, a, v).state)
  <2> DEFINE agent == [Finished(s.agents[a], v.status) EXCEPT !.hazards = v.hazards]
             r == PatchAgent(s, a, agent)
  <2>1. CASE LiveAgent(s, a)
    <3>1. v.status \in AgentStatus /\ v.hazards \in Hazards
      BY VerdictsAssumption DEF IsVerdict, AgentStatus
    <3>2. Finished(s.agents[a], v.status) \in AgentState
      BY <1>2, <1>3, <2>1, <3>1, FinishedLemma
    <3>3. agent \in AgentState /\ agent.retries = Finished(s.agents[a], v.status).retries
      BY <3>1, <3>2 DEF AgentState
    <3>4. Finished(s.agents[a], v.status).retries = s.agents[a].retries
      BY <1>2, <1>3, <2>1 DEF Finished, AgentState
    <3>5. OnVerdict(s, a, v) = CloseSweepIfDone(r)
      BY <2>1 DEF OnVerdict
    <3> HIDE DEF agent
    <3>6. RunOK(r) /\ SameRetries(s, r)
      BY <1>3, <2>1, <3>3, <3>4, PatchAgentLemma, PatchedRetries
    <3> HIDE DEF r
    <3> QED
      BY <3>5, <3>6, CloseRetries
  <2> QED
    BY <1>1, <2>1 DEF OnVerdict
<1>8. SameRetries(s, OnFailure(s, a).state)
  <2>1. RunOK(Failed(s, {a})) /\ SameRetries(s, Failed(s, {a}))
    BY OtherRetries, FailedLemma
  <2>2. SameRetries(s, CloseSweepIfDone(Failed(s, {a})).state)
    BY <2>1, CloseRetries
  <2> QED
    BY <1>1, <2>2 DEF OnFailure
<1>9. SameRetries(s, OnTranscript(s, a).state)
  <2> DEFINE agent == [s.agents[a] EXCEPT !.hasTranscript = TRUE]
  <2>1. a \in DOMAIN s.agents => agent.retries = s.agents[a].retries
    BY <1>2 DEF AgentState
  <2>2. OnTranscript(s, a) = IF a \notin DOMAIN s.agents THEN Unchanged(s)
                             ELSE To(PatchAgent(s, a, agent), NoFx)
    BY DEF OnTranscript
  <2> HIDE DEF agent
  <2> QED
    BY <1>1, <2>1, <2>2, PatchedRetries
<1> QED
  BY <1>4, <1>5, <1>6, <1>7, <1>8, <1>9

LEMMA OwnersRetries ==
  ASSUME NEW s, RunOK(s), NEW target, NEW title
  PROVE  /\ SameRetries(s, OnTick(s).state) /\ SameRetries(s, StopRun(s).state)
         /\ SameRetries(s, LandRun(s).state) /\ SameRetries(s, BypassDesign(s).state)
         /\ SameRetries(s, AskCheckRepost(s).state) /\ SameRetries(s, OnRetitled(s, title).state)
         /\ DOMAIN RetryAgents(s, target).state.agents = DOMAIN s.agents
         /\ \A a \in DOMAIN s.agents \ target :
              RetryAgents(s, target).state.agents[a].retries = s.agents[a].retries
<1>1. SameRetries(s, Unchanged(s).state) /\ \A r, fx : To(r, fx).state = r
  BY DEF SameRetries, Unchanged, To
<1>2. \A status, steps :
        /\ SameRetries(s, [s EXCEPT !.status = status])
        /\ [Halted(s) EXCEPT !.status = status].agents = Halted(s).agents
        /\ [Halted(s) EXCEPT !.status = status, !.steps = LandedSteps(@)].agents = Halted(s).agents
  BY DEF Halted, RunOK, RunType, SameRetries
<1>3. SameRetries(s, Halted(s))
  BY OtherRetries
<1>4. SameRetries(s, OnTick(s).state)
  <2> DEFINE stalled == Stalled(s, DueToStall(s))
             next == Failed(stalled, DueToFail(s))
  <2>1. RunOK(stalled) /\ SameRetries(s, stalled)
    <3>1. DueToStall(s) \in SUBSET DOMAIN s.agents
      BY DEF DueToStall
    <3> QED
      BY <3>1, OtherRetries, StalledLemma
  <2> HIDE DEF stalled
  <2>2. RunOK(next) /\ SameRetries(stalled, next)
    BY <2>1, OtherRetries, FailedLemma
  <2>3. SameRetries(s, next)
    BY <2>1, <2>2 DEF SameRetries
  <2> HIDE DEF next
  <2>4. SameRetries(s, CloseSweepIfDone(next).state)
    BY <2>2, <2>3, CloseRetries
  <2> QED
    BY <1>1, <2>3, <2>4 DEF OnTick, next, stalled
<1>5. SameRetries(s, StopRun(s).state)
  <2> DEFINE halted == [Halted(s) EXCEPT !.status = "stopped"]
  <2>1. SameRetries(s, halted)
    BY <1>2, <1>3 DEF SameRetries
  <2>2. \/ StopRun(s) = Unchanged(s)
        \/ \E fx : StopRun(s) \in {To([s EXCEPT !.status = "stopped"], fx), To(halted, fx)}
    BY DEF StopRun
  <2> HIDE DEF halted
  <2> QED
    BY <1>1, <1>2, <2>1, <2>2
<1>6. SameRetries(s, LandRun(s).state)
  <2> DEFINE landed == [Halted(s) EXCEPT !.status = "landed", !.steps = LandedSteps(@)]
  <2>1. SameRetries(s, landed)
    BY <1>2, <1>3 DEF SameRetries
  <2>2. LandRun(s) = Unchanged(s) \/ \E fx : LandRun(s) = To(landed, fx)
    BY DEF LandRun
  <2> HIDE DEF landed
  <2> QED
    BY <1>1, <2>1, <2>2
<1>7. SameRetries(s, BypassDesign(s).state)
  <2>1. BypassDesign(s).state.agents = s.agents
    BY DEF BypassDesign, To, Unchanged, RunOK, RunType
  <2> QED
    BY <2>1 DEF SameRetries
<1>8. SameRetries(s, AskCheckRepost(s).state) /\ SameRetries(s, OnRetitled(s, title).state)
  BY DEF AskCheckRepost, OnRetitled, To, Unchanged, RunOK, RunType, SameRetries
<1>9. /\ DOMAIN RetryAgents(s, target).state.agents = DOMAIN s.agents
      /\ \A a \in DOMAIN s.agents \ target :
           RetryAgents(s, target).state.agents[a].retries = s.agents[a].retries
  <2> DEFINE ids == RetryableAgents(s, target)
             agents == [a \in DOMAIN s.agents |->
                          IF a \in ids THEN FreshAgent(s.agents[a].retries + 1) ELSE s.agents[a]]
  <2>1. ids \subseteq target
    BY DEF RetryableAgents
  <2>2. RetryAgents(s, target) = Unchanged(s) \/ RetryAgents(s, target).state.agents = agents
    BY DEF RetryAgents, To, RunOK, RunType
  <2>3. DOMAIN agents = DOMAIN s.agents /\ \A a \in DOMAIN s.agents \ target : agents[a] = s.agents[a]
    BY <2>1
  <2> HIDE DEF agents
  <2> QED
    BY <2>2, <2>3 DEF Unchanged, To
<1> QED
  BY <1>4, <1>5, <1>6, <1>7, <1>8, <1>9

(* Only a retry starts attempts, of agents it names; only an ask asks. *)
LEMMA HandledAttempts ==
  ASSUME NEW s, Good(s), NEW request \in RequestsOf(DOMAIN s.agents)
  PROVE  LET r == Handled(request, s).state
         IN /\ DOMAIN r.agents = DOMAIN s.agents
            /\ \A a \in DOMAIN s.agents :
                 \/ r.agents[a].retries = s.agents[a].retries
                 \/ request.kind = "retry" /\ a \in request.target
            /\ request.kind \notin AskKinds => r.checkReposts = s.checkReposts
<1> DEFINE Fine(t) == SameRetries(s, t.state) /\ t.state.checkReposts = s.checkReposts
           a == request.job.agent
<1>0. RunOK(s)
  BY DEF Good
<1>1. CASE request.kind \in JobKinds \union {"dispatched"}
  <2>1. /\ request.kind \in {"brief", "events", "failure", "transcript", "dispatched"}
           \/ (request.kind = "verdict" /\ request.verdict \in Verdicts)
        /\ request.kind \notin AskKinds
    BY <1>1 DEF RequestsOf, JobRequestsOf, JobKinds, AskKinds
  <2>2. ASSUME NEW t \in {OnDispatched(s, a), OnEvents(s, a, 1), OnFailure(s, a), OnTranscript(s, a),
                        OnBriefed(s, a, request.job.attempt)}
        PROVE  Fine(t)
    <3>1. Plain(s, t)
      BY <1>0, <2>2, ReportsMoved
    <3>2. SameRetries(s, t.state)
      BY <1>0, <2>2, ReportsRetries
    <3> QED
      BY <3>1, <3>2 DEF Plain
  <2>3. ASSUME NEW v \in Verdicts PROVE Fine(OnVerdict(s, a, v))
    <3>1. v.status \in AgentStatus /\ v.hazards \in Hazards
      BY VerdictsAssumption DEF IsVerdict, AgentStatus
    <3>2. Plain(s, OnVerdict(s, a, v))
      BY <1>0, <3>1, ReportsMoved, PlainUnchanged DEF OnVerdict
    <3> QED
      BY <1>0, <3>2, ReportsRetries DEF Plain
  <2>4. CASE request.kind = "verdict"
    <3>1. Handled(request, s) = OnVerdict(s, a, request.verdict)
      BY <2>4 DEF Handled
    <3> QED
      BY <2>1, <2>3, <2>4, <3>1 DEF SameRetries
  <2>5. CASE request.kind # "verdict"
    <3>1. Handled(request, s) \in {OnDispatched(s, a), OnEvents(s, a, 1), OnFailure(s, a),
                                  OnTranscript(s, a), OnBriefed(s, a, request.job.attempt)}
      BY <2>1, <2>5 DEF Handled
    <3> QED
      BY <2>1, <2>2, <3>1 DEF SameRetries
  <2> QED
    BY <2>4, <2>5
<1>2. CASE request.kind \in {"stop", "land", "tick", "retitle"}
  <2>1. request.kind \notin AskKinds
    BY <1>2 DEF AskKinds
  <2>2. Fine(OnTick(s))
    BY <1>0, TickMoved, OwnersRetries DEF Plain
  <2>3. \A title : Fine(OnRetitled(s, title))
    BY <1>0, OwnersRetries DEF OnRetitled, Unchanged, To, RunOK, RunType
  <2>4. Fine(StopRun(s)) /\ Fine(LandRun(s))
    <3>1. /\ StopRun(s).state.checkReposts = s.checkReposts
          /\ LandRun(s).state.checkReposts = s.checkReposts
      BY <1>0 DEF StopRun, LandRun, Halted, Unchanged, To, RunOK, RunType
    <3> QED
      BY <1>0, <3>1, OwnersRetries
  <2>5. \/ Handled(request, s) \in {OnTick(s), StopRun(s), LandRun(s)}
        \/ \E title : Handled(request, s) = OnRetitled(s, title)
    BY <1>2 DEF Handled
  <2> QED
    BY <2>1, <2>2, <2>3, <2>4, <2>5 DEF SameRetries
<1>3. CASE request.kind \in AskKinds
  <2>1. \/ request.kind = "retry" /\ Handled(request, s) = RetryAgents(s, request.target)
        \/ Handled(request, s) \in {BypassDesign(s), AskCheckRepost(s)}
    BY <1>3 DEF Handled, AskKinds
  <2> QED
    BY <1>0, <1>3, <2>1, OwnersRetries DEF SameRetries
<1>4. request.kind \in JobKinds \union {"dispatched", "stop", "land", "tick",
        "retitle"} \union AskKinds
  BY DEF RequestsOf, JobRequestsOf, JobKinds, AskKinds
<1> QED
  BY <1>1, <1>2, <1>3, <1>4

-----------------------------------------------------------------------------
(* What the calls under way still may ask.  A handler is applied to the state as it is when its  *)
(* turn comes: these say that what was checked of a request when it came still holds then.       *)

IsAsk(op) == op[1] = "apply" /\ op[2].kind \in AskKinds
IsRetry(op) == op[1] = "apply" /\ op[2].kind = "retry"
IsBrief(op) == op[1] = "apply" /\ op[2].kind = "brief"
Marked(op) == IsAsk(op) \/ IsBrief(op)
AsksLast(todo) == \A i \in 1 .. Len(todo) : IsAsk(todo[i]) => i = Len(todo)
Asking(todo) == \E op \in ToSet(todo) : IsAsk(op)
From(todo, old) == \A op \in ToSet(todo) : Marked(op) => op \in ToSet(old)

Allowed(request, s) ==
  /\ s.checkReposts < MaxReposts
  /\ request.kind = "retry" =>
       /\ request.target \in RetryTargets(DOMAIN s.agents)
       /\ \A a \in request.target : s.agents[a].retries < MaxRetries
Owns(job, s) ==
  /\ job.agent \in DOMAIN s.agents
  /\ job = [agent |-> job.agent, attempt |-> s.agents[job.agent].retries + 1]

(* At most one ask is under way, within its bounds; a brief is for the agent's attempt, and no   *)
(* retry of its agent is under way.                                                              *)
Held ==
  /\ \A t \in Task : AsksLast(tasks[t].todo)
  /\ \A t, u \in Task : Asking(tasks[t].todo) /\ Asking(tasks[u].todo) => t = u
  /\ \A t \in Task : \A op \in ToSet(tasks[t].todo) : IsAsk(op) => Allowed(op[2], stored)
  /\ \A t \in Task : \A op \in ToSet(tasks[t].todo) : IsBrief(op) =>
       /\ Owns(op[2].job, stored)
       /\ \A u \in Task : \A other \in ToSet(tasks[u].todo) :
            IsRetry(other) => op[2].job.agent \notin other[2].target

LEMMA RetryIsAsk == \A op : IsRetry(op) => IsAsk(op) /\ Marked(op)
  BY DEF IsRetry, IsAsk, Marked, AskKinds

LEMMA TailOps ==
  ASSUME NEW S, NEW todo \in Seq(S), todo # <<>>
  PROVE  /\ ToSet(Tail(todo)) \subseteq ToSet(todo) /\ Head(todo) \in ToSet(todo)
         /\ AsksLast(todo) => AsksLast(Tail(todo))
         /\ AsksLast(todo) /\ IsAsk(Head(todo)) => Tail(todo) = <<>>
<1> DEFINE rest == Tail(todo)
           n == Len(todo)
           m == Len(rest)
<1>1. /\ n \in Nat /\ n > 0 /\ rest \in Seq(S) /\ m = n - 1 /\ Head(todo) = todo[1]
      /\ \A i \in 1 .. m : rest[i] = todo[i + 1]
      /\ DOMAIN todo = 1 .. n /\ DOMAIN rest = 1 .. m
  OBVIOUS
<1> HIDE DEF rest
<1>2. m = 0 => rest = <<>>
  BY <1>1
<1>3. AsksLast(todo) <=> \A i \in 1 .. n : IsAsk(todo[i]) => i = n
  BY DEF AsksLast
<1>4. AsksLast(rest) <=> \A i \in 1 .. m : IsAsk(rest[i]) => i = m
  BY DEF AsksLast
<1>5. /\ \A op : op \in ToSet(todo) <=> \E i \in 1 .. n : op = todo[i]
      /\ \A op : op \in ToSet(rest) <=> \E i \in 1 .. m : op = rest[i]
  BY <1>1 DEF ToSet
<1> HIDE DEF n, m
<1>6. 1 \in 1 .. n /\ \A i \in 1 .. m : i + 1 \in 1 .. n /\ (i + 1 = n => i = m)
  BY <1>1
<1>7. ToSet(rest) \subseteq ToSet(todo) /\ Head(todo) \in ToSet(todo)
  BY <1>1, <1>5, <1>6
<1>8. AsksLast(todo) => AsksLast(rest)
  BY <1>1, <1>3, <1>4, <1>6
<1>9. AsksLast(todo) /\ IsAsk(Head(todo)) => rest = <<>>
  BY <1>1, <1>2, <1>3, <1>6
<1> QED
  BY <1>7, <1>8, <1>9 DEF rest

LEMMA SuffixOps ==
  ASSUME NEW S, NEW todo \in Seq(S), NEW k \in 1 .. Len(todo)
  PROVE  LET rest == SubSeq(todo, k, Len(todo))
         IN ToSet(rest) \subseteq ToSet(todo) /\ (AsksLast(todo) => AsksLast(rest))
<1> DEFINE rest == SubSeq(todo, k, Len(todo))
<1>1. /\ Len(todo) \in Nat /\ rest \in Seq(S) /\ Len(rest) = Len(todo) - k + 1
      /\ \A i \in 1 .. Len(rest) : rest[i] = todo[i + k - 1]
  OBVIOUS
<1>2. DOMAIN todo = 1 .. Len(todo) /\ DOMAIN rest = 1 .. Len(rest)
  BY <1>1
<1> HIDE DEF rest
<1>3. \A i \in 1 .. Len(rest) : i + k - 1 \in 1 .. Len(todo)
  BY <1>1
<1>4. ToSet(rest) \subseteq ToSet(todo)
  BY <1>1, <1>2, <1>3 DEF ToSet
<1>5. ASSUME AsksLast(todo), NEW i \in 1 .. Len(rest), IsAsk(rest[i]) PROVE i = Len(rest)
  <2>1. i + k - 1 = Len(todo)
    BY <1>1, <1>3, <1>5 DEF AsksLast
  <2> QED
    BY <1>1, <2>1
<1> QED
  BY <1>4, <1>5 DEF AsksLast, rest

LEMMA ConcatOps ==
  ASSUME NEW S, NEW s \in Seq(S), NEW r \in Seq(S), \A op \in ToSet(s) : ~IsAsk(op)
  PROVE  /\ s \o r \in Seq(S)
         /\ ToSet(s \o r) = ToSet(s) \union ToSet(r)
         /\ AsksLast(r) => AsksLast(s \o r)
<1> DEFINE q == s \o r
<1>1. /\ q \in Seq(S) /\ Len(q) = Len(s) + Len(r) /\ Len(s) \in Nat /\ Len(r) \in Nat
      /\ \A i \in 1 .. Len(s) : q[i] = s[i]
      /\ \A i \in 1 .. Len(r) : q[Len(s) + i] = r[i]
  OBVIOUS
<1>2. DOMAIN s = 1 .. Len(s) /\ DOMAIN r = 1 .. Len(r)
  OBVIOUS
<1> HIDE DEF q
<1>3. DOMAIN q = 1 .. Len(q)
  BY <1>1
<1>4. \A i \in 1 .. Len(q) : i \in 1 .. Len(s) \/ (i - Len(s) \in 1 .. Len(r) /\
        i = Len(s) + (i - Len(s)))
  BY <1>1
<1>5. \A i \in 1 .. Len(s) : i \in 1 .. Len(q)
  BY <1>1
<1>6. \A i \in 1 .. Len(r) : Len(s) + i \in 1 .. Len(q)
  BY <1>1
<1>7. ToSet(q) = ToSet(s) \union ToSet(r)
  <2>1. ASSUME NEW op \in ToSet(q) PROVE op \in ToSet(s) \union ToSet(r)
    <3>1. PICK i \in 1 .. Len(q) : op = q[i]
      BY <1>3, <2>1 DEF ToSet
    <3>2. CASE i \in 1 .. Len(s)
      BY <1>1, <1>2, <3>1, <3>2 DEF ToSet
    <3>3. CASE i - Len(s) \in 1 .. Len(r) /\ i = Len(s) + (i - Len(s))
      <4>1. q[i] = r[i - Len(s)]
        BY <1>1, <3>3
      <4> QED
        BY <1>2, <3>1, <3>3, <4>1 DEF ToSet
    <3> QED
      BY <1>4, <3>2, <3>3
  <2>2. ToSet(s) \subseteq ToSet(q)
    BY <1>1, <1>2, <1>3, <1>5 DEF ToSet
  <2>3. ToSet(r) \subseteq ToSet(q)
    BY <1>1, <1>2, <1>3, <1>6 DEF ToSet
  <2> QED
    BY <2>1, <2>2, <2>3
<1>8. ASSUME AsksLast(r), NEW i \in 1 .. Len(q), IsAsk(q[i]) PROVE i = Len(q)
  <2>1. CASE i \in 1 .. Len(s)
    <3>1. s[i] \in ToSet(s) /\ q[i] = s[i]
      BY <1>1, <1>2, <2>1 DEF ToSet
    <3> QED
      BY <1>8, <3>1
  <2>2. CASE i - Len(s) \in 1 .. Len(r) /\ i = Len(s) + (i - Len(s))
    <3>1. q[i] = r[i - Len(s)]
      BY <1>1, <2>2
    <3>2. i - Len(s) = Len(r)
      BY <1>8, <2>2, <3>1 DEF AsksLast
    <3> QED
      BY <1>1, <2>2, <3>2
  <2> QED
    BY <1>4, <2>1, <2>2
<1> QED
  BY <1>1, <1>7, <1>8 DEF AsksLast, q

LEMMA OneOp ==
  ASSUME NEW op
  PROVE  /\ <<op>> \in Seq({op}) /\ ToSet(<<op>>) = {op} /\ AsksLast(<<op>>)
  BY DEF ToSet, AsksLast

(* What a request makes a task do: nothing marked but the request itself, at the end. *)
LEMMA StepOps ==
  ASSUME NEW request
  PROVE  /\ \A op \in ToSet(StepOf(request)) : Marked(op) => op = <<"apply", request>>
         /\ AsksLast(StepOf(request)) /\ <<"apply", request>> \in ToSet(StepOf(request))
         /\ \A op \in ToSet(RetryPending) : ~Marked(op)
         /\ AsksLast(RetryPending)
<1> DEFINE a == <<"index">>
           b == <<"retryCheck">>
           c == <<"apply", request>>
<1>1. ~Marked(a) /\ ~Marked(b)
  BY DEF Marked, IsAsk, IsBrief
<1>2. RetryPending = <<a, b>>
  BY DEF RetryPending
<1>3. StepOf(request) = RetryPending \o <<c>>
  BY DEF StepOf
<1> HIDE DEF a, b, c
<1>4. RetryPending \in Seq({a, b, c}) /\ ToSet(RetryPending) = {a, b}
  BY <1>2 DEF ToSet
<1>5. \A op \in ToSet(RetryPending) : ~Marked(op) /\ ~IsAsk(op)
  BY <1>1, <1>4 DEF Marked
<1>6. <<c>> \in Seq({a, b, c})
  OBVIOUS
<1>7. /\ ToSet(StepOf(request)) = ToSet(RetryPending) \union {c}
      /\ AsksLast(StepOf(request))
  <2> DEFINE s == RetryPending
             r == <<c>>
             S == {a, b, c}
  <2>1. s \in Seq(S) /\ r \in Seq(S) /\ \A op \in ToSet(s) : ~IsAsk(op)
    BY <1>4, <1>5, <1>6
  <2>2. ToSet(r) = {c} /\ AsksLast(r) /\ StepOf(request) = s \o r
    BY <1>3, OneOp
  <2> HIDE DEF s, r, S
  <2>3. ToSet(s \o r) = ToSet(s) \union ToSet(r) /\ AsksLast(s \o r)
    BY <2>1, <2>2, ConcatOps
  <2> QED
    BY <2>2, <2>3 DEF s
<1>8. AsksLast(RetryPending)
  <2>1. \A i \in 1 .. Len(RetryPending) : RetryPending[i] \in ToSet(RetryPending)
    BY <1>4 DEF ToSet
  <2> QED
    BY <1>5, <2>1 DEF AsksLast
<1> QED
  BY <1>5, <1>7, <1>8 DEF c

LEMMA TodoOps ==
  ASSUME NEW request
  PROVE  /\ \A op \in ToSet(TodoOf(request)) : Marked(op) => op = <<"apply", request>>
         /\ AsksLast(TodoOf(request))
<1> DEFINE a == <<"index">>
           b == <<"retryCheck">>
           c == <<"apply", request>>
           d == <<"admit", request>>
           S == {a, b, c, d}
           p == RetryPending
           one == <<d>>
           s == StepOf(request)
<1>1. p = <<a, b>> /\ s = p \o <<c>> /\ ~Marked(d) /\ ~IsAsk(d)
  BY DEF RetryPending, StepOf, Marked, IsAsk, IsBrief
<1>2. /\ \A op \in ToSet(s) : Marked(op) => op = c
      /\ AsksLast(s) /\ \A op \in ToSet(p) : ~Marked(op)
      /\ AsksLast(p)
  BY StepOps
<1> HIDE DEF a, b, c, d
<1>3. p \in Seq(S) /\ <<c>> \in Seq(S) /\ one \in Seq(S)
  BY <1>1
<1> HIDE DEF S, p
<1>4. s \in Seq(S)
  BY <1>1, <1>3, Concat
<1>5. CASE request.kind = "view"
  <2>1. request.kind \notin Reports
    BY <1>5 DEF Reports
  <2>2. TodoOf(request) = p
    BY <1>5, <2>1 DEF TodoOf, p
  <2> QED
    BY <1>2, <2>2
<1>6. CASE request.kind # "view" /\ request.kind \in Reports
  <2>1. TodoOf(request) = (p \o one) \o s
    BY <1>6 DEF TodoOf, p, d
  <2>2. ToSet(one) = {d} /\ AsksLast(one)
    BY OneOp
  <2> HIDE DEF one, s
  <2>3. p \o one \in Seq(S) /\ ToSet(p \o one) = ToSet(p) \union {d}
    BY <1>2, <1>3, <2>2, ConcatOps DEF Marked
  <2> DEFINE q == p \o one
  <2> HIDE DEF q
  <2>4. q \in Seq(S) /\ \A op \in ToSet(q) : ~Marked(op) /\ ~IsAsk(op)
    BY <1>1, <1>2, <2>3 DEF q, Marked
  <2>5. ToSet(q \o s) = ToSet(q) \union ToSet(s) /\ AsksLast(q \o s)
    BY <1>2, <1>4, <2>4, ConcatOps
  <2> QED
    BY <1>2, <2>1, <2>4, <2>5 DEF q, s, c
<1>7. CASE request.kind # "view" /\ request.kind \notin Reports
  <2>1. TodoOf(request) = s
    BY <1>7 DEF TodoOf
  <2> QED
    BY <1>2, <2>1 DEF c
<1> QED
  BY <1>5, <1>6, <1>7

LEMMA EffectsUnmarked ==
  ASSUME NEW agents, NEW op \in EffectOps(agents)
  PROVE  ~Marked(op) /\ ~IsAsk(op)
  BY DEF EffectOps, Marked, IsAsk, IsBrief

(* A task that goes on keeps an end of what it is given to do. *)
LEMMA GoesOnTodo ==
  ASSUME NEW S, NEW todo \in Seq(S), NEW t \in Task, NEW index, NEW check,
         NEW all, all = [u \in Task |-> all[u]],
         NEW T1, NEW T2, all[t] \in [todo : T1, io : T2, tick : BOOLEAN],
         \A u \in Task \ {t} : all[u].todo = tasks[u].todo,
         GoesOnIn(all, t, todo, index, check)
  PROVE  /\ \A u \in Task \ {t} : tasks'[u].todo = tasks[u].todo
         /\ ToSet(tasks'[t].todo) \subseteq ToSet(todo)
         /\ AsksLast(todo) => AsksLast(tasks'[t].todo)
<1>1. CASE tasks' = [all EXCEPT ![t] = Idle]
  <2>1. tasks'[t] = Idle /\ \A u \in Task \ {t} : tasks'[u] = all[u]
    BY <1>1
  <2>2. Idle.todo = <<>> /\ ToSet(<<>>) = {} /\ AsksLast(<<>>)
    BY DEF Idle, ToSet, AsksLast
  <2> QED
    BY <2>1, <2>2
<1>2. ASSUME NEW k \in 1 .. Len(todo),
             tasks' = [all EXCEPT ![t] =
                         [@ EXCEPT !.todo = SubSeq(todo, k, Len(todo)), !.io = None]]
      PROVE  /\ \A u \in Task \ {t} : tasks'[u].todo = tasks[u].todo
             /\ ToSet(tasks'[t].todo) \subseteq ToSet(todo)
             /\ AsksLast(todo) => AsksLast(tasks'[t].todo)
  <2> DEFINE rest == SubSeq(todo, k, Len(todo))
  <2>1. ToSet(rest) \subseteq ToSet(todo) /\ (AsksLast(todo) => AsksLast(rest))
    BY SuffixOps
  <2>2. tasks' = [all EXCEPT ![t] = [@ EXCEPT !.todo = rest, !.io = None]]
    BY <1>2
  <2> HIDE DEF rest
  <2>3. tasks'[t].todo = rest /\ \A u \in Task \ {t} : tasks'[u] = all[u]
    BY <2>2
  <2> QED
    BY <2>1, <2>3
<1> QED
  BY <1>1, <1>2, GoesOnLemma

-----------------------------------------------------------------------------
(* What keeps it *)

LEMMA AllowedStays ==
  ASSUME NEW s, NEW r, SameRetries(s, r), s.checkReposts \in Nat,
         r.checkReposts \in {s.checkReposts, 0}, NEW request, Allowed(request, s)
  PROVE  Allowed(request, r)
<1>1. r.checkReposts < MaxReposts
  BY RunDOAssumption DEF Allowed
<1>2. ASSUME request.kind = "retry"
      PROVE  /\ request.target \in RetryTargets(DOMAIN r.agents)
             /\ \A a \in request.target : r.agents[a].retries < MaxRetries
  <2>1. /\ request.target \in RetryTargets(DOMAIN s.agents)
        /\ \A a \in request.target : s.agents[a].retries < MaxRetries
    BY <1>2 DEF Allowed
  <2>2. request.target \subseteq DOMAIN s.agents
    BY <2>1 DEF RetryTargets
  <2> QED
    BY <2>1, <2>2 DEF SameRetries
<1> QED
  BY <1>1, <1>2 DEF Allowed

LEMMA OwnsStays ==
  ASSUME NEW s, NEW r, DOMAIN r.agents = DOMAIN s.agents, NEW job, Owns(job, s),
         r.agents[job.agent].retries = s.agents[job.agent].retries
  PROVE  Owns(job, r)
  BY DEF Owns

(* No new ask or brief is under way, and those that are hold of the state as it is. *)
LEMMA HeldFrom ==
  ASSUME Held,
         \A u \in Task : AsksLast(tasks'[u].todo) /\ From(tasks'[u].todo, tasks[u].todo),
         \A u \in Task : \A op \in ToSet(tasks'[u].todo) : IsAsk(op) => Allowed(op[2], stored'),
         \A u \in Task : \A op \in ToSet(tasks'[u].todo) : IsBrief(op) => Owns(op[2].job, stored')
  PROVE  Held'
<1>1. ASSUME NEW u \in Task, NEW op \in ToSet(tasks'[u].todo), Marked(op)
      PROVE  op \in ToSet(tasks[u].todo)
  BY <1>1 DEF From
<1>2. \A t, u \in Task : Asking(tasks'[t].todo) /\ Asking(tasks'[u].todo) => t = u
  <2>1. \A u \in Task : Asking(tasks'[u].todo) => Asking(tasks[u].todo)
    BY <1>1 DEF Asking, Marked
  <2> QED
    BY <2>1 DEF Held
<1>3. ASSUME NEW t \in Task, NEW op \in ToSet(tasks'[t].todo), IsBrief(op),
             NEW u \in Task, NEW other \in ToSet(tasks'[u].todo), IsRetry(other)
      PROVE  op[2].job.agent \notin other[2].target
  <2>1. op \in ToSet(tasks[t].todo) /\ other \in ToSet(tasks[u].todo)
    BY <1>1, <1>3, RetryIsAsk DEF Marked
  <2> QED
    BY <1>3, <2>1 DEF Held
<1> QED
  BY <1>2, <1>3 DEF Held

LEMMA HeldStays ==
  ASSUME Stored, Held, SameRetries(stored, stored'),
         stored'.checkReposts \in {stored.checkReposts, 0},
         \A u \in Task : AsksLast(tasks'[u].todo) /\ From(tasks'[u].todo, tasks[u].todo)
  PROVE  Held'
<1>1. stored.checkReposts \in Nat
  BY DEF Stored, Good, RunOK, RunType
<1>2. ASSUME NEW u \in Task, NEW op \in ToSet(tasks'[u].todo), IsAsk(op)
      PROVE  Allowed(op[2], stored')
  <2>1. op \in ToSet(tasks[u].todo)
    BY <1>2 DEF From, Marked
  <2>2. Allowed(op[2], stored)
    BY <1>2, <2>1 DEF Held
  <2> QED
    BY <1>1, <2>2, AllowedStays
<1>3. ASSUME NEW u \in Task, NEW op \in ToSet(tasks'[u].todo), IsBrief(op)
      PROVE  Owns(op[2].job, stored')
  <2>1. op \in ToSet(tasks[u].todo)
    BY <1>3 DEF From, Marked
  <2>2. Owns(op[2].job, stored)
    BY <1>3, <2>1 DEF Held
  <2>3. op[2].job.agent \in DOMAIN stored.agents
    BY <2>2 DEF Owns
  <2>4. /\ DOMAIN stored'.agents = DOMAIN stored.agents
        /\ stored'.agents[op[2].job.agent].retries = stored.agents[op[2].job.agent].retries
    BY <2>3 DEF SameRetries
  <2> QED
    BY <2>2, <2>4, OwnsStays
<1> QED
  BY <1>2, <1>3, HeldFrom

-----------------------------------------------------------------------------
(* Every step keeps it *)

LEMMA FromRest ==
  ASSUME NEW old, NEW new, ToSet(new) \subseteq ToSet(old)
  PROVE  From(new, old)
  BY DEF From

(* A task goes on with operations that are its own or not marked. *)
LEMMA GoesOnHeld ==
  ASSUME Stored, Held, SameRetries(stored, stored'),
         stored'.checkReposts \in {stored.checkReposts, 0},
         NEW S, NEW todo \in Seq(S), NEW t \in Task, NEW index, NEW check,
         NEW all, all = [u \in Task |-> all[u]],
         NEW T1, NEW T2, all[t] \in [todo : T1, io : T2, tick : BOOLEAN],
         \A u \in Task \ {t} : all[u].todo = tasks[u].todo,
         GoesOnIn(all, t, todo, index, check),
         AsksLast(todo), From(todo, tasks[t].todo)
  PROVE  Held'
<1>1. /\ \A u \in Task \ {t} : tasks'[u].todo = tasks[u].todo
      /\ ToSet(tasks'[t].todo) \subseteq ToSet(todo)
      /\ AsksLast(tasks'[t].todo)
  BY GoesOnTodo
<1>2. AsksLast(tasks'[t].todo) /\ From(tasks'[t].todo, tasks[t].todo)
  BY <1>1 DEF From
<1>3. \A u \in Task \ {t} : AsksLast(tasks'[u].todo) /\ From(tasks'[u].todo, tasks[u].todo)
  BY <1>1 DEF From, Held
<1>4. \A u \in Task : AsksLast(tasks'[u].todo) /\ From(tasks'[u].todo, tasks[u].todo)
  BY <1>2, <1>3
<1> QED
  BY <1>4, HeldStays

(* The same, of a step that leaves the run as it is. *)
LEMMA CalmHeld ==
  ASSUME Stored, Tasks, Held, stored' = stored,
         NEW S, NEW todo \in Seq(S), NEW t \in Task, NEW index, NEW check,
         GoesOnIn(tasks, t, todo, index, check),
         AsksLast(todo), From(todo, tasks[t].todo)
  PROVE  Held'
<1> DEFINE D == DOMAIN stored.agents
           T1 == Seq(Ops(D) \union {Sync})
           T2 == IoOf(D) \union {None}
<1>1. SameRetries(stored, stored') /\ stored'.checkReposts \in {stored.checkReposts, 0}
  BY DEF SameRetries
<1>2. tasks = [u \in Task |-> tasks[u]] /\ tasks[t] \in [todo : T1, io : T2, tick : BOOLEAN]
  BY DEF Tasks, TaskOK
<1> HIDE DEF T1, T2
<1> QED
  BY <1>1, <1>2, GoesOnHeld

LEMMA SameTodoHeld ==
  ASSUME Stored, Held, SameRetries(stored, stored'),
         stored'.checkReposts \in {stored.checkReposts, 0},
         \A u \in Task : tasks'[u].todo = tasks[u].todo
  PROVE  Held'
<1>1. \A u \in Task : AsksLast(tasks'[u].todo) /\ From(tasks'[u].todo, tasks[u].todo)
  BY DEF Held, From
<1> QED
  BY <1>1, HeldStays

LEMMA RestOps ==
  ASSUME Tasks, Held, NEW t \in Task, tasks[t].todo # <<>>
  PROVE  /\ Rest(t) \in Seq(Ops(DOMAIN stored.agents) \union {Sync})
         /\ ToSet(Rest(t)) \subseteq ToSet(tasks[t].todo)
         /\ Head(tasks[t].todo) \in ToSet(tasks[t].todo)
         /\ AsksLast(Rest(t)) /\ From(Rest(t), tasks[t].todo)
         /\ IsAsk(Head(tasks[t].todo)) => Rest(t) = <<>>
<1> DEFINE S == Ops(DOMAIN stored.agents) \union {Sync}
<1>1. tasks[t].todo \in Seq(S) /\ AsksLast(tasks[t].todo)
  BY DEF Tasks, TaskOK, Held
<1> HIDE DEF S
<1>2. Rest(t) \in Seq(S)
  BY <1>1 DEF Rest, Todo
<1>3. /\ ToSet(Rest(t)) \subseteq ToSet(tasks[t].todo)
      /\ Head(tasks[t].todo) \in ToSet(tasks[t].todo)
      /\ AsksLast(Rest(t)) /\ (IsAsk(Head(tasks[t].todo)) => Rest(t) = <<>>)
  BY <1>1, TailOps DEF Rest, Todo
<1> QED
  BY <1>2, <1>3, FromRest DEF S

LEMMA CommitHeld ==
  ASSUME Inv, Held, NEW t \in Task, At(t, "apply"), NEW request, request = Head(tasks[t].todo)[2],
         Commit(t, request, Handled(request, stored))
  PROVE  Held'
<1> DEFINE D == DOMAIN stored.agents
           transition == Handled(request, stored)
           fx == transition.fx
           first == IF fx.index THEN IndexWrites ELSE {}
           second == IF fx.check THEN CheckWrites ELSE {}
           kinds == first \union second
           kept == Outdated(Outdated(tasks, first), second)
           effects == EffectsOf(fx)
           rest == Rest(t)
           todo == effects \o rest
           S == Ops(D) \union {Sync}
           T1 == Seq(Ops(D) \union {Sync})
           T2 == IoOf(D) \union {None}
<1>1. Stored /\ Tasks /\ Good(stored) /\ Noted(stored)
  BY DEF Inv, Stored
<1>2. /\ tasks[t].io = None /\ TaskOK(D, tasks[t]) /\ tasks[t].todo # <<>>
      /\ Head(tasks[t].todo) \in Ops(D) /\ Head(tasks[t].todo)[1] = "apply"
  BY <1>1, AtLemma
<1>3. request \in RequestsOf(D)
  BY <1>2, OpFacts
<1>4. Moved(stored, transition)
  BY <1>1, <1>3, HandledMoved
<1>5. stored' = transition.state /\ GoesOnIn(kept, t, todo, indexPending', checkPending')
  BY DEF Commit
<1>6. /\ DOMAIN stored'.agents = D
      /\ \A a \in D : \/ stored'.agents[a].retries = stored.agents[a].retries
                      \/ request.kind = "retry" /\ a \in request.target
      /\ request.kind \notin AskKinds => stored'.checkReposts = stored.checkReposts
  BY <1>1, <1>3, <1>5, HandledAttempts
<1>7. effects \in Seq(EffectOps(D)) /\ effects \in Seq(Ops(D))
  BY <1>1, <1>4, EffectsOK DEF Moved, Good
<1> HIDE DEF transition
<1>8. \A op \in ToSet(effects) : ~Marked(op) /\ ~IsAsk(op)
  <2>1. \A op \in ToSet(effects) : op \in EffectOps(D)
    <3> DEFINE E == EffectOps(D)
    <3> HIDE DEF effects, E
    <3>1. effects \in Seq(E)
      BY <1>7 DEF E
    <3> QED
      BY <3>1 DEF ToSet, E
  <2> QED
    BY <2>1, EffectsUnmarked
<1>9. /\ rest \in Seq(S) /\ ToSet(rest) \subseteq ToSet(tasks[t].todo)
      /\ Head(tasks[t].todo) \in ToSet(tasks[t].todo)
      /\ AsksLast(rest) /\ (IsAsk(Head(tasks[t].todo)) => rest = <<>>)
  BY <1>1, <1>2, RestOps
<1>10. effects \in Seq(S)
  <2> DEFINE Q == Ops(D)
  <2> HIDE DEF effects, Q
  <2>1. effects \in Seq(Q) /\ S = Q \union {Sync}
    BY <1>7 DEF Q
  <2> HIDE DEF S
  <2> QED
    BY <2>1
<1> HIDE DEF effects, rest, S
<1>11. /\ todo \in Seq(S) /\ ToSet(todo) = ToSet(effects) \union ToSet(rest) /\ AsksLast(todo)
  BY <1>8, <1>9, <1>10, ConcatOps
<1>12. \A op \in ToSet(todo) : Marked(op) => op \in ToSet(rest) /\ op \in ToSet(tasks[t].todo)
  BY <1>8, <1>9, <1>11
<1> HIDE DEF todo
<1>13. /\ \A u \in Task \ {t} : tasks'[u].todo = tasks[u].todo
       /\ ToSet(tasks'[t].todo) \subseteq ToSet(todo) /\ AsksLast(tasks'[t].todo)
  <2>1. \A u \in Task : Aged(tasks[u], kept[u], kinds)
    <3>1. \A u \in Task : TaskOK(D, tasks[u])
      BY <1>1 DEF Tasks
    <3>2. first \in {{}, IndexWrites} /\ second \in {{}, CheckWrites}
      OBVIOUS
    <3> HIDE DEF first, second, D
    <3> QED
      BY <3>1, <3>2, OutdatedTwice
  <2>2. kept = [u \in Task |-> kept[u]]
    BY DEF Outdated
  <2>3. kept[t] = tasks[t]
    BY <1>2, <2>1 DEF Aged
  <2>4. kept[t] \in [todo : T1, io : T2, tick : BOOLEAN]
    BY <1>2, <2>3 DEF TaskOK
  <2>5. kinds \in SUBSET Writes
    BY DEF Writes
  <2> HIDE DEF kept, kinds, T1, T2
  <2>6. \A u \in Task \ {t} : kept[u].todo = tasks[u].todo
    BY <1>1, <2>1, <2>5, AgedLemma DEF Tasks
  <2> HIDE DEF D
  <2> QED
    BY <1>5, <1>11, <2>2, <2>4, <2>6, GoesOnTodo
<1> HIDE DEF kept
<1>14. \A u \in Task : AsksLast(tasks'[u].todo) /\ From(tasks'[u].todo, tasks[u].todo)
  <2>1. AsksLast(tasks'[t].todo) /\ From(tasks'[t].todo, tasks[t].todo)
    BY <1>12, <1>13 DEF From
  <2>2. \A u \in Task \ {t} : AsksLast(tasks'[u].todo) /\ From(tasks'[u].todo, tasks[u].todo)
    BY <1>13 DEF From, Held
  <2> QED
    BY <2>1, <2>2
<1>15. CASE request.kind \notin AskKinds
  <2>1. SameRetries(stored, stored')
    BY <1>6, <1>15 DEF SameRetries, AskKinds
  <2> QED
    BY <1>1, <1>6, <1>14, <1>15, <2>1, HeldStays
<1>16. CASE request.kind \in AskKinds
  <2>1. IsAsk(Head(tasks[t].todo)) /\ (request.kind = "retry" => IsRetry(Head(tasks[t].todo)))
    BY <1>2, <1>16 DEF IsAsk, IsRetry
  <2>2. Asking(tasks[t].todo) /\ rest = <<>> /\ ToSet(rest) = {}
    <3>1. rest = <<>> /\ ToSet(<<>>) = {}
      BY <1>9, <2>1 DEF ToSet
    <3> QED
      BY <1>9, <2>1, <3>1 DEF Asking
  <2>3. ASSUME NEW u \in Task, NEW op \in ToSet(tasks'[u].todo), Marked(op)
        PROVE  u # t /\ op \in ToSet(tasks[u].todo)
    BY <1>12, <1>13, <2>2, <2>3
  <2>4. \A u \in Task : \A op \in ToSet(tasks'[u].todo) : ~IsAsk(op)
    BY <2>2, <2>3 DEF Held, Asking, Marked
  <2>5. ASSUME NEW u \in Task, NEW op \in ToSet(tasks'[u].todo), IsBrief(op)
        PROVE  Owns(op[2].job, stored')
    <3>1. op \in ToSet(tasks[u].todo)
      BY <2>3, <2>5 DEF Marked
    <3>2. /\ Owns(op[2].job, stored)
          /\ request.kind = "retry" => op[2].job.agent \notin request.target
      BY <1>9, <2>1, <2>5, <3>1 DEF Held
    <3>3. op[2].job.agent \in D
      BY <3>2 DEF Owns
    <3>4. stored'.agents[op[2].job.agent].retries = stored.agents[op[2].job.agent].retries
      BY <1>6, <3>2, <3>3
    <3> QED
      BY <1>6, <3>2, <3>4, OwnsStays
  <2> QED
    BY <1>14, <2>4, <2>5, HeldFrom
<1> QED
  BY <1>15, <1>16

LEMMA ApplyHeld ==
  ASSUME Inv, Held, NEW t \in Task, Apply(t)
  PROVE  Held'
<1>1. Stored /\ Tasks /\ At(t, "apply")
  BY DEF Inv, Apply
<1>2. tasks[t].todo # <<>>
  BY <1>1, AtLemma
<1>3. CASE Handled(Head(tasks[t].todo)[2], stored).state # stored
  BY <1>1, <1>3, CommitHeld DEF Apply, Todo
<1>4. CASE Handled(Head(tasks[t].todo)[2], stored).state = stored
  <2>1. GoesOnIn(tasks, t, Rest(t), indexPending, checkPending) /\ stored' = stored
    BY <1>4 DEF Apply, Todo, GoesOn
  <2> QED
    BY <1>1, <1>2, <2>1, RestOps, CalmHeld
<1> QED
  BY <1>3, <1>4

LEMMA AdmitHeld ==
  ASSUME Inv, Held, NEW t \in Task, Admit(t)
  PROVE  Held'
<1> DEFINE S == Ops(DOMAIN stored.agents) \union {Sync}
           todo == IF LiveAgent(stored, Head(Todo(t))[2].job.agent) THEN Rest(t) ELSE <<>>
<1>1. Stored /\ Tasks /\ At(t, "admit") /\ stored' = stored
      /\ GoesOnIn(tasks, t, todo, indexPending, checkPending)
  BY DEF Inv, Admit, GoesOn
<1>2. tasks[t].todo # <<>>
  BY <1>1, AtLemma
<1>3. Rest(t) \in Seq(S) /\ AsksLast(Rest(t)) /\ From(Rest(t), tasks[t].todo)
  BY <1>1, <1>2, RestOps
<1>4. <<>> \in Seq(S) /\ AsksLast(<<>>) /\ From(<<>>, tasks[t].todo)
  BY DEF AsksLast, From, ToSet
<1>5. todo \in Seq(S) /\ AsksLast(todo) /\ From(todo, tasks[t].todo)
  BY <1>3, <1>4
<1> HIDE DEF todo, S
<1> QED
  BY <1>1, <1>5, CalmHeld

(* An await leaves what the tasks have to do as it is. *)
LEMMA AwaitTodo ==
  ASSUME Tasks, NEW t \in Task, NEW io, Await(t, io)
  PROVE  \A u \in Task : tasks'[u].todo = tasks[u].todo
<1>1. \A u \in Task : tasks[u] = [todo |-> tasks[u].todo, io |-> tasks[u].io, tick |-> tasks[u].tick]
  BY DEF Tasks, TaskOK
<1>2. tasks' = [tasks EXCEPT ![t].io = io] /\ tasks = [u \in Task |-> tasks[u]]
  BY DEF Await, Tasks
<1>3. tasks'[t] = [tasks[t] EXCEPT !.io = io] /\ \A u \in Task \ {t} : tasks'[u] = tasks[u]
  BY <1>2
<1>4. [tasks[t] EXCEPT !.io = io].todo = tasks[t].todo
  BY <1>1
<1> QED
  BY <1>3, <1>4

LEMMA AwaitHeld ==
  ASSUME Inv, Held, NEW t \in Task, NEW io, Await(t, io), stored' = stored
  PROVE  Held'
<1>1. Stored /\ Tasks /\ SameRetries(stored, stored')
      /\ stored'.checkReposts \in {stored.checkReposts, 0}
  BY DEF Inv, SameRetries
<1> QED
  BY <1>1, AwaitTodo, SameTodoHeld

LEMMA AwaitsHeld ==
  ASSUME Inv, Held, NEW t \in Task, WriteIndex(t) \/ Dispatch(t) \/ Cancel(t)
  PROVE  Held'
<1>1. stored' = stored /\ \E io : Await(t, io)
  BY DEF WriteIndex, Dispatch, Cancel
<1> QED
  BY <1>1, AwaitHeld

LEMMA QueueCheckHeld ==
  ASSUME Inv, Held, NEW t \in Task, QueueCheck(t)
  PROVE  Held'
<1> DEFINE S == Ops(DOMAIN stored.agents) \union {Sync}
           done == <<"checkDone">>
           S2 == S \union {done}
           rest == Rest(t)
           ahead == IF At(t, "check") THEN <<<<"sync">>>> ELSE <<<<"sync">>, <<"checkDone">>>>
           todo == ahead \o rest
<1>1. Stored /\ Tasks /\ stored' = stored /\ (At(t, "check") \/ At(t, "retryCheck"))
      /\ tasks' = [tasks EXCEPT ![t].todo = ahead \o Tail(@)]
  BY DEF Inv, QueueCheck
<1>2. tasks[t].todo # <<>> /\ tasks = [u \in Task |-> tasks[u]]
      /\ tasks[t] = [todo |-> tasks[t].todo, io |-> tasks[t].io, tick |-> tasks[t].tick]
  BY <1>1 DEF At, Todo, Tasks, TaskOK
<1>3. rest \in Seq(S) /\ AsksLast(rest) /\ From(rest, tasks[t].todo)
  BY <1>1, <1>2, RestOps
<1>4. /\ tasks'[t] = [tasks[t] EXCEPT !.todo = todo]
      /\ \A u \in Task \ {t} : tasks'[u] = tasks[u]
  BY <1>1, <1>2 DEF Rest, Todo
<1>5. ahead \in Seq(S2) /\ ToSet(ahead) \subseteq {Sync, done}
      /\ \A op \in ToSet(ahead) : ~Marked(op) /\ ~IsAsk(op)
  <2>1. ahead \in {<<Sync>>, <<Sync, done>>} /\ Sync \in S
    BY DEF Sync
  <2>2. ~Marked(Sync) /\ ~IsAsk(Sync) /\ ~Marked(done) /\ ~IsAsk(done)
    BY DEF Sync, Marked, IsAsk, IsBrief
  <2> HIDE DEF ahead, done, S
  <2>3. CASE ahead = <<Sync>>
    <3>1. <<Sync>> \in Seq(S2) /\ ToSet(<<Sync>>) = {Sync}
      BY <2>1, OneOp
    <3> QED
      BY <2>2, <2>3, <3>1
  <2>4. CASE ahead = <<Sync, done>>
    <3>1. <<Sync, done>> \in Seq(S2) /\ ToSet(<<Sync, done>>) = {Sync, done}
      BY <2>1 DEF ToSet
    <3> QED
      BY <2>2, <2>4, <3>1
  <2> QED
    BY <2>1, <2>3, <2>4
<1> HIDE DEF ahead, rest, S, done, todo
<1>6. rest \in Seq(S2)
  BY <1>3
<1>7. AsksLast(todo) /\ From(todo, tasks[t].todo)
  <2> HIDE DEF S2
  <2>1. ToSet(todo) = ToSet(ahead) \union ToSet(rest) /\ AsksLast(todo)
    BY <1>3, <1>5, <1>6, ConcatOps DEF todo
  <2> QED
    BY <1>3, <1>5, <2>1 DEF From
<1>8. tasks'[t].todo = todo
  BY <1>2, <1>4
<1>9. \A u \in Task : AsksLast(tasks'[u].todo) /\ From(tasks'[u].todo, tasks[u].todo)
  BY <1>4, <1>7, <1>8 DEF Held, From
<1>10. SameRetries(stored, stored') /\ stored'.checkReposts \in {stored.checkReposts, 0}
  BY <1>1 DEF SameRetries
<1> QED
  BY <1>1, <1>9, <1>10, HeldStays

LEMMA SyncCheckHeld ==
  ASSUME Inv, Held, NEW t \in Task, SyncCheck(t)
  PROVE  Held'
<1>1. Stored /\ Tasks /\ Queued /\ stored' = stored /\ checkSyncs # <<>> /\ Head(checkSyncs) = t
  BY DEF Inv, SyncCheck
<1>2. tasks[t].todo # <<>>
  <2>1. t \in ToSet(checkSyncs)
    BY <1>1 DEF Queued, ToSet
  <2> QED
    BY <1>1, <2>1 DEF Queued, Syncing
<1>3. CASE checkPending /\ WantsCheck(stored)
  <2>1. \E io : Await(t, io)
    BY <1>3 DEF SyncCheck
  <2> QED
    BY <1>1, <2>1, AwaitHeld
<1>4. CASE ~(checkPending /\ WantsCheck(stored))
  <2>1. GoesOnIn(tasks, t, Rest(t), indexPending, FALSE)
    BY <1>4 DEF SyncCheck
  <2> QED
    BY <1>1, <1>2, <2>1, RestOps, CalmHeld
<1> QED
  BY <1>3, <1>4

LEMMA IndexReplyHeld ==
  ASSUME Inv, Held, NEW t \in Task, IndexReply(t)
  PROVE  Held'
<1> DEFINE D == DOMAIN stored.agents
           io == tasks[t].io
           settles == io.outcome = "ok" /\ io.fresh
           all == IF settles THEN Outdated(tasks, IndexWrites) ELSE tasks
           kinds == IF settles THEN IndexWrites ELSE {}
           T1 == Seq(Ops(D) \union {Sync})
           T2 == IoOf(D) \union {None}
<1>1. Stored /\ Tasks /\ stored' = stored /\ Awaits(t, "index")
      /\ GoesOnIn(all, t, Rest(t), indexPending', checkPending)
  BY DEF Inv, IndexReply
<1>2. tasks[t].todo # <<>>
  BY <1>1, AwaitsLemma
<1>3. \A u \in Task : Aged(tasks[u], all[u], kinds)
  <2>1. CASE settles
    <3>1. all = Outdated(tasks, IndexWrites) /\ kinds = IndexWrites
      BY <2>1
    <3> HIDE DEF all, kinds, settles
    <3> QED
      BY <3>1, OutdatedLemma
  <2>2. CASE ~settles
    BY <2>2 DEF Aged
  <2> QED
    BY <2>1, <2>2
<1>4. all = [u \in Task |-> all[u]]
  BY <1>1 DEF Outdated, Tasks
<1>5. kinds \in SUBSET Writes
  BY DEF Writes
<1> HIDE DEF all, kinds
<1>6. \A u \in Task : TaskOK(D, all[u]) /\ all[u].todo = tasks[u].todo
  BY <1>1, <1>3, <1>5, AgedLemma DEF Tasks
<1>7. all[t] \in [todo : T1, io : T2, tick : BOOLEAN]
  BY <1>6 DEF TaskOK
<1>8. SameRetries(stored, stored') /\ stored'.checkReposts \in {stored.checkReposts, 0}
  BY <1>1 DEF SameRetries
<1>9. Rest(t) \in Seq(Ops(D) \union {Sync}) /\ AsksLast(Rest(t)) /\ From(Rest(t), tasks[t].todo)
  BY <1>1, <1>2, RestOps
<1> DEFINE S == Ops(D) \union {Sync}
<1> HIDE DEF T1, T2
<1>10. Rest(t) \in Seq(S)
  BY <1>9
<1> HIDE DEF S, D
<1> QED
  BY <1>1, <1>4, <1>6, <1>7, <1>8, <1>9, <1>10, GoesOnHeld

LEMMA WriteReplyHeld ==
  ASSUME Inv, Held, NEW t \in Task, UpdateReply(t) \/ ReplaceReply(t)
  PROVE  Held'
<1>1. Stored /\ Tasks
  BY DEF Inv
<1>2. /\ stored' = stored /\ GoesOnIn(tasks, t, Rest(t), indexPending, checkPending')
      /\ \E kind : Awaits(t, kind)
  BY DEF UpdateReply, ReplaceReply, SyncEnds
<1>3. tasks[t].todo # <<>>
  BY <1>1, <1>2, AwaitsLemma
<1> QED
  BY <1>1, <1>2, <1>3, RestOps, CalmHeld

(* The reply of a create records the id; the asks it answers are answered. *)
LEMMA CreatedSame ==
  ASSUME NEW s, RunOK(s), NEW io
  PROVE  LET r == Created(io, s)
         IN SameRetries(s, r) /\ r.checkReposts \in {s.checkReposts, 0}
<1> DEFINE asks == io.read.checkReposts
           made == OnCheckCreated(s, io.id).state
           posted == OnCheckReposted(s, io.id, asks).state
<1>1. made \in {s, [s EXCEPT !.checkRunId = io.id]}
  BY DEF OnCheckCreated, Unchanged, To
<1>2. SameRetries(s, made) /\ made.checkReposts \in {s.checkReposts, 0}
  BY <1>1 DEF SameRetries, RunOK, RunType
<1>3. posted = [s EXCEPT !.checkReposts = IF @ = asks THEN 0 ELSE @, !.checkRunId = io.id]
  BY DEF OnCheckReposted, To
<1>4. SameRetries(s, posted) /\ posted.checkReposts \in {s.checkReposts, 0}
  BY <1>3 DEF SameRetries, RunOK, RunType
<1> HIDE DEF made, posted
<1>5. Created(io, s) \in {made, posted}
  BY DEF Created, made, posted
<1> QED
  BY <1>2, <1>4, <1>5

LEMMA CreateReplyHeld ==
  ASSUME Inv, Held, NEW t \in Task, CreateReply(t)
  PROVE  Held'
<1> DEFINE io == tasks[t].io
           D == DOMAIN stored.agents
           T1 == Seq(Ops(D) \union {Sync})
           T2 == IoOf(D) \union {None}
<1>1. Stored /\ Tasks /\ RunOK(stored) /\ Awaits(t, "create")
  BY DEF Inv, CreateReply, Stored, Good
<1>2. tasks[t].todo # <<>>
  BY <1>1, AwaitsLemma
<1>3. stored' = stored \/ stored' = Created(io, stored)
  BY DEF CreateReply
<1>4. SameRetries(stored, stored') /\ stored'.checkReposts \in {stored.checkReposts, 0}
  BY <1>1, <1>3, CreatedSame DEF SameRetries
<1>5. CASE \E next : Await(t, next)
  BY <1>1, <1>4, <1>5, AwaitTodo, SameTodoHeld
<1>6. CASE ~\E next : Await(t, next)
  <2>1. \E settles : SyncEnds(t, settles)
    BY <1>6 DEF CreateReply
  <2>2. GoesOnIn(tasks, t, Rest(t), indexPending, checkPending')
    BY <2>1 DEF SyncEnds
  <2>3. tasks = [u \in Task |-> tasks[u]] /\ tasks[t] \in [todo : T1, io : T2, tick : BOOLEAN]
    BY <1>1 DEF Tasks, TaskOK
  <2>4. Rest(t) \in Seq(Ops(D) \union {Sync}) /\ AsksLast(Rest(t)) /\ From(Rest(t), tasks[t].todo)
    BY <1>1, <1>2, RestOps
  <2> DEFINE S == Ops(D) \union {Sync}
  <2>5. Rest(t) \in Seq(S)
    BY <2>4
  <2> HIDE DEF S, D, T1, T2
  <2> QED
    BY <1>1, <1>4, <2>2, <2>3, <2>4, <2>5, GoesOnHeld
<1> QED
  BY <1>5, <1>6

LEMMA RepliesHeld ==
  ASSUME Inv, Held, NEW t \in Task, DispatchReply(t) \/ CancelReply(t) \/ NonceReply(t)
  PROVE  Held'
<1> DEFINE S == Ops(DOMAIN stored.agents) \union {Sync}
<1>1. Stored /\ Tasks
  BY DEF Inv
<1>2. CASE CancelReply(t)
  <2>1. Awaits(t, "cancel") /\ GoesOnIn(tasks, t, Rest(t), indexPending, checkPending) /\
          stored' = stored
    BY <1>2 DEF CancelReply, GoesOn
  <2>2. tasks[t].todo # <<>>
    BY <1>1, <2>1, AwaitsLemma
  <2> QED
    BY <1>1, <2>1, <2>2, RestOps, CalmHeld
<1>3. CASE NonceReply(t)
  <2>1. GoesOnIn(tasks, t, Todo(t), indexPending, checkPending) /\ stored' = stored
    BY <1>3 DEF NonceReply, GoesOn
  <2>2. Todo(t) \in Seq(S) /\ AsksLast(Todo(t)) /\ From(Todo(t), tasks[t].todo)
    BY <1>1 DEF Todo, Tasks, TaskOK, Held, From
  <2> HIDE DEF S
  <2> QED
    BY <1>1, <2>1, <2>2, CalmHeld
<1>4. CASE DispatchReply(t)
  <2> DEFINE io == tasks[t].io
             result == [kind |-> IF io.outcome = "ok" THEN "dispatched" ELSE "failure",
               job |-> io.job]
             step == StepOf(result)
             rest == Rest(t)
             todo == step \o rest
  <2>1. Awaits(t, "dispatch") /\ GoesOnIn(tasks, t, todo, indexPending, checkPending) /\
          stored' = stored
    BY <1>4 DEF DispatchReply, GoesOn
  <2>2. /\ tasks[t].todo # <<>> /\ io \in IoOf(DOMAIN stored.agents) /\ io.kind = "dispatch"
    BY <1>1, <2>1, AwaitsLemma
  <2>3. io.job \in JobsOf(DOMAIN stored.agents)
    BY <2>2 DEF IoOf
  <2> HIDE DEF io
  <2>4. result \in RequestsOf(DOMAIN stored.agents) /\ result.kind \in {"dispatched", "failure"}
    BY <2>3 DEF RequestsOf, JobRequestsOf, JobKinds
  <2> HIDE DEF result
  <2>5. step \in Seq(Ops(DOMAIN stored.agents)) /\ \A op \in ToSet(step) : ~Marked(op) /\ ~IsAsk(op)
    <3>1. ~Marked(<<"apply", result>>)
      BY <2>4 DEF Marked, IsAsk, IsBrief, AskKinds
    <3> QED
      BY <2>4, <3>1, StepOfOK, StepOps DEF Marked
  <2>6. rest \in Seq(S) /\ AsksLast(rest) /\ From(rest, tasks[t].todo)
    BY <1>1, <2>2, RestOps
  <2>7. step \in Seq(S)
    <3> DEFINE Q == Ops(DOMAIN stored.agents)
    <3> HIDE DEF step, Q
    <3>1. step \in Seq(Q) /\ S = Q \union {Sync}
      BY <2>5 DEF Q
    <3> HIDE DEF S
    <3> QED
      BY <3>1
  <2> HIDE DEF step, rest, S
  <2>8. todo \in Seq(S) /\ ToSet(todo) = ToSet(step) \union ToSet(rest) /\ AsksLast(todo)
    BY <2>5, <2>6, <2>7, ConcatOps
  <2> HIDE DEF todo
  <2>9. From(todo, tasks[t].todo)
    BY <2>5, <2>6, <2>8 DEF From
  <2> QED
    BY <1>1, <2>1, <2>8, <2>9, CalmHeld
<1> QED
  BY <1>2, <1>3, <1>4

LEMMA AlarmFiresHeld ==
  ASSUME Inv, Held, NEW t \in Task, AlarmFires(t)
  PROVE  Held'
<1> DEFINE D == DOMAIN stored.agents
           request == [kind |-> "tick"]
           all == [tasks EXCEPT ![t].tick = TRUE]
           todo == StepOf(request)
           S == Ops(D)
           T1 == Seq(Ops(D) \union {Sync})
           T2 == IoOf(D) \union {None}
<1>1. Stored /\ Tasks
  BY DEF Inv
<1>2. GoesOnIn(all, t, todo, indexPending, checkPending) /\ stored' = stored
  BY DEF AlarmFires
<1>3. todo \in Seq(S) /\ AsksLast(todo) /\ From(todo, tasks[t].todo)
  <2>1. request \in RequestsOf(D)
    BY DEF RequestsOf
  <2>2. ~Marked(<<"apply", request>>)
    BY DEF Marked, IsAsk, IsBrief, AskKinds
  <2>3. \A op \in ToSet(todo) : ~Marked(op)
    BY <2>2, StepOps
  <2> QED
    BY <2>1, <2>3, StepOfOK, StepOps DEF From
<1> HIDE DEF todo
<1>4. tasks = [u \in Task |-> tasks[u]] /\ tasks[t] \in [todo : T1, io : T2, tick : BOOLEAN]
  BY <1>1 DEF Tasks, TaskOK
<1>5. /\ all = [u \in Task |-> all[u]] /\ all[t] = [tasks[t] EXCEPT !.tick = TRUE]
      /\ \A u \in Task \ {t} : all[u].todo = tasks[u].todo
  BY <1>4
<1> HIDE DEF T1, T2, all
<1>6. all[t] \in [todo : T1, io : T2, tick : BOOLEAN]
  BY <1>4, <1>5
<1>7. SameRetries(stored, stored') /\ stored'.checkReposts \in {stored.checkReposts, 0}
  BY <1>2 DEF SameRetries
<1> HIDE DEF S, D
<1> QED
  BY <1>1, <1>2, <1>3, <1>5, <1>6, <1>7, GoesOnHeld

LEMMA ElapseHeld ==
  ASSUME Inv, Held, Elapse
  PROVE  Held'
<1> DEFINE r == Elapsed(stored)
<1>1. Stored /\ RunOK(stored) /\ stored' = r /\ tasks' = tasks
  BY DEF Inv, Stored, Good, Elapse, memory
<1>2. \A a \in DOMAIN stored.agents : stored.agents[a] \in AgentState
  BY <1>1, AgentTypes
<1>3. r.checkReposts = stored.checkReposts /\ SameRetries(stored, r)
  BY <1>1, <1>2 DEF Elapsed, RunOK, RunType, SameRetries, AgentState
<1> HIDE DEF r
<1> QED
  BY <1>1, <1>3, SameTodoHeld

LEMMA ResetHeld ==
  ASSUME Inv, Held, Reset
  PROVE  Held'
<1>1. Stored /\ stored' = stored /\ \A u \in Task : tasks'[u].todo = <<>>
  BY DEF Inv, Reset, Idle
<1>2. AsksLast(<<>>) /\ \A old : From(<<>>, old)
  BY DEF AsksLast, From, ToSet
<1>3. \A u \in Task : AsksLast(tasks'[u].todo) /\ From(tasks'[u].todo, tasks[u].todo)
  BY <1>1, <1>2
<1>4. SameRetries(stored, stored') /\ stored'.checkReposts \in {stored.checkReposts, 0}
  BY <1>1 DEF SameRetries
<1> QED
  BY <1>1, <1>3, <1>4, HeldStays

LEMMA ApplyFacts ==
  ASSUME NEW agents, NEW op \in Ops(agents) \union {Sync}, op[1] = "apply"
  PROVE  Len(op) = 2 /\ (op[2].kind = "brief" => "job" \in DOMAIN op[2])
<1>1. PICK request \in RequestsOf(agents) : op = <<"apply", request>>
  BY DEF Ops, EffectOps, Sync
<1>2. Len(op) = 2 /\ op[2] = request
  BY <1>1
<1>3. request.kind = "brief" => request \in JobRequestsOf(agents)
  BY DEF RequestsOf, JobRequestsOf
<1>4. request \in JobRequestsOf(agents) => "job" \in DOMAIN request
  BY DEF JobRequestsOf
<1> QED
  BY <1>2, <1>3, <1>4

LEMMA InFlightLemma ==
  ASSUME Tasks, NEW kinds, ~InFlight(kinds), NEW u \in Task, NEW op \in ToSet(tasks[u].todo),
         op[1] = "apply"
  PROVE  op[2].kind \notin kinds
<1> DEFINE S == Ops(DOMAIN stored.agents) \union {Sync}
<1>1. tasks[u].todo \in Seq(S)
  BY DEF Tasks, TaskOK
<1> HIDE DEF S
<1>2. PICK i \in DOMAIN tasks[u].todo : op = tasks[u].todo[i]
  BY DEF ToSet
<1>3. op \in S
  BY <1>1, <1>2
<1>4. Len(op) = 2
  BY <1>3, ApplyFacts DEF S
<1> QED
  BY <1>2, <1>4 DEF InFlight, Todo

LEMMA NotBusy ==
  ASSUME Tasks, NEW agents, ~JobsBusy(agents), NEW u \in Task, NEW op \in ToSet(tasks[u].todo),
         IsBrief(op)
  PROVE  op[2].job.agent \notin agents
<1> DEFINE S == Ops(DOMAIN stored.agents) \union {Sync}
<1>1. tasks[u].todo \in Seq(S) /\ op[1] = "apply" /\ op[2].kind = "brief"
  BY DEF Tasks, TaskOK, IsBrief
<1> HIDE DEF S
<1>2. PICK i \in DOMAIN tasks[u].todo : op = tasks[u].todo[i]
  BY DEF ToSet
<1>3. op \in S
  BY <1>1, <1>2
<1>4. "job" \in DOMAIN op[2]
  BY <1>1, <1>3, ApplyFacts DEF S
<1> QED
  BY <1>1, <1>2, <1>4 DEF JobsBusy, Todo

LEMMA CallTodo ==
  ASSUME Stored, Tasks, NEW t \in Task, NEW request \in Requests, Call(t, request)
  PROVE  /\ \A u \in Task \ {t} : tasks'[u].todo = tasks[u].todo
         /\ \A op \in ToSet(tasks'[t].todo) : Marked(op) => op = <<"apply", request>>
         /\ AsksLast(tasks'[t].todo)
<1> DEFINE D == DOMAIN stored.agents
           S == Ops(D)
           todo == TodoOf(request)
           T1 == Seq(Ops(D) \union {Sync})
           T2 == IoOf(D) \union {None}
<1>1. /\ \A op \in ToSet(todo) : Marked(op) => op = <<"apply", request>>
      /\ AsksLast(todo)
  BY TodoOps
<1>2. todo \in Seq(S)
  BY TodoOfOK
<1>3. tasks = [u \in Task |-> tasks[u]] /\ tasks[t] \in [todo : T1, io : T2, tick : BOOLEAN]
  BY DEF Tasks, TaskOK
<1> HIDE DEF S, todo, T1, T2
<1>4. CASE request.kind \in JobKinds
  <2> DEFINE nonce == [kind |-> "nonce"]
  <2>1. tasks' = [tasks EXCEPT ![t].todo = todo, ![t].io = nonce]
    BY <1>4 DEF Call, todo
  <2> HIDE DEF nonce
  <2>2. /\ tasks'[t] = [tasks[t] EXCEPT !.todo = todo, !.io = nonce]
        /\ \A u \in Task \ {t} : tasks'[u] = tasks[u]
    BY <1>3, <2>1
  <2>3. tasks'[t].todo = todo
    BY <1>3, <2>2
  <2> QED
    BY <1>1, <2>2, <2>3
<1>5. CASE request.kind \notin JobKinds
  <2>1. GoesOnIn(tasks, t, todo, indexPending, checkPending)
    BY <1>5 DEF Call, GoesOn, todo
  <2>2. /\ \A u \in Task \ {t} : tasks'[u].todo = tasks[u].todo
        /\ ToSet(tasks'[t].todo) \subseteq ToSet(todo) /\ AsksLast(tasks'[t].todo)
    BY <1>1, <1>2, <1>3, <2>1, GoesOnTodo
  <2> QED
    BY <1>1, <2>2
<1> QED
  BY <1>4, <1>5

LEMMA CallHeld ==
  ASSUME ~LateCalls, Inv, Held, NEW t \in Task, NEW request \in Requests, Call(t, request)
  PROVE  Held'
<1> DEFINE D == DOMAIN stored.agents
           new == <<"apply", request>>
<1>1. Stored /\ Tasks
  BY DEF Inv
<1>2. WithinBounds(request) /\ stored' = stored /\ tasks[t] = Idle
      /\ (request.kind \in JobKinds => request.job = Job(request.job.agent))
  BY DEF Call
<1>3. /\ \A u \in Task \ {t} : tasks'[u].todo = tasks[u].todo
      /\ \A op \in ToSet(tasks'[t].todo) : Marked(op) => op = new
      /\ AsksLast(tasks'[t].todo)
  BY <1>1, CallTodo
<1>4. new[1] = "apply" /\ new[2] = request
  OBVIOUS
<1> HIDE DEF new
<1>5. \A u \in Task : AsksLast(tasks'[u].todo)
  BY <1>3 DEF Held
<1>6. ASSUME NEW u \in Task, NEW op \in ToSet(tasks'[u].todo), Marked(op)
      PROVE  (u # t /\ op \in ToSet(tasks[u].todo)) \/ (u = t /\ op = new)
  BY <1>3, <1>6
<1>7. CASE request.kind \notin AskKinds \union {"brief"}
  <2>1. ~Marked(new)
    BY <1>4, <1>7 DEF Marked, IsAsk, IsBrief
  <2>2. \A u \in Task : From(tasks'[u].todo, tasks[u].todo)
    BY <1>6, <2>1 DEF From
  <2>3. SameRetries(stored, stored') /\ stored'.checkReposts \in {stored.checkReposts, 0}
    BY <1>2 DEF SameRetries
  <2> QED
    BY <1>1, <1>5, <2>2, <2>3, HeldStays
<1>8. CASE request.kind \in AskKinds
  <2>1. ~InFlight(AskKinds) /\ stored.checkReposts < MaxReposts
        /\ (request.kind = "retry" =>
              /\ \A a \in request.target : stored.agents[a].retries < MaxRetries
              /\ ~JobsBusy(request.target))
    BY <1>2, <1>8 DEF WithinBounds
  <2>2. \A u \in Task : \A op \in ToSet(tasks[u].todo) : ~IsAsk(op)
    BY <1>1, <2>1, InFlightLemma DEF IsAsk
  <2>3. ~IsBrief(new)
    BY <1>4, <1>8 DEF IsBrief, AskKinds
  <2>4. Allowed(request, stored)
    <3>1. request.kind = "retry" => request.target \in RetryTargets(D)
      BY DEF Requests, JobKinds
    <3> QED
      BY <2>1, <3>1 DEF Allowed
  <2>5. ASSUME NEW u \in Task, NEW op \in ToSet(tasks'[u].todo), IsAsk(op)
        PROVE  u = t /\ op = new
    BY <1>6, <2>2, <2>5 DEF Marked
  <2>6. \A u, v \in Task : Asking(tasks'[u].todo) /\ Asking(tasks'[v].todo) => u = v
    BY <2>5 DEF Asking
  <2>7. \A u \in Task : \A op \in ToSet(tasks'[u].todo) : IsAsk(op) => Allowed(op[2], stored')
    BY <1>2, <1>4, <2>4, <2>5
  <2>8. ASSUME NEW u \in Task, NEW op \in ToSet(tasks'[u].todo), IsBrief(op)
        PROVE  /\ Owns(op[2].job, stored')
               /\ \A v \in Task : \A other \in ToSet(tasks'[v].todo) :
                    IsRetry(other) => op[2].job.agent \notin other[2].target
    <3>1. op \in ToSet(tasks[u].todo)
      BY <1>6, <2>3, <2>8 DEF Marked
    <3>2. Owns(op[2].job, stored)
      BY <2>8, <3>1 DEF Held
    <3>3. request.kind = "retry" => op[2].job.agent \notin request.target
      BY <1>1, <2>1, <2>8, <3>1, NotBusy
    <3>4. ASSUME NEW v \in Task, NEW other \in ToSet(tasks'[v].todo), IsRetry(other)
          PROVE  op[2].job.agent \notin other[2].target
      <4>1. other = new
        BY <2>5, <3>4, RetryIsAsk
      <4> QED
        BY <1>4, <3>3, <3>4, <4>1 DEF IsRetry
    <3> QED
      BY <1>2, <3>2, <3>4
  <2> QED
    BY <1>5, <2>6, <2>7, <2>8 DEF Held
<1>9. CASE request.kind = "brief"
  <2>1. ~InFlight({"retry"})
    BY <1>2, <1>9 DEF WithinBounds, Reports
  <2>2. \A u \in Task : \A op \in ToSet(tasks[u].todo) : ~IsRetry(op)
    BY <1>1, <2>1, InFlightLemma DEF IsRetry
  <2>3. ~IsAsk(new) /\ ~IsRetry(new)
    BY <1>4, <1>9 DEF IsAsk, IsRetry, AskKinds
  <2>4. Owns(request.job, stored)
    <3>1. request \in JobRequestsOf(D) /\ request.job = Job(request.job.agent)
      BY <1>1, <1>2, <1>9, RequestsLemma DEF JobKinds
    <3>2. request.job \in JobsOf(D)
      BY <3>1 DEF JobRequestsOf
    <3>3. request.job.agent \in D
      BY <3>2 DEF JobsOf
    <3> QED
      BY <3>1, <3>3 DEF Owns, Job
  <2>5. ASSUME NEW u \in Task, NEW op \in ToSet(tasks'[u].todo), IsAsk(op)
        PROVE  op \in ToSet(tasks[u].todo) /\ ~IsRetry(op)
    BY <1>6, <2>2, <2>3, <2>5 DEF Marked
  <2>6. \A u, v \in Task : Asking(tasks'[u].todo) /\ Asking(tasks'[v].todo) => u = v
    <3>1. \A u \in Task : Asking(tasks'[u].todo) => Asking(tasks[u].todo)
      BY <2>5 DEF Asking
    <3> QED
      BY <3>1 DEF Held
  <2>7. \A u \in Task : \A op \in ToSet(tasks'[u].todo) : IsAsk(op) => Allowed(op[2], stored')
    BY <1>2, <2>5 DEF Held
  <2>8. ASSUME NEW u \in Task, NEW op \in ToSet(tasks'[u].todo), IsBrief(op)
        PROVE  Owns(op[2].job, stored')
    <3>1. op \in ToSet(tasks[u].todo) \/ op = new
      BY <1>6, <2>8 DEF Marked
    <3>2. CASE op = new
      BY <1>2, <1>4, <2>4, <3>2
    <3>3. CASE op \in ToSet(tasks[u].todo)
      BY <1>2, <2>8, <3>3 DEF Held
    <3> QED
      BY <3>1, <3>2, <3>3
  <2>9. \A v \in Task : \A other \in ToSet(tasks'[v].todo) : ~IsRetry(other)
    BY <2>5, RetryIsAsk
  <2> QED
    BY <1>5, <2>6, <2>7, <2>8, <2>9 DEF Held
<1> QED
  BY <1>7, <1>8, <1>9

LEMMA InitHeld == Init => Held
<1> SUFFICES ASSUME Init PROVE Held
  OBVIOUS
<1>1. PICK agents \in SUBSET Agent, title \in Title, t \in Task :
        LET created == CreateRun(agents, title)
        IN /\ stored = created.state
           /\ tasks = [u \in Task |-> IF u = t THEN [Idle EXCEPT !.todo = EffectsOf(created.fx)]
                                      ELSE Idle]
  BY DEF Init
<1> DEFINE created == CreateRun(agents, title)
           E == EffectOps(DOMAIN stored.agents)
           todo == EffectsOf(created.fx)
           task == [Idle EXCEPT !.todo = todo]
<1>2. Good(stored) /\ FxOK(stored, created.fx)
  BY <1>1, CreatedRun
<1>3. todo \in Seq(E)
  BY <1>2, EffectsOK DEF Good
<1>4. tasks = [u \in Task |-> IF u = t THEN task ELSE Idle]
  BY <1>1
<1> HIDE DEF created, todo
<1>5. task = [todo |-> todo, io |-> None, tick |-> FALSE]
  BY IdleTodo
<1> HIDE DEF task
<1>6. \A op \in E : ~Marked(op) /\ ~IsAsk(op)
  BY EffectsUnmarked
<1> HIDE DEF E
<1>7. \A op \in ToSet(todo) : ~Marked(op) /\ ~IsAsk(op)
  BY <1>3, <1>6 DEF ToSet
<1>8. Idle.todo = <<>> /\ ToSet(<<>>) = {}
  BY DEF Idle, ToSet
<1>9. ASSUME NEW u \in Task, NEW op \in ToSet(tasks[u].todo)
      PROVE  ~IsAsk(op) /\ ~IsBrief(op)
  <2>1. CASE u = t
    BY <1>4, <1>5, <1>7, <1>9, <2>1 DEF Marked
  <2>2. CASE u # t
    BY <1>4, <1>8, <1>9, <2>2
  <2> QED
    BY <2>1, <2>2
<1>10. ASSUME NEW u \in Task PROVE AsksLast(tasks[u].todo)
  <2>1. CASE u = t
    <3>1. tasks[u].todo = todo
      BY <1>4, <1>5, <2>1
    <3>2. \A i \in 1 .. Len(todo) : todo[i] \in ToSet(todo)
      BY <1>3 DEF ToSet
    <3> QED
      BY <1>7, <3>1, <3>2 DEF AsksLast
  <2>2. CASE u # t
    <3>1. tasks[u].todo = <<>>
      BY <1>4, <1>8, <2>2
    <3> QED
      BY <3>1 DEF AsksLast
  <2> QED
    BY <2>1, <2>2
<1>11. \A u \in Task : ~Asking(tasks[u].todo)
  BY <1>9 DEF Asking
<1> QED
  BY <1>9, <1>10, <1>11 DEF Held

LEMMA NextHeld == ~LateCalls /\ Inv /\ Held /\ [Next]_vars => Held'
<1> SUFFICES ASSUME ~LateCalls, Inv, Held, [Next]_vars PROVE Held'
  OBVIOUS
<1>1. ASSUME NEW t \in Task, Apply(t) PROVE Held'
  BY <1>1, ApplyHeld
<1>2. ASSUME NEW t \in Task, Admit(t) PROVE Held'
  BY <1>2, AdmitHeld
<1>3. ASSUME NEW t \in Task, WriteIndex(t) \/ Dispatch(t) \/ Cancel(t) PROVE Held'
  BY <1>3, AwaitsHeld
<1>4. ASSUME NEW t \in Task, QueueCheck(t) PROVE Held'
  BY <1>4, QueueCheckHeld
<1>5. ASSUME NEW t \in Task, SyncCheck(t) PROVE Held'
  BY <1>5, SyncCheckHeld
<1>6. ASSUME NEW t \in Task, IndexReply(t) PROVE Held'
  BY <1>6, IndexReplyHeld
<1>7. ASSUME NEW t \in Task, UpdateReply(t) \/ ReplaceReply(t) PROVE Held'
  BY <1>7, WriteReplyHeld
<1>8. ASSUME NEW t \in Task, CreateReply(t) PROVE Held'
  BY <1>8, CreateReplyHeld
<1>9. ASSUME NEW t \in Task, DispatchReply(t) \/ CancelReply(t) \/ NonceReply(t) PROVE Held'
  BY <1>9, RepliesHeld
<1>10. ASSUME NEW t \in Task, AlarmFires(t) PROVE Held'
  BY <1>10, AlarmFiresHeld
<1>11. ASSUME NEW t \in Task, NEW request \in Requests, Call(t, request) PROVE Held'
  BY <1>11, CallHeld
<1>12. CASE Elapse
  BY <1>12, ElapseHeld
<1>13. CASE Reset
  BY <1>13, ResetHeld
<1>14. CASE UNCHANGED vars
  <2>1. stored' = stored /\ tasks' = tasks
    BY <1>14 DEF vars, memory
  <2> QED
    BY <2>1 DEF Held
<1> QED
  BY <1>1, <1>2, <1>3, <1>4, <1>5, <1>6, <1>7, <1>8, <1>9, <1>10, <1>11, <1>12, <1>13, <1>14
     DEF Next

-----------------------------------------------------------------------------
(* The machine that the refinement names is of the same handlers. *)

LEMMA SameViews ==
  ASSUME NEW s
  PROVE  /\ Machine!CheckRunOf(s) = CheckRunOf(s)
         /\ Machine!SummaryOf(s) = SummaryOf(s)
         /\ Machine!ConditionsReport(s) = ConditionsReport(s)
         /\ Machine!ReviewOutcome(s) = ReviewOutcome(s)
<1>1. \A agent : Machine!Live(agent) = Live(agent)
  BY DEF Live, LiveStatus, Machine!Live, Machine!LiveStatus
<1>2. \A a : Machine!OpenHazards(s, a) = OpenHazards(s, a)
  BY DEF OpenHazards, Machine!OpenHazards, Waived, Machine!Waived
<1>3. \A a : Machine!Flagged(s, a) = Flagged(s, a)
  BY <1>2 DEF Flagged, Machine!Flagged, NoHazards, Machine!NoHazards
<1>4. Machine!ReviewOutcome(s) = ReviewOutcome(s)
  BY <1>3 DEF ReviewOutcome, Machine!ReviewOutcome
<1>5. Machine!ConditionsReport(s) = ConditionsReport(s)
  BY <1>1, <1>2, <1>4 DEF ConditionsReport, Machine!ConditionsReport
<1>6. Machine!CurrentStep(s) = CurrentStep(s)
  BY DEF CurrentStep, Machine!CurrentStep, StepOrder, Machine!StepOrder, StepStatus,
         Machine!StepStatus
<1> QED
  BY <1>4, <1>5, <1>6
     DEF CheckRunOf, Machine!CheckRunOf, SummaryOf, Machine!SummaryOf, Ended, Machine!Ended

LEMMA SameParts ==
  ASSUME NEW s
  PROVE  /\ Machine!Unchanged(s) = Unchanged(s)
         /\ \A agent : Machine!Live(agent) = Live(agent)
         /\ \A a : Machine!LiveAgent(s, a) = LiveAgent(s, a)
         /\ \A a, agent : Machine!PatchAgent(s, a, agent) = PatchAgent(s, a, agent)
         /\ \A agent, status : Machine!Finished(agent, status) = Finished(agent, status)
         /\ \A agents : Machine!Failed(s, agents) = Failed(s, agents)
         /\ \A agents : Machine!JobCancels(s, agents) = JobCancels(s, agents)
         /\ Machine!SweptState(s) = SweptState(s)
         /\ Machine!CloseSweepIfDone(s) = CloseSweepIfDone(s)
         /\ Machine!Open(s) = Open(s)
         /\ \A fx : Machine!To(s, fx) = To(s, fx)
<1>1. Machine!Unchanged(s) = Unchanged(s) /\ \A fx : Machine!To(s, fx) = To(s, fx)
  BY DEF Unchanged, Machine!Unchanged, To, Machine!To, NoFx, Machine!NoFx, Fx, Machine!Fx
<1>2. /\ \A agent : Machine!Live(agent) = Live(agent)
      /\ \A a : Machine!LiveAgent(s, a) = LiveAgent(s, a)
  BY DEF LiveAgent, Machine!LiveAgent, Live, Machine!Live, LiveStatus, Machine!LiveStatus
<1>3. /\ \A a, agent : Machine!PatchAgent(s, a, agent) = PatchAgent(s, a, agent)
      /\ \A agent, status : Machine!Finished(agent, status) = Finished(agent, status)
  BY DEF PatchAgent, Machine!PatchAgent, Finished, Machine!Finished
<1>4. \A agents : Machine!Failed(s, agents) = Failed(s, agents)
  BY DEF Failed, Machine!Failed, Finished, Machine!Finished
<1>5. \A agents : Machine!JobCancels(s, agents) = JobCancels(s, agents)
  BY DEF JobCancels, Machine!JobCancels, NoJob, Machine!NoJob
<1>6. Machine!SweptState(s) = SweptState(s)
  BY SameViews DEF SweptState, Machine!SweptState
<1>7. Machine!CloseSweepIfDone(s) = CloseSweepIfDone(s)
  BY <1>2, <1>6
     DEF CloseSweepIfDone, Machine!CloseSweepIfDone, AllIn, Machine!AllIn, To, Machine!To,
         Fx, Machine!Fx
<1>8. Machine!Open(s) = Open(s)
  BY DEF Open, Machine!Open
<1> QED
  BY <1>1, <1>2, <1>3, <1>4, <1>5, <1>6, <1>7, <1>8

LEMMA SameFx ==
  /\ Machine!NoFx = NoFx
  /\ \A index, dispatch, check, cancel :
       Machine!Fx(index, dispatch, check, cancel) = Fx(index, dispatch, check, cancel)
BY DEF NoFx, Machine!NoFx, Fx, Machine!Fx

LEMMA SameReports ==
  ASSUME NEW s, NEW a
  PROVE  /\ Machine!OnDispatched(s, a) = OnDispatched(s, a)
         /\ Machine!OnEvents(s, a, 1) = OnEvents(s, a, 1)
         /\ \A job : Machine!OnBriefed(s, a, job) = OnBriefed(s, a, job)
         /\ \A v : Machine!OnVerdict(s, a, v) = OnVerdict(s, a, v)
         /\ Machine!OnFailure(s, a) = OnFailure(s, a)
         /\ Machine!OnTranscript(s, a) = OnTranscript(s, a)
<1>1. Machine!OnDispatched(s, a) = OnDispatched(s, a)
  BY SameParts, SameFx DEF OnDispatched, Machine!OnDispatched, To, Machine!To
<1>2. Machine!OnEvents(s, a, 1) = OnEvents(s, a, 1)
  BY SameParts, SameFx DEF OnEvents, Machine!OnEvents, To, Machine!To
<1>3. \A job : Machine!OnBriefed(s, a, job) = OnBriefed(s, a, job)
  BY SameParts, SameFx DEF OnBriefed, Machine!OnBriefed, To, Machine!To
<1>4. \A v : Machine!OnVerdict(s, a, v) = OnVerdict(s, a, v)
  BY SameParts DEF OnVerdict, Machine!OnVerdict
<1>5. Machine!OnFailure(s, a) = OnFailure(s, a)
  BY SameParts DEF OnFailure, Machine!OnFailure
<1>6. Machine!OnTranscript(s, a) = OnTranscript(s, a)
  BY SameParts, SameFx DEF OnTranscript, Machine!OnTranscript, To, Machine!To
<1> QED
  BY <1>1, <1>2, <1>3, <1>4, <1>5, <1>6

LEMMA SameTick ==
  ASSUME NEW s
  PROVE  Machine!OnTick(s) = OnTick(s)
<1>1. \A agent : /\ Machine!FailsIn(agent) = FailsIn(agent)
                 /\ Machine!StallWatched(agent) = StallWatched(agent)
                 /\ Machine!StallsIn(agent) = StallsIn(agent)
  BY DEF FailsIn, Machine!FailsIn, StallWatched, Machine!StallWatched, StallsIn, Machine!StallsIn
<1>2. Machine!DueToFail(s) = DueToFail(s)
  BY <1>1, SameParts DEF DueToFail, Machine!DueToFail
<1>3. Machine!DueToStall(s) = DueToStall(s)
  BY <1>1, <1>2, SameParts DEF DueToStall, Machine!DueToStall
<1>4. \A agents : Machine!Stalled(s, agents) = Stalled(s, agents)
  BY DEF Stalled, Machine!Stalled
<1> QED
  BY <1>2, <1>3, <1>4, SameParts, SameFx DEF OnTick, Machine!OnTick, To, Machine!To

LEMMA SameOwners ==
  ASSUME NEW s
  PROVE  /\ Machine!StopRun(s) = StopRun(s)
         /\ Machine!LandRun(s) = LandRun(s)
         /\ \A target : /\ Machine!RetryableAgents(s, target) = RetryableAgents(s, target)
                        /\ Machine!RetryAgents(s, target) = RetryAgents(s, target)
         /\ Machine!BypassDesign(s) = BypassDesign(s)
         /\ \A title : Machine!OnRetitled(s, title) = OnRetitled(s, title)
         /\ Machine!AskCheckRepost(s) = AskCheckRepost(s)
<1>1. Machine!Halted(s) = Halted(s)
  <2> DEFINE steps == [st \in Step |-> IF s.steps[st] = "active" THEN "stopped" ELSE s.steps[st]]
             mine == [a \in DOMAIN s.agents |-> IF Live(s.agents[a])
                        THEN Finished(s.agents[a], "stopped") ELSE s.agents[a]]
             theirs == [a \in DOMAIN s.agents |-> IF Machine!Live(s.agents[a])
                          THEN Machine!Finished(s.agents[a], "stopped") ELSE s.agents[a]]
  <2>1. /\ \A agent : Machine!Live(agent) = Live(agent)
        /\ \A agent : Machine!Finished(agent, "stopped") = Finished(agent, "stopped")
    BY SameParts
  <2>2. mine = theirs
    BY <2>1
  <2>3. Halted(s) = [s EXCEPT !.steps = steps, !.agents = mine]
    BY DEF Halted
  <2>4. Machine!Halted(s) = [s EXCEPT !.steps = steps, !.agents = theirs]
    BY DEF Machine!Halted, Step, Machine!Step
  <2> HIDE DEF steps, mine, theirs
  <2> QED
    BY <2>2, <2>3, <2>4
<1>2. Machine!HaltCancels(s) = HaltCancels(s)
  BY SameParts DEF HaltCancels, Machine!HaltCancels
<1>3. Machine!StopRun(s) = StopRun(s)
  BY <1>1, <1>2, SameParts DEF StopRun, Machine!StopRun, To, Machine!To, Fx, Machine!Fx
<1>4. \A steps : Machine!LandedSteps(steps) = LandedSteps(steps)
  BY DEF LandedSteps, Machine!LandedSteps, SkipIfPending, Machine!SkipIfPending
<1>5. Machine!LandRun(s) = LandRun(s)
  BY <1>1, <1>2, <1>4, SameParts, SameViews
     DEF LandRun, Machine!LandRun, To, Machine!To, Fx, Machine!Fx
<1>6. \A target : Machine!RetryableAgents(s, target) = RetryableAgents(s, target)
  BY SameParts DEF RetryableAgents, Machine!RetryableAgents
<1>7. ASSUME NEW target
      PROVE  Machine!RetryAgents(s, target) = RetryAgents(s, target)
  <2>1. \A retries : Machine!FreshAgent(retries) = FreshAgent(retries)
    BY DEF FreshAgent, Machine!FreshAgent, NoHazards, Machine!NoHazards
  <2>2. \A ids : Machine!JobsWithout(s, ids) = JobsWithout(s, ids)
    BY DEF JobsWithout, Machine!JobsWithout, NoJob, Machine!NoJob
  <2> DEFINE ids == RetryableAgents(s, target)
  <2>3. [a \in DOMAIN s.agents |-> IF a \in ids THEN Machine!FreshAgent(s.agents[a].retries + 1)
                                   ELSE s.agents[a]]
        = [a \in DOMAIN s.agents |-> IF a \in ids THEN FreshAgent(s.agents[a].retries + 1)
                                     ELSE s.agents[a]]
    BY <2>1
  <2>4. /\ Machine!Unchanged(s) = Unchanged(s) /\ Machine!JobsWithout(s, ids) = JobsWithout(s, ids)
        /\ Machine!JobCancels(s, ids) = JobCancels(s, ids)
        /\ Machine!RetryableAgents(s, target) = ids
    BY <1>6, <2>2, SameParts
  <2> HIDE DEF ids
  <2>5. RetryableAgents(s, target) = ids
    BY DEF ids
  <2> QED
    BY <2>3, <2>4, <2>5
       DEF RetryAgents, Machine!RetryAgents, To, Machine!To, Fx, Machine!Fx, NoNotes,
           Machine!NoNotes
<1>8. Machine!BypassDesign(s) = BypassDesign(s)
  BY SameParts, SameViews
     DEF BypassDesign, Machine!BypassDesign, CanBypassDesign, Machine!CanBypassDesign,
         To, Machine!To, Fx, Machine!Fx
<1>9. \A title : Machine!OnRetitled(s, title) = OnRetitled(s, title)
  BY SameParts DEF OnRetitled, Machine!OnRetitled, To, Machine!To, Fx, Machine!Fx
<1>10. Machine!AskCheckRepost(s) = AskCheckRepost(s)
  BY SameParts DEF AskCheckRepost, Machine!AskCheckRepost, To, Machine!To, Fx, Machine!Fx
<1> QED
  BY <1>3, <1>5, <1>6, <1>7, <1>8, <1>9, <1>10

LEMMA SameChecks ==
  ASSUME NEW s, NEW id
  PROVE  /\ Machine!OnCheckCreated(s, id) = OnCheckCreated(s, id)
         /\ \A asks : Machine!OnCheckReposted(s, id, asks) = OnCheckReposted(s, id, asks)
         /\ Machine!Elapsed(s) = Elapsed(s)
<1>1. Machine!OnCheckCreated(s, id) = OnCheckCreated(s, id)
  BY SameParts, SameFx
     DEF OnCheckCreated, Machine!OnCheckCreated, To, Machine!To, NoCheck, Machine!NoCheck
<1>2. \A asks : Machine!OnCheckReposted(s, id, asks) = OnCheckReposted(s, id, asks)
  BY SameFx DEF OnCheckReposted, Machine!OnCheckReposted, To, Machine!To
<1>3. \A age : Machine!Older(age) = Older(age)
  BY DEF Older, Machine!Older, Cap, Machine!Cap
<1>4. Machine!Elapsed(s) = Elapsed(s)
  BY <1>3, SameParts DEF Elapsed, Machine!Elapsed
<1> QED
  BY <1>1, <1>2, <1>4

LEMMA SameCreated ==
  ASSUME NEW agents, NEW title
  PROVE  Machine!CreateRun(agents, title) = CreateRun(agents, title)
<1>1. Machine!FreshAgent(0) = FreshAgent(0)
  BY DEF FreshAgent, Machine!FreshAgent, NoHazards, Machine!NoHazards
<1>2. \A s : Machine!AllIn(s) = AllIn(s)
  BY SameParts DEF AllIn, Machine!AllIn
<1>3. \A s : Machine!SweptState(s) = SweptState(s)
  BY SameParts
<1> QED
  BY <1>1, <1>2, <1>3
     DEF CreateRun, Machine!CreateRun, To, Machine!To, Fx, Machine!Fx, NoNotes, Machine!NoNotes,
         NoCheck, Machine!NoCheck, NoJob, Machine!NoJob, Step, Machine!Step

-----------------------------------------------------------------------------
(* Each step of the object is a step of the machine, or none *)

LEMMA SimInit == Init => Machine!Init
<1> SUFFICES ASSUME Init PROVE Machine!Init
  OBVIOUS
<1>1. PICK agents \in SUBSET Agent, title \in Title :
        stored = CreateRun(agents, title).state /\ asked = {}
  BY DEF Init
<1>2. stored = Machine!CreateRun(agents, title).state
  BY <1>1, SameCreated
<1>3. CheckRunOf(stored) = Machine!CheckRunOf(stored) /\ SummaryOf(stored) = Machine!SummaryOf(stored)
  BY SameViews
<1> QED
  BY <1>1, <1>2, <1>3 DEF Machine!Init

LEMMA SimStutter ==
  ASSUME stored' = stored, asked' = asked
  PROVE  [Machine!Next]_(Machine!vars)
  BY DEF Machine!vars

LEMMA SimApply ==
  ASSUME NEW t, t.state # stored, stored' = t.state, asked' = asked \union t.fx.cancel,
         t.fx.index \/ SummaryOf(t.state) = SummaryOf(stored),
         t.fx.check \/ CheckRunOf(t.state) = CheckRunOf(stored)
  PROVE  Machine!Apply(t)
<1>1. /\ CheckRunOf(stored') = IF t.fx.check THEN Machine!CheckRunOf(t.state) ELSE CheckRunOf(stored)
      /\ SummaryOf(stored') = IF t.fx.index THEN Machine!SummaryOf(t.state) ELSE SummaryOf(stored)
  BY SameViews
<1> QED
  BY <1>1 DEF Machine!Apply

LEMMA SimCommit ==
  ASSUME Inv, Held, NEW t \in Task, At(t, "apply"), NEW request, request = Head(tasks[t].todo)[2],
         Handled(request, stored).state # stored, Commit(t, request, Handled(request, stored))
  PROVE  Machine!Next
<1> DEFINE D == DOMAIN stored.agents
           transition == Handled(request, stored)
           op == Head(tasks[t].todo)
           a == request.job.agent
<1>1. Stored /\ Tasks /\ Good(stored) /\ Noted(stored)
  BY DEF Inv, Stored
<1>2. /\ tasks[t].todo # <<>> /\ op \in Ops(D) /\ op[1] = "apply" /\ op[2] = request
      /\ request \in RequestsOf(D)
  <2>1. tasks[t].todo # <<>> /\ op \in Ops(D) /\ op[1] = "apply"
    BY <1>1, AtLemma
  <2> QED
    BY <2>1, OpFacts
<1>3. Moved(stored, transition)
  BY <1>1, <1>2, HandledMoved
<1>4. stored' = transition.state /\ asked' = asked \union transition.fx.cancel
  BY DEF Commit
<1>5. Machine!Apply(transition)
  <2> HIDE DEF transition
  <2>1. transition.state # stored
    BY DEF transition
  <2> QED
    BY <1>3, <1>4, <2>1, SimApply DEF Moved
<1>6. op \in ToSet(tasks[t].todo)
  BY <1>1, <1>2, RestOps
<1>7. request.kind \in AskKinds => Allowed(request, stored)
  BY <1>2, <1>6 DEF Held, IsAsk
<1>8. request.kind = "brief" => Owns(request.job, stored)
  BY <1>2, <1>6 DEF Held, IsBrief
<1>9. Machine!Roster = D
  BY DEF Machine!Roster
<1> HIDE DEF op
<1>10. CASE request \in JobRequestsOf(D)
  <2>1. a \in D
    BY <1>10 DEF JobRequestsOf, JobsOf
  <2>2. a \in Agent
    BY <1>1, <2>1 DEF Good, RunOK
  <2>3. \/ request.kind \in {"brief", "events", "failure", "transcript", "dispatched"}
        \/ request.kind = "verdict" /\ request.verdict \in Verdicts
    BY <1>10 DEF JobRequestsOf, JobKinds
  <2> HIDE DEF a
  <2>4. CASE request.kind = "brief"
    <3>1. request.job.attempt = Machine!Attempt(a)
      <4> DEFINE job == request.job
                 n == stored.agents[a].retries + 1
      <4>1. job = [agent |-> a, attempt |-> n]
        BY <1>8, <2>4 DEF Owns, a
      <4> HIDE DEF job, n, a
      <4>2. job.attempt = n
        BY <4>1
      <4> QED
        BY <4>2 DEF job, n, Machine!Attempt
    <3>2. transition = Machine!OnBriefed(stored, a, Machine!Attempt(a))
      BY <2>4, <3>1, SameReports DEF Handled, a
    <3>3. Machine!Briefed(a)
      BY <1>5, <3>2 DEF Machine!Briefed
    <3> QED
      BY <1>9, <2>1, <3>3 DEF Machine!Next
  <2>5. CASE request.kind = "events"
    <3>1. transition = Machine!OnEvents(stored, a, 1)
      BY <2>5, SameReports DEF Handled, a
    <3>2. Machine!Events(a)
      BY <1>5, <3>1 DEF Machine!Events
    <3> QED
      BY <1>9, <2>1, <3>2 DEF Machine!Next
  <2>6. CASE request.kind = "failure"
    <3>1. transition = Machine!OnFailure(stored, a)
      BY <2>6, SameReports DEF Handled, a
    <3>2. Machine!Fails(a)
      BY <1>5, <3>1 DEF Machine!Fails
    <3> QED
      BY <1>9, <2>1, <3>2 DEF Machine!Next
  <2>7. CASE request.kind = "transcript"
    <3>1. transition = Machine!OnTranscript(stored, a)
      BY <2>7, SameReports DEF Handled, a
    <3>2. Machine!TranscriptStored(a)
      BY <1>5, <3>1 DEF Machine!TranscriptStored
    <3> QED
      BY <1>9, <2>1, <2>2, <3>2 DEF Machine!Next
  <2>8. CASE request.kind = "dispatched"
    <3>1. transition = Machine!OnDispatched(stored, a)
      BY <2>8, SameReports DEF Handled, a
    <3>2. Machine!Dispatched(a)
      BY <1>5, <3>1 DEF Machine!Dispatched
    <3> QED
      BY <1>9, <2>1, <3>2 DEF Machine!Next
  <2>9. CASE request.kind = "verdict" /\ request.verdict \in Verdicts
    <3>1. transition = Machine!OnVerdict(stored, a, request.verdict)
      BY <2>9, SameReports DEF Handled, a
    <3>2. Machine!Reports(a, request.verdict)
      BY <1>5, <3>1 DEF Machine!Reports
    <3> QED
      BY <1>9, <2>1, <2>9, <3>2 DEF Machine!Next
  <2> QED
    BY <2>3, <2>4, <2>5, <2>6, <2>7, <2>8, <2>9
<1>11. CASE request \notin JobRequestsOf(D)
  <2>1. \/ request.kind \in {"stop", "land", "bypass", "repost", "tick", "retry"}
        \/ request.kind = "retitle" /\ request.title \in Title
    BY <1>2, <1>11 DEF RequestsOf
  <2>2. CASE request.kind = "stop"
    <3>1. transition = Machine!StopRun(stored)
      BY <2>2, SameOwners DEF Handled
    <3> QED
      BY <1>5, <3>1 DEF Machine!Stop, Machine!Next
  <2>3. CASE request.kind = "land"
    <3>1. transition = Machine!LandRun(stored)
      BY <2>3, SameOwners DEF Handled
    <3> QED
      BY <1>5, <3>1 DEF Machine!Land, Machine!Next
  <2>4. CASE request.kind = "bypass"
    <3>1. transition = Machine!BypassDesign(stored)
      BY <2>4, SameOwners DEF Handled
    <3>2. stored.checkReposts < MaxReposts
      BY <1>7, <2>4 DEF Allowed, AskKinds
    <3> QED
      BY <1>5, <3>1, <3>2 DEF Machine!Bypass, Machine!Next
  <2>5. CASE request.kind = "repost"
    <3>1. transition = Machine!AskCheckRepost(stored)
      BY <2>5, SameOwners DEF Handled
    <3>2. stored.checkReposts < MaxReposts
      BY <1>7, <2>5 DEF Allowed, AskKinds
    <3> QED
      BY <1>5, <3>1, <3>2 DEF Machine!Repost, Machine!Next
  <2>6. CASE request.kind = "tick"
    <3>1. transition = Machine!OnTick(stored)
      BY <2>6, SameTick DEF Handled
    <3> QED
      BY <1>5, <3>1 DEF Machine!Tick, Machine!Next
  <2>7. CASE request.kind = "retry"
    <3> DEFINE target == request.target
    <3>1. transition = Machine!RetryAgents(stored, target)
      BY <2>7, SameOwners DEF Handled
    <3>2. /\ stored.checkReposts < MaxReposts /\ target \in RetryTargets(D)
          /\ \A b \in target : stored.agents[b].retries < MaxRetries
      BY <1>7, <2>7 DEF Allowed, AskKinds
    <3>3. Machine!RetryableAgents(stored, target) \subseteq target
      <4>1. RetryableAgents(stored, target) \subseteq target
        BY DEF RetryableAgents
      <4> HIDE DEF target
      <4>2. Machine!RetryableAgents(stored, target) = RetryableAgents(stored, target)
        BY SameOwners
      <4> QED
        BY <4>1, <4>2
    <3> HIDE DEF target
    <3>4. Machine!Retry(target)
      BY <1>5, <3>1, <3>2, <3>3 DEF Machine!Retry
    <3>5. target = D \/ \E b \in D : target = {b}
      BY <3>2 DEF RetryTargets
    <3> QED
      BY <1>9, <3>4, <3>5 DEF Machine!Next
  <2>8. CASE request.kind = "retitle" /\ request.title \in Title
    <3>1. transition = Machine!OnRetitled(stored, request.title)
      BY <2>8, SameOwners DEF Handled
    <3> QED
      BY <1>5, <2>8, <3>1 DEF Machine!Retitle, Machine!Next
  <2> QED
    BY <2>1, <2>2, <2>3, <2>4, <2>5, <2>6, <2>7, <2>8
<1> QED
  BY <1>10, <1>11

LEMMA SimCreateReply ==
  ASSUME Inv, NEW t \in Task, CreateReply(t)
  PROVE  [Machine!Next]_(Machine!vars)
<1> DEFINE io == tasks[t].io
           asks == io.read.checkReposts
           made == OnCheckCreated(stored, io.id)
           posted == OnCheckReposted(stored, io.id, asks)
<1>1. Awaits(t, "create") /\ asked' = asked /\ Stored
  BY DEF CreateReply, Inv
<1>2. io.kind = "create" /\ io \in IoOf(DOMAIN stored.agents) /\ WriteOK(stored, io, newest)
  BY <1>1, WriterIsHead DEF CheckWrites
<1>3. CASE stored' = stored
  BY <1>1, <1>3, SimStutter
<1>4. CASE stored' # stored
  <2>1. io.outcome = "ok" /\ stored' = Created(io, stored)
    BY <1>4 DEF CreateReply
  <2>2. SummaryOf(stored') = SummaryOf(stored) /\ CheckRunOf(stored') = CheckRunOf(stored)
    BY <1>1, <1>2, <2>1, CreatedLemma
  <2>3. io.id \in CheckIds /\ asks \in Nat /\ asks <= stored.checkReposts /\
          stored.checkReposts \in Nat
    BY <1>1, <1>2, <2>1 DEF IoOf, RunType, WriteOK, Stored, Good, RunOK
  <2>4. made.fx.cancel = {} /\ posted.fx.cancel = {}
    BY DEF OnCheckCreated, OnCheckReposted, Unchanged, To, NoFx, Fx
  <2>5. CASE asks = 0
    <3>1. stored' = made.state
      BY <2>1, <2>5 DEF Created
    <3> DEFINE next == made
    <3>2. next = Machine!OnCheckCreated(stored, io.id)
      BY SameChecks
    <3>3. next.state # stored /\ stored' = next.state /\ next.fx.cancel = {}
      BY <1>4, <2>4, <3>1
    <3> HIDE DEF next
    <3>4. Machine!Apply(next)
      BY <1>1, <2>2, <3>3, SimApply
    <3>5. Machine!CheckCreated(io.id)
      BY <3>2, <3>4 DEF Machine!CheckCreated
    <3> QED
      BY <2>3, <3>5 DEF Machine!Next
  <2>6. CASE asks # 0
    <3>1. stored' = posted.state
      BY <2>1, <2>6 DEF Created
    <3> DEFINE next == posted
    <3>2. next = Machine!OnCheckReposted(stored, io.id, asks)
      BY SameChecks
    <3>3. next.state # stored /\ stored' = next.state /\ next.fx.cancel = {}
      BY <1>4, <2>4, <3>1
    <3> HIDE DEF next
    <3>4. Machine!Apply(next)
      BY <1>1, <2>2, <3>3, SimApply
    <3>5. asks \in 1 .. stored.checkReposts
      BY <2>3, <2>6
    <3>6. Machine!CheckReposted(io.id)
      BY <3>2, <3>4, <3>5 DEF Machine!CheckReposted
    <3> QED
      BY <2>3, <3>6 DEF Machine!Next
  <2> QED
    BY <2>5, <2>6
<1> QED
  BY <1>3, <1>4

LEMMA SimElapse ==
  ASSUME Inv, Elapse
  PROVE  Machine!Next
<1>1. Good(stored) /\ Noted(stored) /\ stored' = Elapsed(stored) /\ stored' # stored /\ asked' = asked
  BY DEF Inv, Stored, Elapse
<1>2. SummaryOf(stored') = SummaryOf(stored) /\ CheckRunOf(stored') = CheckRunOf(stored)
  <2>1. Kept(stored, To(Elapsed(stored), NoFx))
    BY <1>1, ElapsedKept
  <2> QED
    BY <1>1, <2>1, ToFacts DEF Kept, NoFx, Fx
<1>3. stored' = Machine!Elapsed(stored)
  BY <1>1, SameChecks
<1> QED
  BY <1>1, <1>2, <1>3 DEF Machine!Elapse, Machine!Next

LEMMA SimStep == Inv /\ Held /\ [Next]_vars => [Machine!Next]_(Machine!vars)
<1> SUFFICES ASSUME Inv, Held, [Next]_vars PROVE [Machine!Next]_(Machine!vars)
  OBVIOUS
<1>1. ASSUME NEW t \in Task, Apply(t) PROVE [Machine!Next]_(Machine!vars)
  <2>1. At(t, "apply")
    BY <1>1 DEF Apply
  <2>2. CASE Handled(Head(tasks[t].todo)[2], stored).state # stored
    BY <1>1, <2>1, <2>2, SimCommit DEF Apply, Todo
  <2>3. CASE Handled(Head(tasks[t].todo)[2], stored).state = stored
    BY <1>1, <2>3, SimStutter DEF Apply, Todo
  <2> QED
    BY <2>2, <2>3
<1>2. ASSUME NEW t \in Task, CreateReply(t) PROVE [Machine!Next]_(Machine!vars)
  BY <1>2, SimCreateReply
<1>3. CASE Elapse
  BY <1>3, SimElapse
<1>4. ASSUME NEW t \in Task,
             \/ Admit(t) \/ WriteIndex(t) \/ QueueCheck(t) \/ SyncCheck(t) \/ Dispatch(t) \/ Cancel(t)
             \/ IndexReply(t) \/ UpdateReply(t) \/ ReplaceReply(t)
             \/ DispatchReply(t) \/ CancelReply(t) \/ NonceReply(t) \/ AlarmFires(t)
             \/ \E request \in Requests : Call(t, request)
      PROVE  [Machine!Next]_(Machine!vars)
  <2>1. stored' = stored /\ asked' = asked
    BY <1>4 DEF Admit, WriteIndex, QueueCheck, SyncCheck, Dispatch, Cancel, IndexReply, UpdateReply,
                ReplaceReply, DispatchReply, CancelReply, NonceReply, AlarmFires, Call
  <2> QED
    BY <2>1, SimStutter
<1>5. CASE Reset
  BY <1>5, SimStutter DEF Reset
<1>6. CASE UNCHANGED vars
  BY <1>6, SimStutter DEF vars
<1> QED
  BY <1>1, <1>2, <1>3, <1>4, <1>5, <1>6 DEF Next

(* Each change of the stored state is one step of the machine on the state it replaces, however  *)
(* calls cross, replies get lost and the object is reset: none is computed from a state read     *)
(* before an await.  A call of an agent's old job that outlives its retry is left out: that one  *)
(* takes the brief of the new attempt (LateReportsFail).                                         *)
THEOREM ImplementsTheorem == ASSUME ~LateCalls PROVE Spec => ImplementsMachine
<1>1. Inv /\ Held /\ [Next]_vars => Inv' /\ Held'
  BY NextInv, NextHeld
<1> QED
  BY <1>1, InitInv, InitHeld, SimInit, SimStep, PTL DEF Spec, Machine!Spec, ImplementsMachine

=============================================================================
