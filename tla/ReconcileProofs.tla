---------------------------- MODULE ReconcileProofs ----------------------------
(***************************************************************************)
(* What Reconcile keeps for any number of invocations, commits, runs,      *)
(* deeds and failures: its types, and that only a run on the commit that   *)
(* merged into the default branch is ever landed.                          *)
(***************************************************************************)
EXTENDS Reconcile, TLAPS

PullType ==
  [state : {"open", "closed", "merged"}, head : Sha, draft : BOOLEAN,
   base : {"default", "other"}, title : Title]

StartType == [kind : {"start"}, head : Sha, title : Title, retarget : BOOLEAN]
EventType == StartType \union [kind : {"closed", "retitle"}]

RunRecord ==
  [head : Sha, title : Title, status : {"on_the_hill", "swept", "stopped", "landed"},
   concluded : BOOLEAN, posted : BOOLEAN, owes : BOOLEAN, reposts : Nat, asked : Int,
   queued : SUBSET Proc, syncing : SUBSET Proc, failed : BOOLEAN]

(* An open run is swept exactly when its review has concluded. *)
RunOK(run) ==
  /\ run \in RunRecord
  /\ IsOpen(run.status) => (run.concluded <=> run.status = "swept")

RowType == {NoRow} \union [status : {"on_the_hill", "swept", "stopped", "landed"}, title : Title]

(* The run a check is of. *)
CheckOK(sha, id) == id \in {None, Neutral} \union OnHead(RunIds, sha)

TypesOK ==
  /\ pull \in PullType
  /\ deliveries \subseteq EventType
  /\ runs \in Seq(RunRecord) /\ Len(runs) <= MaxRuns
  /\ \A r \in RunIds : RunOK(runs[r])
  /\ rows \in Seq(RowType) /\ Len(rows) = Len(runs)
  /\ DOMAIN newest = Sha /\ \A sha \in Sha : CheckOK(sha, newest[sha])

(* What an invocation knows at each of its stages.  From the read of a merged PR on, until its   *)
(* run has landed, the PR is merged as it was read: GitHub changes only its title after that.    *)
Starting == {"duplicate", "files", "neutral", "start", "on_head", "has_check"}
Landing == {"merged", "land", "landing"}
Acting == {"titles", "find", "act"}
Stage == {"idle", "pull", "starting", "reread", "list"} \union Starting \union Landing \union Acting

ProcType == [at : Stage, event : EventType \union {None}, pull : PullType \union {None},
             run : Nat \union {None}, ops : SUBSET (Nat \X {"stop", "retitle"}),
             stale : SUBSET Nat, halted : SUBSET Nat, tick : BOOLEAN]

ProcOK(proc) ==
  /\ proc \in ProcType
  /\ proc.at = "pull" => proc.event \in EventType
  /\ proc.at \in Starting => proc.event \in StartType
  /\ proc.at \in Landing \union Acting => proc.pull \in PullType
  /\ proc.at \in Landing =>
       /\ Merged(proc.pull) /\ IntoDefault(proc.pull)
       /\ Merged(pull) /\ IntoDefault(pull) /\ pull.head = proc.pull.head
  /\ proc.at \in {"starting", "land", "landing"} => proc.run \in RunIds
  /\ proc.at = "land" => runs[proc.run].head = proc.pull.head
  /\ proc.run # None => proc.run \in RunIds
  /\ proc.ops \subseteq RunIds \X {"stop", "retitle"} /\ proc.stale \subseteq RunIds

ProcsOK == DOMAIN procs = Proc /\ \A p \in Proc : ProcOK(procs[p])

Inv == TypesOK /\ ProcsOK /\ LandsOnlyMerged

-----------------------------------------------------------------------------
(* An invocation that only moves on *)

(* A step that changes nothing but the locals of one invocation keeps the invariant if what the  *)
(* invocation then knows is so.                                                                   *)
LEMMA LocalStep ==
  ASSUME Inv, NEW p \in Proc, NEW step, ProcOK(step), Go(p, step), UNCHANGED <<github, runs, rows>>
  PROVE Inv'
<1>1. TypesOK' /\ LandsOnlyMerged'
  BY DEF Inv, TypesOK, LandsOnlyMerged, github, CheckOK, OnHead, RunIds, Merged, IntoDefault,
    RunOK, IsOpen
<1>2. ProcOK(step)'
  BY DEF ProcOK, github, RunIds, Merged, IntoDefault
<1>3. ASSUME NEW q \in Proc PROVE ProcOK(procs[q])'
  <2>1. CASE q = p
    BY <1>2, <2>1 DEF Inv, ProcsOK, Go
  <2>2. CASE q # p
    <3>1. procs'[q] = procs[q] BY <2>2 DEF Inv, ProcsOK, Go
    <3>2. ProcOK(procs[q]) BY DEF Inv, ProcsOK
    <3> QED BY <3>1, <3>2 DEF ProcOK, github, RunIds, Merged, IntoDefault
  <2> QED BY <2>1, <2>2
<1> QED BY <1>1, <1>3 DEF Inv, ProcsOK, Go

(* An invocation that has just begun knows nothing yet. *)
LEMMA FreshOK ==
  ASSUME NEW at \in {"idle", "list", "reread"}
  PROVE ProcOK([Idle EXCEPT !.at = at]) /\ ProcOK([Idle EXCEPT !.at = at, !.tick = TRUE])
<1>1. Idle \in ProcType
  BY DEF Idle, ProcType, Stage
<1>2. ASSUME NEW fresh \in ProcType, fresh.at = at, fresh.run = None, fresh.ops = {}, fresh.stale = {}
      PROVE ProcOK(fresh)
  BY <1>2 DEF ProcOK, Starting, Landing, Acting
<1>3. ProcOK([Idle EXCEPT !.at = at])
  <2>1. [Idle EXCEPT !.at = at] \in ProcType BY <1>1 DEF ProcType, Stage
  <2> QED BY <1>1, <1>2, <2>1 DEF Idle
<1>4. ProcOK([Idle EXCEPT !.at = at, !.tick = TRUE])
  <2>1. [Idle EXCEPT !.at = at, !.tick = TRUE] \in ProcType BY <1>1 DEF ProcType, Stage
  <2> QED BY <1>1, <1>2, <2>1 DEF Idle
<1> QED BY <1>3, <1>4

LEMMA EndedOK == ProcOK(Idle) /\ \A p \in Proc : ProcOK(Ended(p))
<1>1. ProcOK(Idle)
  BY DEF Idle, ProcOK, ProcType, Stage, Starting, Landing, Acting
<1> QED BY <1>1, FreshOK DEF Ended

(* An invocation that moves on within its work knows what it knew. *)
LEMMA MovedOK ==
  ASSUME Inv, NEW p \in Proc, NEW at \in Stage \ Landing,
         at = "pull" => Event(p) \in EventType,
         at \in Starting => Event(p) \in StartType,
         at \in Acting => procs[p].pull \in PullType,
         at = "starting" => procs[p].run \in RunIds
  PROVE ProcOK([procs[p] EXCEPT !.at = at])
<1>1. procs[p] \in ProcType /\ ProcOK(procs[p])
  BY DEF Inv, ProcsOK, ProcOK
<1>2. [procs[p] EXCEPT !.at = at] \in ProcType
  BY <1>1 DEF ProcType
<1> QED BY <1>1, <1>2 DEF ProcOK, ProcType, Event, Landing

(* An invocation that reconciles knows the PR as it is: it has just read it. *)
LEMMA ReconcilingOK ==
  ASSUME Inv, NEW p \in Proc
  PROVE ProcOK(Reconciling(p, pull))
<1> DEFINE at == IF Merged(pull) /\ IntoDefault(pull) THEN "merged" ELSE "find"
           step == [procs[p] EXCEPT !.at = at, !.pull = pull, !.event = None]
<1>1. procs[p] \in ProcType /\ ProcOK(procs[p]) /\ pull \in PullType
  BY DEF Inv, ProcsOK, ProcOK, TypesOK
<1>2. at \in {"merged", "find"} /\ (at = "merged" => Merged(pull) /\ IntoDefault(pull))
  OBVIOUS
<1> HIDE DEF at
<1>3. step \in ProcType
  BY <1>1, <1>2 DEF ProcType, Stage, Landing, Acting
<1>4. step.at = at /\ step.pull = pull /\ step.run = procs[p].run /\ step.ops = procs[p].ops
      /\ step.stale = procs[p].stale
  BY <1>1 DEF ProcType
<1>5. ProcOK(step)
  BY <1>1, <1>2, <1>3, <1>4 DEF ProcOK, Starting, Landing, Acting
<1> QED BY <1>5 DEF Reconciling, at

-----------------------------------------------------------------------------
(* The runs change *)

(* What an invocation knows stays so while the runs keep their heads and a merged PR its own. *)
RunsGrow ==
  /\ RunIds \subseteq RunIds'
  /\ \A r \in RunIds : runs'[r].head = runs[r].head
  /\ Merged(pull) /\ IntoDefault(pull) =>
       Merged(pull') /\ IntoDefault(pull') /\ pull'.head = pull.head

LEMMA ProcKept ==
  ASSUME RunsGrow, NEW proc, ProcOK(proc)
  PROVE ProcOK(proc)'
BY DEF RunsGrow, ProcOK, Merged, IntoDefault

(* A change of one run that keeps its head, and lands it only if its head is what merged. *)
LEMMA RunStep ==
  ASSUME Inv, NEW r \in RunIds, NEW run, RunOK(run), run.head = runs[r].head,
         run.status = "landed" =>
           runs[r].status = "landed" \/ (Merged(pull) /\ IntoDefault(pull) /\ run.head = pull.head),
         runs' = [runs EXCEPT ![r] = run],
         rows' \in {rows, [rows EXCEPT ![r] = RowOf(run)]},
         newest' \in {newest, [newest EXCEPT ![run.head] = r]},
         UNCHANGED <<pull, deliveries>>,
         DOMAIN procs' = Proc, \A q \in Proc : ProcOK(procs'[q])
  PROVE Inv'
<1>1. /\ runs \in Seq(RunRecord) /\ rows \in Seq(RowType) /\ Len(rows) = Len(runs)
      /\ RunIds = 1 .. Len(runs) /\ run \in RunRecord
  BY DEF Inv, TypesOK, RunIds, RunOK
<1>2. /\ runs' \in Seq(RunRecord) /\ Len(runs') = Len(runs) /\ RunIds' = RunIds
      /\ runs'[r] = run /\ \A other \in RunIds \ {r} : runs'[other] = runs[other]
  BY <1>1 DEF RunIds
<1>3. RunsGrow
  BY <1>1, <1>2 DEF RunsGrow
<1>4. ProcsOK'
  BY <1>3, ProcKept DEF ProcsOK
<1>5. RowOf(run) \in RowType
  BY DEF RunOK, RunRecord, RowOf, RowType
<1>6. rows' \in Seq(RowType) /\ Len(rows') = Len(rows)
  BY <1>1, <1>5
<1>7. \A other \in RunIds' : RunOK(runs'[other])
  BY <1>2 DEF Inv, TypesOK
<1>8. (DOMAIN newest = Sha /\ \A sha \in Sha : CheckOK(sha, newest[sha]))'
  <2>1. \A sha \in Sha : \A id : CheckOK(sha, id) => CheckOK(sha, id)'
    BY <1>2 DEF CheckOK, OnHead
  <2>2. run.head \in Sha /\ CheckOK(run.head, r)'
    BY <1>1, <1>2 DEF CheckOK, OnHead, RunRecord
  <2> QED BY <2>1, <2>2 DEF Inv, TypesOK
<1>9. TypesOK'
  BY <1>1, <1>2, <1>6, <1>7, <1>8 DEF Inv, TypesOK, RunOK
<1>10. LandsOnlyMerged'
  BY <1>2 DEF Inv, LandsOnlyMerged
<1> QED BY <1>4, <1>9, <1>10 DEF Inv

(* A transition that owes the check changes nothing else of the run. *)
LEMMA OwesOK ==
  ASSUME NEW run \in RunRecord, NEW by \in SUBSET Proc
  PROVE /\ OwesCheck(run, by) \in RunRecord
        /\ OwesCheck(run, by).owes /\ OwesCheck(run, by).queued = run.queued \union by
        /\ OwesCheck(run, by).head = run.head /\ OwesCheck(run, by).status = run.status
        /\ OwesCheck(run, by).concluded = run.concluded /\ OwesCheck(run, by).posted = run.posted
        /\ OwesCheck(run, by).reposts = run.reposts /\ OwesCheck(run, by).asked = run.asked
        /\ OwesCheck(run, by).syncing = run.syncing /\ OwesCheck(run, by).failed = run.failed
<1> DEFINE all == run.queued \union by
<1>1. all \in SUBSET Proc
  BY DEF RunRecord
<1>2. OwesCheck(run, by) = [run EXCEPT !.owes = TRUE, !.queued = all]
  BY DEF OwesCheck
<1>3. all = run.queued \union by
  OBVIOUS
<1> HIDE DEF all
<1> QED BY <1>1, <1>2, <1>3 DEF RunRecord

(* What the calls into a run make of it: a good run on the same head, landed only by a landing. *)
LEMMA CallsOK ==
  ASSUME NEW run, RunOK(run), NEW title \in Title, NEW p \in Proc
  PROVE /\ RunOK(StopRun(run, p)) /\ StopRun(run, p).head = run.head
        /\ StopRun(run, p).status = "landed" => run.status = "landed"
        /\ RunOK(LandRun(run, p)) /\ LandRun(run, p).head = run.head
        /\ RunOK(OnRetitled(run, title)) /\ OnRetitled(run, title).head = run.head
        /\ OnRetitled(run, title).status = run.status
        /\ RunOK(AskCheckRepost(run)) /\ AskCheckRepost(run).head = run.head
        /\ AskCheckRepost(run).status = run.status
<1>1. run \in RunRecord /\ {p} \in SUBSET Proc /\ {} \in SUBSET Proc
  BY DEF RunOK
<1>2. ASSUME NEW next \in RunRecord, next.head = run.head, ~IsOpen(next.status),
             NEW by \in SUBSET Proc
      PROVE /\ RunOK(next) /\ RunOK(OwesCheck(next, by)) /\ OwesCheck(next, by).head = run.head
            /\ OwesCheck(next, by).status = next.status
  <2>1. /\ OwesCheck(next, by) \in RunRecord /\ OwesCheck(next, by).head = run.head
        /\ OwesCheck(next, by).status = next.status
    BY <1>2, OwesOK
  <2> QED BY <1>2, <2>1 DEF RunOK
<1>3. /\ RunOK(StopRun(run, p)) /\ StopRun(run, p).head = run.head
      /\ StopRun(run, p).status = "landed" => run.status = "landed"
  <2> DEFINE stopped == [run EXCEPT !.status = "stopped"]
  <2>1. stopped \in RunRecord /\ stopped.head = run.head /\ stopped.status = "stopped"
    BY <1>1 DEF RunRecord
  <2> HIDE DEF stopped
  <2>2. ~IsOpen(stopped.status)
    BY <2>1 DEF IsOpen
  <2>3. StopRun(run, p) \in {stopped, OwesCheck(stopped, {p}), run}
    BY DEF StopRun, stopped
  <2> QED BY <1>1, <1>2, <2>1, <2>2, <2>3
<1>4. RunOK(LandRun(run, p)) /\ LandRun(run, p).head = run.head
  <2> DEFINE landed == [run EXCEPT !.status = "landed"]
  <2>1. landed \in RunRecord /\ landed.head = run.head /\ landed.status = "landed"
    BY <1>1 DEF RunRecord
  <2> HIDE DEF landed
  <2>2. ~IsOpen(landed.status)
    BY <2>1 DEF IsOpen
  <2>3. LandRun(run, p) \in {landed, OwesCheck(landed, {p})}
    BY DEF LandRun, landed
  <2> QED BY <1>1, <1>2, <2>1, <2>2, <2>3
<1>5. /\ RunOK(OnRetitled(run, title)) /\ OnRetitled(run, title).head = run.head
      /\ OnRetitled(run, title).status = run.status
  BY DEF OnRetitled, RunOK, RunRecord
<1>6. /\ RunOK(AskCheckRepost(run)) /\ AskCheckRepost(run).head = run.head
      /\ AskCheckRepost(run).status = run.status
  <2> DEFINE count == run.reposts + 1
             counted == [run EXCEPT !.reposts = count]
  <2>1. count \in Nat
    BY <1>1 DEF RunRecord
  <2>2. AskCheckRepost(run) = IF ~IsOpen(run.status) THEN run ELSE OwesCheck(counted, {})
    BY DEF AskCheckRepost
  <2> HIDE DEF count
  <2>3. /\ counted \in RunRecord /\ counted.head = run.head /\ counted.status = run.status
        /\ counted.concluded = run.concluded
    BY <1>1, <2>1 DEF RunRecord
  <2> HIDE DEF counted
  <2>4. /\ OwesCheck(counted, {}) \in RunRecord /\ OwesCheck(counted, {}).head = run.head
        /\ OwesCheck(counted, {}).status = run.status
        /\ OwesCheck(counted, {}).concluded = run.concluded
    BY <1>1, <2>3, OwesOK
  <2>5. RunOK(OwesCheck(counted, {}))
    BY <2>4 DEF RunOK
  <2> QED BY <2>2, <2>4, <2>5
<1> QED BY <1>3, <1>4, <1>5, <1>6

(* A commit of a run by an invocation, which then knows what it needs to. *)
LEMMA CommitStep ==
  ASSUME Inv, NEW p \in Proc, NEW step, ProcOK(step), Go(p, step), UNCHANGED github,
         NEW r \in RunIds, NEW run, RunOK(run), run.head = runs[r].head, Commit(r, run),
         run.status = "landed" =>
           runs[r].status = "landed" \/ (Merged(pull) /\ IntoDefault(pull) /\ run.head = pull.head)
  PROVE Inv'
<1>1. DOMAIN procs' = Proc /\ \A q \in Proc : ProcOK(procs'[q])
  BY DEF Inv, ProcsOK, Go
<1>2. rows' \in {rows, [rows EXCEPT ![r] = RowOf(run)]} /\ runs' = [runs EXCEPT ![r] = run]
  BY DEF Commit
<1>3. newest' \in {newest, [newest EXCEPT ![run.head] = r]} /\ UNCHANGED <<pull, deliveries>>
  BY DEF github
<1> QED BY <1>1, <1>2, <1>3, RunStep

-----------------------------------------------------------------------------
(* The steps of an invocation *)

LEMMA ReadPullOK == ASSUME Inv, NEW p \in Proc, ReadPull(p) PROVE Inv'
<1>1. procs[p] \in ProcType /\ ProcOK(procs[p]) /\ Event(p) \in EventType /\ pull \in PullType /\
        At(p, "pull")
  BY DEF ReadPull, Inv, ProcsOK, ProcOK, TypesOK, At, Event
<1>2. UNCHANGED <<github, runs, rows>>
  BY DEF ReadPull
<1>3. CASE Event(p).kind = "start"
  <2>1. Event(p) \in StartType
    BY <1>1, <1>3 DEF EventType, StartType
  <2>2. ProcOK([procs[p] EXCEPT !.at = IF Event(p).retarget THEN "files" ELSE "duplicate"])
    <3> DEFINE at == IF Event(p).retarget THEN "files" ELSE "duplicate"
    <3>1. at \in Stage \ Landing /\ at \notin Acting /\ at \notin {"pull", "starting"}
      BY DEF Stage, Starting, Landing, Acting
    <3> QED BY <2>1, <3>1, MovedOK
  <2>3. ProcOK(Started(p, pull))
    BY <2>2, EndedOK, ReconcilingOK DEF Started
  <2> QED BY <1>2, <1>3, <2>3, LocalStep DEF ReadPull
<1>4. CASE Event(p).kind = "closed"
  BY <1>2, <1>4, EndedOK, ReconcilingOK, LocalStep DEF ReadPull
<1>5. CASE Event(p).kind = "retitle"
  <2> DEFINE step == [procs[p] EXCEPT !.at = "titles", !.pull = pull]
  <2>1. step \in ProcType
    BY <1>1 DEF ProcType, Stage, Acting
  <2>2. ProcOK(step)
    BY <1>1, <2>1 DEF ProcOK, ProcType, Starting, Landing
  <2> QED BY <1>2, <1>5, <2>2, LocalStep DEF ReadPull
<1> QED BY <1>1, <1>3, <1>4, <1>5 DEF EventType, StartType

LEMMA FindDuplicateOK == ASSUME Inv, NEW p \in Proc, FindDuplicate(p) PROVE Inv'
<1>1. Event(p) \in StartType
  BY DEF FindDuplicate, Inv, ProcsOK, ProcOK, At, Event, Starting
<1>2. ProcOK([procs[p] EXCEPT !.at = "files"])
  BY <1>1, MovedOK DEF Stage, Starting, Landing, Acting
<1> QED BY <1>2, EndedOK, LocalStep DEF FindDuplicate, Finish

LEMMA ListFilesOK == ASSUME Inv, NEW p \in Proc, ListFiles(p) PROVE Inv'
<1> DEFINE at == IF pull.head \in Unpatrolled THEN "neutral" ELSE "start"
<1>1. Event(p) \in StartType
  BY DEF ListFiles, Inv, ProcsOK, ProcOK, At, Event, Starting
<1>2. ProcOK([procs[p] EXCEPT !.at = at])
  <2>1. at \in Stage \ Landing /\ at \notin Acting /\ at \notin {"pull", "starting"}
    BY DEF Stage, Starting, Landing, Acting
  <2> QED BY <1>1, <2>1, MovedOK
<1> QED BY <1>2, LocalStep DEF ListFiles

LEMMA PostNeutralOK == ASSUME Inv, NEW p \in Proc, PostNeutral(p) PROVE Inv'
<1>1. Event(p) \in StartType
  BY DEF PostNeutral, Inv, ProcsOK, ProcOK, At, Event, Starting
<1>2. (DOMAIN newest = Sha /\ \A sha \in Sha : CheckOK(sha, newest[sha]))'
  BY <1>1 DEF PostNeutral, Inv, TypesOK, CheckOK, OnHead, RunIds, StartType
<1>3. TypesOK' /\ LandsOnlyMerged'
  BY <1>2 DEF PostNeutral, Inv, TypesOK, LandsOnlyMerged, RunIds, RunOK, Merged, IntoDefault
<1>4. RunsGrow
  BY DEF RunsGrow, PostNeutral, RunIds, Merged, IntoDefault
<1>5. DOMAIN procs' = Proc /\ \A q \in Proc : ProcOK(procs'[q])
  BY FreshOK DEF PostNeutral, Go, Inv, ProcsOK
<1> QED BY <1>3, <1>4, <1>5, ProcKept DEF Inv, ProcsOK

LEMMA StartRunOK == ASSUME Inv, NEW p \in Proc, StartRun(p) PROVE Inv'
<1> DEFINE id == Len(runs) + 1
           run == NewRun(Event(p).head, Event(p).title, p)
           step == [procs[p] EXCEPT !.at = "starting", !.event = None, !.run = id]
<1>1. Event(p) \in StartType /\ procs[p] \in ProcType /\ ProcOK(procs[p])
  BY DEF StartRun, Inv, ProcsOK, ProcOK, At, Event, Starting
<1>2. RunOK(run) /\ run.status = "on_the_hill"
  BY <1>1 DEF NewRun, RunOK, RunRecord, StartType, NotCreating, IsOpen
<1>3. /\ runs \in Seq(RunRecord) /\ rows \in Seq(RowType) /\ Len(rows) = Len(runs) /\
           Len(runs) < MaxRuns
      /\ RunIds = 1 .. Len(runs) /\ MaxRuns \in Nat
  BY ReconcileAssumption DEF Inv, TypesOK, RunIds, StartRun
<1>4. /\ runs' \in Seq(RunRecord) /\ Len(runs') = id /\ RunIds' = 1 .. id /\ id \in Nat
      /\ runs'[id] = run /\ \A r \in RunIds : runs'[r] = runs[r]
  BY <1>2, <1>3 DEF StartRun, RunIds, RunOK
<1>5. rows' \in Seq(RowType) /\ Len(rows') = id
  <2>1. RowOf(run) \in RowType /\ NoRow \in RowType
    BY <1>2 DEF RowOf, RowType, RunOK, RunRecord
  <2> QED BY <1>3, <2>1 DEF StartRun
<1>6. pull' = pull /\ deliveries' = deliveries /\ newest' = newest
  BY DEF StartRun, github
<1>7. TypesOK'
  <2>1. \A r \in RunIds' : RunOK(runs'[r])
    BY <1>2, <1>3, <1>4 DEF Inv, TypesOK
  <2>2. (\A sha \in Sha : CheckOK(sha, newest[sha]))'
    BY <1>3, <1>4, <1>6 DEF Inv, TypesOK, CheckOK, OnHead
  <2> QED BY <1>3, <1>4, <1>5, <1>6, <2>1, <2>2 DEF Inv, TypesOK, RunOK
<1>8. LandsOnlyMerged'
  BY <1>2, <1>3, <1>4, <1>6 DEF Inv, LandsOnlyMerged, Merged, IntoDefault
<1>9. RunsGrow
  BY <1>3, <1>4, <1>6 DEF RunsGrow, Merged, IntoDefault
<1>10. ASSUME NEW proc, proc = step PROVE ProcOK(proc)'
  <2>1. proc \in ProcType
    BY <1>1, <1>4, <1>10 DEF ProcType, Stage
  <2>2. proc.at = "starting" /\ proc.run = id /\ proc.ops = procs[p].ops /\
          proc.stale = procs[p].stale
    BY <1>1, <1>10 DEF ProcType
  <2>3. proc.ops \subseteq RunIds' \X {"stop", "retitle"} /\ proc.stale \subseteq RunIds'
    BY <1>1, <1>9, <2>2 DEF ProcOK, RunsGrow
  <2> QED BY <1>4, <2>1, <2>2, <2>3 DEF ProcOK, Starting, Landing, Acting
<1>11. ASSUME NEW q \in Proc PROVE ProcOK(procs[q])'
  <2>1. CASE q = p
    BY <1>10, <2>1 DEF StartRun, Go, Inv, ProcsOK
  <2>2. CASE q # p
    BY <1>9, <2>2, ProcKept DEF StartRun, Go, Inv, ProcsOK
  <2> QED BY <2>1, <2>2
<1> QED BY <1>7, <1>8, <1>11 DEF Inv, ProcsOK, StartRun, Go

LEMMA StartReturnsOK == ASSUME Inv, NEW p \in Proc, StartReturns(p) PROVE Inv'
BY FreshOK, LocalStep DEF StartReturns

LEMMA RereadOK == ASSUME Inv, NEW p \in Proc, Reread(p) PROVE Inv'
BY ReconcilingOK, LocalStep DEF Reread

LEMMA FindMergedOK == ASSUME Inv, NEW p \in Proc, FindMerged(p) PROVE Inv'
<1>1. procs[p] \in ProcType /\ ProcOK(procs[p]) /\ procs[p].at = "merged" /\
        procs[p].pull \in PullType
  BY DEF FindMerged, Inv, ProcsOK, ProcOK, At, Landing
<1>2. RunIds = 1 .. Len(runs) /\ Len(runs) \in Nat /\ None \notin Nat
  BY ReconcileAssumption DEF Inv, TypesOK, RunIds
<1>3. ProcOK([procs[p] EXCEPT !.at = "find"])
  BY <1>1, MovedOK DEF Stage, Starting, Landing, Acting
<1>4. ASSUME NEW r \in RunIds, runs[r].head = procs[p].pull.head
      PROVE ProcOK([procs[p] EXCEPT !.at = "land", !.run = r])
  <2> DEFINE step == [procs[p] EXCEPT !.at = "land", !.run = r]
  <2> r \in Nat BY <1>2
  <2>1. step \in ProcType
    BY <1>1 DEF ProcType, Stage, Landing
  <2>2. /\ step.at = "land" /\ step.run = r /\ step.pull = procs[p].pull
        /\ step.ops = procs[p].ops /\ step.stale = procs[p].stale
    BY <1>1 DEF ProcType
  <2> QED BY <1>1, <1>4, <2>1, <2>2 DEF ProcOK, Starting, Landing, Acting
<1>5. PICK newestRun \in RunIds \union {None} :
        /\ IsNewest(newestRun, OnHead(PrRuns, procs[p].pull.head))
        /\ Go(p, IF newestRun # None /\ rows[newestRun].status # "landed"
                 THEN [procs[p] EXCEPT !.at = "land", !.run = newestRun]
                 ELSE [procs[p] EXCEPT !.at = "find"])
  BY DEF FindMerged
<1>6. newestRun # None => newestRun \in RunIds /\ runs[newestRun].head = procs[p].pull.head
  BY <1>5 DEF IsNewest, OnHead, PrRuns
<1> QED BY <1>3, <1>4, <1>5, <1>6, LocalStep DEF FindMerged

LEMMA LandOK == ASSUME Inv, NEW p \in Proc, Land(p) PROVE Inv'
<1> DEFINE r == procs[p].run
           step == [procs[p] EXCEPT !.at = "landing"]
<1>1. /\ procs[p] \in ProcType /\ ProcOK(procs[p]) /\ r \in RunIds
      /\ Merged(pull) /\ IntoDefault(pull) /\ runs[r].head = pull.head
  BY DEF Land, Inv, ProcsOK, ProcOK, At, Landing
<1>2. RunOK(runs[r]) /\ pull.title \in Title
  BY <1>1 DEF Inv, TypesOK, PullType
<1>3. RunOK(LandRun(runs[r], p)) /\ LandRun(runs[r], p).head = runs[r].head
  BY <1>2, CallsOK
<1>4. ProcOK(step)
  <2>1. step \in ProcType /\ step.at = "landing" /\ step.pull = procs[p].pull /\ step.run = r
        /\ step.ops = procs[p].ops /\ step.stale = procs[p].stale
    BY <1>1 DEF ProcType, Stage, Landing
  <2> QED BY <1>1, <2>1 DEF ProcOK, Starting, Landing, Acting, Land, At
<1> QED BY <1>1, <1>3, <1>4, CommitStep DEF Land

LEMMA LandReturnsOK == ASSUME Inv, NEW p \in Proc, LandReturns(p) PROVE Inv'
<1>1. procs[p].pull \in PullType
  BY DEF LandReturns, Inv, ProcsOK, ProcOK, At, Landing
<1>2. ProcOK([procs[p] EXCEPT !.at = "find"])
  BY <1>1, MovedOK DEF Stage, Starting, Landing, Acting
<1> QED BY <1>2, LocalStep DEF LandReturns

(* What a reconcile decides on is the runs it read. *)
LEMMA ActingOK ==
  ASSUME Inv, NEW p \in Proc, procs[p].pull \in PullType,
         NEW kept \in RunIds \union {None}, NEW stale \in SUBSET RunIds,
         NEW ops \in SUBSET (RunIds \X {"stop", "retitle"})
  PROVE ProcOK([procs[p] EXCEPT !.at = "act", !.run = kept, !.stale = stale, !.ops = ops])
<1> DEFINE step == [procs[p] EXCEPT !.at = "act", !.run = kept, !.stale = stale, !.ops = ops]
<1>1. procs[p] \in ProcType
  BY DEF Inv, ProcsOK, ProcOK
<1>2. RunIds \subseteq Nat
  BY DEF Inv, TypesOK, RunIds
<1>3. kept \in Nat \union {None} /\ stale \in SUBSET Nat /\
        ops \in SUBSET (Nat \X {"stop", "retitle"})
  BY <1>2
<1>4. step \in ProcType
  BY <1>1, <1>3 DEF ProcType, Stage, Acting
<1>5. step.at = "act" /\ step.run = kept /\ step.stale = stale /\ step.ops = ops /\
        step.pull = procs[p].pull
  BY <1>1 DEF ProcType
<1> QED BY <1>4, <1>5 DEF ProcOK, Starting, Landing, Acting

LEMMA FindRunsOK == ASSUME Inv, NEW p \in Proc, FindRuns(p) PROVE Inv'
<1> DEFINE pr == procs[p].pull
           open == OpenRuns \ {procs[p].run}
           candidates == IF Patrolled(pr) THEN OnHead(open, pr.head) ELSE {}
           ops(kept) == {<<r, "stop">> : r \in open \ {kept}} \union {<<r, "retitle">> : r \in
             Retitled(open, pr)}
<1>1. procs[p].pull \in PullType
  BY DEF FindRuns, Inv, ProcsOK, ProcOK, At, Acting
<1>2. open \in SUBSET RunIds /\ Retitled(open, pr) \in SUBSET RunIds
  BY DEF OpenRuns, PrRuns, Retitled
<1>3. \A kept \in RunIds \union {None} : ops(kept) \in SUBSET (RunIds \X {"stop", "retitle"})
  BY <1>2
<1>4. PICK kept \in RunIds \union {None} :
        Go(p, [procs[p] EXCEPT !.at = "act", !.run = kept, !.stale = open \ {kept},
          !.ops = ops(kept)])
  BY DEF FindRuns
<1>5. open \ {kept} \in SUBSET RunIds /\ ops(kept) \in SUBSET (RunIds \X {"stop", "retitle"})
  BY <1>2, <1>3
<1> HIDE DEF open, ops
<1>6. ProcOK([procs[p] EXCEPT !.at = "act", !.run = kept, !.stale = open \ {kept}, !.ops = ops(kept)])
  BY <1>1, <1>5, ActingOK
<1> QED BY <1>4, <1>6, LocalStep DEF FindRuns

LEMMA FindTitlesOK == ASSUME Inv, NEW p \in Proc, FindTitles(p) PROVE Inv'
<1> DEFINE ops == {<<r, "retitle">> : r \in PrRuns}
           step == [procs[p] EXCEPT !.at = "act", !.event = None, !.ops = ops]
<1>1. procs[p] \in ProcType /\ ProcOK(procs[p]) /\ procs[p].pull \in PullType
  BY DEF FindTitles, Inv, ProcsOK, ProcOK, At, Acting
<1>2. ops \in SUBSET (RunIds \X {"stop", "retitle"}) /\ ops \in SUBSET (Nat \X {"stop", "retitle"})
  BY DEF PrRuns, Inv, TypesOK, RunIds
<1> HIDE DEF ops
<1>3. step \in ProcType
  BY <1>1, <1>2 DEF ProcType, Stage, Acting
<1>4. step.at = "act" /\ step.run = procs[p].run /\ step.stale = procs[p].stale /\ step.ops = ops
      /\ step.pull = procs[p].pull
  BY <1>1 DEF ProcType
<1>5. ProcOK(step)
  BY <1>1, <1>2, <1>3, <1>4 DEF ProcOK, Starting, Landing, Acting
<1> QED BY <1>5, LocalStep DEF FindTitles, ops

LEMMA ActOK == ASSUME Inv, NEW p \in Proc, Act(p) PROVE Inv'
<1>1. procs[p] \in ProcType /\ ProcOK(procs[p]) /\ procs[p].at = "act" /\ procs[p].pull \in PullType
  BY DEF Act, Inv, ProcsOK, ProcOK, At, Acting
<1>2. PICK op \in procs[p].ops :
        /\ Commit(op[1], IF op[2] = "stop" THEN StopRun(runs[op[1]], p)
                         ELSE OnRetitled(runs[op[1]], procs[p].pull.title))
        /\ Go(p, [procs[p] EXCEPT !.ops = @ \ {op}, !.halted = @ \union Halts(op)])
  BY DEF Act
<1> DEFINE r == op[1]
           run == IF op[2] = "stop" THEN StopRun(runs[r], p) ELSE OnRetitled(runs[r],
             procs[p].pull.title)
           left == procs[p].ops \ {op}
           halted == procs[p].halted \union Halts(op)
           step == [procs[p] EXCEPT !.ops = left, !.halted = halted]
<1>3. r \in RunIds
  BY <1>1 DEF ProcOK
<1>4. RunOK(runs[r]) /\ procs[p].pull.title \in Title
  BY <1>1, <1>3 DEF Inv, TypesOK, PullType
<1>5. RunOK(run) /\ run.head = runs[r].head /\ (run.status = "landed" => runs[r].status = "landed")
  BY <1>4, CallsOK
<1>6. ProcOK(step)
  <2>1. left \in SUBSET (Nat \X {"stop", "retitle"})
    BY <1>1 DEF ProcType
  <2>2. left \subseteq procs[p].ops /\ halted \in SUBSET Nat
    BY <1>1, <1>3 DEF ProcType, Halts, Inv, TypesOK, RunIds
  <2> HIDE DEF left, halted
  <2>3. step \in ProcType
    BY <1>1, <2>1, <2>2 DEF ProcType
  <2>4. /\ step.at = procs[p].at /\ step.run = procs[p].run /\ step.pull = procs[p].pull
        /\ step.ops = left /\ step.stale = procs[p].stale
    BY <1>1 DEF ProcType
  <2> QED BY <1>1, <2>2, <2>3, <2>4 DEF ProcOK, Starting, Landing, Acting
<1>7. Commit(r, run) /\ Go(p, step) /\ UNCHANGED github
  BY <1>2 DEF Act
<1> HIDE DEF r, run, step
<1> QED BY <1>3, <1>5, <1>6, <1>7, CommitStep

LEMMA RepostOK == ASSUME Inv, NEW p \in Proc, Repost(p) PROVE Inv'
<1> DEFINE kept == procs[p].run
           asks == kept # None /\ OnHead(procs[p].stale, runs[kept].head) # {}
<1>1. Go(p, Ended(p)) /\ ProcOK(Ended(p)) /\ UNCHANGED github
  BY EndedOK DEF Repost, Finish
<1>2. CASE asks
  <2>1. kept \in RunIds
    BY <1>2 DEF Inv, ProcsOK, ProcOK
  <2>2. RunOK(runs[kept]) /\ pull.title \in Title
    BY <2>1 DEF Inv, TypesOK, PullType
  <2>3. /\ RunOK(AskCheckRepost(runs[kept])) /\ AskCheckRepost(runs[kept]).head = runs[kept].head
        /\ AskCheckRepost(runs[kept]).status = runs[kept].status
    BY <2>2, CallsOK
  <2>4. Commit(kept, AskCheckRepost(runs[kept]))
    BY <1>2 DEF Repost
  <2> QED BY <1>1, <2>1, <2>3, <2>4, CommitStep
<1>3. CASE ~asks
  <2>1. UNCHANGED <<github, runs, rows>>
    BY <1>1, <1>3 DEF Repost
  <2> QED BY <1>1, <2>1, LocalStep
<1> QED BY <1>2, <1>3

-----------------------------------------------------------------------------
(* The cron *)

LEMMA CronOK ==
  ASSUME Inv, Tick \/ ListPulls \/ RunsOnHead \/ HasCheckRun
  PROVE Inv'
<1>1. Cron \in Proc
  BY DEF Proc
<1>2. UNCHANGED <<github, runs, rows>>
  BY DEF Tick, ListPulls, RunsOnHead, HasCheckRun
<1>3. CASE Tick
  BY <1>1, <1>2, <1>3, FreshOK, LocalStep DEF Tick
<1>4. CASE ListPulls
  <2> DEFINE event == [kind |-> "start", head |-> pull.head, title |-> pull.title, retarget |-> FALSE]
             step == [Idle EXCEPT !.at = "on_head", !.event = event]
  <2>1. event \in StartType
    BY DEF StartType, Inv, TypesOK, PullType
  <2> HIDE DEF event
  <2>2. Idle \in ProcType
    BY EndedOK DEF ProcOK
  <2>3. step \in ProcType
    BY <2>1, <2>2 DEF ProcType, Stage, Starting, EventType
  <2>4. step.at = "on_head" /\ step.event = event /\ step.run = None /\ step.ops = {} /\
          step.stale = {}
    BY <2>2 DEF ProcType, Idle
  <2>5. ProcOK(step)
    BY <2>1, <2>3, <2>4 DEF ProcOK, Starting, Landing, Acting
  <2> QED BY <1>1, <1>2, <1>4, <2>5, EndedOK, LocalStep DEF ListPulls, event
<1>5. CASE RunsOnHead
  <2> DEFINE at == IF OnHead(PrRuns, Event(Cron).head) = {} THEN "has_check" ELSE "pull"
  <2>1. Event(Cron) \in StartType /\ Event(Cron) \in EventType
    BY <1>1, <1>5 DEF RunsOnHead, Inv, ProcsOK, ProcOK, At, Event, Starting, EventType
  <2>2. ProcOK([procs[Cron] EXCEPT !.at = at])
    <3>1. at \in Stage \ Landing /\ at \notin Acting /\ at # "starting"
      BY DEF Stage, Starting, Landing, Acting
    <3> QED BY <1>1, <2>1, <3>1, MovedOK
  <2> QED BY <1>1, <1>2, <1>5, <2>2, EndedOK, LocalStep DEF RunsOnHead
<1>6. CASE HasCheckRun
  <2>1. Event(Cron) \in StartType /\ Event(Cron) \in EventType
    BY <1>1, <1>6 DEF HasCheckRun, Inv, ProcsOK, ProcOK, At, Event, Starting, EventType
  <2>2. ProcOK([procs[Cron] EXCEPT !.at = "pull"])
    BY <1>1, <2>1, MovedOK DEF Stage, Starting, Landing, Acting
  <2> QED BY <1>1, <1>2, <1>6, <2>2, EndedOK, LocalStep DEF HasCheckRun
<1> QED BY <1>3, <1>4, <1>5, <1>6

-----------------------------------------------------------------------------
(* Deliveries, failures, the runs' own steps, and what happens on GitHub *)

LEMMA DeliverOK == ASSUME Inv, NEW p \in Webhook, Deliver(p) PROVE Inv'
<1>1. p \in Proc
  BY DEF Proc
<1>2. PICK event \in deliveries :
        /\ Go(p, [Idle EXCEPT !.at = "pull", !.event = event])
        /\ deliveries' \subseteq deliveries
  BY DEF Deliver
<1>3. event \in EventType
  BY DEF Inv, TypesOK
<1> DEFINE step == [Idle EXCEPT !.at = "pull", !.event = event]
<1>4. ProcOK(step)
  <2>1. Idle \in ProcType
    BY EndedOK DEF ProcOK
  <2>2. step \in ProcType
    BY <1>3, <2>1 DEF ProcType, Stage
  <2>3. step.at = "pull" /\ step.event = event /\ step.run = None /\ step.ops = {} /\ step.stale = {}
    BY <2>1 DEF ProcType, Idle
  <2> QED BY <1>3, <2>2, <2>3 DEF ProcOK, Starting, Landing, Acting
<1>5. TypesOK' /\ LandsOnlyMerged' /\ RunsGrow
  BY <1>2 DEF Deliver, Inv, TypesOK, LandsOnlyMerged, CheckOK, OnHead, RunIds, RunOK, Merged,
    IntoDefault,
              RunsGrow
<1>6. DOMAIN procs' = Proc /\ \A q \in Proc : ProcOK(procs'[q])
  BY <1>2, <1>4 DEF Go, Inv, ProcsOK
<1> QED BY <1>5, <1>6, ProcKept DEF Inv, ProcsOK

(* The calls of an invocation that failed are waited for no more: nothing else of a run changes. *)
LEMMA UnwaitedOK ==
  ASSUME NEW run \in RunRecord, NEW p \in Proc
  PROVE /\ Unwaited(p, run) \in RunRecord
        /\ Unwaited(p, run).queued = run.queued \ {p}
        /\ Unwaited(p, run).syncing = run.syncing \ {p}
        /\ Unwaited(p, run).head = run.head /\ Unwaited(p, run).status = run.status
        /\ Unwaited(p, run).concluded = run.concluded /\ Unwaited(p, run).posted = run.posted
        /\ Unwaited(p, run).reposts = run.reposts /\ Unwaited(p, run).asked = run.asked
        /\ Unwaited(p, run).owes = run.owes /\ Unwaited(p, run).failed = run.failed
<1> DEFINE queued == run.queued \ {p}
           syncing == run.syncing \ {p}
<1>1. queued \in SUBSET Proc /\ syncing \in SUBSET Proc
  BY DEF RunRecord
<1>2. Unwaited(p, run) = [run EXCEPT !.queued = queued, !.syncing = syncing]
  BY DEF Unwaited
<1>3. queued = run.queued \ {p} /\ syncing = run.syncing \ {p}
  OBVIOUS
<1> HIDE DEF queued, syncing
<1> QED BY <1>1, <1>2, <1>3 DEF RunRecord

LEMMA FailsOK == ASSUME Inv, NEW p \in Proc, Fails(p) PROVE Inv'
<1>1. /\ runs \in Seq(RunRecord) /\ RunIds = 1 .. Len(runs) /\ Len(runs) \in Nat
      /\ \A r \in RunIds : RunOK(runs[r])
  BY DEF Inv, TypesOK, RunIds
<1>2. runs' = [r \in RunIds |-> Unwaited(p, runs[r])] /\ UNCHANGED <<github, rows>>
  BY DEF Fails
<1>3. ASSUME NEW r \in RunIds
      PROVE /\ Unwaited(p, runs[r]) \in RunRecord /\ Unwaited(p, runs[r]).head = runs[r].head
            /\ Unwaited(p, runs[r]).status = runs[r].status
            /\ Unwaited(p, runs[r]).concluded = runs[r].concluded
  <2>1. runs[r] \in RunRecord
    BY <1>1 DEF RunOK
  <2> QED BY <2>1, UnwaitedOK
<1>4. /\ runs' \in Seq(RunRecord) /\ Len(runs') = Len(runs) /\ RunIds' = RunIds
      /\ \A r \in RunIds : runs'[r] = Unwaited(p, runs[r])
  BY <1>1, <1>2, <1>3 DEF RunIds
<1>5. RunsGrow
  BY <1>2, <1>3, <1>4 DEF RunsGrow, github
<1>6. \A r \in RunIds' : RunOK(runs'[r])
  BY <1>1, <1>3, <1>4 DEF RunOK
<1>7. (DOMAIN newest = Sha /\ \A sha \in Sha : CheckOK(sha, newest[sha]))'
  BY <1>2, <1>3, <1>4 DEF Inv, TypesOK, CheckOK, OnHead, github
<1>8. TypesOK'
  BY <1>2, <1>4, <1>6, <1>7 DEF Inv, TypesOK, github, RunOK
<1>9. LandsOnlyMerged'
  BY <1>2, <1>3, <1>4 DEF Inv, LandsOnlyMerged, Merged, IntoDefault, github
<1>10. DOMAIN procs' = Proc /\ \A q \in Proc : ProcOK(procs'[q])
  BY EndedOK DEF Fails, Finish, Go, Inv, ProcsOK
<1> QED BY <1>5, <1>8, <1>9, <1>10, ProcKept DEF Inv, ProcsOK

(* A run syncs its check, has it created or not, writes its row, or has its review concluded. *)
LEMMA RunOwnOK ==
  ASSUME Inv, NEW r \in RunIds,
         SyncCheck(r) \/ CheckCreated(r) \/ CheckFails(r) \/ WriteRow(r) \/ Sweep(r)
  PROVE Inv'
<1>1. RunOK(runs[r])
  BY DEF Inv, TypesOK
<1>2. runs \in Seq(RunRecord) /\ rows \in Seq(RowType)
  BY DEF Inv, TypesOK
<1> DEFINE KeptOK(run) == /\ RunOK(run) /\ run.head = runs[r].head
                          /\ run.status = "landed" => runs[r].status = "landed"
<1>3. DOMAIN procs' = Proc /\ \A q \in Proc : ProcOK(procs'[q])
  BY DEF SyncCheck, CheckCreated, CheckFails, WriteRow, Sweep, Inv, ProcsOK, github
<1>4. NotCreating \in Int
  BY DEF NotCreating
<1>5. CASE SyncCheck(r)
  <2> DEFINE creates == WantsCheck(runs[r]) /\ (~runs[r].posted \/ runs[r].reposts > 0)
             asked == IF creates THEN runs[r].reposts ELSE NotCreating
             syncing == IF creates THEN runs[r].queued ELSE {}
             run == [runs[r] EXCEPT !.owes = FALSE, !.queued = {}, !.asked = asked,
                                    !.syncing = syncing]
  <2>1. asked \in Int /\ syncing \in SUBSET Proc
    BY <1>1 DEF RunOK, RunRecord, NotCreating
  <2>2. runs' = [runs EXCEPT ![r] = run]
    BY <1>5 DEF SyncCheck
  <2> HIDE DEF asked, syncing
  <2>3. KeptOK(run)
    BY <1>1, <2>1 DEF RunOK, RunRecord
  <2> QED BY <1>3, <1>5, <2>2, <2>3, RunStep DEF SyncCheck, github
<1>6. CASE CheckCreated(r)
  <2> DEFINE reposts == IF runs[r].reposts = runs[r].asked THEN 0 ELSE runs[r].reposts
             run == [runs[r] EXCEPT !.posted = TRUE, !.asked = NotCreating, !.syncing = {},
                                    !.reposts = reposts]
  <2>1. reposts \in Nat
    BY <1>1 DEF RunOK, RunRecord
  <2> HIDE DEF reposts
  <2>2. KeptOK(run)
    BY <1>1, <1>4, <2>1 DEF RunOK, RunRecord
  <2>3. runs' = [runs EXCEPT ![r] = run] /\ newest' = [newest EXCEPT ![run.head] = r]
    BY <1>1, <1>6 DEF CheckCreated, reposts, RunOK, RunRecord
  <2> QED BY <1>3, <1>6, <2>2, <2>3, RunStep DEF CheckCreated
<1>7. CASE CheckFails(r)
  <2> DEFINE run == [runs[r] EXCEPT !.asked = NotCreating, !.syncing = {}, !.owes = TRUE,
                                    !.failed = TRUE]
  <2>1. KeptOK(run)
    BY <1>1, <1>4 DEF RunOK, RunRecord
  <2>2. runs' = [runs EXCEPT ![r] = run] /\ newest' \in {newest, [newest EXCEPT ![run.head] = r]}
    BY <1>1, <1>7 DEF CheckFails, RunOK, RunRecord
  <2> QED BY <1>3, <1>7, <2>1, <2>2, RunStep DEF CheckFails
<1>8. CASE WriteRow(r)
  <2>1. runs' = [runs EXCEPT ![r] = runs[r]]
    BY <1>2, <1>8 DEF WriteRow
  <2> QED BY <1>1, <1>3, <1>8, <2>1, RunStep DEF WriteRow, github
<1>9. CASE Sweep(r)
  <2> DEFINE swept == [runs[r] EXCEPT !.status = "swept", !.concluded = TRUE]
             run == OwesCheck(swept, {})
  <2>1. KeptOK(run)
    <3>1. /\ swept \in RunRecord /\ swept.status = "swept" /\ swept.concluded = TRUE
          /\ swept.head = runs[r].head
      BY <1>1 DEF RunOK, RunRecord
    <3> HIDE DEF swept
    <3>2. /\ run \in RunRecord /\ run.status = "swept" /\ run.concluded = TRUE
          /\ run.head = runs[r].head
      BY <3>1, OwesOK
    <3> QED BY <3>2 DEF RunOK
  <2>2. runs' = [runs EXCEPT ![r] = run] /\ rows' \in {rows, [rows EXCEPT ![r] = RowOf(run)]}
    BY <1>9 DEF Sweep, Commit
  <2> QED BY <1>3, <1>9, <2>1, <2>2, RunStep DEF Sweep, github
<1> QED BY <1>5, <1>6, <1>7, <1>8, <1>9

(* A merged PR only changes its title, so what landed with it stays right. *)
LEMMA BecomesOK ==
  ASSUME Inv, NEW deed, NEW pr \in PullType, NEW events \in SUBSET EventType,
    Becomes(deed, pr, events),
         Merged(pull) => Merged(pr) /\ pr.base = pull.base /\ pr.head = pull.head
  PROVE Inv'
<1>1. /\ pull' = pr /\ deliveries' = deliveries \union events
      /\ runs' = runs /\ rows' = rows /\ newest' = newest /\ procs' = procs
  BY DEF Becomes
<1>2. TypesOK'
  BY <1>1 DEF Inv, TypesOK, CheckOK, OnHead, RunIds, RunOK
<1>3. RunsGrow /\ LandsOnlyMerged'
  BY <1>1 DEF RunsGrow, Inv, LandsOnlyMerged, RunIds, Merged, IntoDefault
<1> QED BY <1>1, <1>2, <1>3, ProcKept DEF Inv, ProcsOK

LEMMA DeedOK == ASSUME Inv, Deed PROVE Inv'
<1> USE DEF Merged
<1>1. pull \in PullType
  BY DEF Inv, TypesOK
<1>2. \A pr \in PullType, retarget \in BOOLEAN : {StartEvent(pr, retarget)} \in SUBSET EventType
  BY DEF PullType, StartEvent, StartType, EventType
<1>3. {[kind |-> "closed"]} \in SUBSET EventType /\ {[kind |-> "retitle"]} \in SUBSET EventType
      /\ {} \in SUBSET EventType
  BY DEF EventType
<1>4. ASSUME NEW head \in Sha, pull.state = "open",
             Becomes("push", [pull EXCEPT !.head = head],
               {StartEvent([pull EXCEPT !.head = head], FALSE)})
      PROVE Inv'
  <2>1. [pull EXCEPT !.head = head] \in PullType
    BY <1>1 DEF PullType
  <2> QED BY <1>2, <1>4, <2>1, BecomesOK
<1>5. ASSUME pull.state = "open",
             Becomes("draft", [pull EXCEPT !.draft = FALSE],
               {StartEvent([pull EXCEPT !.draft = FALSE], FALSE)})
      PROVE Inv'
  <2>1. [pull EXCEPT !.draft = FALSE] \in PullType
    BY <1>1 DEF PullType
  <2> QED BY <1>2, <1>5, <2>1, BecomesOK
<1>6. ASSUME pull.state = "open", Becomes("draft", [pull EXCEPT !.draft = TRUE], {})
      PROVE Inv'
  <2>1. [pull EXCEPT !.draft = TRUE] \in PullType
    BY <1>1 DEF PullType
  <2> QED BY <1>3, <1>6, <2>1, BecomesOK
<1>7. ASSUME NEW base \in {"default", "other"}, pull.state = "open",
             Becomes("retarget", [pull EXCEPT !.base = base],
               {StartEvent([pull EXCEPT !.base = base], TRUE)})
      PROVE Inv'
  <2>1. [pull EXCEPT !.base = base] \in PullType
    BY <1>1 DEF PullType
  <2> QED BY <1>2, <1>7, <2>1, BecomesOK
<1>8. ASSUME NEW title \in Title, Becomes("retitle", [pull EXCEPT !.title = title],
        {[kind |-> "retitle"]})
      PROVE Inv'
  <2>1. /\ [pull EXCEPT !.title = title] \in PullType
        /\ [pull EXCEPT !.title = title].state = pull.state
        /\ [pull EXCEPT !.title = title].base = pull.base /\
             [pull EXCEPT !.title = title].head = pull.head
    BY <1>1 DEF PullType
  <2> QED BY <1>3, <1>8, <2>1, BecomesOK
<1>9. ASSUME NEW state \in {"open", "closed", "merged"}, NEW deed, NEW events \in SUBSET EventType,
             pull.state # "merged", Becomes(deed, [pull EXCEPT !.state = state], events)
      PROVE Inv'
  <2>1. [pull EXCEPT !.state = state] \in PullType
    BY <1>1 DEF PullType
  <2> QED BY <1>9, <2>1, BecomesOK
<1>10. [pull EXCEPT !.state = "open"] \in PullType
  BY <1>1 DEF PullType
<1> QED
  <2>1. CASE \E head \in {h \in Sha : h > pull.head} :
               /\ pull.state = "open"
               /\ Becomes("push", [pull EXCEPT !.head = head],
                    {StartEvent([pull EXCEPT !.head = head], FALSE)})
    BY <1>4, <2>1
  <2>2. CASE \E base \in {"default", "other"} \ {pull.base} :
               /\ pull.state = "open"
               /\ Becomes("retarget", [pull EXCEPT !.base = base],
                    {StartEvent([pull EXCEPT !.base = base], TRUE)})
    BY <1>7, <2>2
  <2>3. CASE \E title \in Title \ {pull.title} :
               Becomes("retitle", [pull EXCEPT !.title = title], {[kind |-> "retitle"]})
    BY <1>8, <2>3
  <2>4. CASE pull.state = "open" /\ Becomes("close", [pull EXCEPT !.state = "closed"],
          {[kind |-> "closed"]})
    BY <1>3, <1>9, <2>4
  <2>5. CASE /\ pull.state = "closed"
             /\ Becomes("reopen", [pull EXCEPT !.state = "open"],
                  {StartEvent([pull EXCEPT !.state = "open"], FALSE)})
    BY <1>2, <1>9, <1>10, <2>5
  <2>6. CASE pull.state = "open" /\ Becomes("merge", [pull EXCEPT !.state = "merged"],
          {[kind |-> "closed"]})
    BY <1>3, <1>9, <2>6
  <2> QED BY <1>5, <1>6, <2>1, <2>2, <2>3, <2>4, <2>5, <2>6 DEF Deed

-----------------------------------------------------------------------------
(* The theorems *)

LEMMA InitOK == ASSUME Init PROVE Inv
<1>1. PICK title \in Title, head \in Sha :
        /\ pull = [state |-> "open", head |-> head, draft |-> FALSE, base |-> "default",
             title |-> title]
        /\ deliveries = {StartEvent(pull, FALSE)}
        /\ newest = [h \in Sha |-> None] /\ runs = <<>> /\ rows = <<>> /\
             procs = [p \in Proc |-> Idle]
  BY ReconcileAssumption DEF Init
<1>2. TypesOK
  <2>1. pull \in PullType
    BY <1>1 DEF PullType
  <2>2. deliveries \subseteq EventType
    BY <1>1, <2>1 DEF StartEvent, PullType, StartType, EventType
  <2>3. runs \in Seq(RunRecord) /\ Len(runs) = 0 /\ rows \in Seq(RowType) /\ Len(rows) = 0 /\
          RunIds = {}
    BY <1>1 DEF RunIds
  <2>4. DOMAIN newest = Sha /\ \A sha \in Sha : CheckOK(sha, newest[sha])
    BY <1>1 DEF CheckOK
  <2>5. Len(runs) <= MaxRuns /\ \A r \in RunIds : RunOK(runs[r])
    BY <2>3, ReconcileAssumption
  <2> QED BY <2>1, <2>2, <2>3, <2>4, <2>5 DEF TypesOK
<1>3. ProcsOK
  BY <1>1, EndedOK DEF ProcsOK
<1>4. LandsOnlyMerged
  BY <1>1 DEF LandsOnlyMerged, RunIds
<1> QED BY <1>2, <1>3, <1>4 DEF Inv

LEMMA StepOK == ASSUME Inv, NEW p \in Proc, Step(p) PROVE Inv'
BY ReadPullOK, FindDuplicateOK, ListFilesOK, PostNeutralOK, StartRunOK, StartReturnsOK, RereadOK,
   FindMergedOK, LandOK, LandReturnsOK, FindRunsOK, FindTitlesOK, ActOK, RepostOK, CronOK DEF Step

LEMMA NextOK == Inv /\ [Next]_vars => Inv'
<1> SUFFICES ASSUME Inv, [Next]_vars PROVE Inv'
  OBVIOUS
<1>1. ASSUME NEW p \in Proc, Step(p) PROVE Inv'
  BY <1>1, StepOK
<1>2. ASSUME NEW r \in 1 .. MaxRuns, Syncs(r) \/ Indexes(r) PROVE Inv'
  BY <1>2, RunOwnOK DEF Syncs, Indexes
<1>3. ASSUME NEW p \in Webhook, Deliver(p) PROVE Inv'
  BY <1>3, DeliverOK
<1>4. ASSUME NEW p \in Proc, Fails(p) PROVE Inv'
  BY <1>4, FailsOK
<1>5. ASSUME NEW r \in RunIds, CheckFails(r) \/ Sweep(r) PROVE Inv'
  BY <1>5, RunOwnOK
<1>6. CASE Deed
  BY <1>6, DeedOK
<1>7. CASE UNCHANGED vars
  <2>1. RunsGrow /\ TypesOK' /\ LandsOnlyMerged'
    BY <1>7 DEF vars, github, RunsGrow, Inv, TypesOK, LandsOnlyMerged, CheckOK, OnHead, RunIds,
      RunOK, Merged,
                IntoDefault
  <2> QED BY <1>7, <2>1, ProcKept DEF vars, Inv, ProcsOK
<1> QED BY <1>1, <1>2, <1>3, <1>4, <1>5, <1>6, <1>7 DEF Next

(* The model's types: a run is on a commit of the PR, is swept exactly when it is open and its    *)
(* review has concluded, and a check run is on the commit of the run that posted it (writeCheck). *)
THEOREM TypesCorrect == Spec => []TypeOK
<1>1. Inv => TypeOK
  BY DEF Inv, TypesOK, TypeOK, CheckOK, RunOK, RunRecord, RowType, RunIds
<1> QED BY InitOK, NextOK, <1>1, PTL DEF Spec

(* However the deliveries, the cron and GitHub interleave, and whatever fails: reconcilePr lands  *)
(* only a run on the commit that merged into the default branch.                                  *)
THEOREM LandsTheorem == Spec => []LandsOnlyMerged
<1>1. Inv => LandsOnlyMerged
  BY DEF Inv
<1> QED BY InitOK, NextOK, <1>1, PTL DEF Spec

-----------------------------------------------------------------------------
(* A repost is asked only now that the stops have returned *)

(* The runs a reconcile found stale are stopped, or it has yet to call them.  Only while it calls *)
(* the runs does an invocation know of any.                                                       *)
StaleOK(proc) ==
  IF proc.at = "act"
  THEN /\ \A r \in proc.stale : <<r, "stop">> \in proc.ops \/ ~IsOpen(runs[r].status)
       /\ \A op \in proc.ops : op[2] = "stop" => op[1] \in proc.stale
       /\ proc.halted \subseteq proc.stale
  ELSE proc.stale = {} /\ proc.halted = {}

(* A run that p's stop cut short will create no check, or p waits for the sync that will see to   *)
(* it, or the create it waits for is the last, or one has failed.                                 *)
HaltedOK(p, run) ==
  /\ ~IsOpen(run.status)
  /\ \/ run.failed
     \/ CreatesNoMore(run)
     \/ run.owes /\ p \in run.queued
     \/ run.asked # NotCreating /\ run.asked = run.reposts /\ p \in run.syncing

StaleInv ==
  /\ Inv
  /\ \A p \in Proc : StaleOK(procs[p]) /\ \A r \in procs[p].halted : HaltedOK(p, runs[r])

(* A run that has ended stays ended: nothing opens it again.  And what an invocation knows of one *)
(* whose review it cut short stays so until its own call fails.                                   *)
EndsStay ==
  /\ \A r \in RunIds : ~IsOpen(runs[r].status) => ~IsOpen(runs'[r].status)
  /\ \A r \in RunIds, p \in Proc :
       HaltedOK(p, runs[r]) => HaltedOK(p, runs'[r]) \/ procs'[p].halted = {}

KeepsHalted(run, next) == \A p \in Proc : HaltedOK(p, run) => HaltedOK(p, next)

(* Nothing more is asked of a run. *)
AsksNoMore(run, next) == next.reposts \in Nat /\ next.reposts <= run.reposts

LEMMA CommitEnds ==
  ASSUME Inv, NEW r \in RunIds, NEW run, ~IsOpen(runs[r].status) => ~IsOpen(run.status),
         KeepsHalted(runs[r], run), runs' = [runs EXCEPT ![r] = run]
  PROVE EndsStay
<1>1. runs'[r] = run /\ \A other \in RunIds \ {r} : runs'[other] = runs[other]
  BY DEF Inv, TypesOK, RunIds
<1> QED BY <1>1 DEF EndsStay, KeepsHalted

LEMMA RunsStay ==
  ASSUME UNCHANGED runs
  PROVE EndsStay
BY DEF EndsStay

LEMMA NoneAsked ==
  ASSUME Inv, UNCHANGED runs
  PROVE \A r \in RunIds : AsksNoMore(runs[r], runs'[r])
<1>1. ASSUME NEW r \in RunIds PROVE AsksNoMore(runs[r], runs[r])
  BY DEF Inv, TypesOK, RunOK, RunRecord, AsksNoMore
<1> QED BY <1>1

(* A landing or a stop of an ended run, and a sync that is owed beside, leave what was known.     *)
LEMMA OwesKeeps ==
  ASSUME NEW run \in RunRecord, NEW next \in RunRecord, NEW by \in SUBSET Proc,
         ~IsOpen(next.status), next.concluded = run.concluded, next.posted = run.posted,
         next.reposts = run.reposts, next.asked = run.asked, next.failed = run.failed,
         next.owes = run.owes, next.queued = run.queued, next.syncing = run.syncing
  PROVE KeepsHalted(run, next) /\ KeepsHalted(run, OwesCheck(next, by))
<1>1. KeepsHalted(run, next)
  BY DEF KeepsHalted, HaltedOK, CreatesNoMore, WantsCheck
<1> DEFINE owing == OwesCheck(next, by)
<1>2. /\ owing.status = next.status /\ owing.owes /\ next.queued \subseteq owing.queued
      /\ owing.concluded = next.concluded /\ owing.posted = next.posted
      /\ owing.reposts = next.reposts /\ owing.asked = next.asked
      /\ owing.syncing = next.syncing /\ owing.failed = next.failed
  BY OwesOK
<1> HIDE DEF owing
<1>3. KeepsHalted(run, owing)
  BY <1>2 DEF KeepsHalted, HaltedOK, CreatesNoMore, WantsCheck
<1> QED BY <1>1, <1>3 DEF owing

LEMMA CallsEnd ==
  ASSUME NEW run, RunOK(run), NEW title \in Title, NEW p \in Proc
  PROVE /\ ~IsOpen(StopRun(run, p).status) /\ ~IsOpen(LandRun(run, p).status)
        /\ OnRetitled(run, title).status = run.status /\ OnRetitled(run, title).reposts = run.reposts
        /\ StopRun(run, p).reposts = run.reposts
        /\ AskCheckRepost(run).status = run.status
        /\ KeepsHalted(run, StopRun(run, p)) /\ KeepsHalted(run, LandRun(run, p))
        /\ KeepsHalted(run, OnRetitled(run, title)) /\ KeepsHalted(run, AskCheckRepost(run))
        /\ run.status = "on_the_hill" => HaltedOK(p, StopRun(run, p))
<1> DEFINE stopped == [run EXCEPT !.status = "stopped"]
           landed == [run EXCEPT !.status = "landed"]
<1>1. run \in RunRecord /\ {p} \in SUBSET Proc
  BY DEF RunOK
<1>2. /\ stopped \in RunRecord /\ ~IsOpen(stopped.status)
      /\ stopped.concluded = run.concluded /\ stopped.posted = run.posted
      /\ stopped.reposts = run.reposts /\ stopped.asked = run.asked /\ stopped.failed = run.failed
      /\ stopped.owes = run.owes /\ stopped.queued = run.queued /\ stopped.syncing = run.syncing
  BY <1>1 DEF RunRecord, IsOpen
<1>3. /\ landed \in RunRecord /\ ~IsOpen(landed.status)
      /\ landed.concluded = run.concluded /\ landed.posted = run.posted
      /\ landed.reposts = run.reposts /\ landed.asked = run.asked /\ landed.failed = run.failed
      /\ landed.owes = run.owes /\ landed.queued = run.queued /\ landed.syncing = run.syncing
  BY <1>1 DEF RunRecord, IsOpen
<1>4. /\ StopRun(run, p) \in {stopped, OwesCheck(stopped, {p}), run}
      /\ run.status = "swept" => StopRun(run, p) = stopped
      /\ run.status = "on_the_hill" => StopRun(run, p) = OwesCheck(stopped, {p})
      /\ ~IsOpen(run.status) => StopRun(run, p) = run
  <2>1. CASE run.status = "swept" BY <2>1 DEF StopRun, IsOpen
  <2>2. CASE run.status = "on_the_hill" BY <2>2 DEF StopRun, IsOpen
  <2>3. CASE ~IsOpen(run.status) BY <2>3 DEF StopRun, IsOpen
  <2> QED BY <2>1, <2>2, <2>3 DEF IsOpen
<1>5. LandRun(run, p) \in {landed, OwesCheck(landed, {p})}
  BY DEF LandRun
<1> HIDE DEF stopped, landed
<1>6. /\ OwesCheck(stopped, {p}).status = stopped.status
      /\ OwesCheck(stopped, {p}).reposts = stopped.reposts
      /\ OwesCheck(stopped, {p}).owes /\ p \in OwesCheck(stopped, {p}).queued
      /\ OwesCheck(landed, {p}).status = landed.status
  <2>1. ASSUME NEW next \in RunRecord
        PROVE /\ OwesCheck(next, {p}).status = next.status
              /\ OwesCheck(next, {p}).reposts = next.reposts
              /\ OwesCheck(next, {p}).owes /\ OwesCheck(next, {p}).queued = next.queued \union {p}
    BY <1>1, OwesOK
  <2>2. OwesCheck(stopped, {p}).queued = stopped.queued \union {p} /\ OwesCheck(stopped, {p}).owes
    BY <1>2, <2>1
  <2>3. p \in OwesCheck(stopped, {p}).queued
    BY <2>2
  <2> QED BY <1>2, <1>3, <2>1, <2>2, <2>3
<1>7. KeepsHalted(run, run)
  BY DEF KeepsHalted
<1>8. KeepsHalted(run, stopped) /\ KeepsHalted(run, OwesCheck(stopped, {p}))
  BY <1>1, <1>2, OwesKeeps
<1>9. KeepsHalted(run, landed) /\ KeepsHalted(run, OwesCheck(landed, {p}))
  BY <1>1, <1>3, OwesKeeps
<1>10. /\ ~IsOpen(StopRun(run, p).status) /\ StopRun(run, p).reposts = run.reposts
       /\ KeepsHalted(run, StopRun(run, p))
  <2>1. CASE StopRun(run, p) = stopped BY <1>2, <1>8, <2>1
  <2>2. CASE StopRun(run, p) = OwesCheck(stopped, {p}) BY <1>2, <1>6, <1>8, <2>2
  <2>3. CASE ~IsOpen(run.status) BY <1>4, <1>7, <2>3
  <2>4. run.status \in {"on_the_hill", "swept"} \/ ~IsOpen(run.status)
    BY DEF IsOpen
  <2> QED BY <1>4, <2>1, <2>2, <2>3, <2>4
<1>11. ~IsOpen(LandRun(run, p).status) /\ KeepsHalted(run, LandRun(run, p))
  BY <1>3, <1>5, <1>6, <1>9
<1>12. /\ OnRetitled(run, title).status = run.status /\ OnRetitled(run, title).reposts = run.reposts
       /\ KeepsHalted(run, OnRetitled(run, title))
  BY <1>1 DEF OnRetitled, RunRecord, KeepsHalted, HaltedOK, CreatesNoMore, WantsCheck
<1>13. AskCheckRepost(run).status = run.status /\ KeepsHalted(run, AskCheckRepost(run))
  <2>1. CASE IsOpen(run.status)
    BY <2>1, CallsOK DEF KeepsHalted, HaltedOK
  <2>2. CASE ~IsOpen(run.status)
    BY <1>7, <2>2 DEF AskCheckRepost
  <2> QED BY <2>1, <2>2
<1>14. run.status = "on_the_hill" => HaltedOK(p, StopRun(run, p))
  BY <1>2, <1>4, <1>6 DEF HaltedOK
<1> QED BY <1>10, <1>11, <1>12, <1>13, <1>14

(* What an invocation's step leaves of it, and of the runs. *)
LEMMA StepStale ==
  ASSUME StaleInv, NEW p \in Proc, Step(p)
  PROVE /\ EndsStay
        /\ \A q \in Proc \ {p} : procs'[q] = procs[q]
        /\ StaleOK(procs[p])'
        /\ \A r \in procs'[p].halted : r \in procs[p].halted \/ HaltedOK(p, runs'[r])
<1>1. Inv /\ procs[p] \in ProcType /\ ProcOK(procs[p]) /\ StaleOK(procs[p]) /\ DOMAIN procs = Proc
  BY DEF StaleInv, Inv, ProcsOK, ProcOK
<1> DEFINE Knows(proc) == proc.at # "act" /\ proc.stale = {} /\ proc.halted = {}
<1>2. ~At(p, "act") => Knows(procs[p])
  BY <1>1 DEF StaleOK, At
<1>3. Knows(Idle) /\ Knows(Ended(p))
  BY DEF Idle, Ended
<1>4. ASSUME NEW pr PROVE ~At(p, "act") => Knows(Reconciling(p, pr))
  BY <1>1, <1>2 DEF Reconciling, ProcType
<1> DEFINE Others == \A q \in Proc \ {p} : procs'[q] = procs[q]
           Fresh == \A r \in procs'[p].halted : r \in procs[p].halted \/ HaltedOK(p, runs'[r])
           Plain == Knows(procs'[p]) /\ UNCHANGED runs /\ Others
<1>5. ASSUME Plain PROVE EndsStay /\ Others /\ StaleOK(procs[p])' /\ Fresh
  BY <1>5, RunsStay DEF StaleOK
<1>6. CASE ReadPull(p)
  <2>1. Knows(Started(p, pull))
    BY <1>1, <1>2, <1>3, <1>4, <1>6 DEF Started, ReadPull, At, ProcType
  <2>2. Event(p).kind \in {"start", "closed", "retitle"}
    BY <1>1, <1>6 DEF ReadPull, At, Event, ProcOK, EventType, StartType
  <2>3. Knows([procs[p] EXCEPT !.at = "titles", !.pull = pull])
    BY <1>1, <1>2, <1>6 DEF ReadPull, At, ProcType
  <2>4. Knows(Reconciling(p, pull))
    BY <1>4, <1>6 DEF ReadPull, At
  <2>5. Plain
    BY <1>1, <1>3, <1>6, <2>1, <2>2, <2>3, <2>4 DEF ReadPull, Go
  <2> QED BY <1>5, <2>5
<1>7. CASE FindDuplicate(p) \/ ListFiles(p) \/ PostNeutral(p) \/ StartReturns(p) \/ Reread(p) \/
        LandReturns(p)
  <2>1. Plain
    BY <1>1, <1>2, <1>3, <1>4, <1>7 DEF FindDuplicate, ListFiles, PostNeutral, StartReturns,
      Reread, LandReturns,
                                        At, Go, Finish, ProcType, Idle
  <2> QED BY <1>5, <2>1
<1>8. CASE p = Cron /\ (Tick \/ ListPulls \/ RunsOnHead \/ HasCheckRun)
  <2>1. CASE Tick \/ ListPulls
    <3>1. Plain
      BY <1>1, <1>3, <1>8, <2>1 DEF Tick, ListPulls, Go, Idle
    <3> QED BY <1>5, <3>1
  <2>2. CASE RunsOnHead \/ HasCheckRun
    <3>1. Plain
      BY <1>1, <1>2, <1>3, <1>8, <2>2 DEF RunsOnHead, HasCheckRun, At, Go, ProcType
    <3> QED BY <1>5, <3>1
  <2> QED BY <1>8, <2>1, <2>2
<1>9. CASE StartRun(p)
  <2>1. RunIds = 1 .. Len(runs) /\ Len(runs) \in Nat /\ \A r \in RunIds : runs'[r] = runs[r]
    BY <1>1, <1>9 DEF StartRun, Inv, TypesOK, RunIds
  <2>2. EndsStay
    BY <2>1 DEF EndsStay
  <2>3. Knows(procs'[p]) /\ Others
    BY <1>1, <1>2, <1>9 DEF StartRun, At, Go, ProcType
  <2> QED BY <2>2, <2>3 DEF StaleOK
<1>10. CASE FindMerged(p)
  <2>1. PICK newestRun \in RunIds \union {None} :
          Go(p, IF newestRun # None /\ rows[newestRun].status # "landed"
                THEN [procs[p] EXCEPT !.at = "land", !.run = newestRun]
                ELSE [procs[p] EXCEPT !.at = "find"])
    BY <1>10 DEF FindMerged
  <2>2. Plain
    BY <1>1, <1>2, <1>10, <2>1 DEF FindMerged, At, Go, ProcType
  <2> QED BY <1>5, <2>2
<1>11. CASE Land(p)
  <2> DEFINE r == procs[p].run
  <2>1. r \in RunIds /\ runs' = [runs EXCEPT ![r] = LandRun(runs[r], p)]
    BY <1>1, <1>11 DEF Land, Commit, ProcOK, At
  <2>2. ~IsOpen(LandRun(runs[r], p).status) /\ KeepsHalted(runs[r], LandRun(runs[r], p))
    BY <1>1, <2>1, CallsEnd DEF Inv, TypesOK, PullType
  <2>3. Knows(procs'[p]) /\ Others
    BY <1>1, <1>2, <1>11 DEF Land, At, Go, ProcType
  <2>4. EndsStay
    BY <1>1, <2>1, <2>2, CommitEnds
  <2> QED BY <2>3, <2>4 DEF StaleOK
<1>12. CASE FindRuns(p)
  <2> DEFINE open == OpenRuns \ {procs[p].run}
             ops(kept) == {<<r, "stop">> : r \in open \ {kept}}
                            \union {<<r, "retitle">> : r \in Retitled(open, procs[p].pull)}
  <2>1. PICK kept \in RunIds \union {None} :
          Go(p, [procs[p] EXCEPT !.at = "act", !.run = kept, !.stale = open \ {kept},
            !.ops = ops(kept)])
    BY <1>12 DEF FindRuns
  <2>2. /\ \A r \in open \ {kept} : <<r, "stop">> \in ops(kept)
        /\ \A op \in ops(kept) : op[2] = "stop" => op[1] \in open \ {kept}
    OBVIOUS
  <2> HIDE DEF open, ops
  <2>3. /\ procs'[p].at = "act" /\ procs'[p].stale = open \ {kept} /\ procs'[p].ops = ops(kept)
        /\ procs'[p].halted = procs[p].halted /\ Others
    BY <1>1, <2>1 DEF Go, ProcType
  <2>4. procs[p].halted = {}
    BY <1>2, <1>12 DEF FindRuns, At
  <2>5. EndsStay
    BY <1>12, RunsStay DEF FindRuns
  <2> QED BY <2>2, <2>3, <2>4, <2>5 DEF StaleOK
<1>13. CASE FindTitles(p)
  <2> DEFINE ops == {<<r, "retitle">> : r \in PrRuns}
  <2>1. Go(p, [procs[p] EXCEPT !.at = "act", !.event = None, !.ops = ops])
    BY <1>13 DEF FindTitles
  <2>2. \A op \in ops : op[2] # "stop"
    OBVIOUS
  <2> HIDE DEF ops
  <2>3. /\ procs'[p].at = "act" /\ procs'[p].ops = ops /\ Others
        /\ procs'[p].stale = procs[p].stale /\ procs'[p].halted = procs[p].halted
    BY <1>1, <2>1 DEF Go, ProcType
  <2>4. procs[p].stale = {} /\ procs[p].halted = {}
    BY <1>2, <1>13 DEF FindTitles, At
  <2>5. EndsStay
    BY <1>13, RunsStay DEF FindTitles
  <2> QED BY <2>2, <2>3, <2>4, <2>5 DEF StaleOK
<1>14. CASE Act(p)
  <2>1. PICK op \in procs[p].ops :
          /\ Commit(op[1], IF op[2] = "stop" THEN StopRun(runs[op[1]], p)
                           ELSE OnRetitled(runs[op[1]], procs[p].pull.title))
          /\ Go(p, [procs[p] EXCEPT !.ops = @ \ {op}, !.halted = @ \union Halts(op)])
    BY <1>14 DEF Act
  <2> DEFINE run == IF op[2] = "stop" THEN StopRun(runs[op[1]], p)
                    ELSE OnRetitled(runs[op[1]], procs[p].pull.title)
  <2>2. op[1] \in RunIds /\ op = <<op[1], op[2]>> /\ procs[p].at = "act" /\
          procs[p].pull.title \in Title
    BY <1>1, <1>14 DEF ProcOK, Act, At, Acting, PullType
  <2>3. RunOK(runs[op[1]])
    BY <1>1, <2>2 DEF Inv, TypesOK
  <2>4. /\ ~IsOpen(runs[op[1]].status) => ~IsOpen(run.status)
        /\ op[2] = "stop" => ~IsOpen(run.status)
        /\ KeepsHalted(runs[op[1]], run)
        /\ Halts(op) # {} => HaltedOK(p, run)
    BY <2>2, <2>3, CallsEnd DEF Halts
  <2>5. runs' = [runs EXCEPT ![op[1]] = run] /\ op[1] \in DOMAIN runs
    BY <2>1, <2>2 DEF Commit, RunIds
  <2> HIDE DEF run
  <2>6. EndsStay
    BY <1>1, <2>2, <2>4, <2>5, CommitEnds
  <2>7. /\ procs'[p].at = "act" /\ procs'[p].stale = procs[p].stale
        /\ procs'[p].ops = procs[p].ops \ {op} /\ procs'[p].halted = procs[p].halted \union Halts(op)
        /\ Others
    BY <1>1, <2>1, <2>2 DEF Go, ProcType
  <2>8. ASSUME NEW r \in procs[p].stale
        PROVE <<r, "stop">> \in procs'[p].ops \/ ~IsOpen(runs'[r].status)
    <3>1. r \in RunIds
      BY <1>1 DEF ProcOK
    <3>2. CASE op = <<r, "stop">>
      BY <2>4, <2>5, <3>2
    <3>3. CASE op # <<r, "stop">>
      BY <1>1, <2>2, <2>6, <2>7, <3>1, <3>3 DEF StaleOK, EndsStay
    <3> QED BY <3>2, <3>3
  <2>9. Halts(op) \subseteq procs[p].stale /\ Halts(op) \subseteq {op[1]}
    BY <1>1, <2>2 DEF Halts, StaleOK
  <2>10. Fresh
    BY <2>4, <2>5, <2>7, <2>9
  <2>11. StaleOK(procs[p])'
    BY <1>1, <2>2, <2>7, <2>8, <2>9 DEF StaleOK
  <2> QED BY <2>6, <2>7, <2>10, <2>11
<1>15. CASE Repost(p)
  <2> DEFINE kept == procs[p].run
  <2>1. Knows(procs'[p]) /\ Others
    BY <1>1, <1>3, <1>15 DEF Repost, Finish, Go
  <2>2. CASE UNCHANGED runs
    BY <2>1, <2>2, RunsStay DEF StaleOK
  <2>3. CASE kept # None /\ runs' = [runs EXCEPT ![kept] = AskCheckRepost(runs[kept])]
    <3>1. kept \in RunIds /\ pull.title \in Title
      BY <1>1, <2>3 DEF ProcOK, Inv, TypesOK, PullType
    <3>2. /\ AskCheckRepost(runs[kept]).status = runs[kept].status
          /\ KeepsHalted(runs[kept], AskCheckRepost(runs[kept]))
      BY <1>1, <3>1, CallsEnd DEF Inv, TypesOK
    <3>3. EndsStay
      BY <1>1, <2>3, <3>1, <3>2, CommitEnds
    <3> QED BY <2>1, <3>3 DEF StaleOK
  <2> QED BY <1>15, <2>2, <2>3 DEF Repost, Commit
<1> QED BY <1>6, <1>7, <1>8, <1>9, <1>10, <1>11, <1>12, <1>13, <1>14, <1>15 DEF Step

LEMMA StaleKept ==
  ASSUME Inv, EndsStay, NEW proc, ProcOK(proc), StaleOK(proc)
  PROVE StaleOK(proc)'
BY DEF EndsStay, ProcOK, StaleOK

(* A run's own steps open no run, and what was known of one whose review was cut short stays so:  *)
(* the sync its stop queued serves all that is asked of it, since nothing more is asked of it.    *)
LEMMA OwnStepEnds ==
  ASSUME Inv, NEW r \in RunIds,
         SyncCheck(r) \/ CheckCreated(r) \/ CheckFails(r) \/ WriteRow(r) \/ Sweep(r)
  PROVE EndsStay /\ \A other \in RunIds : AsksNoMore(runs[other], runs'[other])
<1>1. runs[r] \in RunRecord /\ runs \in Seq(RunRecord) /\ r \in DOMAIN runs
  BY DEF Inv, TypesOK, RunOK, RunIds
<1>2. ASSUME NEW next, ~IsOpen(runs[r].status) => ~IsOpen(next.status), KeepsHalted(runs[r], next),
             AsksNoMore(runs[r], next), runs' = [runs EXCEPT ![r] = next]
      PROVE EndsStay /\ \A other \in RunIds : AsksNoMore(runs[other], runs'[other])
  <2>1. EndsStay
    BY <1>2, CommitEnds
  <2>2. \A other \in RunIds : runs[other].reposts \in Nat
    BY DEF Inv, TypesOK, RunOK, RunRecord
  <2>3. runs'[r] = next /\ \A other \in RunIds \ {r} : runs'[other] = runs[other]
    BY <1>1, <1>2 DEF RunIds
  <2> QED BY <1>2, <2>1, <2>2, <2>3 DEF AsksNoMore
<1>3. runs[r].reposts \in Nat /\ runs[r].asked \in Int
  BY <1>1 DEF RunRecord
<1>4. CASE SyncCheck(r)
  <2> DEFINE creates == WantsCheck(runs[r]) /\ (~runs[r].posted \/ runs[r].reposts > 0)
             asked == IF creates THEN runs[r].reposts ELSE NotCreating
             syncing == IF creates THEN runs[r].queued ELSE {}
             next == [runs[r] EXCEPT !.owes = FALSE, !.queued = {}, !.asked = asked,
                                     !.syncing = syncing]
  <2>1. runs' = [runs EXCEPT ![r] = next] /\ runs[r].asked = NotCreating
    BY <1>4 DEF SyncCheck
  <2>2. /\ creates => asked = runs[r].reposts /\ syncing = runs[r].queued
        /\ ~creates => asked = NotCreating
    OBVIOUS
  <2> HIDE DEF asked, syncing
  <2>3. /\ next.status = runs[r].status /\ next.concluded = runs[r].concluded
        /\ next.posted = runs[r].posted /\ next.reposts = runs[r].reposts
        /\ next.failed = runs[r].failed /\ next.asked = asked /\ next.syncing = syncing
    BY <1>1 DEF RunRecord
  <2> HIDE DEF next
  <2>4. NotCreating # runs[r].reposts
    BY <1>3 DEF NotCreating
  <2>5. KeepsHalted(runs[r], next)
    <3> SUFFICES ASSUME NEW p \in Proc, HaltedOK(p, runs[r]) PROVE HaltedOK(p, next)
      BY DEF KeepsHalted
    <3>1. ~IsOpen(next.status)
      BY <2>3 DEF HaltedOK
    <3>2. CASE runs[r].failed
      BY <2>3, <3>1, <3>2 DEF HaltedOK
    <3>3. CASE ~creates
      BY <1>3, <2>2, <2>3, <3>1, <3>3 DEF HaltedOK, CreatesNoMore, WantsCheck
    <3>4. CASE creates /\ ~runs[r].failed
      <4>1. ~CreatesNoMore(runs[r])
        BY <3>4 DEF CreatesNoMore
      <4>2. p \in runs[r].queued
        BY <2>1, <3>4, <4>1 DEF HaltedOK
      <4> QED BY <2>2, <2>3, <2>4, <3>1, <3>4, <4>2 DEF HaltedOK
    <3> QED BY <3>2, <3>3, <3>4
  <2>6. AsksNoMore(runs[r], next) /\ (~IsOpen(runs[r].status) => ~IsOpen(next.status))
    BY <1>3, <2>3 DEF AsksNoMore
  <2> QED BY <1>2, <2>1, <2>5, <2>6
<1>5. CASE CheckCreated(r)
  <2> DEFINE reposts == IF runs[r].reposts = runs[r].asked THEN 0 ELSE runs[r].reposts
             next == [runs[r] EXCEPT !.posted = TRUE, !.asked = NotCreating, !.syncing = {},
                                     !.reposts = reposts]
  <2>1. runs' = [runs EXCEPT ![r] = next] /\ runs[r].asked # NotCreating
    BY <1>5 DEF CheckCreated
  <2>2. reposts \in Nat /\ reposts <= runs[r].reposts /\ (runs[r].asked = runs[r].reposts =>
          reposts = 0)
    BY <1>3
  <2> HIDE DEF reposts
  <2>3. /\ next.status = runs[r].status /\ next.posted = TRUE /\ next.reposts = reposts
        /\ next.failed = runs[r].failed /\ next.asked = NotCreating
        /\ next.owes = runs[r].owes /\ next.queued = runs[r].queued
    BY <1>1 DEF RunRecord
  <2> HIDE DEF next
  <2>4. KeepsHalted(runs[r], next)
    <3> SUFFICES ASSUME NEW p \in Proc, HaltedOK(p, runs[r]) PROVE HaltedOK(p, next)
      BY DEF KeepsHalted
    <3>1. ~IsOpen(next.status) /\ ~CreatesNoMore(runs[r])
      BY <2>1, <2>3 DEF HaltedOK, CreatesNoMore
    <3>2. CASE runs[r].asked = runs[r].reposts
      BY <2>2, <2>3, <3>1, <3>2 DEF HaltedOK, CreatesNoMore
    <3>3. CASE runs[r].failed
      BY <2>3, <3>1, <3>3 DEF HaltedOK
    <3>4. CASE runs[r].owes /\ p \in runs[r].queued
      BY <2>3, <3>1, <3>4 DEF HaltedOK
    <3> QED BY <3>1, <3>2, <3>3, <3>4 DEF HaltedOK
  <2> QED BY <1>2, <2>1, <2>2, <2>3, <2>4 DEF AsksNoMore
<1>6. CASE CheckFails(r)
  <2> DEFINE next == [runs[r] EXCEPT !.asked = NotCreating, !.syncing = {}, !.owes = TRUE,
                                     !.failed = TRUE]
  <2>1. runs' = [runs EXCEPT ![r] = next]
    BY <1>6 DEF CheckFails
  <2>2. next.status = runs[r].status /\ next.failed = TRUE /\ next.reposts = runs[r].reposts
    BY <1>1 DEF RunRecord
  <2> HIDE DEF next
  <2>3. KeepsHalted(runs[r], next)
    BY <2>2 DEF KeepsHalted, HaltedOK
  <2>4. AsksNoMore(runs[r], next) /\ (~IsOpen(runs[r].status) => ~IsOpen(next.status))
    BY <1>3, <2>2 DEF AsksNoMore
  <2> QED BY <1>2, <2>1, <2>3, <2>4
<1>7. CASE WriteRow(r)
  <2>1. UNCHANGED runs
    BY <1>7 DEF WriteRow
  <2>2. \A other \in RunIds : AsksNoMore(runs[other], runs'[other])
    BY <2>1, NoneAsked
  <2> QED BY <2>1, <2>2, RunsStay
<1>8. CASE Sweep(r)
  <2> DEFINE swept == [runs[r] EXCEPT !.status = "swept", !.concluded = TRUE]
  <2>1. swept \in RunRecord /\ swept.reposts = runs[r].reposts
    BY <1>1 DEF RunRecord
  <2> HIDE DEF swept
  <2>2. OwesCheck(swept, {}).reposts = runs[r].reposts
    BY <2>1, OwesOK
  <2>3. IsOpen(runs[r].status) /\ runs' = [runs EXCEPT ![r] = OwesCheck(swept, {})]
    BY <1>8 DEF Sweep, Commit, IsOpen, swept
  <2>4. KeepsHalted(runs[r], OwesCheck(swept, {}))
    BY <2>3 DEF KeepsHalted, HaltedOK
  <2>5. AsksNoMore(runs[r], OwesCheck(swept, {}))
    BY <1>3, <2>2 DEF AsksNoMore
  <2> QED BY <1>2, <2>3, <2>4, <2>5
<1> QED BY <1>4, <1>5, <1>6, <1>7, <1>8

(* The invocation whose call fails knows nothing any more; what the others wait for stays.        *)
LEMMA FailsEnds ==
  ASSUME Inv, NEW p \in Proc, Fails(p)
  PROVE /\ EndsStay /\ \A r \in RunIds : runs'[r].reposts = runs[r].reposts
        /\ StaleOK(procs[p])' /\ procs'[p].halted = {}
        /\ \A q \in Proc \ {p} : procs'[q] = procs[q]
<1>1. /\ procs'[p].at # "act" /\ procs'[p].stale = {} /\ procs'[p].halted = {}
      /\ \A q \in Proc \ {p} : procs'[q] = procs[q]
  BY DEF Fails, Finish, Go, Ended, Idle, Inv, ProcsOK
<1>2. ASSUME NEW r \in RunIds
      PROVE /\ runs'[r].status = runs[r].status /\ runs'[r].reposts = runs[r].reposts
            /\ \A q \in Proc \ {p} : HaltedOK(q, runs[r]) => HaltedOK(q, runs'[r])
  <2>1. runs[r] \in RunRecord /\ runs'[r] = Unwaited(p, runs[r])
    BY DEF Fails, Inv, TypesOK, RunOK
  <2> DEFINE next == Unwaited(p, runs[r])
  <2>2. /\ next.queued = runs[r].queued \ {p} /\ next.syncing = runs[r].syncing \ {p}
        /\ next.status = runs[r].status /\ next.reposts = runs[r].reposts
        /\ next.concluded = runs[r].concluded /\ next.posted = runs[r].posted
        /\ next.asked = runs[r].asked /\ next.owes = runs[r].owes /\ next.failed = runs[r].failed
    BY <2>1, UnwaitedOK
  <2> HIDE DEF next
  <2>3. \A q \in Proc \ {p} : HaltedOK(q, runs[r]) => HaltedOK(q, next)
    BY <2>2 DEF HaltedOK, CreatesNoMore, WantsCheck
  <2> QED BY <2>1, <2>2, <2>3 DEF next
<1>3. EndsStay
  BY <1>1, <1>2 DEF EndsStay
<1> QED BY <1>1, <1>2, <1>3 DEF StaleOK

(* A run's own steps, the deliveries and the failures leave the invocations that call runs alone, *)
(* unless it is their own call that fails.                                                        *)
LEMMA OthersStale ==
  ASSUME StaleInv,
         \/ \E r \in 1 .. MaxRuns : Syncs(r) \/ Indexes(r)
         \/ \E p \in Webhook : Deliver(p)
         \/ \E p \in Proc : Fails(p)
         \/ \E r \in RunIds : CheckFails(r) \/ Sweep(r)
         \/ Deed
         \/ UNCHANGED vars
  PROVE /\ EndsStay /\ \A r \in RunIds : AsksNoMore(runs[r], runs'[r])
        /\ \A q \in Proc : procs'[q] = procs[q] \/ (StaleOK(procs[q])' /\ procs'[q].halted = {})
<1>1. Inv /\ DOMAIN procs = Proc /\ \A r \in RunIds : runs[r].reposts \in Nat
  BY DEF StaleInv, Inv, TypesOK, ProcsOK, RunOK, RunRecord
<1>2. CASE \E r \in 1 .. MaxRuns : Syncs(r) \/ Indexes(r)
  <2>1. procs' = procs
    BY <1>2 DEF Syncs, Indexes, SyncCheck, CheckCreated, WriteRow
  <2>2. PICK r \in RunIds : SyncCheck(r) \/ CheckCreated(r) \/ WriteRow(r)
    BY <1>2 DEF Syncs, Indexes
  <2> QED BY <1>1, <2>1, <2>2, OwnStepEnds
<1>3. CASE \E r \in RunIds : CheckFails(r) \/ Sweep(r)
  <2>1. procs' = procs
    BY <1>3 DEF CheckFails, Sweep, github
  <2>2. PICK r \in RunIds : CheckFails(r) \/ Sweep(r)
    BY <1>3
  <2> QED BY <1>1, <2>1, <2>2, OwnStepEnds
<1>4. ASSUME NEW p \in Webhook, Deliver(p)
      PROVE /\ UNCHANGED runs
            /\ \A q \in Proc :
                 procs'[q] = procs[q] \/ (StaleOK(procs[q])' /\ procs'[q].halted = {})
  <2>1. PICK event \in deliveries : Go(p, [Idle EXCEPT !.at = "pull", !.event = event])
    BY <1>4 DEF Deliver
  <2>2. p \in Proc
    BY <1>4 DEF Proc
  <2>3. /\ procs'[p].at = "pull" /\ procs'[p].stale = {} /\ procs'[p].halted = {}
        /\ \A q \in Proc \ {p} : procs'[q] = procs[q]
    BY <1>1, <2>1, <2>2 DEF Go, Idle
  <2>4. StaleOK(procs[p])'
    BY <2>3 DEF StaleOK
  <2> QED BY <1>4, <2>2, <2>3, <2>4 DEF Deliver
<1>5. ASSUME NEW p \in Proc, Fails(p)
      PROVE /\ EndsStay /\ \A r \in RunIds : AsksNoMore(runs[r], runs'[r])
            /\ \A q \in Proc :
                 procs'[q] = procs[q] \/ (StaleOK(procs[q])' /\ procs'[q].halted = {})
  BY <1>1, <1>5, FailsEnds DEF AsksNoMore
<1>6. CASE Deed \/ UNCHANGED vars
  <2>1. UNCHANGED <<runs, procs>>
    BY <1>6 DEF Deed, Becomes, vars
  <2> QED BY <1>1, <2>1, RunsStay, NoneAsked
<1>7. CASE \E p \in Webhook : Deliver(p)
  BY <1>1, <1>4, <1>7, RunsStay, NoneAsked
<1>8. CASE \E p \in Proc : Fails(p)
  BY <1>5, <1>8
<1> QED BY <1>2, <1>3, <1>6, <1>7, <1>8

LEMMA NextCases ==
  ASSUME [Next]_vars
  PROVE \/ \E p \in Proc : Step(p)
        \/ \E r \in 1 .. MaxRuns : Syncs(r) \/ Indexes(r)
        \/ \E p \in Webhook : Deliver(p)
        \/ \E p \in Proc : Fails(p)
        \/ \E r \in RunIds : CheckFails(r) \/ Sweep(r)
        \/ Deed
        \/ UNCHANGED vars
BY DEF Next

LEMMA StaleStep == StaleInv /\ [Next]_vars => StaleInv'
<1> SUFFICES ASSUME StaleInv, [Next]_vars PROVE StaleInv'
  OBVIOUS
<1>1. Inv /\ Inv'
  BY NextOK DEF StaleInv
<1>2. /\ EndsStay
      /\ \A q \in Proc :
           /\ procs'[q] = procs[q] \/ StaleOK(procs[q])'
           /\ \A r \in procs'[q].halted : r \in procs[q].halted \/ HaltedOK(q, runs'[r])
  <2>1. ASSUME NEW p \in Proc, Step(p)
        PROVE /\ EndsStay
              /\ \A q \in Proc :
                   /\ procs'[q] = procs[q] \/ StaleOK(procs[q])'
                   /\ \A r \in procs'[q].halted : r \in procs[q].halted \/ HaltedOK(q, runs'[r])
    BY <2>1, StepStale
  <2> QED BY <2>1, OthersStale, NextCases
<1>3. ASSUME NEW q \in Proc
      PROVE StaleOK(procs[q])' /\ \A r \in procs'[q].halted : HaltedOK(q, runs'[r])
  <2>1. ProcOK(procs[q]) /\ StaleOK(procs[q]) /\ \A r \in procs[q].halted : HaltedOK(q, runs[r])
    BY DEF StaleInv, Inv, ProcsOK
  <2>2. ASSUME procs'[q] = procs[q] PROVE StaleOK(procs[q])'
    <3>1. ASSUME NEW proc, proc = procs[q] PROVE StaleOK(proc)'
      BY <1>1, <1>2, <2>1, <3>1, StaleKept
    <3> QED BY <2>2, <3>1 DEF StaleOK
  <2>3. procs[q].halted \subseteq RunIds
    BY <2>1 DEF StaleOK, ProcOK
  <2>4. \A r \in procs[q].halted : HaltedOK(q, runs'[r]) \/ procs'[q].halted = {}
    BY <1>2, <2>1, <2>3 DEF EndsStay
  <2> QED BY <1>2, <2>2, <2>4
<1> QED BY <1>1, <1>3 DEF StaleInv

LEMMA StaleInit == Init => StaleInv
<1> SUFFICES ASSUME Init PROVE StaleInv
  OBVIOUS
<1>1. Idle.at # "act" /\ Idle.stale = {} /\ Idle.halted = {}
  BY DEF Idle
<1>2. \A p \in Proc : procs[p] = Idle
  BY DEF Init
<1> QED BY <1>1, <1>2, InitOK DEF StaleInv, StaleOK

(* Only a repost adds to what a run is asked, and only once the stops it made have returned. *)
LEMMA AskedStep ==
  ASSUME StaleInv, [Next]_vars, NEW p \in Proc, NEW r \in RunIds,
         At(p, "act"), procs'[p] # procs[p], runs'[r].reposts > runs[r].reposts
  PROVE /\ \A other \in OnHead(procs[p].stale, runs[r].head) : ~IsOpen(runs[other].status)
        /\ \A other \in OnHead(procs[p].halted, runs[r].head) :
             runs[other].failed \/ CreatesNoMore(runs[other])
<1>1. /\ Inv /\ ProcOK(procs[p]) /\ StaleOK(procs[p])
      /\ \A other \in procs[p].halted : HaltedOK(p, runs[other])
  BY DEF StaleInv, Inv, ProcsOK
<1>2. RunOK(runs[r]) /\ runs[r].reposts \in Nat
  BY <1>1 DEF Inv, TypesOK, RunOK, RunRecord
<1>3. Step(p)
  <2>1. ASSUME NEW q \in Proc, Step(q) PROVE q = p
    BY <2>1, StepStale
  <2>2. ~(\A other \in RunIds : AsksNoMore(runs[other], runs'[other]))
    BY <1>2 DEF AsksNoMore
  <2>3. \E q \in Proc : Step(q)
    BY <2>2, OthersStale, NextCases
  <2> QED BY <2>1, <2>3
<1>4. Act(p) \/ Repost(p)
  BY <1>3 DEF Step, At, ReadPull, FindDuplicate, ListFiles, PostNeutral, StartRun, StartReturns,
    Reread, FindMerged,
              Land, LandReturns, FindRuns, FindTitles, Tick, ListPulls, RunsOnHead, HasCheckRun
<1>5. ~Act(p)
  <2> SUFFICES ASSUME Act(p) PROVE FALSE
    OBVIOUS
  <2>1. PICK op \in procs[p].ops :
          Commit(op[1], IF op[2] = "stop" THEN StopRun(runs[op[1]], p)
                        ELSE OnRetitled(runs[op[1]], procs[p].pull.title))
    BY DEF Act
  <2>2. op[1] \in RunIds /\ procs[p].pull.title \in Title
    BY <1>1 DEF ProcOK, Acting, PullType, At
  <2>3. runs'[op[1]].reposts = runs[op[1]].reposts
    BY <1>1, <2>1, <2>2, CallsEnd DEF Commit, Inv, TypesOK, RunIds
  <2>4. r # op[1] => runs'[r] = runs[r]
    BY <1>1, <2>1 DEF Commit, Inv, TypesOK, RunIds
  <2> QED BY <1>2, <2>3, <2>4
<1>6. Repost(p) /\ StopsReturned(p)
  BY <1>4, <1>5 DEF Repost
<1>7. \A other \in procs[p].stale : ~IsOpen(runs[other].status)
  BY <1>1, <1>6 DEF StopsReturned, StaleOK, At
<1>8. \A other \in procs[p].halted : runs[other].failed \/ CreatesNoMore(runs[other])
  BY <1>1, <1>6 DEF StopsReturned, Returned, StaleOK, HaltedOK
<1> QED BY <1>7, <1>8 DEF OnHead

(* When reconcilePr asks the kept run to post its check again, every run it found stale on that   *)
(* head is over, and one whose review its own stop cut short creates no check ever again: none    *)
(* is under way and none will follow, whatever other calls, syncs and retries were queued with    *)
(* that run meanwhile, unless a create of its failed and is retried.                              *)
THEOREM AskedTheorem == Spec => AskedAfterTheStops
<1>1. StaleInv /\ [Next]_vars =>
        [\A p \in Proc : \A r \in RunIds :
           At(p, "act") /\ procs'[p] # procs[p] /\ runs'[r].reposts > runs[r].reposts =>
             /\ \A other \in OnHead(procs[p].stale, runs[r].head) : ~IsOpen(runs[other].status)
             /\ \A other \in OnHead(procs[p].halted, runs[r].head) :
                  runs[other].failed \/ CreatesNoMore(runs[other])]_vars
  BY AskedStep
<1> QED BY StaleInit, StaleStep, <1>1, PTL DEF Spec, AskedAfterTheStops
=============================================================================
