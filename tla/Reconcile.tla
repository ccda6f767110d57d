------------------------------- MODULE Reconcile -------------------------------
(***************************************************************************)
(* How Dispatch keeps one pull request's runs in line with GitHub          *)
(* (dispatch/src/reconcile/pr.ts, cron.ts): deliveries of the webhook and  *)
(* ticks of the cron each read the PR, read the index of its runs, post    *)
(* checks, and start, land, stop, retitle and repost runs.  They run at    *)
(* once, in isolates of their own: every await lets any other in.          *)
(*                                                                         *)
(* A run is what RunMachine and RunDO promise of it: a commit takes place  *)
(* at once, its index row and its check follow, and are retried until they *)
(* are delivered.  Runs are numbered by createdAt.                         *)
(***************************************************************************)
EXTENDS Integers, Sequences

CONSTANTS
  Webhook, Cron,    \* the invocations: handlers of deliveries, and the cron's tick
  Sha,             \* commits the PR's branch may point at
  Unpatrolled,      \* those whose diff touches Base to Base's own files
  Title,
  FirstTitles,      \* bound: those the PR may be opened with
  None, Neutral,    \* no one, and the check of an unpatrolled head
  Deeds,            \* bound: the kinds of things that happen to the PR on GitHub
  MaxDeeds,         \* bound: how many of them happen
  Faults,           \* bound: the kinds of calls that fail or lose their reply
  MaxFaults,        \* bound: how many of them do
  MaxRuns,          \* bound: runs of the PR
  Sweepers          \* bound: the runs whose review concludes

ASSUME ReconcileAssumption ==
  /\ Unpatrolled \subseteq Sha /\ FirstTitles \subseteq Title
  /\ Sha \subseteq Nat /\ None \notin Nat
  /\ MaxDeeds \in Nat /\ MaxFaults \in Nat /\ MaxRuns \in Nat
  /\ Deeds \subseteq {"push", "draft", "retarget", "retitle", "close", "reopen", "merge"}
  /\ Faults \subseteq {"call", "row", "check", "repeat"}

Proc == Webhook \union {Cron}

VARIABLES
  pull,        \* GitHub: the PR
  newest,      \* GitHub: whose check is the newest of the name on each head
  deliveries,  \* GitHub: webhook deliveries yet to arrive, or lost
  runs,        \* the runs' Durable Objects
  rows,        \* D1: the index row of each run
  procs,       \* the invocations under way
  deeds, faults   \* bounds: what has happened so far

github == <<pull, newest, deliveries>>
vars == <<github, runs, rows, procs, deeds, faults>>

-----------------------------------------------------------------------------
(* The PR and its runs *)

IntoDefault(pr) == pr.base = "default"
Merged(pr) == pr.state = "merged"

(* "Only a ready PR into the default branch keeps a run". *)
Patrolled(pr) == pr.state = "open" /\ ~pr.draft /\ IntoDefault(pr)

RunIds == DOMAIN runs
IsOpen(status) == status \in {"on_the_hill", "swept"}

NotCreating == -1
NoRow == [status |-> "none", title |-> None]
RowOf(run) == [status |-> run.status, title |-> run.title]

(* D1's rows as the queries of runs/index.ts find them. *)
PrRuns == {r \in RunIds : rows[r] # NoRow}

(* Faulty: a run that is swept no longer speaks for the PR. *)
OpenRunsUnswept == {r \in PrRuns : rows[r].status = "on_the_hill"}

OpenRuns == {r \in PrRuns : IsOpen(rows[r].status)}
OnHead(ids, head) == {r \in ids : runs[r].head = head}

(* "The latest start wins": the newest of some runs, or none. *)
IsNewest(r, ids) == IF ids = {} THEN r = None ELSE r \in ids /\ \A other \in ids : other <= r

(* A fresh run.  concluded: its review's outcome is not pending; owes: the mark of a check write *)
(* that is owed; asked: the asks for a repost that a create under way will serve, and syncing     *)
(* the calls that wait for it; queued: the calls whose sync is behind it.  failed is history: a   *)
(* create of its has failed.                                                                      *)
NewRun(head, title, by) ==
  [head |-> head, title |-> title, status |-> "on_the_hill", concluded |-> FALSE,
   posted |-> FALSE, owes |-> TRUE, reposts |-> 0, asked |-> NotCreating,
   queued |-> {by}, syncing |-> {}, failed |-> FALSE]

(* A transition with a check effect marks the write as owed, and the call waits for its sync. *)
OwesCheck(run, by) == [run EXCEPT !.owes = TRUE, !.queued = @ \union by]

(* What a run makes of the calls of a reconcile (machine.ts).  Only a review cut short, and a     *)
(* repost, have the check written: for any other stop or landing nothing waits.                   *)
StopRun(run, by) ==
  CASE run.status = "swept" -> [run EXCEPT !.status = "stopped"]
    [] run.status = "on_the_hill" -> OwesCheck([run EXCEPT !.status = "stopped"], {by})
    [] OTHER -> run
LandRun(run, by) ==
  LET landed == [run EXCEPT !.status = "landed"]
  IN IF run.status = "landed" \/ run.concluded THEN landed ELSE OwesCheck(landed, {by})
OnRetitled(run, title) == [run EXCEPT !.title = title]
AskCheckRepost(run) ==
  IF ~IsOpen(run.status) THEN run ELSE OwesCheck([run EXCEPT !.reposts = @ + 1], {})
WantsCheck(run) == run.posted \/ IsOpen(run.status) \/ run.concluded

Fault(kind) == kind \in Faults /\ faults < MaxFaults /\ faults' = faults + 1

(* A call into a run commits, and writes its row unless D1 fails. *)
Commit(r, run) ==
  /\ runs' = [runs EXCEPT ![r] = run]
  /\ \/ rows' = [rows EXCEPT ![r] = RowOf(run)] /\ UNCHANGED faults
     \/ rows[r] # RowOf(run) /\ UNCHANGED rows /\ Fault("row")

(* A call waits for the check sync it queued itself, if it queued one, and for no other.  (One    *)
(* that finds the mark of a failed write retries it first, unless a sync is still owed: that is   *)
(* SyncCheck, which may take place before the call's commit or not.)                              *)
Returned(p, r) == p \notin runs[r].queued \union runs[r].syncing

(* A call that fails is waited for no more; its sync goes on. *)
Unwaited(p, run) == [run EXCEPT !.queued = @ \ {p}, !.syncing = @ \ {p}]

-----------------------------------------------------------------------------
(* The invocations.  Each step is what runs between two awaits. *)

(* halted is history: the stale runs whose review this invocation's own stops cut short. *)
Idle == [at |-> "idle", event |-> None, pull |-> None, run |-> None, ops |-> {}, stale |-> {},
         halted |-> {}, tick |-> FALSE]
At(p, at) == procs[p].at = at
Event(p) == procs[p].event
Go(p, step) == procs' = [procs EXCEPT ![p] = step]

(* The end of a delivery's work, or of the first half of a tick, which goes on to the open PRs. *)
Ended(p) == IF procs[p].tick THEN [Idle EXCEPT !.at = "list"] ELSE Idle
Finish(p) == Go(p, Ended(p))

(* Faulty: lands what merged on any branch. *)
ReconcilingAnyBase(p, pr) ==
  [procs[p] EXCEPT !.at = IF Merged(pr) THEN "merged" ELSE "find", !.pull = pr, !.event = None]

(* reconcilePr with the PR as read: what merged on the default branch lands first. *)
Reconciling(p, pr) ==
  [procs[p] EXCEPT !.at = IF Merged(pr) /\ IntoDefault(pr) THEN "merged" ELSE "find",
                   !.pull = pr, !.event = None]

Started(p, pr) ==
  CASE pr.state # "open" \/ pr.head # Event(p).head -> Ended(p)
    [] pr.state = "open" /\ pr.head = Event(p).head /\ ~Patrolled(pr) -> Reconciling(p, pr)
    [] OTHER -> [procs[p] EXCEPT !.at = IF Event(p).retarget THEN "files" ELSE "duplicate"]

(* startPr, closePr and retitlePr read the PR. *)
ReadPull(p) ==
  /\ At(p, "pull")
  /\ Go(p, CASE Event(p).kind = "start" -> Started(p, pull)
             [] Event(p).kind = "closed" -> IF pull.state = "open" THEN Ended(p) ELSE Reconciling(p, pull)
             [] Event(p).kind = "retitle" -> [procs[p] EXCEPT !.at = "titles", !.pull = pull])
  /\ UNCHANGED <<github, runs, rows, faults>>

FindDuplicate(p) ==
  /\ At(p, "duplicate")
  /\ IF OnHead(OpenRuns, Event(p).head) # {} THEN Finish(p)
     ELSE Go(p, [procs[p] EXCEPT !.at = "files"])
  /\ UNCHANGED <<github, runs, rows, faults>>

(* GitHub lists the files of the PR as it is now. *)
ListFiles(p) ==
  /\ At(p, "files")
  /\ Go(p, [procs[p] EXCEPT !.at = IF pull.head \in Unpatrolled THEN "neutral" ELSE "start"])
  /\ UNCHANGED <<github, runs, rows, faults>>

PostNeutral(p) ==
  /\ At(p, "neutral")
  /\ newest' = [newest EXCEPT ![Event(p).head] = Neutral]
  /\ Go(p, [Idle EXCEPT !.at = "reread"])
  /\ UNCHANGED <<pull, deliveries, runs, rows, faults>>

StartRun(p) ==
  /\ At(p, "start")
  /\ Len(runs) < MaxRuns
  /\ LET run == NewRun(Event(p).head, Event(p).title, p)
     IN /\ runs' = Append(runs, run)
        /\ \/ rows' = Append(rows, RowOf(run)) /\ UNCHANGED faults
           \/ rows' = Append(rows, NoRow) /\ Fault("row")
  /\ Go(p, [procs[p] EXCEPT !.at = "starting", !.event = None, !.run = Len(runs) + 1])
  /\ UNCHANGED github

StartReturns(p) ==
  /\ At(p, "starting") /\ Returned(p, procs[p].run)
  /\ Go(p, [Idle EXCEPT !.at = "reread"])
  /\ UNCHANGED <<github, runs, rows, faults>>

(* reconcileAfter and the cron read the PR anew. *)
Reread(p) ==
  /\ At(p, "reread")
  /\ Go(p, Reconciling(p, pull))
  /\ UNCHANGED <<github, runs, rows, faults>>

FindMerged(p) ==
  /\ At(p, "merged")
  /\ \E newestRun \in RunIds \union {None} :
       /\ IsNewest(newestRun, OnHead(PrRuns, procs[p].pull.head))
       /\ Go(p, IF newestRun # None /\ rows[newestRun].status # "landed"
                THEN [procs[p] EXCEPT !.at = "land", !.run = newestRun]
                ELSE [procs[p] EXCEPT !.at = "find"])
  /\ UNCHANGED <<github, runs, rows, faults>>

Land(p) ==
  /\ At(p, "land")
  /\ Commit(procs[p].run, LandRun(runs[procs[p].run], p))
  /\ Go(p, [procs[p] EXCEPT !.at = "landing"])
  /\ UNCHANGED github

LandReturns(p) ==
  /\ At(p, "landing") /\ Returned(p, procs[p].run)
  /\ Go(p, [procs[p] EXCEPT !.at = "find"])
  /\ UNCHANGED <<github, runs, rows, faults>>

(* Faulty: titles are left to the webhook. *)
RetitledNever(open, pr) == {}

Retitled(open, pr) == IF pr.state = "open" THEN {r \in open : rows[r].title # pr.title} ELSE {}

(* Which runs the reconcile keeps, stops and retitles. *)
FindRuns(p) ==
  /\ At(p, "find")
  /\ LET pr == procs[p].pull
         open == OpenRuns \ {procs[p].run}
         candidates == IF Patrolled(pr) THEN OnHead(open, pr.head) ELSE {}
     IN \E kept \in RunIds \union {None} :
          /\ IsNewest(kept, candidates)
          /\ Go(p, [procs[p] EXCEPT !.at = "act", !.run = kept, !.stale = open \ {kept},
                       !.ops = {<<r, "stop">> : r \in open \ {kept}}
                                 \union {<<r, "retitle">> : r \in Retitled(open, pr)}])
  /\ UNCHANGED <<github, runs, rows, faults>>

FindTitles(p) ==
  /\ At(p, "titles")
  /\ Go(p, [procs[p] EXCEPT !.at = "act", !.event = None, !.ops = {<<r, "retitle">> : r \in PrRuns}])
  /\ UNCHANGED <<github, runs, rows, faults>>

Halts(op) == IF op[2] = "stop" /\ runs[op[1]].status = "on_the_hill" THEN {op[1]} ELSE {}

(* The calls into the runs, each run's in order and side by side with the other runs'. *)
Act(p) ==
  /\ At(p, "act")
  /\ \E op \in procs[p].ops :
       /\ op[2] = "stop" => <<op[1], "retitle">> \notin procs[p].ops
       /\ Commit(op[1], IF op[2] = "stop" THEN StopRun(runs[op[1]], p)
                        ELSE OnRetitled(runs[op[1]], procs[p].pull.title))
       /\ Go(p, [procs[p] EXCEPT !.ops = @ \ {op}, !.halted = @ \union Halts(op)])
  /\ UNCHANGED github

(* Faulty: the ask does not wait for the stops to return. *)
ReturnedAtOnce(p) == procs[p].ops = {}

StopsReturned(p) == procs[p].ops = {} /\ \A r \in procs[p].stale : Returned(p, r)

(* Only once the stops have returned. *)
Repost(p) ==
  /\ At(p, "act") /\ StopsReturned(p)
  /\ LET kept == procs[p].run
     IN IF kept # None /\ OnHead(procs[p].stale, runs[kept].head) # {}
        THEN Commit(kept, AskCheckRepost(runs[kept]))
        ELSE UNCHANGED <<runs, rows, faults>>
  /\ Finish(p)
  /\ UNCHANGED github

-----------------------------------------------------------------------------
(* The cron: a reconcile of the PR if it has an open run, then the start path for its head. *)

Tick ==
  /\ At(Cron, "idle")
  /\ Go(Cron, IF OpenRuns # {} THEN [Idle EXCEPT !.at = "reread", !.tick = TRUE]
              ELSE [Idle EXCEPT !.at = "list"])
  /\ UNCHANGED <<github, runs, rows, faults>>

ListPulls ==
  /\ At(Cron, "list")
  /\ Go(Cron, IF ~Patrolled(pull) THEN Idle
              ELSE [Idle EXCEPT !.at = "on_head",
                      !.event = [kind |-> "start", head |-> pull.head, title |-> pull.title, retarget |-> FALSE]])
  /\ UNCHANGED <<github, runs, rows, faults>>

(* Faulty: a head whose runs have all ended is left alone. *)
StartsOnEnded(head) == OnHead(PrRuns, head) = {}

(* runsOnHead says "ended" or "none". *)
StartsOn(head) == OnHead(OpenRuns, head) = {}

RunsOnHead ==
  /\ At(Cron, "on_head")
  /\ LET head == Event(Cron).head
     IN Go(Cron, IF ~StartsOn(head) THEN Idle
                 ELSE [procs[Cron] EXCEPT !.at = IF OnHead(PrRuns, head) = {} THEN "has_check" ELSE "pull"])
  /\ UNCHANGED <<github, runs, rows, faults>>

HasCheckRun ==
  /\ At(Cron, "has_check")
  /\ Go(Cron, IF newest[Event(Cron).head] # None THEN Idle ELSE [procs[Cron] EXCEPT !.at = "pull"])
  /\ UNCHANGED <<github, runs, rows, faults>>

-----------------------------------------------------------------------------
(* What reaches the invocations: deliveries in any order, again, or never; and failures *)

Deliver(p) ==
  /\ At(p, "idle")
  /\ \E event \in deliveries :
       /\ Go(p, [Idle EXCEPT !.at = "pull", !.event = event])
       /\ \/ deliveries' = deliveries \ {event} /\ UNCHANGED faults
          \/ UNCHANGED deliveries /\ Fault("repeat")
  /\ UNCHANGED <<pull, newest, runs, rows>>

(* A call of an invocation fails, or its reply is lost: the delivery ends there, and the cron    *)
(* goes on to its next PR.                                                                       *)
Fails(p) ==
  /\ ~At(p, "idle") /\ Fault("call")
  /\ Finish(p)
  /\ runs' = [r \in RunIds |-> Unwaited(p, runs[r])]
  /\ UNCHANGED <<github, rows>>

-----------------------------------------------------------------------------
(* The runs, as RunMachine and RunDO have them *)

(* A sync of the check: syncs go one behind another, and the check is created the first time and  *)
(* for each repost.  It speaks for all that the run owes, so those queued behind it find nothing  *)
(* to do and return with it, unless a commit that changes the check meanwhile sets the mark again.*)
SyncCheck(r) ==
  /\ runs[r].owes /\ runs[r].asked = NotCreating
  /\ LET creates == WantsCheck(runs[r]) /\ (~runs[r].posted \/ runs[r].reposts > 0)
     IN runs' = [runs EXCEPT ![r].owes = FALSE, ![r].queued = {},
                             ![r].asked = IF creates THEN runs[r].reposts ELSE NotCreating,
                             ![r].syncing = IF creates THEN runs[r].queued ELSE {}]
  /\ UNCHANGED <<github, rows, procs, faults>>

CheckCreated(r) ==
  /\ runs[r].asked # NotCreating
  /\ newest' = [newest EXCEPT ![runs[r].head] = r]
  /\ runs' = [runs EXCEPT ![r].posted = TRUE, ![r].asked = NotCreating, ![r].syncing = {},
                          ![r].reposts = IF @ = runs[r].asked THEN 0 ELSE @]
  /\ UNCHANGED <<pull, deliveries, rows, procs, faults>>

(* GitHub refuses, or creates it and the reply is lost: the mark stays, for a retry.  The call    *)
(* that waited goes on.                                                                           *)
CheckFails(r) ==
  /\ runs[r].asked # NotCreating /\ Fault("check")
  /\ newest' \in {newest, [newest EXCEPT ![runs[r].head] = r]}
  /\ runs' = [runs EXCEPT ![r].asked = NotCreating, ![r].syncing = {},
                          ![r].owes = TRUE, ![r].failed = TRUE]
  /\ UNCHANGED <<pull, deliveries, rows, procs>>

WriteRow(r) ==
  /\ rows[r] # RowOf(runs[r])
  /\ rows' = [rows EXCEPT ![r] = RowOf(runs[r])]
  /\ UNCHANGED <<github, runs, procs, faults>>

Sweep(r) ==
  /\ r \in Sweepers /\ runs[r].status = "on_the_hill"
  /\ Commit(r, OwesCheck([runs[r] EXCEPT !.status = "swept", !.concluded = TRUE], {}))
  /\ UNCHANGED <<github, procs>>

-----------------------------------------------------------------------------
(* The PR on GitHub, and the deliveries it makes.  None is made when a PR becomes a draft. *)

StartEvent(pr, retarget) == [kind |-> "start", head |-> pr.head, title |-> pr.title, retarget |-> retarget]

Becomes(deed, pr, events) ==
  /\ deed \in Deeds /\ deeds < MaxDeeds
  /\ deeds' = deeds + 1
  /\ pull' = pr
  /\ deliveries' = deliveries \union events
  /\ UNCHANGED <<newest, runs, rows, procs, faults>>

Deed ==
  \/ \E head \in {h \in Sha : h > pull.head} :
       LET pushed == [pull EXCEPT !.head = head]
       IN pull.state = "open" /\ Becomes("push", pushed, {StartEvent(pushed, FALSE)})
  \/ /\ pull.state = "open" /\ pull.draft
     /\ LET ready == [pull EXCEPT !.draft = FALSE]
        IN Becomes("draft", ready, {StartEvent(ready, FALSE)})
  \/ pull.state = "open" /\ ~pull.draft /\ Becomes("draft", [pull EXCEPT !.draft = TRUE], {})
  \/ \E base \in {"default", "other"} \ {pull.base} :
       LET retargeted == [pull EXCEPT !.base = base]
       IN pull.state = "open" /\ Becomes("retarget", retargeted, {StartEvent(retargeted, TRUE)})
  \/ \E title \in Title \ {pull.title} :
       Becomes("retitle", [pull EXCEPT !.title = title], {[kind |-> "retitle"]})
  \/ pull.state = "open" /\ Becomes("close", [pull EXCEPT !.state = "closed"], {[kind |-> "closed"]})
  \/ /\ pull.state = "closed"
     /\ LET reopened == [pull EXCEPT !.state = "open"]
        IN Becomes("reopen", reopened, {StartEvent(reopened, FALSE)})
  \/ /\ pull.state = "open" /\ ~pull.draft
     /\ Becomes("merge", [pull EXCEPT !.state = "merged"], {[kind |-> "closed"]})

-----------------------------------------------------------------------------

Init ==
  \E title \in FirstTitles, head \in Sha :
    /\ \A h \in Sha : head <= h
    /\ pull = [state |-> "open", head |-> head, draft |-> FALSE, base |-> "default", title |-> title]
    /\ deliveries = {StartEvent(pull, FALSE)}
    /\ newest = [h \in Sha |-> None]
    /\ runs = <<>> /\ rows = <<>>
    /\ procs = [p \in Proc |-> Idle]
    /\ deeds = 0 /\ faults = 0

(* What the code of an invocation does next. *)
Step(p) ==
  /\ \/ ReadPull(p) \/ FindDuplicate(p) \/ ListFiles(p) \/ PostNeutral(p) \/ StartRun(p)
     \/ StartReturns(p) \/ Reread(p) \/ FindMerged(p) \/ Land(p) \/ LandReturns(p)
     \/ FindRuns(p) \/ FindTitles(p) \/ Act(p) \/ Repost(p)
     \/ p = Cron /\ (Tick \/ ListPulls \/ RunsOnHead \/ HasCheckRun)
  /\ UNCHANGED deeds
Syncs(r) == r \in RunIds /\ (SyncCheck(r) \/ CheckCreated(r)) /\ UNCHANGED deeds
Indexes(r) == r \in RunIds /\ WriteRow(r) /\ UNCHANGED deeds

Next ==
  \/ \E p \in Proc : Step(p)
  \/ \E r \in 1 .. MaxRuns : Syncs(r) \/ Indexes(r)
  \/ /\ \/ \E p \in Webhook : Deliver(p)
        \/ \E p \in Proc : Fails(p)
        \/ \E r \in RunIds : CheckFails(r) \/ Sweep(r)
     /\ UNCHANGED deeds
  \/ Deed

Spec == Init /\ [][Next]_vars

(* An invocation runs on, a tick comes every five minutes, and a run's alarm retries what it     *)
(* owes.  Nothing says that a delivery arrives.                                                  *)
FairSpec ==
  /\ Spec
  /\ \A p \in Proc : WF_vars(Step(p))
  /\ \A r \in 1 .. MaxRuns : WF_vars(Syncs(r)) /\ WF_vars(Indexes(r))

-----------------------------------------------------------------------------
(* Types *)

(* What each variable holds.  A check run is on the commit of the run that posted it. *)
TypeOK ==
  /\ Len(runs) <= MaxRuns /\ DOMAIN rows = RunIds
  /\ \A r \in RunIds :
       /\ runs[r].head \in Sha /\ runs[r].title \in Title
       /\ runs[r].status \in {"on_the_hill", "swept", "stopped", "landed"}
       /\ IsOpen(runs[r].status) => (runs[r].concluded <=> runs[r].status = "swept")
       /\ rows[r] = NoRow \/ rows[r].title \in Title
  /\ \A sha \in Sha : newest[sha] \in {None, Neutral} \union OnHead(RunIds, sha)

-----------------------------------------------------------------------------
(* Properties *)

OpenNow == {r \in RunIds : IsOpen(runs[r].status)}

(* Only a run on the commit that merged, into the default branch, is ever landed: "a merge       *)
(* elsewhere never reached what the run vouched for", and a late delivery lands nothing.         *)
LandsOnlyMerged ==
  \A r \in RunIds : runs[r].status = "landed" =>
    Merged(pull) /\ IntoDefault(pull) /\ runs[r].head = pull.head

(* However deliveries are lost, repeated and reordered, and wherever an invocation fails, the    *)
(* cron ends with the PR's runs in line with GitHub: a patrolled PR has exactly one open run, on *)
(* its head, and any other PR has none.                                                          *)
RunsInLine ==
  IF Patrolled(pull) /\ pull.head \notin Unpatrolled
  THEN \E r \in RunIds : OpenNow = {r} /\ runs[r].head = pull.head
  ELSE OpenNow = {}
RunsSettle == <>[]RunsInLine

(* An open run is filed under the PR's title in the end, whatever the order of the edits. *)
TitlesSettle == <>[](\A r \in OpenNow : rows[r] = RowOf(runs[r]) /\ runs[r].title = pull.title)

(* "GitHub reads the newest check run of a name": in the end it is that of the run a reconcile   *)
(* keeps, since "every path ends with it and the cron runs it as a safety net" (reconcilePr).    *)
CheckInLine == Patrolled(pull) => IsNewest(newest[pull.head], OnHead(OpenNow, pull.head))
CheckSettles == <>[]CheckInLine

(* A run whose review has ended, with nothing under way or left to do that creates a check. *)
CreatesNoMore(run) ==
  /\ ~IsOpen(run.status) /\ run.asked = NotCreating
  /\ IF run.posted THEN run.reposts = 0 ELSE ~WantsCheck(run)

(* "Asked only now that the stops have returned": when a reconcile asks a run to post its check   *)
(* again, every stale run on its head has ended, and one whose review the reconcile itself cut    *)
(* short will never create a check again that would be the newer, whatever the others had under   *)
(* way with it, unless a create of its failed and is retried.  (A stale run that somebody else    *)
(* ended, or that had been swept, is not waited for: the finding on CheckSettles.)                *)
AskedAfterTheStops ==
  [][\A p \in Proc : \A r \in RunIds :
       At(p, "act") /\ procs'[p] # procs[p] /\ runs'[r].reposts > runs[r].reposts =>
         /\ \A other \in OnHead(procs[p].stale, runs[r].head) : ~IsOpen(runs[other].status)
         /\ \A other \in OnHead(procs[p].halted, runs[r].head) :
              runs[other].failed \/ CreatesNoMore(runs[other])]_vars
=============================================================================
