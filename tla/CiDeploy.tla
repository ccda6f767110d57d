------------------------------ MODULE CiDeploy ------------------------------
(***************************************************************************)
(* The deploy of main by CI (scripts/src/ci-deploy-lib.ts, ci-deploy.ts,   *)
(* the basetobase-ci workflow): every push to main queues a run, a run     *)
(* verifies its commit, plans from the live /health whether it needs a     *)
(* deploy, and the deploy job plans again, migrates, deploys, watches      *)
(* /health and rolls back.                                                 *)
(*                                                                         *)
(* Around it the owner deploys by hand (a version without a tag), runs an  *)
(* old run again, whole or only its deploy job, and rewrites main; /health *)
(* does not answer, answers unhealthy or shows the version before; and     *)
(* wrangler fails, before or after what it did went live.                  *)
(*                                                                         *)
(* A commit is its place in main's pushes.  What it ships is a Worker, so  *)
(* two commits that differ in nothing the Worker ships ship the same one.  *)
(***************************************************************************)
EXTENDS Integers, Sequences

CONSTANTS
  Worker,        \* what the Worker may be
  Healthy,       \* the Workers whose /health answers ok
  Silent,        \* those that never answer as Base to Base: broken, or older than /health
  None,          \* no tag, no answer, no run
  MaxCommits,    \* bound: commits pushed to main
  MaxTroubles    \* bound: what the owner does by hand, and calls that fail or mislead

ASSUME CiDeployAssumption ==
  /\ Healthy \subseteq Worker /\ Silent \subseteq Worker \ Healthy
  /\ None \notin Nat
  /\ MaxCommits \in Nat /\ MaxTroubles \in Nat

VARIABLES
  commits,        \* GitHub: what each commit pushed to main ships
  dropped,        \* GitHub: the commits a rewrite took out of main's history
  waiting, job,   \* GitHub: the run waiting in main's concurrency group, and the one under way
  planned,        \* GitHub: the commits whose plan said to deploy
  deployments,    \* Cloudflare: the versions deployed, the last one serving
  troubles,       \* bound: what the owner did by hand and calls that failed, so far
  settled         \* history: whether the newest commit's run ended green and nobody meddled since

deployVars == <<commits, dropped, waiting, job, planned, deployments, troubles, settled>>

Newest == Len(commits)
Live == deployments[Len(deployments)]
NewVersion == Len(deployments) + 1

-----------------------------------------------------------------------------
(* What a look at /health shows *)

(* The answer of a version: none, or the version, its tag, and whether it is healthy. *)
Answer(deployment) ==
  IF deployment.worker \in Silent THEN None
  ELSE [ok |-> deployment.worker \in Healthy, version |-> deployment.version, tag |-> deployment.tag]

Trouble == troubles < MaxTroubles /\ troubles' = troubles + 1

(* The call hangs or fails, or the database it asks does not answer. *)
Troubled(answer) == {None} \union (IF answer = None THEN {} ELSE {[answer EXCEPT !.ok = FALSE]})

Looks(live) ==
  \/ live = Answer(Live) /\ UNCHANGED troubles
  \/ live \in Troubled(Answer(Live)) \ {Answer(Live)} /\ Trouble

-----------------------------------------------------------------------------
(* Whether a commit needs a deploy *)

(* A clone has only what main's history holds. *)
HasCommit(commit) == commit \notin dropped
IsAncestor(old, new) == old <= new /\ old \notin dropped

(* Faulty: compares with the commit's parent. *)
ChangedSinceParent(from, to) == to > 1 => commits[to - 1] # commits[to]

WorkerChanged(from, to) == commits[from] # commits[to]

(* skipReason: some reason not to deploy sha. *)
SkipReason(live, sha) ==
  /\ live # None /\ live.tag # None
  /\ LET known == live.tag # sha /\ HasCommit(live.tag)
     IN \/ known /\ IsAncestor(sha, live.tag)
        \/ live.ok /\ live.tag = sha
        \/ live.ok /\ known /\ ~WorkerChanged(live.tag, sha)

-----------------------------------------------------------------------------
(* What queues runs *)

(* A run that joins the group takes the place of the one waiting. *)
Enqueue(run) == waiting' = run

Push ==
  /\ Newest < MaxCommits
  /\ \E worker \in Worker : commits' = Append(commits, worker)
  /\ \/ UNCHANGED <<dropped, troubles>>
     \/ Newest > 0 /\ dropped' = dropped \union {Newest} /\ Trouble
  /\ Enqueue([sha |-> Newest + 1, stage |-> "verify"])
  /\ settled' = FALSE
  /\ UNCHANGED <<job, planned, deployments>>

(* The owner runs a commit's run again, whole, or its deploy job alone. *)
Rerun ==
  /\ \E sha \in 1..Newest, stage \in {"verify", "recheck"} :
       /\ stage = "recheck" => sha \in planned
       /\ waiting # None => waiting.sha # sha
       /\ job # None => job.sha # sha
       /\ Enqueue([sha |-> sha, stage |-> stage])
       /\ settled' = (settled /\ sha = Newest)
  /\ Trouble
  /\ UNCHANGED <<commits, dropped, job, planned, deployments>>

(* `npm run deploy` on the owner's machine. *)
HandDeploy ==
  /\ \E worker \in Worker :
       deployments' = Append(deployments, [version |-> NewVersion, tag |-> None, worker |-> worker])
  /\ settled' = FALSE
  /\ Trouble
  /\ UNCHANGED <<commits, dropped, waiting, job, planned>>

-----------------------------------------------------------------------------
(* A run *)

(* The job under way: what it found live before it deployed, how many deployments there were     *)
(* then (history), and whether wrangler deploy said it was done.                                 *)
Begin ==
  /\ job = None /\ waiting # None
  /\ job' = [sha |-> waiting.sha, stage |-> waiting.stage, before |-> None, since |-> 0, deployed |-> FALSE]
  /\ waiting' = None
  /\ UNCHANGED <<commits, dropped, planned, deployments, troubles, settled>>

At(stage) == job # None /\ job.stage = stage
GoOn(stage) == job' = [job EXCEPT !.stage = stage] /\ UNCHANGED settled

(* Nobody deployed by hand since the deploy job looked. *)
HandsOff == \A i \in job.since + 1..Len(deployments) : deployments[i].tag = job.sha

EndRed == job' = None /\ UNCHANGED settled
EndGreen ==
  /\ job' = None
  /\ settled' = \/ settled
                \/ /\ job.sha = Newest /\ (At("watch") => HandsOff)
                   /\ waiting # None => waiting.sha = Newest

Verify ==
  /\ At("verify")
  /\ GoOn("plan") \/ EndRed
  /\ UNCHANGED <<commits, dropped, waiting, planned, deployments, troubles>>

Plan ==
  /\ At("plan")
  /\ \E live \in {Answer(Live)} \union Troubled(Answer(Live)) :
       /\ Looks(live)
       /\ IF SkipReason(live, job.sha) THEN EndGreen /\ UNCHANGED planned
          ELSE GoOn("recheck") /\ planned' = planned \union {job.sha}
  /\ UNCHANGED <<commits, dropped, waiting, deployments>>

(* Faulty: the deploy job trusts its plan. *)
RecheckNot ==
  /\ At("recheck")
  /\ \E live \in {Answer(Live)} \union Troubled(Answer(Live)) :
       /\ Looks(live)
       /\ job' = [job EXCEPT !.stage = "migrate", !.before = live, !.since = Len(deployments)]
       /\ UNCHANGED settled
  /\ UNCHANGED <<commits, dropped, waiting, planned, deployments>>

(* runDeploy asks again: the deploy job of an old run may be what runs. *)
Recheck ==
  /\ At("recheck")
  /\ \E live \in {Answer(Live)} \union Troubled(Answer(Live)) :
       /\ Looks(live)
       /\ IF SkipReason(live, job.sha) THEN EndGreen
          ELSE /\ job' = [job EXCEPT !.stage = "migrate", !.before = live, !.since = Len(deployments)]
               /\ UNCHANGED settled
  /\ UNCHANGED <<commits, dropped, waiting, planned, deployments>>

Migrate ==
  /\ At("migrate")
  /\ \/ GoOn("deploy") /\ UNCHANGED troubles
     \/ EndRed /\ Trouble
  /\ UNCHANGED <<commits, dropped, waiting, planned, deployments>>

(* wrangler deploy may fail before the version goes live, or after. *)
Deploy ==
  /\ At("deploy")
  /\ \E live, deployed \in BOOLEAN :
       /\ deployed => live
       /\ IF deployed THEN UNCHANGED troubles ELSE Trouble
       /\ deployments' = IF live
            THEN Append(deployments, [version |-> NewVersion, tag |-> job.sha, worker |-> commits[job.sha]])
            ELSE deployments
       /\ job' = [job EXCEPT !.stage = "watch", !.deployed = deployed]
  /\ UNCHANGED <<commits, dropped, waiting, planned, settled>>

(* Faulty: rolls back with no version known to go back to. *)
BlindUndo(last) == last = None

(* The deploy did not go out, or nobody can tell what a rollback would take back. *)
LeaveAlone(last) ==
  /\ ~job.deployed
  /\ last # None => last.tag # job.sha
  /\ last = None => job.before = None

(* waitFor ends with what it hoped for, or with what it saw last when the time was up: what      *)
(* serves, or, in trouble, no answer, an unhealthy one or, where what went live since the job    *)
(* looked is not everywhere yet, the version before's.                                           *)
SeenLast ==
  {Answer(Live)} \union Troubled(Answer(Live))
    \union {Answer(deployments[i]) : i \in {Len(deployments) - 1} \cap job.since..Len(deployments)}

Serves(seen, sha) == seen # None /\ seen.ok /\ seen.tag = sha

Watch ==
  /\ At("watch")
  /\ \E last \in SeenLast :
       /\ IF last = Answer(Live) THEN UNCHANGED troubles ELSE Trouble
       /\ IF Serves(last, job.sha) THEN IF job.deployed THEN EndGreen ELSE EndRed
          ELSE IF LeaveAlone(last) THEN EndRed ELSE GoOn("rollback")
  /\ UNCHANGED <<commits, dropped, waiting, planned, deployments>>

(* Back to the version that served before, or, unknown, to the one before the current. *)
RollBack ==
  /\ At("rollback")
  /\ \/ /\ \E i \in DOMAIN deployments :
             /\ IF job.before # None THEN deployments[i].version = job.before.version
                ELSE i = Len(deployments) - 1
             /\ deployments' = Append(deployments, deployments[i])
        /\ settled' = (settled /\ job.before # None)
        /\ UNCHANGED troubles
     \/ Trouble /\ UNCHANGED <<deployments, settled>>
  /\ job' = None
  /\ UNCHANGED <<commits, dropped, waiting, planned>>

(* The runner is lost, or the owner cancels the run. *)
Killed ==
  /\ job # None /\ job.stage # "verify"
  /\ EndRed
  /\ Trouble
  /\ UNCHANGED <<commits, dropped, waiting, planned, deployments>>

-----------------------------------------------------------------------------

(* What setup deployed by hand serves, and nothing is pushed yet. *)
DeployInit ==
  /\ commits = <<>> /\ dropped = {}
  /\ waiting = None /\ job = None /\ planned = {}
  /\ \E worker \in Worker : deployments = <<[version |-> 1, tag |-> None, worker |-> worker]>>
  /\ troubles = 0
  /\ settled = FALSE

DeployNext ==
  \/ Push \/ Rerun \/ HandDeploy
  \/ Begin \/ Verify \/ Plan \/ Recheck \/ Migrate \/ Deploy \/ Watch \/ RollBack \/ Killed

DeploySpec == DeployInit /\ [][DeployNext]_deployVars

-----------------------------------------------------------------------------
(* Safety *)

(* "A newer commit is already live": CI never puts a commit over a live one that has it in its   *)
(* history, whatever is run again and whoever deploys by hand meanwhile, as long as the deploy   *)
(* job got an answer from /health (skipReason, runDeploy).                                       *)
Outdated(sha) ==
  /\ Live.tag # None
  /\ sha < Live.tag /\ {sha, Live.tag} \cap dropped = {}
DeploysNow == At("deploy") /\ Len(deployments') > Len(deployments) /\ job' # job
NeverBackwards == [][DeploysNow /\ job.before # None => ~Outdated(job.sha)]_deployVars

(* Once main's newest run ended green, whether it deployed or found nothing to deploy, what      *)
(* serves is what that commit ships, and healthy, through whatever its reruns do, until the next *)
(* push, deploy by hand, rerun of an older commit or rollback that knew of no version to go back *)
(* to: that one may go past the commit's own (skipReason, planDeploy, runDeploy).                *)
NewestServes == settled => Live.worker = commits[Newest] /\ Live.worker \in Healthy

(* A rollback goes back to what served when the deploy began, whatever of it went live: "a       *)
(* rollback would only undo that one", "a rollback could go one too far" (runDeploy, rollBack).  *)
(* Only versions of the commit itself may be undone with it.  A deploy by hand meanwhile is the  *)
(* owner's: a rollback may undo it.                                                              *)
RollsBack == At("rollback") /\ deployments' # deployments /\ job' = None
RollbackRestores ==
  [][RollsBack /\ HandsOff =>
       \/ deployments'[Len(deployments')].version = deployments[job.since].version
       \/ deployments[job.since].tag = job.sha]_deployVars
=============================================================================
