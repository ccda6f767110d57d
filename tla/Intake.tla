------------------------------- MODULE Intake -------------------------------
(***************************************************************************)
(* Which pull request Dispatch gives a run, or its neutral check: what the *)
(* webhook makes of an event (github/webhook.ts), what the cron makes of a *)
(* listed PR (reconcile/cron.ts), and what startPr makes of its files      *)
(* (reconcile/pr.ts), all read through the GitHub client                   *)
(* (github/client.ts): under an installation token that expires, the files *)
(* page by page, while the PR goes on changing.  What becomes of the runs, *)
(* and of handlers that cross, is Reconcile's.                             *)
(*                                                                         *)
(* An invocation makes one call of GitHub after another, each answered by  *)
(* GitHub as it is then.  A push and a retarget each leave the PR with     *)
(* another diff; a retarget, on the head it has.  Time is told by the      *)
(* minutes a token has left.                                               *)
(***************************************************************************)
EXTENDS Naturals, Sequences

CONSTANTS
  PullKind,         \* bound: who opens the PR, from which repository, into which branch
  FileList,         \* bound: what the diff of a head may be
  FilesPerPage,
  Lifetime,         \* minutes a new installation token lasts
  RefreshMargin,    \* minutes before its end from which the client asks for another
  MaxPushes,        \* bound: pushes to the PR
  Unset             \* what GitHub's answer leaves out

Side == {"names", "own", "other"}    \* refreshGlobs, the rest of unpatrolledGlobs, neither

(* A changed file, and what GitHub keeps of a pull request.  retargeted is history: whether its  *)
(* base has ever changed.                                                                        *)
FileType == [path : Side, previous : Side \union {Unset}]
Pull ==
  [author : {"owner", "refresh", "stranger"}, repo : {"ours", "fork", Unset},
   base : {"default", "other"}, state : {"open", "closed"}, draft : BOOLEAN,
   head : Nat \ {0}, files : Seq(FileType), retargeted : BOOLEAN]

ASSUME IntakeAssumption ==
  /\ FilesPerPage \in Nat \ {0}
  /\ Lifetime \in Nat /\ RefreshMargin \in Nat /\ Lifetime > RefreshMargin
  /\ PullKind \subseteq Pull /\ FileList \subseteq Seq(FileType) /\ Unset \notin Side

VARIABLES
  pr,        \* GitHub: the PR, once opened
  given,     \* GitHub and D1: the neutral checks and the runs ever given, by head
  work,      \* the invocation under way
  token      \* its client: minutes its cached token has left, 0 when it has none

intakeVars == <<pr, given, work, token>>

Outside == [at |-> "outside"]

(* same, here and in what is given, is history: since startPr read the PR, it has not been given *)
(* another diff.                                                                                 *)
NoWork == [at |-> "idle", op |-> Unset, ref |-> Unset, page |-> 1, files |-> <<>>, age |-> 0,
           same |-> FALSE]

-----------------------------------------------------------------------------
(* What GitHub answers, as the client reads it *)

(* A changed file: for a rename, the old path still counts. *)
Sides(file) == {file.path} \union ({file.previous} \ {Unset})

PullState(pull) == [state |-> pull.state, draft |-> pull.draft, base |-> pull.base, head |-> pull.head]
OpenPull(pull) ==
  [author |-> pull.author, repo |-> pull.repo, draft |-> pull.draft, base |-> pull.base, head |-> pull.head]

Page(files, page) ==
  SubSeq(files, (page - 1) * FilesPerPage + 1,
         IF page * FilesPerPage < Len(files) THEN page * FilesPerPage ELSE Len(files))

(* Faulty: a page that is just full is taken for the last. *)
LastWhenFull(entries) == Len(entries) <= FilesPerPage

LastPage(entries) == Len(entries) < FilesPerPage

(* Faulty: a token is used until it expires. *)
FreshToTheEnd(left) == left > 0

(* The cached token is used until the margin before its end. *)
Fresh(left) == left > RefreshMargin

-----------------------------------------------------------------------------
(* Whom a run is started for *)

(* The webhook: "a missing or deleted head repository cannot be shown to be ours". *)
Triggers(event) == event.repo = "ours" /\ event.author \in {"owner", "refresh"}

(* The cron: "whom the webhook would start a run for". *)
PatrolledPull(pull) ==
  /\ pull.author \in {"owner", "refresh"} /\ pull.repo = "ours"
  /\ ~pull.draft /\ pull.base = "default"

(* What startPr is given: the PR as the event, or the list, had it. *)
EventRef(event, head, retarget) == [author |-> event.author, head |-> head, retarget |-> retarget]
RefOf(pull) == [author |-> pull.author, head |-> pull.head, retarget |-> FALSE]

IsUnpatrolled(file) == \E side \in Sides(file) : side \in {"names", "own"}
IsRefresh(file) == Sides(file) = {"names"}
ListedFiles(files) == {files[i] : i \in DOMAIN files}

(* What startPr gives a head once its files are listed. *)
Judged(author, files) ==
  IF author = "refresh" /\ (files = {} \/ \E file \in files : ~IsRefresh(file)) THEN "nothing"
  ELSE IF \E file \in files : IsUnpatrolled(file) THEN "neutral"
  ELSE "run"

HasCheck(head) == \E gift \in given : gift.head = head
HasRun(head) == \E gift \in given : gift.head = head /\ gift.what = "run"

(* What D1 says of a head's runs: what becomes of one, once given, is Reconcile's. *)
RunsOnHead(head) == IF HasRun(head) THEN {"open", "ended"} ELSE {"none"}

-----------------------------------------------------------------------------
(* The invocation *)

(* A call of the client: first its token, cached or new. *)
Calling(op, ref, left, same) ==
  [NoWork EXCEPT !.at = IF Fresh(left) THEN "get" ELSE "mint", !.op = op, !.ref = ref, !.same = same]
Ask(op, ref, same) == work' = Calling(op, ref, token, same)

(* GitHub takes the token and answers. *)
Answers(op) == work.at = "get" /\ work.op = op /\ token > 0

(* A delivery, perhaps one made for an older head, or one that is ignored; a retarget's, if the  *)
(* base has changed.  Its client is new.                                                         *)
DeliverEvent ==
  /\ work.at = "idle" /\ pr # Outside /\ Triggers(pr)
  /\ \E head \in 1 .. pr.head, retarget \in {FALSE, pr.retargeted} :
       work' = Calling("pull", EventRef(pr, head, retarget), 0, FALSE)
  /\ token' = 0
  /\ UNCHANGED <<pr, given>>

TickStarts ==
  /\ work.at = "idle"
  /\ work' = Calling("pulls", Unset, 0, FALSE) /\ token' = 0
  /\ UNCHANGED <<pr, given>>

Mint ==
  /\ work.at = "mint"
  /\ token' = Lifetime
  /\ work' = [work EXCEPT !.at = "get"]
  /\ UNCHANGED <<pr, given>>

PullsListed ==
  /\ Answers("pulls")
  /\ IF pr # Outside /\ pr.state = "open" /\ PatrolledPull(OpenPull(pr))
     THEN \E runs \in RunsOnHead(pr.head) :
            \/ runs = "open" /\ work' = NoWork
            \/ runs = "ended" /\ Ask("pull", RefOf(OpenPull(pr)), FALSE)
            \/ runs = "none" /\ Ask("has_check", RefOf(OpenPull(pr)), FALSE)
     ELSE work' = NoWork
  /\ UNCHANGED <<pr, given, token>>

HasCheckAnswered ==
  /\ Answers("has_check")
  /\ IF HasCheck(work.ref.head) THEN work' = NoWork ELSE Ask("pull", work.ref, FALSE)
  /\ UNCHANGED <<pr, given, token>>

(* "A retarget changed the diff, so a run on this head reviewed another one": none is in its way. *)
PullRead ==
  /\ Answers("pull")
  /\ LET live == PullState(pr)
         starts == /\ live.state = "open" /\ live.head = work.ref.head
                   /\ ~live.draft /\ live.base = "default"
     IN \E runs \in RunsOnHead(work.ref.head) :
          IF starts /\ (work.ref.retarget \/ runs # "open")
          THEN Ask("files", work.ref, TRUE) ELSE work' = NoWork
  /\ UNCHANGED <<pr, given, token>>

(* What the head is given. *)
Gift(what) == [head |-> work.ref.head, what |-> what, same |-> work.same]

FilesRead ==
  /\ Answers("files")
  /\ LET entries == Page(pr.files, work.page)
         files == work.files \o entries
         judged == Judged(work.ref.author, ListedFiles(files))
     IN IF ~LastPage(entries)
        THEN /\ work' = [work EXCEPT !.page = @ + 1, !.files = files]
             /\ UNCHANGED given
        ELSE /\ given' = IF judged = "run" THEN given \union {Gift("run")} ELSE given
             /\ IF judged = "neutral" THEN Ask("check", work.ref, work.same) ELSE work' = NoWork
  /\ UNCHANGED <<pr, token>>

CheckPosted ==
  /\ Answers("check")
  /\ given' = given \union {Gift("neutral")}
  /\ work' = NoWork
  /\ UNCHANGED <<pr, token>>

(* GitHub fails, no longer takes the token, or answers with what the client cannot read. *)
CallFails ==
  /\ work.at \in {"mint", "get"}
  /\ given' \in {given} \union {given \union {Gift("neutral")} : op \in {work.op} \cap {"check"}}
  /\ work' = NoWork
  /\ UNCHANGED <<pr, token>>

-----------------------------------------------------------------------------
(* GitHub and the clock *)

Open ==
  /\ pr = Outside
  /\ \E kind \in PullKind, files \in FileList, draft \in BOOLEAN :
       pr' = [kind EXCEPT !.draft = draft, !.files = files]
  /\ UNCHANGED <<given, work, token>>

(* Whatever was given, or is about to be, was for another diff. *)
AnotherDiff ==
  /\ given' = {[gift EXCEPT !.same = FALSE] : gift \in given}
  /\ work' = [work EXCEPT !.same = FALSE]
  /\ UNCHANGED token

PushTo ==
  /\ pr # Outside /\ pr.state = "open" /\ pr.head <= MaxPushes
  /\ \E files \in FileList : pr' = [pr EXCEPT !.head = @ + 1, !.files = files]
  /\ AnotherDiff

(* The same head, against another branch. *)
Retarget ==
  /\ pr # Outside /\ pr.state = "open"
  /\ \E base \in {"default", "other"} \ {pr.base}, files \in FileList :
       pr' = [pr EXCEPT !.base = base, !.files = files, !.retargeted = TRUE]
  /\ AnotherDiff

Edit ==
  /\ pr # Outside
  /\ \/ pr' = [pr EXCEPT !.draft = ~pr.draft]
     \/ pr' = [pr EXCEPT !.state = IF pr.state = "open" THEN "closed" ELSE "open"]
  /\ UNCHANGED <<given, work, token>>

(* A minute passes.  How long a call has been under way is told apart up to the margin. *)
Minute ==
  /\ work.at # "idle"
  /\ token' = IF token = 0 THEN 0 ELSE token - 1
  /\ work' = [work EXCEPT !.age = IF @ > RefreshMargin THEN @ ELSE @ + 1]
  /\ UNCHANGED <<pr, given>>

-----------------------------------------------------------------------------

IntakeInit == pr = Outside /\ given = {} /\ work = NoWork /\ token = 0

IntakeNext ==
  \/ DeliverEvent \/ TickStarts \/ Mint
  \/ PullsListed \/ HasCheckAnswered \/ PullRead \/ FilesRead \/ CheckPosted \/ CallFails
  \/ Open \/ PushTo \/ Retarget \/ Edit \/ Minute

IntakeSpec == IntakeInit /\ [][IntakeNext]_intakeVars

-----------------------------------------------------------------------------
(* Safety *)

(* Whichever path found it and however its files are paged, a PR has, of what was given since    *)
(* its diff last changed, what its author and the whole of that diff call for, on its head and   *)
(* into the default branch: a run only when neither side of any file is Base to Base's own, a    *)
(* check of the refresh workflow's PRs only for "new trail names and nothing else", and nothing  *)
(* ever for a stranger or a fork (startPr, patrolled, pullRequestTrigger, listPullFiles).  What  *)
(* an earlier diff of the same head was given stays on it, and so does what startPr gives a head *)
(* that is retargeted under its hands: of those this says nothing.                               *)
GivenWhatItTouches ==
  /\ given # {} => pr.author # "stranger" /\ pr.repo = "ours"
  /\ \A gift \in given : gift.same =>
       /\ gift.head = pr.head /\ pr.base = "default"
       /\ LET touched == UNION {{f.path, f.previous} \ {Unset} : f \in ListedFiles(pr.files)}
          IN CASE gift.what = "run" -> pr.author = "owner" /\ touched \subseteq {"other"}
               [] gift.what = "neutral" ->
                    IF pr.author = "owner" THEN ~(touched \subseteq {"other"}) ELSE touched = {"names"}

(* A call GitHub answers within the margin is never refused for its token: the token it was      *)
(* given, cached by an earlier call or new, outlasts it (installationToken).                     *)
TokenInForce == work.at = "get" /\ work.age <= RefreshMargin => token > 0
=============================================================================
