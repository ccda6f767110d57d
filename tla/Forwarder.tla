----------------------------- MODULE Forwarder -----------------------------
(***************************************************************************)
(* One job of an agent (forwarder/src/run.ts): the brief, claude, the      *)
(* event queue, the transcript, the report, and how the job ends; under    *)
(* signals, the deadline, Dispatch's refusals, and requests whose answer   *)
(* is lost or whose effect is late.  The batcher and Dispatch's event log  *)
(* are EventLog, which Batcher implements.                                 *)
(*                                                                         *)
(* A call to Dispatch is one step, with the outcome it comes to; a call    *)
(* that fails may have been taken, or be taken later (late).  Once a       *)
(* signal is in, finish() goes no further, but what it awaited still runs: *)
(* claude, the prompt's files, the retries of a report.                    *)
(***************************************************************************)
EXTENDS Integers, Sequences

CONSTANTS
  MaxEvents,     \* bound: events claude's output makes
  MaxTries,      \* bound: attempts of a call that is retried (RETRY_DELAYS_MS)
  MaxSignals     \* bound: signals the runner sends the forwarder

ASSUME ForwarderAssumption ==
  MaxEvents \in Nat /\ MaxTries \in Nat \ {0} /\ MaxSignals \in Nat

VARIABLES
  pushed, log, lost, closed,   \* the batcher and Dispatch's log, as EventLog has them
  sending,             \* whether a batch is on its way, or waits for its next attempt
  agent, reason,       \* Dispatch: how the agent stands under this job's nonce, and why it failed
  late,                \* reports the forwarder gave up on that Dispatch may still take
  stage,               \* where runAgent and its finish() are
  tries,               \* attempts of the call under way that failed
  claude, wrote,       \* claude, and what it left in verdict.json
  failure,             \* why claude did not finish
  unwanted, seen,      \* whether a 410 came, and the status it named
  pastDeadline,
  outcome,             \* what report() came to
  cancelled, cancel,   \* whether a signal came, and where finishCancelled() is
  signals,
  code,                \* how the job ends
  step                 \* the workflow's last step, which reports a job that failed

events == <<pushed, log, lost, closed>>
dispatch == <<agent, reason, late>>
refused == <<unwanted, seen>>
ended == <<code, step>>
signalled == <<cancelled, cancel, signals>>
claudes == <<claude, wrote, failure, pastDeadline>>
vars == <<events, sending, dispatch, stage, tries, claudes, refused, outcome, signalled, ended>>

Events == INSTANCE EventLog

None == "none"
Final == {"clear", "hazards", "error", "stopped"}

Init ==
  /\ Events!Init /\ sending = FALSE
  /\ agent = "live" /\ reason = None /\ late = {}
  /\ stage = "brief" /\ tries = 0
  /\ claude = None /\ wrote = "missing" /\ failure = None
  /\ unwanted = FALSE /\ seen = None /\ pastDeadline = FALSE
  /\ outcome = None
  /\ cancelled = FALSE /\ cancel = None /\ signals = 0
  /\ code = None /\ step = None

Runs == code = None /\ stage # "brief"
Goes(at) == stage = at /\ code = None /\ ~cancelled

-----------------------------------------------------------------------------
(* Dispatch takes a report of an agent it still waits for; a verdict it cannot read fails it. *)
Take(report) ==
  IF report \in {"clear", "hazards"}
  THEN agent' = report /\ UNCHANGED reason
  ELSE agent' = "error" /\ reason' = report

(* A call that fails: before Dispatch took it, after, or too early to tell. *)
Untold(report) ==
  \/ UNCHANGED dispatch
  \/ agent = "live" /\ Take(report) /\ UNCHANGED late
  \/ late' = late \union {report} /\ UNCHANGED <<agent, reason>>

(* Faulty: only a stopped agent's job ends green. *)
ExitWhenStopped(status) == IF status = "stopped" THEN "green" ELSE "red"

ExitWhenUnwanted(status) == IF status \in {"clear", "stopped"} THEN "green" ELSE "red"

Abandon == IF Events!GivenUp
           THEN UNCHANGED events
           ELSE closed' = "abandoned" /\ Events!GiveUp

(* stopClaude: SIGTERM, with SIGKILL to follow; nothing for a claude that has exited. *)
StopClaude == claude' = IF claude = "running" THEN "stopping" ELSE claude

-----------------------------------------------------------------------------
(* The brief.  No handler is on yet: a signal ends the process. *)
Briefed ==
  /\ stage = "brief" /\ code = None /\ agent = "live"
  /\ stage' = "setup" /\ tries' = 0
  /\ UNCHANGED <<events, sending, dispatch, claudes, refused, outcome, signalled, ended>>

BriefGone ==
  /\ stage = "brief" /\ code = None /\ agent \in Final
  /\ code' = ExitWhenUnwanted(agent) /\ stage' = "over"
  /\ UNCHANGED <<events, sending, dispatch, tries, claudes, refused, outcome, signalled, step>>

BriefFails ==
  /\ stage = "brief" /\ code = None
  /\ IF tries + 1 < MaxTries
     THEN tries' = tries + 1 /\ UNCHANGED <<stage, code>>
     ELSE code' = "red" /\ stage' = "over" /\ UNCHANGED tries
  /\ UNCHANGED <<events, sending, dispatch, claudes, refused, outcome, signalled, step>>

BriefRefused ==
  /\ stage = "brief" /\ code = None
  /\ code' = "red" /\ stage' = "over"
  /\ UNCHANGED <<events, sending, dispatch, tries, claudes, refused, outcome, signalled, step>>

-----------------------------------------------------------------------------
(* The work directory, then the prompt's files and claude's start. *)
Setup ==
  /\ Goes("setup")
  /\ \/ stage' = "prompt" /\ UNCHANGED failure
     \/ stage' = "transcript" /\ failure' = "start"
  /\ UNCHANGED <<events, sending, dispatch, tries, claude, wrote, pastDeadline, refused, outcome,
                 signalled, ended>>

(* Faulty: a signal that came while the templates were read is forgotten. *)
StartClaudeAnyway ==
  /\ stage = "prompt" /\ code = None
  /\ stage' = "claude" /\ claude' = "running"
  /\ UNCHANGED <<events, sending, dispatch, tries, wrote, failure, pastDeadline, refused, outcome,
                 signalled, ended>>

StartClaude ==
  /\ stage = "prompt" /\ code = None
  /\ ~cancelled
  /\ stage' = "claude" /\ claude' = "running"
  /\ UNCHANGED <<events, sending, dispatch, tries, wrote, failure, pastDeadline, refused, outcome,
                 signalled, ended>>

CannotStart ==
  /\ Goes("prompt")
  /\ stage' = "transcript"
  /\ failure' \in {"templates", "start"}
  /\ UNCHANGED <<events, sending, dispatch, tries, claude, wrote, pastDeadline, refused, outcome,
                 signalled, ended>>

Prints ==
  /\ code = None /\ claude \in {"running", "stopping", "killed", "exited"}
  /\ Events!Push
  /\ UNCHANGED <<sending, dispatch, stage, tries, claudes, refused, outcome, signalled, ended>>

(* Faulty: the deadline waits for claude to end by itself. *)
DeadlineAlone ==
  /\ Runs /\ stage = "claude" /\ claude \notin {None, "closed"} /\ ~pastDeadline
  /\ pastDeadline' = TRUE
  /\ UNCHANGED <<events, sending, dispatch, stage, tries, claude, wrote, failure, refused, outcome,
                 signalled, ended>>

Deadline ==
  /\ Runs /\ stage = "claude" /\ claude \notin {None, "closed"} /\ ~pastDeadline
  /\ pastDeadline' = TRUE
  /\ StopClaude
  /\ UNCHANGED <<events, sending, dispatch, stage, tries, wrote, failure, refused, outcome,
                 signalled, ended>>

Kill ==
  /\ claude = "stopping" /\ code = None
  /\ claude' = "killed"
  /\ UNCHANGED <<events, sending, dispatch, stage, tries, wrote, failure, pastDeadline, refused,
                 outcome, signalled, ended>>

(* The process is gone, having written what it has; a token it was refused shows in its output. *)
ClaudeExits ==
  /\ claude \in {"running", "stopping", "killed"} /\ code = None
  /\ claude' = "exited"
  /\ wrote' \in {"clear", "hazards", "invalid", "missing", "garbled"}
  /\ failure' \in IF claude = "killed" THEN {"exited", "token"} ELSE {None, "exited", "token"}
  /\ UNCHANGED <<events, sending, dispatch, stage, tries, pastDeadline, refused, outcome, signalled,
                 ended>>

(* Faulty: a claude that was stopped past the deadline and exited cleanly counts as finished. *)
ClosesCleanly ==
  /\ claude = "exited" /\ code = None
  /\ claude' = "closed"
  /\ IF cancelled
     THEN UNCHANGED <<stage, failure>>
     ELSE stage' = "transcript" /\ UNCHANGED failure
  /\ UNCHANGED <<events, sending, dispatch, tries, wrote, pastDeadline, refused, outcome, signalled,
                 ended>>

(* Its output has ended too: claude's exit is seen. *)
ClaudeCloses ==
  /\ claude = "exited" /\ code = None
  /\ claude' = "closed"
  /\ IF cancelled
     THEN UNCHANGED <<stage, failure>>
     ELSE /\ stage' = "transcript"
          /\ failure' = IF pastDeadline THEN "deadline" ELSE failure
  /\ UNCHANGED <<events, sending, dispatch, tries, wrote, pastDeadline, refused, outcome, signalled,
                 ended>>

-----------------------------------------------------------------------------
(* The batcher's sends, through unlessUnwanted. *)
SendEvents ==
  /\ Runs /\ ~sending /\ ~Events!GivenUp /\ Events!Waiting # {}
  /\ sending' = TRUE
  /\ UNCHANGED <<events, dispatch, stage, tries, claudes, refused, outcome, signalled, ended>>

(* A closing batcher is drained with the answer that leaves nothing to send. *)
DrainedByLast == closed = "pending" /\ Events!Waiting' = {} => closed' = "drained"

EventsTaken ==
  /\ Runs /\ sending /\ agent = "live"
  /\ sending' = FALSE
  /\ \/ \E first, last \in 1..pushed : Events!Deliver(first, last) /\ Events!Settles
     \/ \E first, last \in 1..pushed : Events!Straggle(first, last)
     \/ Events!Drained
     \/ UNCHANGED events
  /\ DrainedByLast
  /\ UNCHANGED <<dispatch, stage, tries, claudes, refused, outcome, signalled, ended>>

EventsFail ==
  /\ Runs /\ sending
  /\ \/ UNCHANGED events
     \/ /\ agent = "live"
        /\ \E first, last \in 1..pushed : Events!Deliver(first, last) /\ UNCHANGED closed
  /\ sending' = ~Events!GivenUp
  /\ UNCHANGED <<dispatch, stage, tries, claudes, refused, outcome, signalled, ended>>

(* A 4xx for good, such as the 403 for the nonce of an agent that was retried. *)
EventsRefused ==
  /\ Runs /\ sending
  /\ sending' = FALSE
  /\ \/ \E first, last \in 1..pushed : Events!Drop(first, last) /\ Events!Settles
     \/ Events!Drained
     \/ Events!GivenUp /\ UNCHANGED events
  /\ DrainedByLast
  /\ UNCHANGED <<dispatch, stage, tries, claudes, refused, outcome, signalled, ended>>

EventsGone ==
  /\ Runs /\ sending /\ agent \in Final
  /\ sending' = FALSE
  /\ IF unwanted
     THEN UNCHANGED <<events, refused, claude>>
     ELSE unwanted' = TRUE /\ seen' = agent /\ Abandon /\ StopClaude
  /\ UNCHANGED <<dispatch, stage, tries, wrote, failure, pastDeadline, outcome, signalled, ended>>

Expire ==
  /\ Runs /\ closed = "pending"
  /\ closed' = "expired" /\ Events!GiveUp
  /\ UNCHANGED <<sending, dispatch, stage, tries, claudes, refused, outcome, signalled, ended>>

-----------------------------------------------------------------------------
(* finish(), from the transcript on.  close() follows the transcript at once. *)
TranscriptCloses ==
  /\ Goes("transcript")
  /\ stage' = "drain"
  /\ IF Events!GivenUp THEN UNCHANGED events
     ELSE Events!Close /\ (closed' = "drained" <=> Events!Waiting = {} /\ ~sending)
  /\ UNCHANGED <<sending, dispatch, tries, claudes, refused, outcome, signalled, ended>>

DrainEnds ==
  /\ Goes("drain")
  /\ closed # "pending"
  /\ stage' = "upload"
  /\ UNCHANGED <<events, sending, dispatch, tries, claudes, refused, outcome, signalled, ended>>

(* Whatever the upload comes to. *)
UploadEnds ==
  /\ Goes("upload")
  /\ IF unwanted
     THEN code' = ExitWhenUnwanted(seen) /\ stage' = "over"
     ELSE stage' = "report" /\ UNCHANGED code
  /\ tries' = 0
  /\ UNCHANGED <<events, sending, dispatch, claudes, refused, outcome, signalled, step>>

(* report(): what there is to report, and what finish() makes of how that went. *)
ToReport == IF failure # None THEN failure ELSE wrote
AsOutcome(report) == IF report \in {"clear", "hazards"} THEN report ELSE "failure"
(* Faulty: a queue that was not drained does not show. *)
CodeForVerdict(result) == IF result = "clear" /\ ~pastDeadline THEN "green" ELSE "red"

CodeFor(result) ==
  IF closed # "expired" /\ result = "clear" /\ ~pastDeadline THEN "green" ELSE "red"

Ends(result, as) ==
  /\ outcome' = result
  /\ stage' = "over"
  /\ code' = IF cancelled THEN code ELSE as

(* The batcher had a 410 since: the report is not sent. *)
NothingToReport ==
  /\ stage = "report" /\ code = None /\ unwanted
  /\ Ends(AsOutcome(ToReport), ExitWhenUnwanted(seen))
  /\ UNCHANGED <<events, sending, dispatch, tries, claudes, refused, signalled, step>>

ReportTaken ==
  /\ stage = "report" /\ code = None /\ ~unwanted /\ agent = "live"
  /\ Take(ToReport)
  /\ Ends(AsOutcome(ToReport), CodeFor(AsOutcome(ToReport)))
  /\ UNCHANGED <<events, sending, late, tries, claudes, refused, signalled, step>>

(* Faulty: a verdict that gets a 410 counts as reported. *)
ReportGoneAsTaken ==
  /\ stage = "report" /\ code = None /\ ~unwanted /\ agent \in Final
  /\ unwanted' = TRUE /\ seen' = agent
  /\ Abandon
  /\ Ends(AsOutcome(ToReport), CodeFor(AsOutcome(ToReport)))
  /\ UNCHANGED <<sending, dispatch, tries, claudes, signalled, step>>

ReportGone ==
  /\ stage = "report" /\ code = None /\ ~unwanted /\ agent \in Final
  /\ unwanted' = TRUE /\ seen' = agent
  /\ Abandon
  /\ Ends(AsOutcome(ToReport), ExitWhenUnwanted(agent))
  /\ UNCHANGED <<sending, dispatch, tries, claudes, signalled, step>>

ReportRefused ==
  /\ stage = "report" /\ code = None /\ ~unwanted
  /\ Ends("undelivered", "red")
  /\ UNCHANGED <<events, sending, dispatch, tries, claudes, refused, signalled, step>>

(* An attempt nobody answered; the last one ends the job red. *)
ReportFails ==
  /\ stage = "report" /\ code = None /\ ~unwanted
  /\ Untold(ToReport)
  /\ IF tries + 1 < MaxTries
     THEN tries' = tries + 1 /\ UNCHANGED <<stage, outcome, code>>
     ELSE Ends("undelivered", "red") /\ UNCHANGED tries
  /\ UNCHANGED <<events, sending, claudes, refused, signalled, step>>

-----------------------------------------------------------------------------
(* Signals, and finishCancelled(). *)
KilledEarly ==
  /\ stage \in {"brief", "setup"} /\ code = None /\ signals < MaxSignals
  /\ signals' = signals + 1
  /\ code' = "red" /\ stage' = "over"
  /\ UNCHANGED <<events, sending, dispatch, tries, claudes, refused, outcome, cancelled, cancel, step>>

Signal ==
  /\ Runs /\ stage # "setup" /\ ~cancelled /\ signals < MaxSignals
  /\ signals' = signals + 1
  /\ cancelled' = TRUE
  /\ cancel' = IF claude = None THEN "transcript" ELSE "claude"
  /\ Abandon
  /\ StopClaude
  /\ UNCHANGED <<sending, dispatch, stage, tries, wrote, failure, pastDeadline, refused, outcome, ended>>

(* A request of report() may be under way when the process exits. *)
LeavesBehind ==
  \/ UNCHANGED late
  \/ stage = "report" /\ ~unwanted /\ late' = late \union {ToReport}

SecondSignal ==
  /\ Runs /\ cancelled /\ signals < MaxSignals
  /\ signals' = signals + 1
  /\ claude' = IF claude \in {"running", "stopping"} THEN "killed" ELSE claude
  /\ code' = "red"
  /\ LeavesBehind
  /\ UNCHANGED <<events, sending, agent, reason, stage, tries, wrote, failure, pastDeadline, refused,
                 outcome, cancelled, cancel, step>>

(* Its wait is over by the time SIGKILL, whose timer is as long and set first, was sent. *)
CancelClaude ==
  /\ cancel = "claude" /\ code = None
  /\ claude \in {"killed", "exited", "closed"}
  /\ cancel' = "transcript"
  /\ UNCHANGED <<events, sending, dispatch, stage, tries, claudes, refused, outcome, cancelled, signals,
                 ended>>

CancelTranscript ==
  /\ cancel = "transcript" /\ code = None
  /\ cancel' = "upload"
  /\ UNCHANGED <<events, sending, dispatch, stage, tries, claudes, refused, outcome, cancelled, signals,
                 ended>>

CancelUpload ==
  /\ cancel = "upload" /\ code = None
  /\ cancel' = "report"
  /\ UNCHANGED <<events, sending, dispatch, stage, tries, claudes, refused, outcome, cancelled, signals,
                 ended>>

(* Once, whatever becomes of it; and not at all after a 410. *)
CancelReport ==
  /\ cancel = "report" /\ code = None
  /\ code' = "red"
  /\ IF unwanted
     THEN UNCHANGED <<agent, reason, late>>
     ELSE \/ agent = "live" /\ Take("cancelled") /\ LeavesBehind
          \/ late' = late \union {"cancelled"} /\ UNCHANGED <<agent, reason>>
          \/ LeavesBehind /\ UNCHANGED <<agent, reason>>
  /\ UNCHANGED <<events, sending, stage, tries, claudes, refused, outcome, signalled, step>>

-----------------------------------------------------------------------------
(* The workflow's last step, once the job failed. *)
ReportStep ==
  /\ code = "red" /\ step = None
  /\ \/ step' = "failed" /\ UNCHANGED <<agent, reason>>
     \/ step' = "told" /\ agent = "live" /\ Take("ended")
     \/ step' = "told" /\ agent \in Final /\ UNCHANGED <<agent, reason>>
  /\ UNCHANGED <<events, sending, late, stage, tries, claudes, refused, outcome, signalled, code>>

LateReport ==
  \E report \in late :
    /\ late' = late \ {report}
    /\ IF agent = "live" THEN Take(report) ELSE UNCHANGED <<agent, reason>>
    /\ UNCHANGED <<events, sending, stage, tries, claudes, refused, outcome, signalled, ended>>

(* Dispatch: the run is stopped, the agent's time is up; the owner retries a failed agent. *)
Halts ==
  /\ agent = "live"
  /\ \/ agent' = "stopped" /\ UNCHANGED reason
     \/ agent' = "error" /\ reason' = "dispatch"
  /\ UNCHANGED <<events, sending, late, stage, tries, claudes, refused, outcome, signalled, ended>>

Retried ==
  /\ agent = "error"
  /\ agent' = "retried"
  /\ UNCHANGED <<events, sending, reason, late, stage, tries, claudes, refused, outcome, signalled, ended>>

Next ==
  \/ Briefed \/ BriefGone \/ BriefFails \/ BriefRefused
  \/ Setup \/ StartClaude \/ CannotStart
  \/ Prints \/ Deadline \/ Kill \/ ClaudeExits \/ ClaudeCloses
  \/ SendEvents \/ EventsTaken \/ EventsFail \/ EventsRefused \/ EventsGone \/ Expire
  \/ TranscriptCloses \/ DrainEnds \/ UploadEnds
  \/ NothingToReport \/ ReportTaken \/ ReportGone \/ ReportRefused \/ ReportFails
  \/ KilledEarly \/ Signal \/ SecondSignal
  \/ CancelClaude \/ CancelTranscript \/ CancelUpload \/ CancelReport
  \/ ReportStep \/ LateReport \/ Halts \/ Retried

Spec == Init /\ [][Next]_vars

(* Timers only - the requests' timeouts among them - and what the process does by itself; SIGKILL
   ends claude.  Nothing is asked of Dispatch, the network, or of a claude that was not killed. *)
Fairness ==
  /\ WF_vars(BriefFails) /\ WF_vars(Setup) /\ WF_vars(StartClaude)
  /\ WF_vars(Deadline) /\ WF_vars(Kill)
  /\ WF_vars(claude = "killed" /\ ClaudeExits) /\ WF_vars(ClaudeCloses)
  /\ WF_vars(Expire)
  /\ WF_vars(TranscriptCloses) /\ WF_vars(DrainEnds) /\ WF_vars(UploadEnds)
  /\ WF_vars(NothingToReport) /\ WF_vars(ReportFails)
  /\ WF_vars(CancelClaude) /\ WF_vars(CancelTranscript) /\ WF_vars(CancelUpload) /\ WF_vars(CancelReport)

FairSpec == Spec /\ Fairness

-----------------------------------------------------------------------------
(* "Green means the review passed", or that the run stopped needing it:    *)
(* whatever was lost, late or retried on the way, a job that ends green    *)
(* has Dispatch hold its agent as clear or stopped.                        *)
GreenMeansPassed == code = "green" => agent \in {"clear", "stopped"}

(* And the other way: a job is red although Dispatch has its review as     *)
(* clear only if it was cancelled, if events were left behind, or if no    *)
(* answer to the verdict ever came.                                        *)
RedHasACause ==
  code = "red" /\ agent = "clear" =>
    cancelled \/ closed = "expired" \/ outcome = "undelivered"

(* A green job that Dispatch wanted to the end left no event unanswered.   *)
GreenMeansTold == code = "green" /\ ~unwanted /\ stage = "over" /\ outcome # None =>
                    closed = "drained" /\ Events!Waiting = {}

(* The deadline's reason is what Dispatch gets, never the verdict of a     *)
(* claude that was past it.                                                *)
VerdictInTime == pastDeadline => agent \notin {"clear", "hazards"}

(* No claude is left behind unkilled, whichever way the job ends: by       *)
(* itself, by a 410, past the deadline, or by one signal or two at any     *)
(* point.                                                                  *)
NoClaudeLeft == code # None => claude \notin {"running", "stopping"}

(* The job ends, by its own timers alone. *)
JobEnds == <>(code # None)
=============================================================================
