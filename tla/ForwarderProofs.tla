-------------------------- MODULE ForwarderProofs --------------------------
(***************************************************************************)
(* That the way a job ends agrees with what Dispatch holds, for any number *)
(* of events, attempts and signals, whatever the batcher does.             *)
(***************************************************************************)
EXTENDS Forwarder, TLAPS

Passing == {"clear", "stopped"}
Verdicts == {"clear", "hazards"}

(* Claude is there only from its start, and closed once finish() has gone on. *)
ClaudeInv ==
  /\ stage \in {"brief", "setup", "prompt"} => claude = None /\ ~pastDeadline
  /\ stage \in {"transcript", "drain", "upload", "report", "over"} => claude \in {None, "closed"}
  /\ cancel # None => cancelled
  /\ cancel \in {"transcript", "upload", "report"} => claude \notin {"running", "stopping"}
  /\ code # None => claude \notin {"running", "stopping"}

(* The status a 410 named still stands when it is one a job ends green on. *)
SeenInv ==
  unwanted => /\ agent # "live"
              /\ seen \in Passing => agent = seen
              /\ agent \in Passing => agent = seen

(* A verdict is on its way, or taken, only from the report on, and never past the deadline. *)
VerdictInv ==
  /\ agent \in Verdicts \/ late \cap Verdicts # {} => stage \in {"report", "over"} /\ ~pastDeadline
  /\ pastDeadline /\ stage \in {"transcript", "drain", "upload", "report"} => failure = "deadline"

(* Why a job is red whose verdict may yet be, or is, taken as clear. *)
Cause == cancelled \/ closed = "expired" \/ outcome = "undelivered"
CodeInv ==
  /\ code \in {None, "green", "red"}
  /\ code = "green" => agent \in Passing
  /\ code = "red" /\ (agent = "clear" \/ (agent = "live" /\ "clear" \in late)) => Cause

Inv == ClaudeInv /\ SeenInv /\ VerdictInv /\ CodeInv

LEMMA NextKeeps == ASSUME Inv, [Next]_vars PROVE Inv'
<1> USE DEF Inv, ClaudeInv, SeenInv, VerdictInv, CodeInv, Passing, Verdicts, Cause, None, Final,
            vars, events, dispatch, refused, ended, signalled, claudes, Runs, Goes
(* The brief, and claude's start. *)
<1>1. CASE Briefed
  BY <1>1 DEF Briefed
<1>2. CASE BriefGone
  BY <1>2 DEF BriefGone, ExitWhenUnwanted
<1>3. CASE BriefFails
  BY <1>3 DEF BriefFails
<1>4. CASE BriefRefused
  BY <1>4 DEF BriefRefused
<1>5. CASE Setup
  BY <1>5 DEF Setup
<1>6. CASE StartClaude
  BY <1>6 DEF StartClaude
<1>7. CASE CannotStart
  BY <1>7 DEF CannotStart
(* Claude. *)
<1>8. CASE Prints
  BY <1>8 DEF Prints
<1>9. CASE Deadline
  BY <1>9 DEF Deadline, StopClaude
<1>10. CASE Kill
  BY <1>10 DEF Kill
<1>11. CASE ClaudeExits
  BY <1>11 DEF ClaudeExits
<1>12. CASE ClaudeCloses
  BY <1>12 DEF ClaudeCloses
(* The batcher. *)
<1>13. CASE SendEvents
  BY <1>13 DEF SendEvents
<1>14. CASE EventsTaken
  BY <1>14 DEF EventsTaken
<1>15. CASE EventsFail
  BY <1>15 DEF EventsFail
<1>16. CASE EventsRefused
  BY <1>16 DEF EventsRefused
<1>17. CASE EventsGone
  BY <1>17 DEF EventsGone, StopClaude, Abandon
<1>18. CASE Expire
  BY <1>18 DEF Expire
(* finish(), from the transcript on. *)
<1>19. CASE TranscriptCloses
  BY <1>19 DEF TranscriptCloses
<1>20. CASE DrainEnds
  BY <1>20 DEF DrainEnds
<1>21. CASE UploadEnds
  BY <1>21 DEF UploadEnds, ExitWhenUnwanted
<1>22. CASE NothingToReport
  BY <1>22 DEF NothingToReport, Ends, ExitWhenUnwanted
<1>23. CASE ReportTaken
  BY <1>23 DEF ReportTaken, Ends, Take, AsOutcome, CodeFor, ToReport
<1>24. CASE ReportGone
  BY <1>24 DEF ReportGone, Ends, ExitWhenUnwanted, Abandon
<1>25. CASE ReportRefused
  BY <1>25 DEF ReportRefused, Ends
<1>26. CASE ReportFails
  BY <1>26 DEF ReportFails, Ends, Untold, Take, ToReport
(* Signals. *)
<1>27. CASE KilledEarly
  BY <1>27 DEF KilledEarly
<1>28. CASE Signal
  BY <1>28 DEF Signal, StopClaude, Abandon
<1>29. CASE SecondSignal
  BY <1>29 DEF SecondSignal, LeavesBehind, ToReport
<1>30. CASE CancelClaude
  BY <1>30 DEF CancelClaude
<1>31. CASE CancelTranscript
  BY <1>31 DEF CancelTranscript
<1>32. CASE CancelUpload
  BY <1>32 DEF CancelUpload
<1>33. CASE CancelReport
  BY <1>33 DEF CancelReport, Take, LeavesBehind, ToReport
(* The workflow and Dispatch. *)
<1>34. CASE ReportStep
  BY <1>34 DEF ReportStep, Take
<1>35. CASE LateReport
  BY <1>35 DEF LateReport, Take
<1>36. CASE Halts
  BY <1>36 DEF Halts
<1>37. CASE Retried
  BY <1>37 DEF Retried
<1>38. CASE UNCHANGED vars
  BY <1>38
<1> QED
  BY <1>1, <1>2, <1>3, <1>4, <1>5, <1>6, <1>7, <1>8, <1>9, <1>10, <1>11, <1>12, <1>13,
     <1>14, <1>15, <1>16, <1>17, <1>18, <1>19, <1>20, <1>21, <1>22, <1>23, <1>24, <1>25,
     <1>26, <1>27, <1>28, <1>29, <1>30, <1>31, <1>32, <1>33, <1>34, <1>35, <1>36, <1>37,
     <1>38 DEF Next

LEMMA InvHolds == Spec => []Inv
<1>1. Init => Inv
  BY DEF Init, Inv, ClaudeInv, SeenInv, VerdictInv, CodeInv, Verdicts, None
<1>2. Inv /\ [Next]_vars => Inv'
  BY NextKeeps
<1> QED BY <1>1, <1>2, PTL DEF Spec

(* GreenMeansPassed: a job that ends green has Dispatch hold its agent as  *)
(* clear or stopped, for good: run.ts finish() and exitWhenUnwanted().     *)
THEOREM GreenTheorem == Spec => []GreenMeansPassed
<1>1. Inv => GreenMeansPassed
  BY DEF Inv, CodeInv, Passing, GreenMeansPassed
<1> QED BY <1>1, InvHolds, PTL

(* RedHasACause: a clear review's job is red only for a signal, events     *)
(* left behind, or a verdict no answer came to, even when the request      *)
(* comes in after the job has ended.                                       *)
THEOREM RedTheorem == Spec => []RedHasACause
<1>1. Inv => RedHasACause
  BY DEF Inv, CodeInv, Cause, RedHasACause
<1> QED BY <1>1, InvHolds, PTL

(* VerdictInTime: Dispatch never takes the verdict of a claude that ran    *)
(* past the deadline.                                                      *)
THEOREM InTimeTheorem == Spec => []VerdictInTime
<1>1. Inv => VerdictInTime
  BY DEF Inv, VerdictInv, Verdicts, VerdictInTime
<1> QED BY <1>1, InvHolds, PTL

(* NoClaudeLeft: however the job ends, claude has exited or was sent       *)
(* SIGKILL.                                                                *)
THEOREM NoClaudeTheorem == Spec => []NoClaudeLeft
<1>1. Inv => NoClaudeLeft
  BY DEF Inv, ClaudeInv, NoClaudeLeft
<1> QED BY <1>1, InvHolds, PTL

-----------------------------------------------------------------------------
(* The event queue, from the transcript on *)

(* The batcher is closed once claude's output has ended, and nobody reports before it is        *)
(* settled; it is abandoned only on a 410 or a signal; drained, it leaves nothing unanswered.   *)
Settled == closed \in {"drained", "expired", "abandoned"}
QueueInv ==
  /\ pushed \in Nat /\ log \in Seq(Nat)
  /\ closed \in {"open", "pending"} \/ Settled
  /\ closed \in {"pending", "drained"} => stage \in {"drain", "upload", "report", "over"}
  /\ stage = "drain" => closed # "open"
  /\ stage \in {"upload", "report"} => Settled
  /\ closed = "abandoned" => unwanted \/ cancelled
  /\ closed = "drained" => Events!Waiting = {}
GreenInv ==
  /\ code = "green" /\ ~unwanted /\ outcome # None => closed = "drained"
  /\ cancelled => code # "green"
  /\ stage = "brief" => ~cancelled /\ outcome = None

DrainInv == QueueInv /\ GreenInv

(* Events that wait are fewer once more of them are in the log. *)
LEMMA LogGrows ==
  ASSUME pushed \in Nat, log \in Seq(Nat), NEW first \in 1..pushed, NEW last \in 1..pushed,
         first <= last, log' = log \o Events!Ascending(first, last),
         pushed' = pushed, lost' = lost
  PROVE  log' \in Seq(Nat) /\ Events!Waiting' \subseteq Events!Waiting
<1> DEFINE added == Events!Ascending(first, last)
<1>1. added \in Seq(Nat)
  <2>1. last - first + 1 \in Nat /\ \A i \in 1..(last - first + 1) : first + i - 1 \in Nat
    OBVIOUS
  <2> QED
    BY <2>1 DEF Events!Ascending
<1> HIDE DEF added
<1>2. log' = log \o added
  BY DEF added
<1>3. log' \in Seq(Nat) /\ \A i \in DOMAIN log : i \in DOMAIN log' /\ log'[i] = log[i]
  BY <1>1, <1>2
<1>4. Events!Waiting' \subseteq Events!Waiting
  BY <1>3 DEF Events!Waiting, Events!Range
<1> QED
  BY <1>3, <1>4

LEMMA TakenAre ==
  ASSUME pushed \in Nat, NEW first \in 1..pushed, NEW last \in 1..pushed, Events!Oldest(first, last)
  PROVE  first <= last /\ Events!Waiting # {}
<1>1. first \in first..last
  BY DEF Events!Oldest
<1> QED
  BY <1>1 DEF Events!Oldest

LEMMA SettlesFacts ==
  ASSUME Events!Settles
  PROVE  closed' = closed \/ (closed = "pending" /\ Events!Waiting' = {} /\ closed' = "drained")
BY DEF Events!Settles, Events!Waiting, Events!Range

(* The answer to a batch: the queue moves on, and may be drained by it. *)
Answers ==
  /\ pushed' = pushed /\ log' \in Seq(Nat) /\ Events!Waiting' \subseteq Events!Waiting
  /\ closed' = closed \/ (closed = "pending" /\ closed' = "drained" /\ Events!Waiting' = {})

LEMMA DeliverAnswers ==
  ASSUME QueueInv, NEW first \in 1..pushed, NEW last \in 1..pushed,
         Events!Deliver(first, last), closed' = closed \/ Events!Settles
  PROVE  Answers
<1>1. first <= last
  BY TakenAre DEF Events!Deliver, QueueInv
<1>2. log' \in Seq(Nat) /\ Events!Waiting' \subseteq Events!Waiting /\ pushed' = pushed
  BY <1>1, LogGrows DEF Events!Deliver, QueueInv
<1> QED
  BY <1>2, SettlesFacts DEF Answers

LEMMA DropAnswers ==
  ASSUME QueueInv, NEW first \in 1..pushed, NEW last \in 1..pushed,
         Events!Drop(first, last), Events!Settles
  PROVE  Answers
<1>1. log' = log /\ pushed' = pushed /\ lost \subseteq lost'
  BY DEF Events!Drop
<1>2. Events!Waiting' \subseteq Events!Waiting
  BY <1>1 DEF Events!Waiting, Events!Range
<1> QED
  BY <1>1, <1>2, SettlesFacts DEF Answers, QueueInv

LEMMA StraggleAnswers ==
  ASSUME QueueInv, NEW first \in 1..pushed, NEW last \in 1..pushed, Events!Straggle(first, last)
  PROVE  Answers
<1>1. log' \in Seq(Nat) /\ Events!Waiting' \subseteq Events!Waiting /\ pushed' = pushed
  BY LogGrows DEF Events!Straggle, QueueInv
<1> QED
  BY <1>1 DEF Answers, Events!Straggle

LEMMA DrainedAnswers == ASSUME QueueInv, Events!Drained PROVE Answers
<1>1. /\ closed = "pending" /\ Events!Waiting = {} /\ closed' = "drained"
      /\ log' = log /\ pushed' = pushed /\ lost' = lost
  BY DEF Events!Drained
<1>2. Events!Waiting' = Events!Waiting
  BY <1>1 DEF Events!Waiting, Events!Range
<1> QED
  BY <1>1, <1>2 DEF Answers, QueueInv

LEMMA SameEvents == ASSUME UNCHANGED events PROVE Events!Waiting' = Events!Waiting
BY DEF events, Events!Waiting, Events!Range

LEMMA SameAnswers == ASSUME QueueInv, UNCHANGED events PROVE Answers
BY SameEvents DEF Answers, QueueInv, events

LEMMA GivingUp ==
  ASSUME QueueInv, Events!GiveUp
  PROVE  pushed' \in Nat /\ log' \in Seq(Nat) /\ closed' \in {"expired", "abandoned"}
BY DEF QueueInv, Events!GiveUp

LEMMA AbandonFacts ==
  ASSUME QueueInv, Abandon
  PROVE  /\ pushed' \in Nat /\ log' \in Seq(Nat)
         /\ closed' = "abandoned" \/ (UNCHANGED events /\ Settled)
<1>1. CASE Events!GivenUp
  BY <1>1 DEF QueueInv, Abandon, events, Events!GivenUp, Settled
<1>2. CASE ~Events!GivenUp
  BY <1>2, GivingUp DEF Abandon
<1> QED
  BY <1>1, <1>2

LEMMA DrainKeeps == ASSUME Inv, DrainInv, [Next]_vars PROVE DrainInv'
<1> USE DEF DrainInv, QueueInv, GreenInv, Settled, None, events, dispatch, refused, ended,
            signalled, claudes, Runs, Goes
<1>0. ASSUME UNCHANGED events PROVE Events!Waiting' = Events!Waiting
  BY <1>0, SameEvents
(* Steps that leave the queue. *)
<1>1. CASE Briefed
  BY <1>0, <1>1 DEF Briefed
<1>2. CASE BriefGone
  BY <1>0, <1>2 DEF BriefGone
<1>3. CASE BriefFails
  BY <1>0, <1>3 DEF BriefFails
<1>4. CASE BriefRefused
  BY <1>0, <1>4 DEF BriefRefused
<1>5. CASE Setup
  BY <1>0, <1>5 DEF Setup
<1>6. CASE StartClaude
  BY <1>0, <1>6 DEF StartClaude
<1>7. CASE CannotStart
  BY <1>0, <1>7 DEF CannotStart
<1>8. CASE Deadline
  BY <1>0, <1>8 DEF Deadline, StopClaude
<1>9. CASE Kill
  BY <1>0, <1>9 DEF Kill
<1>10. CASE ClaudeExits
  BY <1>0, <1>10 DEF ClaudeExits
<1>11. CASE ClaudeCloses
  BY <1>0, <1>11 DEF ClaudeCloses, Inv, ClaudeInv
<1>12. CASE SendEvents
  BY <1>0, <1>12 DEF SendEvents
<1>13. CASE DrainEnds
  BY <1>0, <1>13 DEF DrainEnds
<1>14. CASE UploadEnds
  BY <1>0, <1>14 DEF UploadEnds
<1>15. CASE NothingToReport
  BY <1>0, <1>15 DEF NothingToReport, Ends
<1>16. CASE ReportTaken
  BY <1>0, <1>16 DEF ReportTaken, Ends, CodeFor
<1>17. CASE ReportRefused
  BY <1>0, <1>17 DEF ReportRefused, Ends
<1>18. CASE ReportFails
  BY <1>0, <1>18 DEF ReportFails, Ends
<1>19. CASE KilledEarly
  BY <1>0, <1>19 DEF KilledEarly
<1>20. CASE SecondSignal
  BY <1>0, <1>20 DEF SecondSignal
<1>21. CASE CancelClaude
  BY <1>0, <1>21 DEF CancelClaude
<1>22. CASE CancelTranscript
  BY <1>0, <1>22 DEF CancelTranscript
<1>23. CASE CancelUpload
  BY <1>0, <1>23 DEF CancelUpload
<1>24. CASE CancelReport
  BY <1>0, <1>24 DEF CancelReport
<1>25. CASE ReportStep
  BY <1>0, <1>25 DEF ReportStep
<1>26. CASE LateReport
  BY <1>0, <1>26 DEF LateReport
<1>27. CASE Halts
  BY <1>0, <1>27 DEF Halts
<1>28. CASE Retried
  BY <1>0, <1>28 DEF Retried
(* The queue's own. *)
<1>29. CASE Prints
  <2>1. closed \notin {"pending", "drained"}
    BY <1>29 DEF Prints, Inv, ClaudeInv
  <2>2. pushed' = pushed + 1 /\ log' = log /\ closed' = closed
    BY <1>29 DEF Prints, Events!Push
  <2> QED
    BY <1>29, <2>1, <2>2 DEF Prints
<1>30. CASE EventsTaken
  <2>1. Answers
    BY <1>30, DeliverAnswers, StraggleAnswers, DrainedAnswers, SameAnswers DEF EventsTaken
  <2>2. /\ stage' = stage /\ unwanted' = unwanted /\ cancelled' = cancelled
        /\ code' = code /\ code = None /\ outcome' = outcome
    BY <1>30 DEF EventsTaken
  <2> QED
    BY <2>1, <2>2 DEF Answers
<1>31. CASE EventsFail
  <2>1. Answers
    BY <1>31, DeliverAnswers, SameAnswers DEF EventsFail
  <2>2. /\ stage' = stage /\ unwanted' = unwanted /\ cancelled' = cancelled
        /\ code' = code /\ code = None /\ outcome' = outcome
    BY <1>31 DEF EventsFail
  <2> QED
    BY <2>1, <2>2 DEF Answers
<1>32. CASE EventsRefused
  <2>1. Answers
    BY <1>32, DropAnswers, DrainedAnswers, SameAnswers DEF EventsRefused
  <2>2. /\ stage' = stage /\ unwanted' = unwanted /\ cancelled' = cancelled
        /\ code' = code /\ code = None /\ outcome' = outcome
    BY <1>32 DEF EventsRefused
  <2> QED
    BY <2>1, <2>2 DEF Answers
<1>33. CASE EventsGone
  <2>1. CASE unwanted
    BY <1>0, <1>33, <2>1 DEF EventsGone
  <2>2. CASE ~unwanted
    <3>1. Abandon /\ unwanted' /\ code = None /\ code' = code /\ stage' = stage
          /\ cancelled' = cancelled /\ outcome' = outcome
      BY <1>33, <2>2 DEF EventsGone
    <3> QED
      BY <1>0, <3>1, AbandonFacts DEF None
  <2> QED
    BY <2>1, <2>2
<1>34. CASE Expire
  BY <1>34, GivingUp DEF Expire
<1>35. CASE TranscriptCloses
  <2>1. CASE Events!GivenUp
    BY <1>0, <1>35, <2>1 DEF TranscriptCloses, Events!GivenUp
  <2>2. CASE ~Events!GivenUp
    <3>1. /\ closed' \in {"pending", "drained"}
          /\ closed' = "drained" => Events!Waiting = {}
          /\ pushed' = pushed /\ log' = log /\ lost' = lost
      BY <1>35, <2>2 DEF TranscriptCloses, Events!Close
    <3>2. Events!Waiting' = Events!Waiting
      BY <3>1 DEF Events!Waiting, Events!Range
    <3> QED
      BY <1>35, <3>1, <3>2 DEF TranscriptCloses
  <2> QED
    BY <2>1, <2>2
<1>36. CASE ReportGone
  <2>1. /\ Abandon /\ unwanted' /\ stage' = "over" /\ cancelled' = cancelled
        /\ cancelled => code' = None
    BY <1>36 DEF ReportGone, Ends
  <2> QED
    BY <1>0, <2>1, AbandonFacts DEF None
<1>37. CASE Signal
  <2>1. /\ Abandon /\ cancelled' /\ code = None /\ code' = code
        /\ stage # "brief" /\ stage' = stage
    BY <1>37 DEF Signal
  <2> QED
    BY <1>0, <2>1, AbandonFacts DEF None
<1>38. CASE UNCHANGED vars
  BY <1>0, <1>38 DEF vars
<1> QED
  BY <1>1, <1>2, <1>3, <1>4, <1>5, <1>6, <1>7, <1>8, <1>9, <1>10, <1>11, <1>12, <1>13, <1>14,
     <1>15, <1>16, <1>17, <1>18, <1>19, <1>20, <1>21, <1>22, <1>23, <1>24, <1>25, <1>26, <1>27,
     <1>28, <1>29, <1>30, <1>31, <1>32, <1>33, <1>34, <1>35, <1>36, <1>37, <1>38 DEF Next

LEMMA DrainHolds == Spec => [](Inv /\ DrainInv)
<1>1. Init => Inv /\ DrainInv
  <2>1. Init => Inv
    BY DEF Init, Inv, ClaudeInv, SeenInv, VerdictInv, CodeInv, Verdicts, None
  <2>2. Init => DrainInv
    BY DEF Init, Events!Init, DrainInv, QueueInv, GreenInv, None
  <2> QED
    BY <2>1, <2>2
<1>2. Inv /\ DrainInv /\ [Next]_vars => (Inv /\ DrainInv)'
  BY NextKeeps, DrainKeeps
<1> QED BY <1>1, <1>2, PTL DEF Spec

(* GreenMeansTold: a job that ends green and was never told that nobody wants its reports       *)
(* anymore has closed its batcher drained, with no event Dispatch did not answer for.            *)
THEOREM GreenToldTheorem == Spec => []GreenMeansTold
<1>1. DrainInv => GreenMeansTold
  BY DEF DrainInv, QueueInv, GreenInv, GreenMeansTold
<1> QED BY <1>1, DrainHolds, PTL
=============================================================================
