------------------------------ MODULE Batcher ------------------------------
(***************************************************************************)
(* The forwarder's batcher (forwarder/src/batcher.ts) against Dispatch's   *)
(* event log (RunDO.events, appendLog), over the jobs of one agent: a job  *)
(* may end at any point, be run again by GitHub under the same nonce, or   *)
(* be replaced by the owner's retry, whose nonce is new.                   *)
(*                                                                         *)
(* What JavaScript runs without returning to the event loop is one step:   *)
(* a send's answer, the end of deliver, drain's loop, its finally and the  *)
(* flush that awaits it.  Time is left out: a timer that is set may fire.  *)
(* A request has three fates: answered, failed before Dispatch took it, or *)
(* failed for the forwarder while Dispatch took it or still will (late).   *)
(***************************************************************************)
EXTENDS Integers, Sequences, SequencesExt, FiniteSetsExt

CONSTANTS
  MaxEvents,           \* bound: events pushed over all jobs
  Size,                \* the bytes of each event
  MaxBatch,            \* a batch's most events
  BATCH_MAX_BYTES,     \* a batch of several events stays under it
  SEQ_PER_ATTEMPT,     \* the numbers each attempt of a job has, and the most events it pushes
  RETRY_SEQ_STRIDE,    \* the numbers each retry of an agent has
  MaxAttempts,         \* bound: attempts of one job
  MaxRetries           \* bound: the owner's retries of the agent

ASSUME BatcherAssumption ==
  /\ MaxEvents \in Nat /\ MaxBatch \in Nat \ {0} /\ BATCH_MAX_BYTES \in Nat
  /\ Size \in [1..MaxEvents -> Nat]
  /\ SEQ_PER_ATTEMPT \in Nat \ {0} /\ MaxAttempts \in Nat \ {0} /\ MaxRetries \in Nat
  /\ RETRY_SEQ_STRIDE \in Nat /\ RETRY_SEQ_STRIDE >= MaxAttempts * SEQ_PER_ATTEMPT

VARIABLES
  queue, batch,        \* the events that wait, and the ones deliver sends
  draining,            \* whether drain runs, and whether it sends or sleeps
  timer,               \* whether the interval's timer is set
  closing, abandoned,  \* the flags
  close,               \* what close() came to
  attempt, seq,        \* the job's attempt, and its next number
  retries,             \* Dispatch: the agent's retries
  wanted,              \* Dispatch: whether it takes the agent's reports
  log,                 \* Dispatch: the event log
  late,                \* requests the forwarder gave up on that Dispatch may still take
  pushed, lost         \* history: how many events were pushed, and the ones given up

flags == <<closing, abandoned, close>>
job == <<attempt, seq, retries>>
history == <<pushed, lost>>
vars == <<queue, batch, draining, timer, flags, job, wanted, log, late, history>>

Event == [id : 1..MaxEvents, seq : Nat]
IdsOf(events) == {e.id : e \in Range(events)}
Logged == IdsOf(log)

-----------------------------------------------------------------------------
(* Dispatch: each event under the agent's own number, unless the log holds that number. *)
Insert(rows, e) ==
  IF \E i \in DOMAIN rows : rows[i].seq = e.seq THEN rows ELSE Append(rows, e)
Stamped(e) == [e EXCEPT !.seq = @ + retries * RETRY_SEQ_STRIDE]
Land(events) ==
  LET rows[n \in 0..Len(events)] ==
        IF n = 0 THEN log ELSE Insert(rows[n - 1], Stamped(events[n]))
  IN  rows[Len(events)]

(* Faulty: a re-run counts from 0 again. *)
FirstSeqAgain(n) == 0

(* run.ts firstSeq *)
FirstSeq(n) == (n - 1) * SEQ_PER_ATTEMPT

-----------------------------------------------------------------------------
(* The brackets, and a comma after every event. *)
BytesOf(events) == FoldLeft(LAMBDA bytes, e : bytes + Size[e.id] + 1, 1, events)

(* takeBatch: as many events as fit, and one even when it does not. *)
Fits(q, n) == n = 1 \/ (n <= MaxBatch /\ BytesOf(SubSeq(q, 1, n)) < BATCH_MAX_BYTES)
TakeBatch(q) == Max({n \in 1..Len(q) : \A m \in 1..n : Fits(q, m)})

Send(q) ==
  /\ batch' = SubSeq(q, 1, TakeBatch(q))
  /\ queue' = SubSeq(q, TakeBatch(q) + 1, Len(q))
  /\ draining' = "sending"

Start(q) ==
  IF draining = "no" /\ ~abandoned /\ q # <<>>
  THEN Send(q)
  ELSE queue' = q /\ UNCHANGED <<batch, draining>>

(* Faulty: what was pushed during a send waits for another push. *)
DeliveredUntimed ==
  IF ~abandoned /\ queue # <<>> /\ (closing \/ Len(queue) >= MaxBatch)
  THEN Send(queue) /\ UNCHANGED <<timer, close>>
  ELSE /\ batch' = <<>> /\ draining' = "no"
       /\ close' = IF close = "pending" THEN "drained" ELSE close
       /\ UNCHANGED <<queue, timer>>

(* deliver has returned: drain's loop, or its finally and the flush that waited for it. *)
Delivered ==
  IF ~abandoned /\ queue # <<>> /\ (closing \/ Len(queue) >= MaxBatch)
  THEN Send(queue) /\ UNCHANGED <<timer, close>>
  ELSE /\ batch' = <<>> /\ draining' = "no"
       /\ timer' = (timer \/ (queue # <<>> /\ ~closing /\ ~abandoned))
       /\ close' = IF close = "pending" THEN "drained" ELSE close
       /\ UNCHANGED queue

-----------------------------------------------------------------------------
Init ==
  /\ queue = <<>> /\ batch = <<>>
  /\ draining = "no"
  /\ timer = FALSE
  /\ closing = FALSE /\ abandoned = FALSE /\ close = "open"
  /\ attempt = 1 /\ seq = FirstSeq(1)
  /\ retries = 0 /\ wanted = TRUE
  /\ log = <<>> /\ late = {}
  /\ pushed = 0 /\ lost = {}

Push ==
  /\ pushed < MaxEvents /\ seq < attempt * SEQ_PER_ATTEMPT
  /\ pushed' = pushed + 1 /\ seq' = seq + 1
  /\ ~abandoned
  /\ LET q == Append(queue, [id |-> pushed + 1, seq |-> seq])
     IN  IF Len(q) >= MaxBatch
         THEN Start(q) /\ UNCHANGED timer
         ELSE queue' = q /\ timer' = TRUE /\ UNCHANGED <<batch, draining>>
  /\ UNCHANGED <<flags, attempt, retries, wanted, log, late, lost>>

Tick ==
  /\ timer
  /\ timer' = FALSE
  /\ Start(queue)
  /\ UNCHANGED <<flags, job, wanted, log, late, history>>

Accepted ==
  /\ draining = "sending" /\ wanted
  /\ log' = Land(batch)
  /\ Delivered
  /\ UNCHANGED <<closing, abandoned, job, wanted, late, history>>

(* A network error, a timeout, a 408, a 429 or a 5xx: deliver waits out its delay. *)
Fails ==
  /\ draining = "sending"
  /\ draining' = "sleeping"
  /\ \/ UNCHANGED <<log, late>>
     \/ wanted /\ log' = Land(batch) /\ UNCHANGED late
     \/ wanted /\ late' = late \union {batch} /\ UNCHANGED log
  /\ UNCHANGED <<queue, batch, timer, flags, job, wanted, history>>

(* Another 4xx: the batch is dropped. *)
Refused ==
  /\ draining = "sending"
  /\ lost' = lost \union (IdsOf(batch) \ Logged)
  /\ Delivered
  /\ UNCHANGED <<closing, abandoned, job, wanted, log, late, pushed>>

(* What abandon() leaves, of the queue and of the flags. *)
Abandoning ==
  /\ abandoned' = TRUE
  /\ queue' = <<>> /\ timer' = FALSE
  /\ close' = IF close = "pending" THEN "released" ELSE close
  /\ lost' = lost \union (IdsOf(batch \o queue) \ Logged)

(* A 410: run.ts unlessUnwanted abandons the batcher from within the send. *)
Unwanted ==
  /\ draining = "sending" /\ ~wanted
  /\ Abandoning
  /\ batch' = <<>> /\ draining' = "no"
  /\ UNCHANGED <<closing, job, wanted, log, late, pushed>>

(* Faulty: deliver's loop does not look at abandoned; or gives a failed batch up. *)
WakeToSend ==
  /\ draining = "sleeping"
  /\ draining' = "sending"
  /\ UNCHANGED <<queue, batch, timer, flags, job, wanted, log, late, history>>

WakeToStop ==
  /\ draining = "sleeping"
  /\ Delivered
  /\ UNCHANGED <<closing, abandoned, job, wanted, log, late, history>>

(* The delay is over. *)
Wake ==
  /\ draining = "sleeping"
  /\ IF abandoned
     THEN Delivered
     ELSE draining' = "sending" /\ UNCHANGED <<queue, batch, timer, close>>
  /\ UNCHANGED <<closing, abandoned, job, wanted, log, late, history>>

Close ==
  /\ close = "open"
  /\ closing' = TRUE
  /\ timer' = FALSE
  /\ IF abandoned
     THEN close' = "released" /\ UNCHANGED <<queue, batch, draining>>
     ELSE /\ close' = IF queue = <<>> /\ draining = "no" THEN "drained" ELSE "pending"
          /\ IF draining = "sleeping"
             THEN draining' = "sending" /\ UNCHANGED <<queue, batch>>
             ELSE Start(queue)
  /\ UNCHANGED <<abandoned, job, wanted, log, late, history>>

(* A sleeping deliver returns at once, which ends the drain; a send goes on. *)
StopSleeping ==
  IF draining = "sleeping"
  THEN draining' = "no" /\ batch' = <<>>
  ELSE UNCHANGED <<draining, batch>>

Expire ==
  /\ close = "pending"
  /\ close' = "expired"
  /\ abandoned' = TRUE
  /\ lost' = lost \union (IdsOf(batch \o queue) \ Logged)
  /\ StopSleeping
  /\ UNCHANGED <<queue, timer, closing, job, wanted, log, late, pushed>>

Abandon ==
  /\ ~abandoned
  /\ Abandoning
  /\ StopSleeping
  /\ UNCHANGED <<closing, job, wanted, log, late, pushed>>

-----------------------------------------------------------------------------
(* Dispatch takes a request the forwarder had given up on. *)
LateArrival ==
  \E events \in late :
    /\ late' = late \ {events}
    /\ log' = IF wanted THEN Land(events) ELSE log
    /\ UNCHANGED <<queue, batch, draining, timer, flags, job, wanted, history>>

(* The agent reports, times out or is stopped. *)
Finish ==
  /\ wanted
  /\ wanted' = FALSE
  /\ UNCHANGED <<queue, batch, draining, timer, flags, job, log, late, history>>

(* The job ends with what it held, and its batcher with it. *)
Ends ==
  /\ queue' = <<>> /\ batch' = <<>>
  /\ draining' = "no"
  /\ timer' = FALSE
  /\ closing' = FALSE /\ abandoned' = FALSE /\ close' = "open"
  /\ lost' = lost \union (IdsOf(batch \o queue) \ Logged)
  /\ UNCHANGED <<log, pushed>>

(* GitHub runs the job again, with the same nonce. *)
Rerun ==
  /\ attempt < MaxAttempts /\ wanted
  /\ Ends
  /\ attempt' = attempt + 1 /\ seq' = FirstSeq(attempt + 1)
  /\ late' = IF draining = "sending" THEN late \union {batch} ELSE late
  /\ UNCHANGED <<retries, wanted>>

(* The owner runs the agent again: Dispatch takes nothing under the old nonce any more. *)
Retry ==
  /\ retries < MaxRetries /\ ~wanted
  /\ Ends
  /\ retries' = retries + 1 /\ wanted' = TRUE
  /\ attempt' = 1 /\ seq' = FirstSeq(1)
  /\ late' = {}

Next ==
  \/ Push \/ Tick \/ Accepted \/ Fails \/ Refused \/ Unwanted \/ Wake
  \/ Close \/ Expire \/ Abandon
  \/ LateArrival \/ Finish \/ Rerun \/ Retry

Spec == Init /\ [][Next]_vars

(* Timers fire and requests are answered; Dispatch, wherever it is down, comes back. *)
Fairness ==
  /\ WF_vars(Tick) /\ WF_vars(Wake)
  /\ SF_vars(Accepted) /\ SF_vars(Unwanted)

FairSpec == Spec /\ Fairness

-----------------------------------------------------------------------------
(* The comments of start() and drain(): whatever interleaving of pushes,   *)
(* the timer, answers and close() came before, an event in the queue has   *)
(* something that will send it, and a close() that waits has a drain to    *)
(* wait for.                                                               *)
NothingStranded ==
  /\ queue # <<>> /\ ~abandoned => timer \/ draining # "no"
  /\ close = "pending" => draining # "no"

(* The contract of abandon(), "sends nothing more", and of a close() that  *)
(* gave up: from then on no batch is taken and no send is made.            *)
SendsNoMore ==
  [][abandoned /\ abandoned' /\ draining' = "sending" =>
       draining = "sending" /\ batch' = batch]_vars

(* The batcher and the log keep what EventLog promises: events in the log  *)
(* in the order pushed, none twice, none skipped for a number already      *)
(* held, none unanswered when close() resolves as drained; across retried  *)
(* batches, late requests, re-runs and the owner's retries.                *)
Promise == INSTANCE EventLog WITH
  log <- [i \in DOMAIN log |-> log[i].id],
  closed <- IF ~abandoned THEN close ELSE IF close = "expired" THEN "expired" ELSE "abandoned"
KeepsThePromise == Promise!Spec

(* A failed batch "is retried until it goes through": once Dispatch is     *)
(* back for long enough, every event is in the log unless it was given up. *)
EventsArrive == \A e \in 1..MaxEvents : e <= pushed ~> e \in Logged \union lost
=============================================================================
