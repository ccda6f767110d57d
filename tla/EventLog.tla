------------------------------ MODULE EventLog ------------------------------
(***************************************************************************)
(* What the forwarder's batcher and Dispatch's event log promise together: *)
(* the events an agent's job pushes reach the log in the order they were   *)
(* pushed, none twice, none skipped - but for the ones given up, whose     *)
(* request may still be under way and come in late - and a batcher that    *)
(* says it is drained has an answer from Dispatch for every event.         *)
(* Events are named by their place among all the events pushed.            *)
(***************************************************************************)
EXTENDS Integers, Sequences, Functions

CONSTANT MaxEvents    \* bound: events pushed

VARIABLES
  pushed,   \* how many events were pushed
  log,      \* Dispatch's log
  lost,     \* the events given up: dropped on a refusal, abandoned, or their job's end
  closed    \* where the batcher is

vars == <<pushed, log, lost, closed>>

TypeOK ==
  /\ pushed \in Nat
  /\ log \in Seq(1..pushed)
  /\ lost \subseteq 1..pushed
  /\ closed \in {"open", "pending", "drained", "expired", "abandoned"}

(* The events Dispatch has yet to answer for. *)
Waiting == {e \in 1..pushed : e \notin Range(log) \union lost}
Ascending(first, last) == [i \in 1..(last - first + 1) |-> first + i - 1]
GivenUp == closed \in {"expired", "abandoned"}

Init ==
  /\ pushed = 0
  /\ log = <<>>
  /\ lost = {}
  /\ closed = "open"

Push ==
  /\ pushed < MaxEvents
  /\ ~GivenUp
  /\ pushed' = pushed + 1
  /\ UNCHANGED <<log, lost, closed>>

(* The oldest events that wait, any number of them. *)
Oldest(first, last) ==
  /\ first <= last
  /\ first..last \subseteq Waiting
  /\ \A e \in Waiting : first <= e

(* They reach the log; or Dispatch refuses them for good. *)
Deliver(first, last) ==
  /\ Oldest(first, last)
  /\ log' = log \o Ascending(first, last)
  /\ UNCHANGED <<pushed, lost>>

Drop(first, last) ==
  /\ Oldest(first, last)
  /\ lost' = lost \union first..last
  /\ UNCHANGED <<pushed, log>>

(* The request for events given up comes in after all. *)
Straggle(first, last) ==
  /\ first <= last
  /\ first..last \subseteq lost \ Range(log)
  /\ log' = log \o Ascending(first, last)
  /\ UNCHANGED <<pushed, lost, closed>>

(* A closing batcher is drained by the answer for the last event, or at once when none waits. *)
Settles == closed' = closed \/ (closed = "pending" /\ Waiting' = {} /\ closed' = "drained")

Answered ==
  \E first, last \in 1..pushed :
    /\ Deliver(first, last) \/ Drop(first, last)
    /\ Settles

Close ==
  /\ closed = "open"
  /\ closed' = "pending" \/ (Waiting = {} /\ closed' = "drained")
  /\ UNCHANGED <<pushed, log, lost>>

(* The answer to a request whose events the log had got from an earlier one. *)
Drained ==
  /\ closed = "pending"
  /\ Waiting = {}
  /\ closed' = "drained"
  /\ UNCHANGED <<pushed, log, lost>>

GiveUp ==
  /\ closed' \in {"expired", "abandoned"}
  /\ lost' = lost \union Waiting
  /\ UNCHANGED <<pushed, log>>

(* The job ends, however it ends, and another one of the same agent starts. *)
Restart ==
  /\ closed' = "open"
  /\ lost' = lost \union Waiting
  /\ UNCHANGED <<pushed, log>>

Next ==
  \/ Push \/ Answered \/ Close \/ Drained \/ GiveUp \/ Restart
  \/ \E first, last \in 1..pushed : Straggle(first, last)

Spec == Init /\ [][Next]_vars

-----------------------------------------------------------------------------
(* The log holds no event twice, and the events never given up are in it   *)
(* in the order they were pushed, each only after every earlier one.       *)
InOrder ==
  /\ \A i, j \in DOMAIN log : log[i] = log[j] => i = j
  /\ \A i, j \in DOMAIN log :
       log[i] \notin lost /\ log[j] \notin lost /\ i < j => log[i] < log[j]
  /\ \A i \in DOMAIN log : \A e \in Waiting : log[i] \notin lost => log[i] < e

(* Once drained, nothing waits for Dispatch but what is pushed later. *)
DrainedLeavesNone == [][closed # "drained" /\ closed' = "drained" => Waiting' = {}]_vars
=============================================================================
