--------------------------- MODULE EventLogProofs ---------------------------
(***************************************************************************)
(* That the promise of EventLog gives the order of the log, whatever the   *)
(* number of events.                                                       *)
(***************************************************************************)
EXTENDS EventLog, TLAPS

Inv == TypeOK /\ InOrder

(* Two sequences, one after the other. *)
LEMMA Concat ==
  ASSUME NEW S, NEW s \in Seq(S), NEW t \in Seq(S)
  PROVE  /\ s \o t \in Seq(S) /\ Len(s \o t) = Len(s) + Len(t)
         /\ \A i \in 1..Len(s) : (s \o t)[i] = s[i]
         /\ \A i \in 1..Len(t) : (s \o t)[Len(s) + i] = t[i]
OBVIOUS

LEMMA Wider == ASSUME NEW S, NEW T, S \subseteq T, NEW s \in Seq(S) PROVE s \in Seq(T)
<1>1. Len(s) \in Nat /\ s \in [1..Len(s) -> S]
  OBVIOUS
<1>2. s \in [1..Len(s) -> T]
  BY <1>1
<1> QED BY <1>1, <1>2

(* A batch appended to the log: what is in the log then, and where. *)
LEMMA Appended ==
  ASSUME TypeOK,
         NEW first \in 1..pushed, NEW last \in 1..pushed, first <= last,
         log' = log \o Ascending(first, last)
  PROVE  /\ log' \in Seq(1..pushed)
         /\ \A i \in DOMAIN log : i \in DOMAIN log' /\ log'[i] = log[i]
         /\ \A i \in DOMAIN log' : i \notin DOMAIN log =>
              i > Len(log) /\ log'[i] = first + (i - Len(log)) - 1 /\ log'[i] \in first..last
         /\ Range(log') = Range(log) \union first..last
<1> DEFINE added == Ascending(first, last)
<1>0. pushed \in Nat /\ log \in Seq(1..pushed)
  BY DEF TypeOK
<1>1. added \in Seq(1..pushed) /\ Len(added) = last - first + 1
  BY <1>0 DEF Ascending
<1>2. \A i \in 1..Len(added) : added[i] = first + i - 1
  BY <1>0, <1>1 DEF Ascending
<1>3. log' = log \o added
  BY DEF added
<1> HIDE DEF added
<1>4. /\ log' \in Seq(1..pushed) /\ Len(log') = Len(log) + Len(added)
      /\ \A i \in 1..Len(log) : log'[i] = log[i]
      /\ \A i \in 1..Len(added) : log'[Len(log) + i] = added[i]
  <2> DEFINE S == 1..pushed
  <2>1. log \in Seq(S) /\ added \in Seq(S)
    BY <1>0, <1>1
  <2> HIDE DEF S
  <2>2. /\ log' \in Seq(S) /\ Len(log') = Len(log) + Len(added)
        /\ \A i \in 1..Len(log) : log'[i] = log[i]
        /\ \A i \in 1..Len(added) : log'[Len(log) + i] = added[i]
    BY <2>1, <1>3, Concat
  <2> QED BY <2>2 DEF S
<1>5. /\ DOMAIN log' = 1..Len(log') /\ DOMAIN log = 1..Len(log)
      /\ Len(log) \in Nat /\ Len(log') \in Nat /\ Len(added) \in Nat
  BY <1>0, <1>1, <1>4
<1>6. \A i \in 1..Len(log) : i \in 1..Len(log')
  BY <1>4, <1>5
<1>7. \A i \in 1..Len(log') : i \notin 1..Len(log) =>
        i > Len(log) /\ log'[i] = first + (i - Len(log)) - 1 /\ log'[i] \in first..last
  <2> SUFFICES ASSUME NEW i \in 1..Len(log'), i \notin 1..Len(log)
               PROVE  i > Len(log) /\ log'[i] = first + (i - Len(log)) - 1
                      /\ log'[i] \in first..last
    OBVIOUS
  <2>1. i > Len(log) /\ i - Len(log) \in 1..Len(added) /\ Len(log) + (i - Len(log)) = i
    BY <1>4, <1>5
  <2>2. log'[i] = added[i - Len(log)]
    BY <2>1, <1>4
  <2>3. log'[i] = first + (i - Len(log)) - 1
    BY <2>1, <2>2, <1>2
  <2> QED BY <2>1, <2>3, <1>0, <1>1, <1>5
<1>8. \A x \in Range(log') : x \in Range(log) \union first..last
  BY <1>4, <1>5, <1>7 DEF Range
<1>9. \A x \in Range(log) : x \in Range(log')
  <2> SUFFICES ASSUME NEW i \in DOMAIN log PROVE log[i] \in Range(log')
    BY DEF Range
  <2>1. i \in DOMAIN log' /\ log'[i] = log[i]
    BY <1>4, <1>5, <1>6
  <2> QED BY <2>1 DEF Range
<1>10. \A x \in first..last : x \in Range(log')
  <2> SUFFICES ASSUME NEW x \in first..last PROVE x \in Range(log')
    OBVIOUS
  <2>1. x - first + 1 \in 1..Len(added) /\ added[x - first + 1] = x
    BY <1>0, <1>1, <1>2
  <2>2. log'[Len(log) + (x - first + 1)] = x
    BY <2>1, <1>4
  <2>3. Len(log) + (x - first + 1) \in DOMAIN log'
    BY <2>1, <1>4, <1>5
  <2> QED BY <2>2, <2>3 DEF Range
<1>11. Range(log') = Range(log) \union first..last
  BY <1>8, <1>9, <1>10
<1> QED BY <1>4, <1>5, <1>6, <1>7, <1>11

LEMMA WaitingAre == ASSUME TypeOK
                    PROVE  Waiting \subseteq 1..pushed /\ pushed \in Nat
BY DEF TypeOK, Waiting

LEMMA PushKeeps == ASSUME Inv, Push PROVE Inv'
<1>1. pushed \in Nat /\ pushed' = pushed + 1 /\ pushed' \in Nat
  BY DEF Inv, TypeOK, Push
<1>2. log' = log /\ lost' = lost /\ closed' = closed
  BY DEF Push
<1>3. 1..pushed \subseteq 1..pushed' /\ log \in Seq(1..pushed)
  BY <1>1 DEF Inv, TypeOK
<1>4. log \in Seq(1..pushed')
  BY <1>3, Wider
<1>5. TypeOK'
  BY <1>1, <1>2, <1>3, <1>4 DEF Inv, TypeOK
<1>6. \A e \in Waiting' : e \in Waiting \/ e = pushed + 1
  BY <1>1, <1>2 DEF Waiting, Range
<1>7. \A i \in DOMAIN log : log[i] \in 1..pushed
  BY DEF Inv, TypeOK
<1>8. InOrder'
  BY <1>1, <1>2, <1>6, <1>7 DEF Inv, InOrder
<1> QED BY <1>5, <1>8 DEF Inv

LEMMA DeliverKeeps ==
  ASSUME Inv, NEW first \in 1..pushed, NEW last \in 1..pushed, Deliver(first, last),
         closed' \in {closed, "drained"}
  PROVE  Inv'
<1>1. /\ first <= last /\ first..last \subseteq Waiting /\ \A e \in Waiting : first <= e
      /\ log' = log \o Ascending(first, last) /\ pushed' = pushed /\ lost' = lost
  BY DEF Deliver, Oldest
<1>2. /\ log' \in Seq(1..pushed)
      /\ \A i \in DOMAIN log : i \in DOMAIN log' /\ log'[i] = log[i]
      /\ \A i \in DOMAIN log' : i \notin DOMAIN log =>
           i > Len(log) /\ log'[i] = first + (i - Len(log)) - 1 /\ log'[i] \in first..last
      /\ Range(log') = Range(log) \union first..last
  BY <1>1, Appended DEF Inv
<1>3. pushed \in Nat /\ Waiting \subseteq 1..pushed
  BY WaitingAre DEF Inv
<1>4. TypeOK'
  BY <1>1, <1>2 DEF Inv, TypeOK
<1>5. DOMAIN log = 1..Len(log) /\ DOMAIN log' = 1..Len(log') /\ Len(log) \in Nat
      /\ Len(log') \in Nat /\ \A i \in DOMAIN log : log[i] \in 1..pushed
  BY <1>2 DEF Inv, TypeOK
<1>6. Waiting' = Waiting \ first..last
  BY <1>1, <1>2 DEF Waiting
<1>7. \A i \in DOMAIN log : log[i] \notin first..last
  BY <1>1 DEF Waiting, Range
<1>8. (\A i, j \in DOMAIN log : log[i] = log[j] => i = j)'
  <2> SUFFICES ASSUME NEW i \in DOMAIN log', NEW j \in DOMAIN log', log'[i] = log'[j]
               PROVE  i = j
    OBVIOUS
  <2>1. CASE i \in DOMAIN log /\ j \in DOMAIN log
    BY <2>1, <1>2 DEF Inv, InOrder
  <2>2. CASE i \in DOMAIN log /\ j \notin DOMAIN log
    BY <2>2, <1>2, <1>7
  <2>3. CASE i \notin DOMAIN log /\ j \in DOMAIN log
    BY <2>3, <1>2, <1>7
  <2>4. CASE i \notin DOMAIN log /\ j \notin DOMAIN log
    BY <2>4, <1>2, <1>3, <1>5
  <2> QED BY <2>1, <2>2, <2>3, <2>4
<1>9. (\A i, j \in DOMAIN log :
         log[i] \notin lost /\ log[j] \notin lost /\ i < j => log[i] < log[j])'
  <2> SUFFICES ASSUME NEW i \in DOMAIN log', NEW j \in DOMAIN log',
                      log'[i] \notin lost, log'[j] \notin lost, i < j
               PROVE  log'[i] < log'[j]
    BY <1>1
  <2>1. CASE i \in DOMAIN log /\ j \in DOMAIN log
    BY <2>1, <1>2 DEF Inv, InOrder
  <2>2. CASE i \in DOMAIN log /\ j \notin DOMAIN log
    <3>1. log'[j] \in Waiting /\ log'[i] = log[i]
      BY <2>2, <1>1, <1>2
    <3> QED BY <3>1, <2>2 DEF Inv, InOrder
  <2>3. CASE i \notin DOMAIN log /\ j \in DOMAIN log
    BY <2>3, <1>2, <1>5
  <2>4. CASE i \notin DOMAIN log /\ j \notin DOMAIN log
    BY <2>4, <1>2, <1>3, <1>5
  <2> QED BY <2>1, <2>2, <2>3, <2>4
<1>10. (\A i \in DOMAIN log : \A e \in Waiting : log[i] \notin lost => log[i] < e)'
  <2> SUFFICES ASSUME NEW i \in DOMAIN log', NEW e \in Waiting', log'[i] \notin lost
               PROVE  log'[i] < e
    BY <1>1
  <2>1. e \in Waiting /\ e > last /\ e \in Nat
    BY <1>1, <1>3, <1>6
  <2>2. CASE i \in DOMAIN log
    BY <2>1, <2>2, <1>2 DEF Inv, InOrder
  <2>3. CASE i \notin DOMAIN log
    BY <2>1, <2>3, <1>2, <1>3
  <2> QED BY <2>2, <2>3
<1> QED BY <1>4, <1>8, <1>9, <1>10 DEF Inv, InOrder

(* Giving events up takes them out of the ones that wait. *)
LEMMA LosingKeeps ==
  ASSUME Inv, NEW S \in SUBSET Waiting,
         lost' = lost \union S, UNCHANGED <<pushed, log>>,
         closed' \in {"open", "pending", "drained", "expired", "abandoned"}
  PROVE  Inv'
<1>1. Waiting \subseteq 1..pushed
  BY WaitingAre DEF Inv
<1>2. TypeOK'
  BY <1>1 DEF Inv, TypeOK
<1>3. Waiting' \subseteq Waiting /\ lost \subseteq lost'
  BY DEF Waiting
<1>4. InOrder'
  BY <1>3 DEF Inv, InOrder
<1> QED BY <1>2, <1>4 DEF Inv

LEMMA StraggleKeeps ==
  ASSUME Inv, NEW first \in 1..pushed, NEW last \in 1..pushed, Straggle(first, last)
  PROVE  Inv'
<1>1. /\ first <= last /\ first..last \subseteq lost \ Range(log)
      /\ log' = log \o Ascending(first, last)
      /\ pushed' = pushed /\ lost' = lost /\ closed' = closed
  BY DEF Straggle
<1>2. /\ log' \in Seq(1..pushed)
      /\ \A i \in DOMAIN log : i \in DOMAIN log' /\ log'[i] = log[i]
      /\ \A i \in DOMAIN log' : i \notin DOMAIN log =>
           i > Len(log) /\ log'[i] = first + (i - Len(log)) - 1 /\ log'[i] \in first..last
      /\ Range(log') = Range(log) \union first..last
  BY <1>1, Appended DEF Inv
<1>3. TypeOK'
  BY <1>1, <1>2 DEF Inv, TypeOK
<1>4. DOMAIN log = 1..Len(log) /\ DOMAIN log' = 1..Len(log') /\ Len(log) \in Nat
      /\ Len(log') \in Nat
  BY <1>2 DEF Inv, TypeOK
<1>5. Waiting' = Waiting
  BY <1>1, <1>2 DEF Waiting
<1>6. \A i \in DOMAIN log' : i \notin DOMAIN log => log'[i] \in lost
  BY <1>1, <1>2
<1>7. \A i \in DOMAIN log : log[i] \notin first..last
  BY <1>1 DEF Range
<1>8. (\A i, j \in DOMAIN log : log[i] = log[j] => i = j)'
  <2> SUFFICES ASSUME NEW i \in DOMAIN log', NEW j \in DOMAIN log', log'[i] = log'[j]
               PROVE  i = j
    OBVIOUS
  <2>1. CASE i \in DOMAIN log /\ j \in DOMAIN log
    BY <2>1, <1>2 DEF Inv, InOrder
  <2>2. CASE i \in DOMAIN log /\ j \notin DOMAIN log
    BY <2>2, <1>2, <1>7
  <2>3. CASE i \notin DOMAIN log /\ j \in DOMAIN log
    BY <2>3, <1>2, <1>7
  <2>4. CASE i \notin DOMAIN log /\ j \notin DOMAIN log
    BY <2>4, <1>2, <1>4
  <2> QED BY <2>1, <2>2, <2>3, <2>4
<1>9. InOrder'
  BY <1>1, <1>2, <1>5, <1>6, <1>8 DEF Inv, InOrder
<1> QED BY <1>3, <1>9 DEF Inv

(* Steps that only move the batcher on. *)
LEMMA MovesKeep ==
  ASSUME Inv, UNCHANGED <<pushed, log, lost>>,
         closed' \in {"open", "pending", "drained", "expired", "abandoned"}
  PROVE  Inv'
BY DEF Inv, TypeOK, InOrder, Waiting

LEMMA NextKeeps == ASSUME Inv, [Next]_vars PROVE Inv'
<1>1. CASE Push BY <1>1, PushKeeps
<1>2. CASE Answered
  <2> PICK first \in 1..pushed, last \in 1..pushed :
        (Deliver(first, last) \/ Drop(first, last)) /\ Settles
    BY <1>2 DEF Answered
  <2>1. closed' \in {closed, "drained"}
    BY DEF Settles
  <2>2. CASE Deliver(first, last)
    BY <2>1, <2>2, DeliverKeeps
  <2>3. CASE Drop(first, last)
    <3>1. first..last \in SUBSET Waiting /\ lost' = lost \union first..last
          /\ UNCHANGED <<pushed, log>>
      BY <2>3 DEF Drop, Oldest
    <3> QED BY <2>1, <3>1, LosingKeeps DEF Inv, TypeOK
  <2> QED BY <2>2, <2>3
<1>3. CASE Close BY <1>3, MovesKeep DEF Close
<1>4. CASE Drained BY <1>4, MovesKeep DEF Drained
<1>5. CASE GiveUp BY <1>5, LosingKeeps DEF GiveUp
<1>6. CASE Restart BY <1>6, LosingKeeps DEF Restart
<1>7. CASE \E first, last \in 1..pushed : Straggle(first, last)
  BY <1>7, StraggleKeeps
<1>8. CASE UNCHANGED vars
  BY <1>8, MovesKeep DEF vars, Inv, TypeOK
<1> QED BY <1>1, <1>2, <1>3, <1>4, <1>5, <1>6, <1>7, <1>8 DEF Next

LEMMA InvHolds == Spec => []Inv
<1>1. Init => Inv
  BY DEF Init, Inv, TypeOK, InOrder
<1>2. Inv /\ [Next]_vars => Inv'
  BY NextKeeps
<1> QED BY <1>1, <1>2, PTL DEF Spec

(* TypeOK: the log and the events given up are among the events pushed. *)
THEOREM TypeCorrect == Spec => []TypeOK
BY InvHolds, PTL DEF Inv

(* InOrder: a log that keeps the promise holds no event twice and has the  *)
(* events never given up in the order pushed, none before an earlier one   *)
(* that still waits - what run/do.ts events() and the batcher are to give  *)
(* the dashboard.                                                          *)
THEOREM OrderTheorem == Spec => []InOrder
BY InvHolds, PTL DEF Inv

(* DrainedLeavesNone: close() resolves as drained only once Dispatch has   *)
(* answered for every event.                                               *)
THEOREM DrainedTheorem == Spec => DrainedLeavesNone
<1>1. [Next]_vars => [closed # "drained" /\ closed' = "drained" => Waiting' = {}]_vars
  <2> SUFFICES ASSUME Next, closed # "drained", closed' = "drained" PROVE Waiting' = {}
    OBVIOUS
  <2>1. CASE Push BY <2>1 DEF Push
  <2>2. CASE Answered BY <2>2 DEF Answered, Settles
  <2>3. CASE Close BY <2>3 DEF Close, Waiting
  <2>4. CASE Drained BY <2>4 DEF Drained, Waiting
  <2>5. CASE GiveUp BY <2>5 DEF GiveUp
  <2>6. CASE Restart BY <2>6 DEF Restart
  <2>7. CASE \E first, last \in 1..pushed : Straggle(first, last)
    BY <2>7 DEF Straggle
  <2> QED BY <2>1, <2>2, <2>3, <2>4, <2>5, <2>6, <2>7 DEF Next
<1> QED BY <1>1, PTL DEF Spec, DrainedLeavesNone
=============================================================================
