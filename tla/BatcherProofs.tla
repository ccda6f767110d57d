--------------------------- MODULE BatcherProofs ---------------------------
(***************************************************************************)
(* That the batcher and Dispatch's log keep what EventLog promises, for    *)
(* any number of events, of any size, any batch limits and any number of   *)
(* retries and re-runs; that nothing is stranded in its queue, and that an *)
(* abandoned batcher takes no batch.                                       *)
(***************************************************************************)
EXTENDS Batcher, WellFoundedInduction, TLAPS

-----------------------------------------------------------------------------
(* Natural numbers: a set of them has a least, and so induction over a set. *)

LEMMA Least ==
  ASSUME NEW T \in SUBSET Nat, T # {}
  PROVE  \E x \in T : \A y \in T : x <= y
<1> DEFINE R == OpToRel(<, Nat)
<1>1. IsWellFoundedOn(R, Nat)
  BY NatLessThanWellFounded
<1>2. \A x, y \in Nat : x < y => <<x, y>> \in R
  BY DEF OpToRel
<1> HIDE DEF R
<1>3. PICK x \in T : \A y \in T : ~(<<y, x>> \in R)
  BY <1>1, WFMin
<1>4. \A y \in T : ~(y < x)
  BY <1>2, <1>3
<1> QED
  BY <1>4

LEMMA Induct ==
  ASSUME NEW T \in SUBSET Nat, 0 \in T, \A n \in T : n + 1 \in T
  PROVE  T = Nat
<1> SUFFICES ASSUME Nat \ T # {} PROVE FALSE
  OBVIOUS
<1>1. PICK x \in Nat \ T : \A y \in Nat \ T : x <= y
  BY Least
<1>2. x # 0 /\ x - 1 \in Nat /\ x - 1 \notin Nat \ T
  BY <1>1
<1> QED
  BY <1>2

LEMMA Greatest ==
  ASSUME NEW n \in Nat, NEW T \in SUBSET (1..n), T # {}
  PROVE  Max(T) \in T
<1> DEFINE U == {n - t : t \in T}
<1>1. \A t \in T : t \in Nat /\ n - t \in Nat /\ n - t \in U
  OBVIOUS
<1>2. U \subseteq Nat /\ U # {}
  BY <1>1
<1>3. PICK u \in U : \A v \in U : u <= v
  BY <1>2, Least
<1>4. PICK x \in T : u = n - x
  BY <1>3
<1> HIDE DEF U
<1>5. ASSUME NEW y \in T PROVE x >= y
  <2>1. n - x <= n - y
    BY <1>1, <1>3, <1>4
  <2>2. x \in Nat /\ y \in Nat
    BY <1>1
  <2> QED
    BY <2>1, <2>2
<1> QED
  BY <1>5 DEF Max

-----------------------------------------------------------------------------
(* Sequences *)

LEMMA Concat ==
  ASSUME NEW S, NEW s \in Seq(S), NEW t \in Seq(S)
  PROVE  /\ s \o t \in Seq(S) /\ Len(s \o t) = Len(s) + Len(t)
         /\ \A i \in 1..Len(s) : (s \o t)[i] = s[i]
         /\ \A i \in 1..Len(t) : (s \o t)[Len(s) + i] = t[i]
OBVIOUS

LEMMA ConcatRange ==
  ASSUME NEW S, NEW s \in Seq(S), NEW t \in Seq(S)
  PROVE  Range(s \o t) = Range(s) \union Range(t)
<1> DEFINE st == s \o t
<1>1. /\ st \in Seq(S) /\ Len(st) = Len(s) + Len(t) /\ Len(s) \in Nat /\ Len(t) \in Nat
      /\ \A i \in 1..Len(s) : st[i] = s[i]
      /\ \A i \in 1..Len(t) : st[Len(s) + i] = t[i]
  BY Concat
<1> HIDE DEF st
<1>2. DOMAIN st = 1..Len(st) /\ DOMAIN s = 1..Len(s) /\ DOMAIN t = 1..Len(t)
  BY <1>1
<1>3. ASSUME NEW i \in DOMAIN st PROVE st[i] \in Range(s) \union Range(t)
  <2>1. CASE i \in 1..Len(s)
    BY <1>1, <1>2, <2>1 DEF Range
  <2>2. CASE i \notin 1..Len(s)
    <3>1. i - Len(s) \in 1..Len(t) /\ Len(s) + (i - Len(s)) = i
      BY <1>1, <1>2, <2>2
    <3>2. st[i] = t[i - Len(s)]
      BY <1>1, <3>1
    <3> QED
      BY <1>2, <3>1, <3>2 DEF Range
  <2> QED
    BY <2>1, <2>2
<1>4. ASSUME NEW i \in DOMAIN s PROVE s[i] \in Range(st)
  <2>1. i \in DOMAIN st /\ st[i] = s[i]
    BY <1>1, <1>2
  <2> QED
    BY <2>1 DEF Range
<1>5. ASSUME NEW i \in DOMAIN t PROVE t[i] \in Range(st)
  <2>1. Len(s) + i \in DOMAIN st /\ st[Len(s) + i] = t[i]
    BY <1>1, <1>2
  <2> QED
    BY <2>1 DEF Range
<1> QED
  BY <1>3, <1>4, <1>5 DEF Range, st

(* The first n elements, and the rest. *)
LEMMA Split ==
  ASSUME NEW S, NEW s \in Seq(S), NEW n \in 1..Len(s)
  PROVE  /\ SubSeq(s, 1, n) \in Seq(S) /\ Len(SubSeq(s, 1, n)) = n
         /\ \A i \in 1..n : SubSeq(s, 1, n)[i] = s[i]
         /\ SubSeq(s, n + 1, Len(s)) \in Seq(S) /\ Len(SubSeq(s, n + 1, Len(s))) = Len(s) - n
         /\ \A i \in 1..(Len(s) - n) : SubSeq(s, n + 1, Len(s))[i] = s[n + i]
OBVIOUS

LEMMA TakeBatchLemma ==
  ASSUME NEW q \in Seq(Event), q # <<>>
  PROVE  TakeBatch(q) \in 1..Len(q)
<1> DEFINE T == {n \in 1..Len(q) : \A m \in 1..n : Fits(q, m)}
<1>1. Len(q) \in Nat /\ 1 \in 1..Len(q)
  OBVIOUS
<1>2. \A m \in 1..1 : Fits(q, m)
  BY DEF Fits
<1>3. 1 \in T
  BY <1>1, <1>2
<1>4. T \in SUBSET (1..Len(q))
  OBVIOUS
<1>5. Max(T) \in T
  BY <1>1, <1>3, <1>4, Greatest
<1> QED
  BY <1>5 DEF TakeBatch

-----------------------------------------------------------------------------
(* What the log is once a batch has landed: its events are inserted one by one, so a function    *)
(* that obeys the recursion of Land is the one it defines.                                       *)
LEMMA Landing ==
  ASSUME NEW b \in Seq(Event), NEW f,
         f = [n \in 0..Len(b) |-> IF n = 0 THEN log ELSE Insert(f[n - 1], Stamped(b[n]))]
  PROVE  Land(b) = f[Len(b)]
<1> DEFINE N == Len(b)
           rows == CHOOSE r : r = [n \in 0..N |-> IF n = 0 THEN log
                                                  ELSE Insert(r[n - 1], Stamped(b[n]))]
           T == {n \in Nat : n <= N => rows[n] = f[n]}
<1>1. rows = [n \in 0..N |-> IF n = 0 THEN log ELSE Insert(rows[n - 1], Stamped(b[n]))]
  OBVIOUS
<1>2. Land(b) = rows[N]
  BY DEF Land
<1>3. N \in Nat
  OBVIOUS
<1> HIDE DEF rows, N
<1>4. 0 \in T
  BY <1>1, <1>3 DEF N
<1>5. ASSUME NEW n \in T PROVE n + 1 \in T
  <2>1. CASE n + 1 <= N
    <3>1. n + 1 \in 0..N /\ n + 1 # 0 /\ (n + 1) - 1 = n /\ rows[n] = f[n]
      BY <1>3, <2>1
    <3>2. rows[n + 1] = Insert(rows[n], Stamped(b[n + 1]))
      BY <1>1, <3>1
    <3>3. f[n + 1] = Insert(f[n], Stamped(b[n + 1]))
      BY <3>1 DEF N
    <3> QED
      BY <3>1, <3>2, <3>3
  <2>2. CASE ~(n + 1 <= N)
    BY <2>2
  <2> QED
    BY <2>1, <2>2
<1> HIDE DEF T
<1>6. T = Nat
  BY <1>4, <1>5, Induct DEF T
<1>7. rows[N] = f[N]
  <2>1. N \in T
    BY <1>3, <1>6
  <2> QED
    BY <1>3, <2>1 DEF T
<1> QED
  BY <1>2, <1>7 DEF N

Held(e) == \E i \in DOMAIN log : log[i].seq = Stamped(e).seq

LEMMA StampedEvent ==
  ASSUME retries \in Nat, NEW e \in Event
  PROVE  /\ Stamped(e) \in Event /\ Stamped(e).id = e.id
         /\ Stamped(e).seq = e.seq + retries * RETRY_SEQ_STRIDE
<1>1. retries * RETRY_SEQ_STRIDE \in Nat
  BY BatcherAssumption
<1> QED
  BY <1>1 DEF Stamped, Event

(* A batch whose every number is held changes nothing. *)
LEMMA LandHeld ==
  ASSUME NEW b \in Seq(Event), \A i \in DOMAIN b : Held(b[i])
  PROVE  Land(b) = log
<1> DEFINE f == [n \in 0..Len(b) |-> log]
<1>1. \A n \in 1..Len(b) : Insert(log, Stamped(b[n])) = log
  BY DEF Held, Insert
<1>2. f = [n \in 0..Len(b) |-> IF n = 0 THEN log ELSE Insert(f[n - 1], Stamped(b[n]))]
  <2>1. \A n \in 0..Len(b) : n # 0 => n \in 1..Len(b) /\ n - 1 \in 0..Len(b)
    OBVIOUS
  <2> QED
    BY <1>1, <2>1
<1>3. Len(b) \in 0..Len(b)
  OBVIOUS
<1>4. Land(b) = f[Len(b)]
  BY <1>2, Landing
<1> QED
  BY <1>3, <1>4

(* A batch of numbers the log does not hold, each its own, is appended as it is. *)
LEMMA LandNew ==
  ASSUME log \in Seq(Event), retries \in Nat, NEW b \in Seq(Event),
         \A i \in DOMAIN b : ~Held(b[i]),
         \A i, j \in DOMAIN b : i # j => b[i].seq # b[j].seq
  PROVE  Land(b) = log \o [i \in 1..Len(b) |-> Stamped(b[i])]
<1> DEFINE stamped == [i \in 1..Len(b) |-> Stamped(b[i])]
           f == [n \in 0..Len(b) |-> log \o SubSeq(stamped, 1, n)]
<1>1. \A i \in 1..Len(b) : stamped[i] = Stamped(b[i]) /\ stamped[i] \in Event
  BY StampedEvent
<1>2. stamped \in Seq(Event) /\ Len(stamped) = Len(b) /\ Len(b) \in Nat
  BY <1>1
<1>3. ASSUME NEW i \in 1..Len(b), NEW j \in 1..Len(b), i # j
      PROVE  stamped[i].seq # stamped[j].seq
  <2> DEFINE shift == retries * RETRY_SEQ_STRIDE
  <2> HIDE DEF stamped, f
  <2>0. DOMAIN b = 1..Len(b)
    OBVIOUS
  <2>1. b[i] \in Event /\ b[j] \in Event /\ b[i].seq # b[j].seq
    BY <1>3, <2>0
  <2>2. shift \in Nat
    BY BatcherAssumption
  <2>3. stamped[i].seq = b[i].seq + shift /\ stamped[j].seq = b[j].seq + shift
    BY <1>1, <2>1, StampedEvent
  <2> HIDE DEF shift
  <2>4. b[i].seq \in Nat /\ b[j].seq \in Nat
    BY <2>1 DEF Event
  <2> QED
    BY <2>1, <2>2, <2>3, <2>4
<1>4. \A i \in 1..Len(b), j \in DOMAIN log : log[j].seq # stamped[i].seq
  BY <1>1 DEF Held
<1> HIDE DEF stamped
<1>5. ASSUME NEW n \in 1..Len(b)
      PROVE  Insert(log \o SubSeq(stamped, 1, n - 1), stamped[n]) = log \o SubSeq(stamped, 1, n)
  <2> DEFINE before == SubSeq(stamped, 1, n - 1)
             rows == log \o before
  <2>1. /\ before \in Seq(Event) /\ Len(before) = n - 1
        /\ \A i \in 1..(n - 1) : before[i] = stamped[i]
    BY <1>2
  <2>2. SubSeq(stamped, 1, n) = Append(before, stamped[n])
    BY <1>1, <1>2
  <2> HIDE DEF before
  <2>3. /\ rows \in Seq(Event) /\ Len(rows) = Len(log) + (n - 1)
        /\ \A i \in 1..Len(log) : rows[i] = log[i]
        /\ \A i \in 1..(n - 1) : rows[Len(log) + i] = stamped[i]
    <3> DEFINE S == Event
    <3>1. log \in Seq(S) /\ before \in Seq(S)
      BY <2>1
    <3> HIDE DEF S
    <3>2. /\ rows \in Seq(S) /\ Len(rows) = Len(log) + Len(before)
          /\ \A i \in 1..Len(log) : rows[i] = log[i]
          /\ \A i \in 1..Len(before) : rows[Len(log) + i] = before[i]
      BY <3>1, Concat
    <3> QED
      BY <2>1, <3>2 DEF S
  <2>4. log \o Append(before, stamped[n]) = Append(rows, stamped[n])
    BY <1>1, <2>1
  <2> HIDE DEF rows
  <2>5. ASSUME NEW i \in DOMAIN rows PROVE rows[i].seq # stamped[n].seq
    <3>1. CASE i \in 1..Len(log)
      <4>1. i \in DOMAIN log /\ rows[i] = log[i]
        BY <2>3, <3>1
      <4> QED
        BY <1>4, <4>1
    <3>2. CASE i \notin 1..Len(log)
      <4>1. i - Len(log) \in 1..(n - 1) /\ Len(log) + (i - Len(log)) = i
        BY <1>2, <2>3, <3>2
      <4>2. rows[i] = stamped[i - Len(log)] /\ i - Len(log) \in 1..Len(b) /\ i - Len(log) # n
        BY <1>2, <2>3, <4>1
      <4> QED
        BY <1>3, <4>2
    <3> QED
      BY <3>1, <3>2
  <2>6. Insert(rows, stamped[n]) = Append(rows, stamped[n])
    BY <2>5 DEF Insert
  <2> QED
    BY <2>2, <2>4, <2>6 DEF rows, before
<1>6. log \o SubSeq(stamped, 1, 0) = log
  BY <1>2
<1>7. f = [n \in 0..Len(b) |-> IF n = 0 THEN log ELSE Insert(f[n - 1], Stamped(b[n]))]
  <2>1. \A n \in 0..Len(b) : n # 0 => n \in 1..Len(b) /\ n - 1 \in 0..Len(b)
    BY <1>2
  <2>2. \A n \in 1..Len(b) : f[n - 1] = log \o SubSeq(stamped, 1, n - 1)
    BY <2>1
  <2>3. \A n \in 1..Len(b) : log \o SubSeq(stamped, 1, n) = Insert(f[n - 1], Stamped(b[n]))
    BY <1>1, <1>5, <2>2
  <2> QED
    BY <1>6, <2>1, <2>3
<1>8. Land(b) = f[Len(b)]
  BY <1>7, Landing
<1>9. SubSeq(stamped, 1, Len(b)) = stamped
  BY <1>2
<1> QED
  BY <1>2, <1>8, <1>9 DEF stamped

-----------------------------------------------------------------------------
(* The inductive invariant. *)

(* Events before this one have left the queue; batches that were taken from it and may land. *)
Taken == pushed - Len(queue)
Handed == late \union {batch}
Raw == Range(queue) \union UNION {Range(b) : b \in Handed}
Known == Range(log) \union {Stamped(e) : e \in Raw}
Waiting == Promise!Waiting

Types ==
  /\ queue \in Seq(Event) /\ log \in Seq(Event) /\ batch \in Seq(Event)
  /\ late \in SUBSET Seq(Event)
  /\ pushed \in 0..MaxEvents /\ lost \subseteq 1..pushed /\ Len(queue) <= pushed
  /\ draining \in {"no", "sending", "sleeping"}
  /\ close \in {"open", "pending", "drained", "expired", "released"}
  /\ closing \in BOOLEAN /\ abandoned \in BOOLEAN /\ timer \in BOOLEAN /\ wanted \in BOOLEAN
  /\ attempt \in 1..MaxAttempts /\ seq \in Nat /\ retries \in Nat
  /\ seq <= attempt * SEQ_PER_ATTEMPT

Flags ==
  /\ abandoned => close # "pending"
  /\ close \in {"expired", "released"} => abandoned
  /\ closing <=> close # "open"
  /\ draining = "no" <=> batch = <<>>

(* The queue holds the last events pushed, under the job's last numbers. *)
At(e, shift) == [id |-> e, seq |-> e + shift]
Shift == seq - pushed - 1
QueueIs == \A i \in 1..Len(queue) : queue[i] = At(Taken + i, Shift)

(* A batch is a run of events that left the queue, in the log all of them or none, and no other *)
(* batch has part of them.                                                                      *)
Run(b) == \A i \in DOMAIN b : b[i].id = b[1].id + i - 1
Runs == \A b \in Handed : Run(b)
Before ==
  /\ \A e \in Logged : e <= Taken
  /\ \A b \in Handed : \A e \in IdsOf(b) : e <= Taken
Whole == \A b \in Handed : IdsOf(b) \subseteq Logged \/ IdsOf(b) \intersect Logged = {}
Apart == \A b, c \in Handed : IdsOf(b) = IdsOf(c) \/ IdsOf(b) \intersect IdsOf(c) = {}
Batches == Runs /\ Before /\ Whole /\ Apart

(* The agent's numbers rise with the events, over attempts and retries, whatever landed. *)
NextNumber == seq + retries * RETRY_SEQ_STRIDE
Numbers ==
  /\ \A x \in Known : x.id <= pushed /\ x.seq < NextNumber
  /\ \A x, y \in Known : x.id < y.id <=> x.seq < y.seq

(* What waits is held; what was given up by the forwarder alone no longer waits. *)
Waits ==
  /\ \A b \in late : b = batch \/ IdsOf(b) \intersect Waiting = {}
  /\ Waiting \subseteq IdsOf(batch) \union IdsOf(queue)
  /\ ~abandoned => (IdsOf(batch) \union IdsOf(queue)) \intersect lost = {}
  /\ abandoned => Waiting = {}

Inv == Types /\ Flags /\ QueueIs /\ Batches /\ Numbers /\ Waits

LEMMA PlainIds ==
  ASSUME NEW b \in Seq(Event)
  PROVE  /\ IdsOf(b) = {b[i].id : i \in 1..Len(b)} /\ IdsOf(b) \subseteq 1..MaxEvents
         /\ Len(b) \in Nat /\ DOMAIN b = 1..Len(b)
<1>1. Len(b) \in Nat /\ DOMAIN b = 1..Len(b) /\ \A i \in 1..Len(b) : b[i] \in Event
  OBVIOUS
<1>2. Range(b) = {b[i] : i \in 1..Len(b)}
  BY <1>1 DEF Range
<1>3. IdsOf(b) = {b[i].id : i \in 1..Len(b)}
  BY <1>2 DEF IdsOf
<1>4. \A i \in 1..Len(b) : b[i].id \in 1..MaxEvents
  BY <1>1 DEF Event
<1> QED
  BY <1>1, <1>3, <1>4

LEMMA NoIds == IdsOf(<<>>) = {} /\ Range(<<>>) = {}
BY DEF IdsOf, Range

LEMMA RunIds ==
  ASSUME NEW b \in Seq(Event), b # <<>>, Run(b)
  PROVE  /\ IdsOf(b) = b[1].id .. b[Len(b)].id
         /\ b[1].id \in 1..MaxEvents /\ b[Len(b)].id = b[1].id + Len(b) - 1 /\ Len(b) \in Nat \ {0}
<1>1. Len(b) \in Nat \ {0} /\ DOMAIN b = 1..Len(b) /\ b[1] \in Event
  OBVIOUS
<1>2. b[1].id \in 1..MaxEvents
  BY <1>1 DEF Event
<1>3. \A i \in 1..Len(b) : b[i].id = b[1].id + i - 1
  BY <1>1 DEF Run
<1>4. IdsOf(b) = {b[i].id : i \in 1..Len(b)}
  BY PlainIds
<1>5. b[Len(b)].id = b[1].id + Len(b) - 1
  BY <1>1, <1>3
<1>6. ASSUME NEW x \in b[1].id .. b[Len(b)].id PROVE x \in IdsOf(b)
  <2> DEFINE i == x - b[1].id + 1
  <2>1. i \in 1..Len(b) /\ b[1].id + i - 1 = x
    BY <1>1, <1>2, <1>5, BatcherAssumption
  <2> HIDE DEF i
  <2>2. b[i].id = x
    BY <1>3, <2>1
  <2> QED
    BY <1>4, <2>1, <2>2
<1>7. ASSUME NEW i \in 1..Len(b) PROVE b[i].id \in b[1].id .. b[Len(b)].id
  BY <1>1, <1>2, <1>3, <1>5, BatcherAssumption
<1> QED
  BY <1>1, <1>2, <1>4, <1>5, <1>6, <1>7

LEMMA LoggedIs ==
  ASSUME log \in Seq(Event)
  PROVE  /\ Logged = {log[i].id : i \in DOMAIN log} /\ Logged \subseteq 1..MaxEvents
         /\ Range([i \in DOMAIN log |-> log[i].id]) = Logged
         /\ Waiting = {e \in 1..pushed : e \notin Logged \union lost}
<1>1. Logged = {log[i].id : i \in DOMAIN log} /\ Logged \subseteq 1..MaxEvents
  BY PlainIds DEF Logged
<1>2. Range([i \in DOMAIN log |-> log[i].id]) = Logged
  BY <1>1 DEF Range
<1> QED
  BY <1>1, <1>2 DEF Waiting, Promise!Waiting, Promise!Range, Range

LEMMA KnownAre ==
  ASSUME Types
  PROVE  /\ Range(log) \subseteq Known /\ Range(log) \subseteq Event
         /\ \A b \in Handed : b \in Seq(Event)
                              /\ \A i \in 1..Len(b) : b[i] \in Raw /\ Stamped(b[i]) \in Known
         /\ Raw \subseteq Event /\ Known \subseteq Event
<1>1. Range(log) \subseteq Event /\ Range(queue) \subseteq Event
  BY DEF Types, Range
<1>2. \A b \in Handed : b \in Seq(Event)
  BY DEF Types, Handed
<1>3. ASSUME NEW b \in Handed, NEW i \in 1..Len(b) PROVE b[i] \in Raw
  <2>1. i \in DOMAIN b
    BY <1>2, PlainIds
  <2>2. b[i] \in Range(b)
    BY <2>1 DEF Range
  <2> QED
    BY <2>2 DEF Raw
<1>4. ASSUME NEW b \in Handed PROVE Range(b) \subseteq Event
  BY <1>2 DEF Range
<1>5. Raw \subseteq Event
  BY <1>1, <1>4 DEF Raw
<1>6. \A e \in Raw : Stamped(e) \in Event /\ Stamped(e) \in Known
  BY <1>5, StampedEvent DEF Types, Known
<1>7. Known \subseteq Event /\ Range(log) \subseteq Known
  BY <1>1, <1>6 DEF Known
<1> QED
  BY <1>1, <1>2, <1>3, <1>5, <1>6, <1>7

(* The log holds an event's number just when it holds the event. *)
LEMMA HeldIs ==
  ASSUME Types, Numbers, NEW b \in Handed, NEW i \in 1..Len(b)
  PROVE  Held(b[i]) <=> b[i].id \in Logged
<1> DEFINE x == Stamped(b[i])
<1>1. x \in Known /\ x \in Event /\ b[i] \in Event
  BY KnownAre
<1>2. x.id = b[i].id
  BY <1>1, StampedEvent DEF Types
<1> HIDE DEF x
<1>3. \A j \in DOMAIN log : log[j] \in Known /\ log[j] \in Event
  BY KnownAre DEF Range
<1>4. ASSUME NEW j \in DOMAIN log PROVE log[j].seq = x.seq <=> log[j].id = x.id
  <2>1. /\ log[j].id < x.id <=> log[j].seq < x.seq
        /\ x.id < log[j].id <=> x.seq < log[j].seq
    BY <1>1, <1>3 DEF Numbers
  <2>2. log[j].id \in Nat /\ x.id \in Nat /\ log[j].seq \in Nat /\ x.seq \in Nat
    BY <1>1, <1>3 DEF Event
  <2> QED
    BY <2>1, <2>2
<1>5. Held(b[i]) <=> \E j \in DOMAIN log : log[j].seq = x.seq
  BY DEF Held, x
<1>6. Logged = {log[j].id : j \in DOMAIN log}
  BY LoggedIs DEF Types
<1> QED
  BY <1>2, <1>4, <1>5, <1>6

(* What the log is once a batch has landed, whichever batch and however often it did before. *)
LEMMA Lands ==
  ASSUME Inv, NEW b \in Handed
  PROVE  \/ IdsOf(b) \subseteq Logged /\ Land(b) = log
         \/ /\ b # <<>> /\ IdsOf(b) \intersect Logged = {}
            /\ Land(b) = log \o [i \in 1..Len(b) |-> Stamped(b[i])]
<1>1. b \in Seq(Event) /\ Run(b)
  BY KnownAre DEF Inv, Batches, Runs
<1>2. IdsOf(b) = {b[i].id : i \in 1..Len(b)} /\ DOMAIN b = 1..Len(b) /\ Len(b) \in Nat
  BY <1>1, PlainIds
<1>3. \A i \in 1..Len(b) : Held(b[i]) <=> b[i].id \in Logged
  BY HeldIs DEF Inv
<1>4. CASE IdsOf(b) \subseteq Logged
  <2>1. \A i \in DOMAIN b : Held(b[i])
    BY <1>2, <1>3, <1>4
  <2> QED
    BY <1>1, <1>4, <2>1, LandHeld
<1>5. CASE ~(IdsOf(b) \subseteq Logged)
  <2>1. IdsOf(b) \intersect Logged = {} /\ b # <<>>
    BY <1>5, NoIds DEF Inv, Batches, Whole
  <2>2. \A i \in DOMAIN b : ~Held(b[i])
    BY <1>2, <1>3, <2>1
  <2>3. ASSUME NEW i \in DOMAIN b, NEW j \in DOMAIN b, i # j PROVE b[i].seq # b[j].seq
    <3> DEFINE shift == retries * RETRY_SEQ_STRIDE
               x == Stamped(b[i])
               y == Stamped(b[j])
    <3>1. shift \in Nat
      BY BatcherAssumption DEF Inv, Types
    <3>2. /\ x \in Known /\ y \in Known /\ x.id = b[i].id /\ y.id = b[j].id
          /\ b[i] \in Event /\ b[j] \in Event
          /\ x.seq = b[i].seq + shift /\ y.seq = b[j].seq + shift
      BY <1>1, <1>2, KnownAre, StampedEvent DEF Inv, Types
    <3> HIDE DEF shift, x, y
    <3>3. b[i].id = b[1].id + i - 1 /\ b[j].id = b[1].id + j - 1
      BY <1>1 DEF Run
    <3>4. b[1].id \in Nat /\ b[i].seq \in Nat /\ b[j].seq \in Nat /\ i \in Nat /\ j \in Nat
      <4>1. b[1] \in Event
        BY <1>1, <2>1
      <4> QED
        BY <1>2, <3>2, <4>1 DEF Event
    <3>5. x.id < y.id \/ y.id < x.id
      BY <2>3, <3>2, <3>3, <3>4
    <3>6. x.seq < y.seq \/ y.seq < x.seq
      BY <3>2, <3>5 DEF Inv, Numbers
    <3> QED
      BY <3>1, <3>2, <3>4, <3>6
  <2>4. Land(b) = log \o [i \in 1..Len(b) |-> Stamped(b[i])]
    BY <1>1, <2>2, <2>3, LandNew DEF Inv, Types
  <2> QED
    BY <2>1, <2>4
<1> QED
  BY <1>4, <1>5

(* The log as EventLog sees it. *)
Ids == [i \in DOMAIN log |-> log[i].id]

LEMMA Landed ==
  ASSUME Inv, NEW b \in Handed, log' = Land(b)
  PROVE  /\ log' \in Seq(Event) /\ Range(log') \subseteq Known /\ Logged' = Logged \union IdsOf(b)
         /\ \/ IdsOf(b) \subseteq Logged /\ log' = log
            \/ /\ b # <<>> /\ IdsOf(b) \intersect Logged = {}
               /\ Ids' = Ids \o Promise!Ascending(b[1].id, b[Len(b)].id)
<1>1. b \in Seq(Event) /\ Run(b) /\ log \in Seq(Event)
  BY KnownAre DEF Inv, Types, Batches, Runs
<1>2. CASE IdsOf(b) \subseteq Logged /\ log' = log
  BY <1>1, <1>2, KnownAre DEF Inv, Logged
<1>3. CASE /\ b # <<>> /\ IdsOf(b) \intersect Logged = {}
           /\ log' = log \o [i \in 1..Len(b) |-> Stamped(b[i])]
  <2> DEFINE stamped == [i \in 1..Len(b) |-> Stamped(b[i])]
             S == Event
  <2>1. \A i \in 1..Len(b) : Stamped(b[i]) \in Known /\ Stamped(b[i]) \in S
                             /\ Stamped(b[i]).id = b[i].id
    <3>1. \A i \in 1..Len(b) : b[i] \in Event
      BY <1>1
    <3> QED
      BY <3>1, KnownAre, StampedEvent DEF Inv, Types
  <2>2. stamped \in Seq(S) /\ Len(stamped) = Len(b) /\ DOMAIN stamped = 1..Len(b)
        /\ log \in Seq(S) /\ Len(b) \in Nat
    BY <1>1, <2>1
  <2>3. \A i \in 1..Len(b) : stamped[i] = Stamped(b[i])
    OBVIOUS
  <2>4. log' = log \o stamped
    BY <1>3
  <2> HIDE DEF stamped, S
  <2>5. /\ log' \in Seq(S) /\ Len(log') = Len(log) + Len(b)
        /\ \A i \in 1..Len(log) : log'[i] = log[i]
        /\ \A i \in 1..Len(b) : log'[Len(log) + i] = stamped[i]
    <3>1. log \in Seq(S) /\ stamped \in Seq(S)
      BY <2>2
    <3>2. /\ log' \in Seq(S) /\ Len(log') = Len(log) + Len(stamped)
          /\ \A i \in 1..Len(log) : log'[i] = log[i]
          /\ \A i \in 1..Len(stamped) : log'[Len(log) + i] = stamped[i]
      BY <2>4, <3>1, Concat
    <3> QED
      BY <2>2, <3>2
  <2>6. Range(log') = Range(log) \union Range(stamped)
    BY <2>2, <2>4, ConcatRange
  <2>7. Range(stamped) = {Stamped(b[i]) : i \in 1..Len(b)}
    BY <2>2, <2>3 DEF Range
  <2>8. Range(log') \subseteq Known
    BY <2>1, <2>6, <2>7, KnownAre DEF Inv
  <2>9. Logged' = Logged \union IdsOf(b)
    <3>1. Logged' = {e.id : e \in Range(log')}
      BY DEF Logged, IdsOf
    <3>2. IdsOf(b) = {b[i].id : i \in 1..Len(b)}
      BY <1>1, PlainIds
    <3>3. {e.id : e \in Range(stamped)} = IdsOf(b)
      BY <2>1, <2>7, <3>2
    <3> QED
      BY <2>6, <3>1, <3>3 DEF Logged, IdsOf
  <2>10. Ids' = Ids \o Promise!Ascending(b[1].id, b[Len(b)].id)
    <3> DEFINE first == b[1].id
               last == b[Len(b)].id
               added == Promise!Ascending(first, last)
               T == 1..MaxEvents
               both == Ids \o added
    <3>1. first \in Nat /\ Len(b) \in Nat \ {0} /\ last - first + 1 = Len(b)
          /\ last \in Nat
      BY <1>1, <1>3, RunIds, BatcherAssumption
    <3>2. added = [i \in 1..Len(b) |-> first + i - 1]
      BY <3>1 DEF Promise!Ascending
    <3> HIDE DEF first, last
    <3>3. added \in Seq(Nat) /\ Len(added) = Len(b)
          /\ \A i \in 1..Len(b) : added[i] = first + i - 1
      BY <3>1, <3>2
    <3>4. Len(log) \in Nat /\ DOMAIN log = 1..Len(log) /\ \A i \in 1..Len(log) : log[i].id \in Nat
      <4>1. \A i \in 1..Len(log) : log[i] \in Event
        BY <1>1
      <4> QED
        BY <1>1, <4>1 DEF Event
    <3>5. Ids \in Seq(Nat) /\ Len(Ids) = Len(log) /\ \A i \in 1..Len(log) : Ids[i] = log[i].id
      BY <3>4 DEF Ids
    <3> HIDE DEF added
    <3>6. /\ both \in Seq(Nat) /\ Len(both) = Len(log) + Len(b)
          /\ \A i \in 1..Len(log) : both[i] = log[i].id
          /\ \A i \in 1..Len(b) : both[Len(log) + i] = first + i - 1
      <4> DEFINE N == Nat
      <4>1. Ids \in Seq(N) /\ added \in Seq(N)
        BY <3>3, <3>5
      <4> HIDE DEF N
      <4>2. /\ Ids \o added \in Seq(N) /\ Len(Ids \o added) = Len(Ids) + Len(added)
            /\ \A i \in 1..Len(Ids) : (Ids \o added)[i] = Ids[i]
            /\ \A i \in 1..Len(added) : (Ids \o added)[Len(Ids) + i] = added[i]
        BY <4>1, Concat
      <4>3. /\ both \in Seq(N) /\ Len(both) = Len(Ids) + Len(added)
            /\ \A i \in 1..Len(Ids) : both[i] = Ids[i]
            /\ \A i \in 1..Len(added) : both[Len(Ids) + i] = added[i]
        BY <4>2
      <4> HIDE DEF both
      <4> QED
        BY <3>3, <3>5, <4>3 DEF N
    <3>7. DOMAIN log' = 1..(Len(log) + Len(b)) /\ Ids' = [i \in DOMAIN log' |-> log'[i].id]
      BY <2>2, <2>5, <3>4 DEF Ids
    <3> HIDE DEF both
    <3>8. DOMAIN both = 1..(Len(log) + Len(b)) /\ both = [i \in DOMAIN both |-> both[i]]
      BY <3>6
    <3>9. ASSUME NEW i \in 1..(Len(log) + Len(b)) PROVE log'[i].id = both[i]
      <4>1. CASE i \in 1..Len(log)
        BY <2>5, <3>6, <4>1
      <4>2. CASE i \notin 1..Len(log)
        <5> DEFINE k == i - Len(log)
        <5>1. k \in 1..Len(b) /\ Len(log) + k = i
          BY <3>1, <3>4, <4>2
        <5> HIDE DEF k
        <5>2. log'[i] = stamped[k] /\ both[i] = first + k - 1
          BY <2>5, <3>6, <5>1
        <5>3. stamped[k].id = b[k].id
          BY <2>1, <2>3, <5>1
        <5>4. b[k].id = first + k - 1
          BY <1>1, <5>1, PlainIds DEF Run, first
        <5> QED
          BY <5>2, <5>3, <5>4
      <4> QED
        BY <4>1, <4>2
    <3>10. Ids' = both
      BY <3>7, <3>8, <3>9
    <3> QED
      BY <3>10 DEF both, added, first, last
  <2> QED
    BY <1>3, <2>5, <2>8, <2>9, <2>10 DEF S
<1> QED
  BY <1>2, <1>3, Lands

-----------------------------------------------------------------------------
(* What a step does to the queue and the batch. *)

LEMMA Sent ==
  ASSUME NEW q \in Seq(Event), q # <<>>, Send(q)
  PROVE  \E n \in 1..Len(q) :
           /\ batch' \in Seq(Event) /\ Len(batch') = n /\ batch' # <<>>
           /\ \A i \in 1..n : batch'[i] = q[i]
           /\ queue' \in Seq(Event) /\ Len(queue') = Len(q) - n
           /\ \A i \in 1..(Len(q) - n) : queue'[i] = q[n + i]
           /\ draining' = "sending"
<1> DEFINE n == TakeBatch(q)
           S == Event
<1>1. n \in 1..Len(q)
  BY TakeBatchLemma
<1>2. batch' = SubSeq(q, 1, n) /\ queue' = SubSeq(q, n + 1, Len(q)) /\ draining' = "sending"
  BY DEF Send
<1>3. q \in Seq(S)
  OBVIOUS
<1> HIDE DEF n, S
<1>4. /\ batch' \in Seq(S) /\ Len(batch') = n /\ \A i \in 1..n : batch'[i] = q[i]
      /\ queue' \in Seq(S) /\ Len(queue') = Len(q) - n
      /\ \A i \in 1..(Len(q) - n) : queue'[i] = q[n + i]
  BY <1>1, <1>2, <1>3, Split
<1>5. batch' # <<>>
  BY <1>1, <1>4
<1> QED
  BY <1>1, <1>2, <1>4, <1>5 DEF S

(* The queue a step starts from: it may have pushed an event first. *)
Ready(q) ==
  /\ q \in Seq(Event) /\ Len(q) <= pushed' /\ pushed' \in Nat /\ pushed' - Len(q) = Taken
  /\ \A i \in 1..Len(q) : q[i] = At(Taken + i, Shift')

(* It keeps the queue, takes a batch from it, or empties it. *)
Move(q) ==
  \/ queue' = q /\ batch' \in {batch, <<>>}
  \/ q # <<>> /\ Send(q)
  \/ queue' = <<>> /\ batch' \in {batch, <<>>}

Fresh(b) == b # <<>> /\ Run(b) /\ \A e \in IdsOf(b) : Taken < e /\ e <= Taken'

LEMMA ReadyIds ==
  ASSUME NEW q, Ready(q), Taken \in Nat
  PROVE  /\ \A i \in 1..Len(q) : q[i].id = Taken + i
         /\ IdsOf(q) = {Taken + i : i \in 1..Len(q)} /\ Len(q) \in Nat /\ DOMAIN q = 1..Len(q)
<1>0. \A i \in 1..Len(q) : q[i].id = At(Taken + i, Shift').id
  BY DEF Ready
<1>1. q \in Seq(Event) /\ \A i \in 1..Len(q) : q[i].id = Taken + i
  BY <1>0 DEF Ready, At
<1>2. IdsOf(q) = {q[i].id : i \in 1..Len(q)} /\ Len(q) \in Nat /\ DOMAIN q = 1..Len(q)
  BY <1>1, PlainIds
<1> QED
  BY <1>1, <1>2

LEMMA Moves ==
  ASSUME batch \in Seq(Event), Taken \in Nat, NEW q, Ready(q), Move(q)
  PROVE  /\ queue' \in Seq(Event) /\ batch' \in Seq(Event) /\ Len(queue') <= pushed'
         /\ QueueIs' /\ Taken' \in Nat /\ Taken <= Taken'
         /\ Range(queue') \subseteq Range(q) /\ Range(batch') \subseteq Range(q) \union Range(batch)
         /\ batch' \in {batch, <<>>} \/ Fresh(batch')
         /\ q # <<>> /\ Send(q) => IdsOf(batch') \union IdsOf(queue') = IdsOf(q)
<1>0. /\ q \in Seq(Event) /\ Len(q) <= pushed' /\ pushed' \in Nat /\ pushed' - Len(q) = Taken
      /\ \A i \in 1..Len(q) : q[i] = At(Taken + i, Shift')
      /\ DOMAIN q = 1..Len(q) /\ Len(q) \in Nat
  BY PlainIds DEF Ready
<1>1. Taken' = pushed' - Len(queue')
  BY DEF Taken
<1>b. ASSUME batch' \in {batch, <<>>}
      PROVE  batch' \in Seq(Event) /\ Range(batch') \subseteq Range(batch)
  <2>1. <<>> \in Seq(Event)
    OBVIOUS
  <2> QED
    BY <1>b, <2>1, NoIds
<1>2. CASE queue' = q /\ batch' \in {batch, <<>>}
  <2>1. Taken' = Taken
    BY <1>0, <1>1, <1>2
  <2>2. QueueIs'
    BY <1>0, <1>2, <2>1 DEF QueueIs
  <2>3. q # <<>> /\ Send(q) => IdsOf(batch') \union IdsOf(queue') = IdsOf(q)
    <3> SUFFICES ASSUME q # <<>>, Send(q) PROVE FALSE
      OBVIOUS
    <3> QED
      BY <1>0, <1>2, Sent
  <2>4. /\ queue' \in Seq(Event) /\ batch' \in Seq(Event) /\ Len(queue') <= pushed'
        /\ Range(queue') \subseteq Range(q) /\ Range(batch') \subseteq Range(q) \union Range(batch)
    BY <1>0, <1>2, <1>b
  <2> QED
    BY <1>2, <2>1, <2>2, <2>3, <2>4
<1>3. CASE q # <<>> /\ Send(q)
  <2>1. PICK n \in 1..Len(q) :
           /\ batch' \in Seq(Event) /\ Len(batch') = n /\ batch' # <<>>
           /\ \A i \in 1..n : batch'[i] = q[i]
           /\ queue' \in Seq(Event) /\ Len(queue') = Len(q) - n
           /\ \A i \in 1..(Len(q) - n) : queue'[i] = q[n + i]
    BY <1>0, <1>3, Sent
  <2>2. Taken' = Taken + n
    BY <1>0, <1>1, <2>1
  <2>3. DOMAIN queue' = 1..(Len(q) - n) /\ DOMAIN batch' = 1..n
    BY <1>0, <2>1
  <2>4. QueueIs'
    <3> SUFFICES ASSUME NEW i \in 1..(Len(q) - n) PROVE queue'[i] = At(Taken' + i, Shift')
      BY <2>1 DEF QueueIs
    <3>1. n + i \in 1..Len(q) /\ Taken + (n + i) = Taken' + i
      BY <1>0, <2>2
    <3> QED
      BY <1>0, <2>1, <3>1
  <2>5. \A i \in 1..n : i \in DOMAIN q /\ batch'[i] = q[i] /\ batch'[i].id = Taken + i
    <3>1. \A i \in 1..n : i \in 1..Len(q)
      BY <1>0
    <3>2. \A i \in 1..Len(q) : q[i].id = Taken + i
      BY ReadyIds
    <3> QED
      BY <1>0, <2>1, <3>1, <3>2
  <2>6. \A i \in 1..(Len(q) - n) : n + i \in DOMAIN q /\ queue'[i] = q[n + i]
    BY <1>0, <2>1
  <2>7. Range(queue') \subseteq Range(q) /\ Range(batch') \subseteq Range(q)
    BY <2>3, <2>5, <2>6 DEF Range
  <2>8. Range(q) \subseteq Range(batch') \union Range(queue')
    <3> SUFFICES ASSUME NEW i \in 1..Len(q) PROVE q[i] \in Range(batch') \union Range(queue')
      BY <1>0 DEF Range
    <3>1. CASE i <= n
      <4>1. i \in DOMAIN batch' /\ q[i] = batch'[i]
        BY <2>3, <2>5, <3>1
      <4> QED
        BY <4>1 DEF Range
    <3>2. CASE ~(i <= n)
      <4>1. i - n \in 1..(Len(q) - n) /\ n + (i - n) = i
        BY <1>0, <3>2
      <4>2. i - n \in DOMAIN queue' /\ queue'[i - n] = q[i]
        BY <2>3, <2>6, <4>1
      <4> QED
        BY <4>2 DEF Range
    <3> QED
      BY <3>1, <3>2
  <2>9. IdsOf(batch') \union IdsOf(queue') = IdsOf(q)
    BY <2>7, <2>8 DEF IdsOf
  <2>10. Fresh(batch')
    <3>1. Run(batch')
      BY <2>3, <2>5 DEF Run
    <3>2. \A e \in IdsOf(batch') : Taken < e /\ e <= Taken'
      <4>1. IdsOf(batch') = {batch'[i].id : i \in 1..n}
        BY <2>1, PlainIds
      <4> QED
        BY <2>2, <2>5, <4>1
    <3> QED
      BY <2>1, <3>1, <3>2 DEF Fresh
  <2> QED
    BY <1>0, <2>1, <2>2, <2>4, <2>7, <2>9, <2>10
<1>4. CASE queue' = <<>> /\ batch' \in {batch, <<>>}
  <2>1. Len(queue') = 0 /\ DOMAIN queue' = {} /\ <<>> \in Seq(Event)
    BY <1>4
  <2>2. Taken' = pushed' /\ QueueIs' /\ Taken <= Taken'
    <3>1. QueueIs'
      BY <2>1 DEF QueueIs
    <3>2. Taken' = pushed'
      <4>1. pushed' \in Nat /\ Taken' = pushed' - Len(queue')
        BY <1>0, <1>1
      <4>2. \A x \in Nat : x - 0 = x
        OBVIOUS
      <4> QED
        BY <2>1, <4>1, <4>2
    <3>3. Taken <= pushed'
      BY <1>0
    <3> QED
      BY <3>1, <3>2, <3>3
  <2>3. q # <<>> /\ Send(q) => IdsOf(batch') \union IdsOf(queue') = IdsOf(q)
    BY <1>3, <1>0, <1>4, Sent, NoIds
  <2>4. /\ queue' \in Seq(Event) /\ batch' \in Seq(Event) /\ Len(queue') <= pushed'
        /\ Range(queue') \subseteq Range(q) /\ Range(batch') \subseteq Range(q) \union Range(batch)
    BY <1>0, <1>4, <1>b, <2>1, NoIds
  <2>5. Taken' \in Nat
    BY <1>0, <2>2
  <2> QED
    BY <1>4, <2>2, <2>3, <2>4, <2>5
<1> QED
  BY <1>2, <1>3, <1>4 DEF Move

LEMMA BatchesKeep ==
  ASSUME Inv, Taken \in Nat, Taken' \in Nat, Taken <= Taken', late' \subseteq Handed,
         batch' \in {batch, <<>>} \/ Fresh(batch'),
         Logged' = Logged \/ \E b \in Handed : Logged' = Logged \union IdsOf(b)
  PROVE  Batches'
<1>1. ASSUME NEW b \in Handed' PROVE b \in Handed \/ b = <<>> \/ Fresh(b)
  BY <1>1 DEF Handed
<1>2. \A b \in Handed : IdsOf(b) \subseteq Nat
  <2>1. \A b \in Handed : b \in Seq(Event)
    BY KnownAre DEF Inv
  <2>2. 1..MaxEvents \subseteq Nat
    BY BatcherAssumption
  <2> QED
    BY <2>1, <2>2, PlainIds
<1>3. Logged \subseteq Nat
  <2>1. 1..MaxEvents \subseteq Nat
    BY BatcherAssumption
  <2> QED
    BY <2>1, LoggedIs DEF Inv, Types
<1>4. Runs /\ Before /\ Whole /\ Apart
  BY DEF Inv, Batches
<1>5. \A b : Fresh(b) => Run(b) /\ \A e \in IdsOf(b) : Taken < e /\ e <= Taken'
  BY DEF Fresh
<1>6. Run(<<>>) /\ IdsOf(<<>>) = {}
  BY NoIds DEF Run
<1>7. \A e \in Logged' : e \in Nat /\ e <= Taken
  BY <1>2, <1>3, <1>4 DEF Before
<1>8. Runs'
  BY <1>1, <1>4, <1>5, <1>6 DEF Runs
<1>9. Before'
  <2>1. \A e \in Logged' : e <= Taken'
    BY <1>7
  <2>2. ASSUME NEW b \in Handed', NEW e \in IdsOf(b) PROVE e <= Taken'
    <3>1. CASE b \in Handed
      <4>1. e \in Nat /\ e <= Taken
        BY <1>2, <1>4, <3>1 DEF Before
      <4> QED
        BY <4>1
    <3>2. CASE b = <<>> \/ Fresh(b)
      BY <1>5, <1>6, <3>2
    <3> QED
      BY <1>1, <3>1, <3>2
  <2> QED
    BY <2>1, <2>2 DEF Before
<1>10. ASSUME NEW b, Fresh(b), NEW S, \A e \in S : e \in Nat /\ e <= Taken
       PROVE  IdsOf(b) \intersect S = {}
  <2> SUFFICES ASSUME NEW e \in IdsOf(b), e \in S PROVE FALSE
    OBVIOUS
  <2>1. Taken < e /\ e \in Nat /\ e <= Taken
    BY <1>5, <1>10
  <2> QED
    BY <2>1
<1>11. Whole'
  <2> SUFFICES ASSUME NEW b \in Handed'
               PROVE  IdsOf(b) \subseteq Logged' \/ IdsOf(b) \intersect Logged' = {}
    BY DEF Whole
  <2>1. CASE b \in Handed
    BY <1>4, <2>1 DEF Whole, Apart
  <2>2. CASE Fresh(b)
    BY <1>7, <1>10, <2>2
  <2>3. CASE b = <<>>
    BY <1>6, <2>3
  <2> QED
    BY <1>1, <2>1, <2>2, <2>3
<1>12. Apart'
  <2>1. ASSUME NEW b \in Handed', NEW c \in Handed, Fresh(b) PROVE IdsOf(b) \intersect IdsOf(c) = {}
    <3>1. \A e \in IdsOf(c) : e \in Nat /\ e <= Taken
      BY <1>2, <1>4 DEF Before
    <3> QED
      BY <1>10, <2>1, <3>1
  <2>2. ASSUME NEW b \in Handed', NEW c \in Handed', Fresh(b), Fresh(c)
        PROVE  b = c \/ b \in Handed \/ c \in Handed
    BY <2>2 DEF Handed
  <2> SUFFICES ASSUME NEW b \in Handed', NEW c \in Handed'
               PROVE  IdsOf(b) = IdsOf(c) \/ IdsOf(b) \intersect IdsOf(c) = {}
    BY DEF Apart
  <2>3. CASE b = <<>> \/ c = <<>>
    BY <1>6, <2>3
  <2>4. CASE b \in Handed /\ c \in Handed
    BY <1>4, <2>4 DEF Apart
  <2>5. CASE Fresh(b) /\ c \in Handed
    BY <2>1, <2>5
  <2>6. CASE Fresh(c) /\ b \in Handed
    <3>1. IdsOf(c) \intersect IdsOf(b) = {}
      BY <2>1, <2>6
    <3> QED
      BY <3>1
  <2>7. CASE Fresh(b) /\ Fresh(c)
    BY <2>2, <2>5, <2>6, <2>7
  <2> QED
    BY <1>1, <2>3, <2>4, <2>5, <2>6, <2>7
<1> QED
  BY <1>8, <1>9, <1>11, <1>12 DEF Batches

(* No new event and none renumbered: the numbers the log and the forwarder hold only shrink. *)
LEMMA NumbersKeep ==
  ASSUME Inv, pushed' \in Nat, pushed <= pushed', NextNumber \in Nat, NextNumber' \in Nat,
         NextNumber <= NextNumber', Known' \subseteq Known
  PROVE  Numbers'
<1>1. \A x \in Known : x.id \in Nat /\ x.seq \in Nat
  BY KnownAre, BatcherAssumption DEF Inv, Event
<1>2. pushed \in Nat
  BY BatcherAssumption DEF Inv, Types
<1>3. \A x \in Known : x.id <= pushed' /\ x.seq < NextNumber'
  BY <1>1, <1>2 DEF Inv, Numbers
<1> QED
  BY <1>3 DEF Inv, Numbers

LEMMA KnownShrinks ==
  ASSUME Range(log') \subseteq Known, retries' = retries, late' \subseteq Handed,
         Range(queue') \subseteq Range(queue),
         Range(batch') \subseteq Range(queue) \union Range(batch)
  PROVE  Known' \subseteq Known
<1>1. \A e : Stamped(e)' = Stamped(e)
  BY DEF Stamped
<1>2. Range(batch) \subseteq UNION {Range(b) : b \in Handed}
  BY DEF Handed
<1>3. \A b \in late' : Range(b) \subseteq UNION {Range(c) : c \in Handed}
  OBVIOUS
<1>4. Raw' \subseteq Raw
  BY <1>2, <1>3 DEF Raw, Handed
<1> QED
  BY <1>1, <1>4 DEF Known

LEMMA WaitingIs == Waiting = {e \in 1..pushed : e \notin Logged \union lost}
<1>1. Range([i \in DOMAIN log |-> log[i].id]) = Logged
  BY DEF Range, Logged, IdsOf
<1> QED
  BY <1>1 DEF Waiting, Promise!Waiting, Promise!Range, Range

LEMMA WaitingWillBe == Waiting' = {e \in 1..pushed' : e \notin Logged' \union lost'}
<1>1. Range([i \in DOMAIN log' |-> log'[i].id]) = Logged'
  BY DEF Range, Logged, IdsOf
<1> QED
  BY <1>1 DEF Waiting, Promise!Waiting, Promise!Range, Range

LEMMA Counting ==
  ASSUME Inv
  PROVE  /\ pushed \in Nat /\ Taken \in Nat /\ Taken <= pushed /\ Len(queue) \in Nat
         /\ NextNumber \in Nat
<1>1. retries * RETRY_SEQ_STRIDE \in Nat
  BY BatcherAssumption DEF Inv, Types
<1>2. NextNumber \in Nat
  BY <1>1 DEF Inv, Types, NextNumber
<1> QED
  BY <1>2, BatcherAssumption DEF Inv, Types, Taken

(* What the forwarder holds are events pushed, the ones in the queue after the ones in the batch. *)
LEMMA HeldIds ==
  ASSUME Inv
  PROVE  /\ IdsOf(batch) \subseteq 1..Taken /\ IdsOf(queue) \subseteq (Taken + 1)..pushed
         /\ IdsOf(batch \o queue) = IdsOf(batch) \union IdsOf(queue)
<1>1. pushed \in Nat /\ Taken \in Nat /\ Taken <= pushed /\ Len(queue) \in Nat
  BY Counting
<1>2. batch \in Handed /\ batch \in Seq(Event) /\ queue \in Seq(Event)
  BY DEF Handed, Inv, Types
<1>3. IdsOf(batch) \subseteq 1..Taken
  <2>1. IdsOf(batch) \subseteq 1..MaxEvents /\ \A e \in IdsOf(batch) : e <= Taken
    BY <1>2, PlainIds DEF Inv, Batches, Before
  <2> QED
    BY <1>1, <2>1, BatcherAssumption
<1>4. IdsOf(queue) \subseteq (Taken + 1)..pushed
  <2>1. IdsOf(queue) = {queue[i].id : i \in 1..Len(queue)}
    BY <1>2, PlainIds
  <2>2. \A i \in 1..Len(queue) : queue[i].id = Taken + i
    <3>1. \A i \in 1..Len(queue) : queue[i].id = At(Taken + i, Shift).id
      BY DEF Inv, QueueIs
    <3> QED
      BY <3>1 DEF At
  <2>3. Taken + Len(queue) = pushed
    BY <1>1 DEF Taken
  <2> QED
    BY <1>1, <2>1, <2>2, <2>3
<1>5. Range(batch \o queue) = Range(batch) \union Range(queue)
  <2> DEFINE S == Event
  <2>1. batch \in Seq(S) /\ queue \in Seq(S)
    BY <1>2
  <2> HIDE DEF S
  <2> QED
    BY <2>1, ConcatRange
<1> QED
  BY <1>3, <1>4, <1>5 DEF IdsOf

(* Giving up what is held gives up whatever waits. *)
LEMMA GivesUp ==
  ASSUME Inv
  PROVE  lost \union (IdsOf(batch \o queue) \ Logged) = lost \union Waiting
<1>1. IdsOf(batch \o queue) = IdsOf(batch) \union IdsOf(queue)
  BY HeldIds
<1>2. IdsOf(batch) \union IdsOf(queue) \subseteq 1..pushed
  <2>1. pushed \in Nat /\ Taken \in Nat /\ Taken <= pushed
    BY Counting
  <2> QED
    BY <2>1, HeldIds
<1>3. Waiting \subseteq IdsOf(batch) \union IdsOf(queue)
  BY DEF Inv, Waits
<1>4. Waiting = {e \in 1..pushed : e \notin Logged \union lost}
  BY WaitingIs
<1> QED
  BY <1>1, <1>2, <1>3, <1>4

-----------------------------------------------------------------------------
(* What waits, after a step that keeps what the forwarder holds; and after *)
(* one that leaves nothing waiting.                                        *)

LEMMA WaitsStay ==
  ASSUME Inv, UNCHANGED <<pushed, lost, abandoned>>, Logged \subseteq Logged',
         late' \subseteq Handed, batch' = batch \/ batch = <<>>,
         IdsOf(batch') \union IdsOf(queue') = IdsOf(batch) \union IdsOf(queue)
  PROVE  Waits'
<1>1. Waiting' \subseteq Waiting
  BY WaitingIs, WaitingWillBe
<1>2. ASSUME NEW b \in late' PROVE b = batch' \/ IdsOf(b) \intersect Waiting' = {}
  <2>1. b = batch \/ IdsOf(b) \intersect Waiting = {}
    BY DEF Handed, Inv, Waits
  <2> QED
    BY <1>1, <2>1, NoIds
<1> QED
  BY <1>1, <1>2 DEF Inv, Waits

LEMMA WaitsNone ==
  ASSUME Waiting' = {}, abandoned' \/ IdsOf(batch') \union IdsOf(queue') = {}
  PROVE  Waits'
BY DEF Waits

(* After a send's end, whatever its answer: the batch no longer waits, the queue still does. *)
LEMMA WaitsOn ==
  ASSUME Inv, UNCHANGED <<pushed, abandoned>>, Logged \subseteq Logged', late' \subseteq Handed,
         lost \subseteq lost', lost' \subseteq lost \union IdsOf(batch),
         IdsOf(batch) \intersect Waiting' = {},
         IdsOf(batch') \union IdsOf(queue') = IdsOf(queue)
  PROVE  Waits'
<1>1. Waiting' \subseteq Waiting
  BY WaitingIs, WaitingWillBe
<1>2. ASSUME NEW b \in late' PROVE IdsOf(b) \intersect Waiting' = {}
  <2>1. b = batch \/ IdsOf(b) \intersect Waiting = {}
    BY DEF Handed, Inv, Waits
  <2> QED
    BY <1>1, <2>1
<1>3. Waiting' \subseteq IdsOf(queue)
  BY <1>1 DEF Inv, Waits
<1>4. IdsOf(queue) \intersect IdsOf(batch) = {}
  <2>1. Taken \in Nat /\ pushed \in Nat
    BY Counting
  <2>2. IdsOf(batch) \subseteq 1..Taken /\ IdsOf(queue) \subseteq (Taken + 1)..pushed
    BY HeldIds
  <2> QED
    BY <2>1, <2>2
<1>5. ~abandoned' => IdsOf(queue) \intersect lost' = {}
  BY <1>4 DEF Inv, Waits
<1>6. abandoned' => Waiting' = {}
  BY <1>1 DEF Inv, Waits
<1> QED
  BY <1>2, <1>3, <1>5, <1>6 DEF Waits

-----------------------------------------------------------------------------
(* Steps that go on within a job. *)

Core ==
  /\ queue \in Seq(Event) /\ log \in Seq(Event) /\ batch \in Seq(Event)
  /\ late \in SUBSET Seq(Event)
  /\ pushed \in 0..MaxEvents /\ Len(queue) <= pushed
  /\ QueueIs /\ Batches /\ Numbers

Rest ==
  /\ lost \subseteq 1..pushed
  /\ draining \in {"no", "sending", "sleeping"}
  /\ close \in {"open", "pending", "drained", "expired", "released"}
  /\ closing \in BOOLEAN /\ abandoned \in BOOLEAN /\ timer \in BOOLEAN /\ wanted \in BOOLEAN
  /\ attempt \in 1..MaxAttempts /\ seq \in Nat /\ retries \in Nat
  /\ seq <= attempt * SEQ_PER_ATTEMPT

LEMMA Parts == Inv <=> Core /\ Rest /\ Flags /\ Waits
BY DEF Inv, Core, Rest, Types

LEMMA ReadyNow == ASSUME Inv, UNCHANGED <<pushed, seq>> PROVE Ready(queue)
<1>1. Shift' = Shift
  BY DEF Shift
<1>2. pushed - Len(queue) = Taken /\ pushed \in Nat
  BY Counting DEF Taken
<1> QED
  BY <1>1, <1>2 DEF Ready, Inv, Types, QueueIs

LEMMA LogMoves ==
  ASSUME Inv, log' = log \/ \E b \in Handed : log' = Land(b)
  PROVE  /\ log' \in Seq(Event) /\ Range(log') \subseteq Known /\ Logged \subseteq Logged'
         /\ Logged' = Logged \/ \E b \in Handed : Logged' = Logged \union IdsOf(b)
<1>1. CASE log' = log
  BY <1>1, KnownAre DEF Inv, Types, Logged
<1>2. CASE \E b \in Handed : log' = Land(b)
  BY <1>2, Landed
<1> QED
  BY <1>1, <1>2

LEMMA Continues ==
  ASSUME Inv, UNCHANGED <<pushed, seq, retries>>, Move(queue), late' \subseteq Handed,
         log' = log \/ \E b \in Handed : log' = Land(b)
  PROVE  /\ Core' /\ Logged \subseteq Logged'
         /\ queue # <<>> /\ Send(queue) => IdsOf(batch') \union IdsOf(queue') = IdsOf(queue)
<1>1. Ready(queue) /\ pushed \in Nat /\ Taken \in Nat /\ NextNumber \in Nat
  BY ReadyNow, Counting
<1>2. batch \in Seq(Event) /\ pushed \in 0..MaxEvents
  BY DEF Inv, Types
<1>3. /\ queue' \in Seq(Event) /\ batch' \in Seq(Event) /\ Len(queue') <= pushed'
      /\ QueueIs' /\ Taken' \in Nat /\ Taken <= Taken'
      /\ Range(queue') \subseteq Range(queue)
      /\ Range(batch') \subseteq Range(queue) \union Range(batch)
      /\ batch' \in {batch, <<>>} \/ Fresh(batch')
      /\ queue # <<>> /\ Send(queue) => IdsOf(batch') \union IdsOf(queue') = IdsOf(queue)
  BY <1>1, <1>2, Moves
<1>4. /\ log' \in Seq(Event) /\ Range(log') \subseteq Known /\ Logged \subseteq Logged'
      /\ Logged' = Logged \/ \E b \in Handed : Logged' = Logged \union IdsOf(b)
  BY LogMoves
<1>5. Batches'
  BY <1>1, <1>3, <1>4, BatchesKeep
<1>6. Known' \subseteq Known
  BY <1>3, <1>4, KnownShrinks
<1>7. NextNumber' = NextNumber
  BY DEF NextNumber
<1>8. Numbers'
  BY <1>1, <1>6, <1>7, NumbersKeep
<1>9. late' \in SUBSET Seq(Event)
  BY DEF Inv, Types, Handed
<1> QED
  BY <1>2, <1>3, <1>4, <1>5, <1>8, <1>9 DEF Core

LEMMA Starts ==
  ASSUME Inv, Start(queue)
  PROVE  /\ Move(queue) /\ (batch' = batch \/ batch = <<>>)
         /\ \/ draining = "no" /\ ~abandoned /\ queue # <<>> /\ Send(queue)
               /\ draining' = "sending" /\ batch' # <<>>
            \/ UNCHANGED <<queue, batch, draining>>
               /\ ~(draining = "no" /\ ~abandoned /\ queue # <<>>)
<1>1. queue \in Seq(Event)
  BY DEF Inv, Types
<1>2. CASE draining = "no" /\ ~abandoned /\ queue # <<>>
  <2>1. Send(queue)
    BY <1>2 DEF Start
  <2>2. draining' = "sending" /\ batch' # <<>>
    BY <1>1, <1>2, <2>1, Sent
  <2> QED
    BY <1>2, <2>1, <2>2 DEF Move, Inv, Flags
<1>3. CASE ~(draining = "no" /\ ~abandoned /\ queue # <<>>)
  BY <1>3 DEF Start, Move
<1> QED
  BY <1>2, <1>3

(* The flags, and the ids held, after a step that may start a drain. *)
LEMMA StartKeeps ==
  ASSUME Inv, Start(queue), UNCHANGED <<pushed, seq, retries, late, log, lost, abandoned>>
  PROVE  Core' /\ Waits' /\ (draining' = "no" <=> batch' = <<>>)
         /\ draining' \in {"no", "sending", "sleeping"}
<1>1. /\ Move(queue) /\ (batch' = batch \/ batch = <<>>)
      /\ \/ draining = "no" /\ ~abandoned /\ queue # <<>> /\ Send(queue)
            /\ draining' = "sending" /\ batch' # <<>>
         \/ UNCHANGED <<queue, batch, draining>>
            /\ ~(draining = "no" /\ ~abandoned /\ queue # <<>>)
  BY Starts
<1>2. late' \subseteq Handed
  BY DEF Handed
<1>3. /\ Core' /\ Logged \subseteq Logged'
      /\ queue # <<>> /\ Send(queue) => IdsOf(batch') \union IdsOf(queue') = IdsOf(queue)
  BY <1>1, <1>2, Continues
<1>4. IdsOf(batch') \union IdsOf(queue') = IdsOf(batch) \union IdsOf(queue)
  <2>1. CASE draining = "no" /\ ~abandoned /\ queue # <<>> /\ Send(queue)
    <3>1. batch = <<>>
      BY <2>1 DEF Inv, Flags
    <3> QED
      BY <1>3, <2>1, <3>1, NoIds
  <2>2. CASE UNCHANGED <<queue, batch, draining>>
    BY <2>2
  <2> QED
    BY <1>1, <2>1, <2>2
<1>5. Waits'
  BY <1>1, <1>2, <1>3, <1>4, WaitsStay
<1>6. (draining' = "no" <=> batch' = <<>>) /\ draining' \in {"no", "sending", "sleeping"}
  BY <1>1 DEF Inv, Flags, Types
<1> QED
  BY <1>3, <1>5, <1>6

LEMMA TickKeeps == ASSUME Inv, Tick PROVE Inv'
<1>1. Start(queue) /\ UNCHANGED <<flags, job, wanted, log, late, history>> /\ timer' = FALSE
  BY DEF Tick
<1> USE DEF flags, job, history
<1>2. Core' /\ Waits' /\ (draining' = "no" <=> batch' = <<>>)
      /\ draining' \in {"no", "sending", "sleeping"}
  BY <1>1, StartKeeps
<1>3. Rest' /\ Flags'
  BY <1>1, <1>2 DEF Rest, Inv, Types, Flags
<1> QED
  BY <1>2, <1>3 DEF Inv, Core, Rest, Types

LEMMA CloseKeeps == ASSUME Inv, Close PROVE Inv'
<1> USE DEF flags, job, history
<1>0. /\ close = "open" /\ closing' = TRUE /\ timer' = FALSE
      /\ UNCHANGED <<abandoned, job, wanted, log, late, history>>
  BY DEF Close
<1>1. CASE abandoned \/ draining = "sleeping"
  <2>1. /\ UNCHANGED <<queue, batch>> /\ draining' \in {draining, "sending"}
        /\ draining = "no" => draining' = "no"
        /\ draining # "no" => draining' # "no"
        /\ IF abandoned THEN close' = "released" ELSE close' \in {"pending", "drained"}
    BY <1>1 DEF Close
  <2>2. Move(queue) /\ late' \subseteq Handed
    BY <1>0, <2>1 DEF Move, Handed
  <2>3. Core' /\ Logged \subseteq Logged'
    BY <1>0, <2>2, Continues
  <2>4. Waits'
    BY <1>0, <2>1, <2>2, <2>3, WaitsStay
  <2>5. Rest' /\ Flags'
    BY <1>0, <2>1 DEF Rest, Inv, Types, Flags
  <2> QED
    BY <2>3, <2>4, <2>5 DEF Inv, Core, Rest, Types
<1>2. CASE ~(abandoned \/ draining = "sleeping")
  <2>1. Start(queue) /\ close' \in {"pending", "drained"}
    BY <1>2 DEF Close
  <2>2. Core' /\ Waits' /\ (draining' = "no" <=> batch' = <<>>)
        /\ draining' \in {"no", "sending", "sleeping"}
    BY <1>0, <2>1, StartKeeps
  <2>3. Rest' /\ Flags'
    BY <1>0, <1>2, <2>1, <2>2 DEF Rest, Inv, Types, Flags
  <2> QED
    BY <2>2, <2>3 DEF Inv, Core, Rest, Types
<1> QED
  BY <1>1, <1>2

(* deliver has returned, whatever for. *)
LEMMA Returns ==
  ASSUME Inv, Delivered, UNCHANGED <<closing, abandoned>>, draining # "no"
  PROVE  /\ Move(queue)
         /\ timer' \in BOOLEAN /\ draining' \in {"no", "sending"}
         /\ (draining' = "no" <=> batch' = <<>>)
         /\ \/ queue # <<>> /\ Send(queue) /\ close' = close
            \/ /\ queue' = queue /\ batch' = <<>>
               /\ close' = close \/ (close = "pending" /\ close' = "drained")
               /\ close = "pending" => close' = "drained" /\ queue = <<>>
<1>1. queue \in Seq(Event)
  BY DEF Inv, Types
<1>2. CASE ~abandoned /\ queue # <<>> /\ (closing \/ Len(queue) >= MaxBatch)
  <2>1. Send(queue) /\ UNCHANGED <<timer, close>>
    BY <1>2 DEF Delivered
  <2>2. draining' = "sending" /\ batch' # <<>>
    BY <1>1, <1>2, <2>1, Sent
  <2> QED
    BY <1>2, <2>1, <2>2 DEF Move, Inv, Types
<1>3. CASE ~(~abandoned /\ queue # <<>> /\ (closing \/ Len(queue) >= MaxBatch))
  <2>1. /\ batch' = <<>> /\ draining' = "no" /\ queue' = queue
        /\ timer' = (timer \/ (queue # <<>> /\ ~closing /\ ~abandoned))
        /\ close' = IF close = "pending" THEN "drained" ELSE close
    BY <1>3 DEF Delivered
  <2>2. timer' \in BOOLEAN
    BY <2>1 DEF Inv, Types
  <2>3. close = "pending" => queue = <<>>
    BY <1>3 DEF Inv, Flags
  <2> QED
    BY <2>1, <2>2, <2>3 DEF Move
<1> QED
  BY <1>2, <1>3

LEMMA ReturnsKeep ==
  ASSUME Inv, Delivered, UNCHANGED <<closing, abandoned, job, wanted, pushed, late>>,
         draining # "no",
         log' = log \/ \E b \in Handed : log' = Land(b),
         lost' = lost \/ lost' = lost \union (IdsOf(batch) \ Logged),
         IdsOf(batch) \intersect Waiting' = {}
  PROVE  Inv'
<1> USE DEF job
<1>1. /\ Move(queue)
      /\ timer' \in BOOLEAN /\ draining' \in {"no", "sending"}
      /\ (draining' = "no" <=> batch' = <<>>)
      /\ \/ queue # <<>> /\ Send(queue) /\ close' = close
         \/ /\ queue' = queue /\ batch' = <<>>
            /\ close' = close \/ (close = "pending" /\ close' = "drained")
            /\ close = "pending" => close' = "drained" /\ queue = <<>>
  BY Returns
<1>2. late' \subseteq Handed
  BY DEF Handed
<1>3. /\ Core' /\ Logged \subseteq Logged'
      /\ queue # <<>> /\ Send(queue) => IdsOf(batch') \union IdsOf(queue') = IdsOf(queue)
  BY <1>1, <1>2, Continues
<1>4. IdsOf(batch') \union IdsOf(queue') = IdsOf(queue)
  BY <1>1, <1>3, NoIds
<1>5. lost \subseteq lost' /\ lost' \subseteq lost \union IdsOf(batch)
  OBVIOUS
<1>6. Waits'
  BY <1>2, <1>3, <1>4, <1>5, WaitsOn
<1>7. lost' \subseteq 1..pushed'
  <2>1. IdsOf(batch) \subseteq 1..Taken /\ Taken \in Nat /\ Taken <= pushed /\ pushed \in Nat
    BY HeldIds, Counting
  <2>2. IdsOf(batch) \subseteq 1..pushed
    BY <2>1
  <2> QED
    BY <1>5, <2>2 DEF Inv, Types
<1>8. close' \in {close, "drained"} /\ (close' # close => close = "pending")
  BY <1>1
<1>9. Rest' /\ Flags'
  BY <1>1, <1>7, <1>8 DEF Rest, Inv, Types, Flags
<1> QED
  BY <1>3, <1>6, <1>9 DEF Inv, Core, Rest, Types

LEMMA AcceptedKeeps == ASSUME Inv, Accepted PROVE Inv'
<1> USE DEF job, history
<1>1. batch \in Handed /\ log' = Land(batch)
  BY DEF Accepted, Handed
<1>2. Logged' = Logged \union IdsOf(batch)
  BY <1>1, Landed
<1>3. IdsOf(batch) \intersect Waiting' = {}
  BY <1>2, WaitingWillBe
<1> QED
  BY <1>1, <1>3, ReturnsKeep DEF Accepted

LEMMA RefusedKeeps == ASSUME Inv, Refused PROVE Inv'
<1> USE DEF job
<1>1. log' = log /\ lost' = lost \union (IdsOf(batch) \ Logged) /\ Logged' = Logged
  BY DEF Refused, Logged
<1>2. IdsOf(batch) \intersect Waiting' = {}
  BY <1>1, WaitingWillBe
<1> QED
  BY <1>1, <1>2, ReturnsKeep DEF Refused

LEMMA WakeKeeps == ASSUME Inv, Wake PROVE Inv'
<1> USE DEF job, history
<1>0. draining = "sleeping" /\ UNCHANGED <<closing, abandoned, job, wanted, log, late, history>>
  BY DEF Wake
<1>1. CASE abandoned
  <2>1. Waiting' = Waiting /\ Waiting = {}
    BY <1>0, <1>1, WaitingIs, WaitingWillBe DEF Logged, Inv, Waits
  <2> QED
    BY <1>0, <1>1, <2>1, ReturnsKeep DEF Wake
<1>2. CASE ~abandoned
  <2>1. draining' = "sending" /\ UNCHANGED <<queue, batch, timer, close>>
    BY <1>2 DEF Wake
  <2>2. Move(queue) /\ late' \subseteq Handed
    BY <1>0, <2>1 DEF Move, Handed
  <2>3. Core' /\ Logged \subseteq Logged'
    BY <1>0, <2>2, Continues
  <2>4. Waits'
    BY <1>0, <2>1, <2>2, <2>3, WaitsStay
  <2>5. Rest' /\ Flags'
    BY <1>0, <2>1 DEF Rest, Inv, Types, Flags
  <2> QED
    BY <2>3, <2>4, <2>5 DEF Inv, Core, Rest, Types
<1> QED
  BY <1>1, <1>2

LEMMA FailsKeeps == ASSUME Inv, Fails PROVE Inv'
<1> USE DEF flags, job, history
<1>1. /\ draining = "sending" /\ draining' = "sleeping"
      /\ UNCHANGED <<queue, batch, timer, flags, job, wanted, history>>
      /\ late' \subseteq Handed /\ late' \in {late, late \union {batch}}
      /\ log' = log \/ \E b \in Handed : log' = Land(b)
  BY DEF Fails, Handed
<1>2. Move(queue)
  BY <1>1 DEF Move
<1>3. Core' /\ Logged \subseteq Logged'
  BY <1>1, <1>2, Continues
<1>4. Waits'
  BY <1>1, <1>3, WaitsStay
<1>5. Rest' /\ Flags'
  BY <1>1 DEF Rest, Inv, Types, Flags
<1> QED
  BY <1>3, <1>4, <1>5 DEF Inv, Core, Rest, Types

LEMMA LateArrivalKeeps == ASSUME Inv, LateArrival PROVE Inv'
<1> USE DEF flags, job, history
<1>1. /\ UNCHANGED <<queue, batch, draining, timer, flags, job, wanted, history>>
      /\ late' \subseteq Handed
      /\ log' = log \/ \E b \in Handed : log' = Land(b)
  BY DEF LateArrival, Handed
<1>2. Move(queue)
  BY <1>1 DEF Move
<1>3. Core' /\ Logged \subseteq Logged'
  BY <1>1, <1>2, Continues
<1>4. Waits'
  BY <1>1, <1>3, WaitsStay
<1>5. Rest' /\ Flags'
  BY <1>1 DEF Rest, Inv, Types, Flags
<1> QED
  BY <1>3, <1>4, <1>5 DEF Inv, Core, Rest, Types

LEMMA FinishKeeps == ASSUME Inv, Finish PROVE Inv'
<1> USE DEF flags, job, history
<1>1. /\ UNCHANGED <<queue, batch, draining, timer, flags, job, log, late, history>>
      /\ wanted' = FALSE /\ late' \subseteq Handed
  BY DEF Finish, Handed
<1>2. Move(queue)
  BY <1>1 DEF Move
<1>3. Core' /\ Logged \subseteq Logged'
  BY <1>1, <1>2, Continues
<1>4. Waits'
  BY <1>1, <1>3, WaitsStay
<1>5. Rest' /\ Flags'
  BY <1>1 DEF Rest, Inv, Types, Flags
<1> QED
  BY <1>3, <1>4, <1>5 DEF Inv, Core, Rest, Types

-----------------------------------------------------------------------------
(* Giving up, and the job's end. *)

LEMMA LostAre == ASSUME Inv PROVE lost \union Waiting \subseteq 1..pushed
BY WaitingIs DEF Inv, Types

LEMMA NoneWait ==
  ASSUME Inv, log' = log, pushed' = pushed, lost' = lost \union (IdsOf(batch \o queue) \ Logged)
  PROVE  Waiting' = {} /\ lost' \subseteq 1..pushed'
<1>1. lost' = lost \union Waiting
  BY GivesUp
<1>2. Logged' = Logged
  BY DEF Logged
<1> QED
  BY <1>1, <1>2, WaitingIs, WaitingWillBe, LostAre

LEMMA GivingUpKeeps ==
  ASSUME Inv, lost' = lost \union (IdsOf(batch \o queue) \ Logged), abandoned' = TRUE,
         UNCHANGED <<closing, job, wanted, log, late, pushed>>,
         \/ queue' \in {queue, <<>>} /\ batch' = batch /\ draining' = draining
         \/ queue' \in {queue, <<>>} /\ batch' = <<>> /\ draining' = "no",
         timer' \in BOOLEAN,
         \/ close = "pending" /\ close' \in {"expired", "released"}
         \/ close # "pending" /\ close' = close
  PROVE  Inv'
<1> USE DEF job
<1>1. Move(queue) /\ late' \subseteq Handed
  BY DEF Move, Handed
<1>2. Core'
  BY <1>1, Continues
<1>3. Waiting' = {} /\ lost' \subseteq 1..pushed'
  BY NoneWait
<1>4. Waits'
  BY <1>3, WaitsNone
<1>5. Rest' /\ Flags'
  BY <1>3 DEF Rest, Inv, Types, Flags
<1> QED
  BY <1>2, <1>4, <1>5 DEF Inv, Core, Rest, Types

LEMMA UnwantedKeeps == ASSUME Inv, Unwanted PROVE Inv'
<1>1. /\ lost' = lost \union (IdsOf(batch \o queue) \ Logged) /\ abandoned' = TRUE
      /\ UNCHANGED <<closing, job, wanted, log, late, pushed>>
      /\ queue' = <<>> /\ batch' = <<>> /\ draining' = "no" /\ timer' = FALSE
      /\ close' = IF close = "pending" THEN "released" ELSE close
  BY DEF Unwanted, Abandoning
<1> QED
  BY <1>1, GivingUpKeeps

LEMMA AbandonKeeps == ASSUME Inv, Abandon PROVE Inv'
<1>1. /\ lost' = lost \union (IdsOf(batch \o queue) \ Logged) /\ abandoned' = TRUE
      /\ UNCHANGED <<closing, job, wanted, log, late, pushed>>
      /\ queue' = <<>> /\ timer' = FALSE
      /\ close' = IF close = "pending" THEN "released" ELSE close
      /\ \/ batch' = batch /\ draining' = draining
         \/ batch' = <<>> /\ draining' = "no"
  BY DEF Abandon, Abandoning, StopSleeping
<1> QED
  BY <1>1, GivingUpKeeps

LEMMA ExpireKeeps == ASSUME Inv, Expire PROVE Inv'
<1>1. /\ lost' = lost \union (IdsOf(batch \o queue) \ Logged) /\ abandoned' = TRUE
      /\ UNCHANGED <<queue, timer, closing, job, wanted, log, late, pushed>>
      /\ close = "pending" /\ close' = "expired"
      /\ \/ batch' = batch /\ draining' = draining
         \/ batch' = <<>> /\ draining' = "no"
  BY DEF Expire, StopSleeping
<1>2. timer' \in BOOLEAN
  BY <1>1 DEF Inv, Types
<1> QED
  BY <1>1, <1>2, GivingUpKeeps

(* The products of the numbers, for one more attempt and one more retry. *)
LEMMA Strides ==
  ASSUME NEW n \in Nat, NEW s \in Nat
  PROVE  (n + 1) * s = n * s + s /\ n * s \in Nat
OBVIOUS

LEMMA AttemptsFit ==
  ASSUME Inv
  PROVE  seq <= RETRY_SEQ_STRIDE /\ attempt * SEQ_PER_ATTEMPT \in Nat
<1> DEFINE a == attempt * SEQ_PER_ATTEMPT
           m == MaxAttempts * SEQ_PER_ATTEMPT
<1>1. attempt \in Nat /\ attempt <= MaxAttempts /\ MaxAttempts \in Nat /\ SEQ_PER_ATTEMPT \in Nat
  BY BatcherAssumption DEF Inv, Types
<1>2. a \in Nat /\ m \in Nat
  BY <1>1
<1>3. a <= m
  <2>1. \A x, y, z \in Nat : x <= y => x * z <= y * z
    OBVIOUS
  <2> QED
    BY <1>1, <2>1
<1>4. seq <= a /\ seq \in Nat /\ RETRY_SEQ_STRIDE >= m /\ RETRY_SEQ_STRIDE \in Nat
  BY BatcherAssumption DEF Inv, Types
<1> HIDE DEF a, m
<1> QED
  BY <1>2, <1>3, <1>4 DEF a

LEMMA EndsKeep ==
  ASSUME Inv, Ends, late' \subseteq Handed,
         Known' \subseteq Known, NextNumber' \in Nat, NextNumber <= NextNumber',
         attempt' \in 1..MaxAttempts, seq' \in Nat, retries' \in Nat,
         seq' <= attempt' * SEQ_PER_ATTEMPT, wanted' \in BOOLEAN
  PROVE  Inv'
<1>1. /\ queue' = <<>> /\ batch' = <<>> /\ draining' = "no" /\ timer' = FALSE
      /\ closing' = FALSE /\ abandoned' = FALSE /\ close' = "open"
      /\ lost' = lost \union (IdsOf(batch \o queue) \ Logged)
      /\ log' = log /\ pushed' = pushed
  BY DEF Ends
<1>2. pushed \in Nat /\ Taken \in Nat /\ Taken <= pushed /\ NextNumber \in Nat
      /\ pushed \in 0..MaxEvents
  BY Counting DEF Inv, Types
<1>3. Len(queue') = 0 /\ <<>> \in Seq(Event)
  BY <1>1
<1>4. Taken' = pushed
  BY <1>1, <1>2, <1>3 DEF Taken
<1>5. QueueIs'
  BY <1>3 DEF QueueIs
<1>6. Logged' = Logged
  BY <1>1 DEF Logged
<1>7. Batches'
  BY <1>1, <1>2, <1>4, <1>6, BatchesKeep
<1>8. Numbers'
  BY <1>1, <1>2, NumbersKeep
<1>9. late' \in SUBSET Seq(Event) /\ log' \in Seq(Event)
  BY <1>1 DEF Inv, Types, Handed
<1>10. Core'
  BY <1>1, <1>2, <1>3, <1>5, <1>7, <1>8, <1>9 DEF Core
<1>11. Waiting' = {} /\ lost' \subseteq 1..pushed'
  BY <1>1, NoneWait
<1>12. Waits'
  BY <1>1, <1>11, NoIds, WaitsNone
<1>13. Rest' /\ Flags'
  BY <1>1, <1>11 DEF Rest, Flags
<1> QED
  BY <1>10, <1>12, <1>13 DEF Inv, Core, Rest, Types

LEMMA RerunKeeps == ASSUME Inv, Rerun PROVE Inv'
<1>1. /\ Ends /\ attempt < MaxAttempts /\ attempt' = attempt + 1
      /\ seq' = FirstSeq(attempt + 1)
      /\ late' \subseteq Handed /\ UNCHANGED <<retries, wanted>>
  BY DEF Rerun, Handed
<1>2. /\ attempt \in Nat /\ attempt' \in 1..MaxAttempts /\ SEQ_PER_ATTEMPT \in Nat
      /\ seq \in Nat /\ seq <= attempt * SEQ_PER_ATTEMPT
  BY <1>1, BatcherAssumption DEF Inv, Types
<1>3. seq' = attempt * SEQ_PER_ATTEMPT /\ attempt' * SEQ_PER_ATTEMPT = seq' + SEQ_PER_ATTEMPT
      /\ seq' \in Nat
  <2>1. FirstSeq(attempt + 1) = attempt * SEQ_PER_ATTEMPT
    BY <1>2 DEF FirstSeq
  <2>2. (attempt + 1) * SEQ_PER_ATTEMPT = attempt * SEQ_PER_ATTEMPT + SEQ_PER_ATTEMPT
        /\ attempt * SEQ_PER_ATTEMPT \in Nat
    BY <1>2, Strides
  <2> QED
    BY <1>1, <2>1, <2>2
<1>4. seq <= seq' /\ seq' <= attempt' * SEQ_PER_ATTEMPT
  <2>1. \A x, y, z \in Nat : z = x + y => x <= z
    OBVIOUS
  <2>2. seq' <= seq' + SEQ_PER_ATTEMPT
    BY <1>2, <1>3, <2>1
  <2> QED
    BY <1>2, <1>3, <2>2
<1>5. NextNumber' \in Nat /\ NextNumber <= NextNumber'
  <2> DEFINE r == retries * RETRY_SEQ_STRIDE
  <2>1. r \in Nat
    BY BatcherAssumption DEF Inv, Types
  <2>2. NextNumber = seq + r /\ NextNumber' = seq' + r
    BY <1>1 DEF NextNumber
  <2> HIDE DEF r
  <2> QED
    BY <1>2, <1>3, <1>4, <2>1, <2>2
<1>6. Known' \subseteq Known
  <2>1. queue' = <<>> /\ batch' = <<>> /\ log' = log
    BY <1>1 DEF Ends
  <2> QED
    BY <1>1, <2>1, NoIds, KnownAre, KnownShrinks DEF Inv
<1> QED
  BY <1>1, <1>2, <1>3, <1>4, <1>5, <1>6, EndsKeep DEF Inv, Types

LEMMA RetryKeeps == ASSUME Inv, Retry PROVE Inv'
<1>1. /\ Ends /\ retries' = retries + 1 /\ wanted' = TRUE /\ attempt' = 1
      /\ seq' = (1 - 1) * SEQ_PER_ATTEMPT /\ late' = {}
  BY DEF Retry, FirstSeq
<1>2. SEQ_PER_ATTEMPT \in Nat /\ MaxAttempts \in Nat \ {0} /\ RETRY_SEQ_STRIDE \in Nat
      /\ retries \in Nat /\ seq \in Nat
  BY BatcherAssumption DEF Inv, Types
<1>3. seq' = 0 /\ attempt' \in 1..MaxAttempts /\ retries' \in Nat
      /\ seq' <= attempt' * SEQ_PER_ATTEMPT
  BY <1>1, <1>2
<1>4. NextNumber' \in Nat /\ NextNumber <= NextNumber'
  <2> DEFINE r == retries * RETRY_SEQ_STRIDE
  <2>1. r \in Nat /\ (retries + 1) * RETRY_SEQ_STRIDE = r + RETRY_SEQ_STRIDE
    BY <1>2, Strides
  <2>2. NextNumber = seq + r /\ NextNumber' = r + RETRY_SEQ_STRIDE
    BY <1>1, <1>2, <1>3, <2>1 DEF NextNumber
  <2>3. seq <= RETRY_SEQ_STRIDE
    BY AttemptsFit
  <2> HIDE DEF r
  <2> QED
    BY <1>2, <2>1, <2>2, <2>3
<1>5. Known' \subseteq Known
  <2>1. queue' = <<>> /\ batch' = <<>> /\ log' = log /\ late' = {}
    BY <1>1 DEF Ends
  <2>2. Raw' = {}
    BY <2>1, NoIds DEF Raw, Handed
  <2> QED
    BY <2>1, <2>2 DEF Known
<1> QED
  BY <1>1, <1>3, <1>4, <1>5, EndsKeep DEF Handed

-----------------------------------------------------------------------------
(* A push. *)

NewEvent == [id |-> pushed + 1, seq |-> seq]

LEMMA PushReady ==
  ASSUME Inv, pushed < MaxEvents, pushed' = pushed + 1, seq' = seq + 1
  PROVE  /\ Ready(Append(queue, NewEvent))
         /\ IdsOf(Append(queue, NewEvent)) = IdsOf(queue) \union {pushed + 1}
         /\ Range(Append(queue, NewEvent)) = Range(queue) \union {NewEvent}
         /\ NewEvent \in Event
<1> DEFINE q == Append(queue, NewEvent)
<1>1. pushed \in Nat /\ Len(queue) \in Nat /\ Len(queue) <= pushed /\ queue \in Seq(Event)
      /\ seq \in Nat /\ Taken = pushed - Len(queue) /\ DOMAIN queue = 1..Len(queue)
  BY Counting, PlainIds DEF Inv, Types, Taken
<1>2. NewEvent \in Event
  BY <1>1, BatcherAssumption DEF NewEvent, Event
<1>3. q \in Seq(Event) /\ Len(q) = Len(queue) + 1 /\ DOMAIN q = 1..(Len(queue) + 1)
      /\ q[Len(queue) + 1] = NewEvent /\ \A i \in 1..Len(queue) : q[i] = queue[i]
  BY <1>1, <1>2
<1> HIDE DEF q
<1>4. Shift' = Shift
  BY <1>1 DEF Shift
<1>5. NewEvent = At(Taken + (Len(queue) + 1), Shift)
  BY <1>1 DEF NewEvent, At, Shift
<1>6. \A i \in 1..Len(q) : q[i] = At(Taken + i, Shift')
  <2> SUFFICES ASSUME NEW i \in 1..Len(q) PROVE q[i] = At(Taken + i, Shift)
    BY <1>4
  <2>1. CASE i \in 1..Len(queue)
    BY <1>3, <2>1 DEF Inv, QueueIs
  <2>2. CASE i \notin 1..Len(queue)
    <3>1. i = Len(queue) + 1
      BY <1>1, <1>3, <2>2
    <3> QED
      BY <1>3, <1>5, <3>1
  <2> QED
    BY <2>1, <2>2
<1>7. Ready(q)
  BY <1>1, <1>3, <1>6 DEF Ready
<1>8. Range(q) = Range(queue) \union {NewEvent}
  <2>1. \A i \in DOMAIN q : i \in DOMAIN queue \/ i = Len(queue) + 1
    BY <1>1, <1>3
  <2>2. \A i \in DOMAIN queue : i \in DOMAIN q
    BY <1>1, <1>3
  <2>3. Len(queue) + 1 \in DOMAIN q
    BY <1>1, <1>3
  <2> QED
    BY <1>1, <1>3, <2>1, <2>2, <2>3 DEF Range
<1>9. IdsOf(q) = IdsOf(queue) \union {pushed + 1}
  <2>1. NewEvent.id = pushed + 1
    BY DEF NewEvent
  <2>2. IdsOf(q) = IdsOf(queue) \union {NewEvent.id}
    BY <1>8 DEF IdsOf
  <2> QED
    BY <2>1, <2>2
<1> QED
  BY <1>2, <1>7, <1>8, <1>9 DEF q

(* The new event has a higher number than any before. *)
LEMMA PushNumbers ==
  ASSUME Inv, pushed' = pushed + 1, seq' = seq + 1, retries' = retries, log' = log, late' = late,
         NewEvent \in Event,
         Range(queue') \subseteq Range(queue) \union {NewEvent},
         Range(batch') \subseteq Range(queue) \union {NewEvent} \union Range(batch)
  PROVE  Numbers'
<1> DEFINE new == Stamped(NewEvent)
<1>1. /\ pushed \in Nat /\ NextNumber \in Nat /\ seq \in Nat
      /\ \A x \in Known : x.id \in Nat /\ x.seq \in Nat
  <2>1. Known \subseteq Event
    BY KnownAre DEF Inv
  <2>2. \A x \in Event : x.id \in Nat /\ x.seq \in Nat
    BY BatcherAssumption DEF Event
  <2> QED
    BY <2>1, <2>2, Counting DEF Inv, Types
<1>2. new.id = pushed + 1 /\ new.seq = NextNumber
  <2>1. Stamped(NewEvent).id = NewEvent.id
        /\ Stamped(NewEvent).seq = NewEvent.seq + retries * RETRY_SEQ_STRIDE
    BY StampedEvent DEF Inv, Types
  <2> QED
    BY <2>1 DEF NewEvent, NextNumber
<1>3. NextNumber' = NextNumber + 1
  <2> DEFINE r == retries * RETRY_SEQ_STRIDE
  <2>1. r \in Nat
    BY BatcherAssumption DEF Inv, Types
  <2>2. NextNumber = seq + r /\ NextNumber' = seq + 1 + r
    BY DEF NextNumber
  <2> HIDE DEF r
  <2> QED
    BY <1>1, <2>1, <2>2
<1> HIDE DEF new
<1>4. Known' \subseteq Known \union {new}
  <2>1. \A e : Stamped(e)' = Stamped(e)
    BY DEF Stamped
  <2>2. Raw' \subseteq Raw \union {NewEvent}
    BY DEF Raw, Handed
  <2> QED
    BY <2>1, <2>2 DEF Known, new
<1>5. \A x \in Known : x.id <= pushed /\ x.seq < NextNumber
  BY DEF Inv, Numbers
<1>6. \A x \in Known : x.id < new.id /\ x.seq < new.seq /\ ~(new.id < x.id) /\ ~(new.seq < x.seq)
  BY <1>1, <1>2, <1>5
<1>7. \A x \in Known' : x.id <= pushed' /\ x.seq < NextNumber'
  <2> SUFFICES ASSUME NEW x \in Known' PROVE x.id <= pushed' /\ x.seq < NextNumber'
    OBVIOUS
  <2>1. CASE x \in Known
    BY <1>1, <1>3, <1>5, <2>1
  <2>2. CASE x = new
    BY <1>1, <1>2, <1>3, <2>2
  <2> QED
    BY <1>4, <2>1, <2>2
<1>8. \A x, y \in Known' : x.id < y.id <=> x.seq < y.seq
  <2>1. \A x, y \in Known : x.id < y.id <=> x.seq < y.seq
    BY DEF Inv, Numbers
  <2>2. ~(new.id < new.id) /\ ~(new.seq < new.seq)
    BY <1>1, <1>2
  <2> QED
    BY <1>4, <1>6, <2>1, <2>2
<1> QED
  BY <1>7, <1>8 DEF Numbers

LEMMA PushKeeps == ASSUME Inv, Push PROVE Inv'
<1> USE DEF flags
<1> DEFINE q == Append(queue, NewEvent)
<1>1. /\ pushed < MaxEvents /\ seq < attempt * SEQ_PER_ATTEMPT /\ ~abandoned
      /\ pushed' = pushed + 1 /\ seq' = seq + 1
      /\ UNCHANGED <<flags, attempt, retries, wanted, log, late, lost>>
      /\ IF Len(q) >= MaxBatch THEN Start(q) /\ UNCHANGED timer
         ELSE queue' = q /\ timer' = TRUE /\ UNCHANGED <<batch, draining>>
  BY DEF Push, NewEvent
<1>2. /\ Ready(q) /\ IdsOf(q) = IdsOf(queue) \union {pushed + 1}
      /\ Range(q) = Range(queue) \union {NewEvent} /\ NewEvent \in Event
  BY <1>1, PushReady
<1>3. q \in Seq(Event) /\ timer' \in BOOLEAN
  BY <1>1, <1>2 DEF Ready, Inv, Types
<1>4. pushed \in Nat /\ Taken \in Nat /\ Taken <= pushed /\ pushed' \in 0..MaxEvents
      /\ batch \in Seq(Event)
  <2>1. pushed \in Nat /\ Taken \in Nat /\ Taken <= pushed
    BY Counting
  <2> QED
    BY <1>1, <2>1, BatcherAssumption DEF Inv, Types
<1> HIDE DEF q
<1>5. \/ draining = "no" /\ q # <<>> /\ Send(q) /\ draining' = "sending" /\ batch' # <<>>
      \/ queue' = q /\ UNCHANGED <<batch, draining>>
  <2>1. ASSUME q # <<>>, Send(q) PROVE draining' = "sending" /\ batch' # <<>>
    BY <1>3, <2>1, Sent
  <2> QED
    BY <1>1, <2>1 DEF Start
<1>6. Move(q)
  BY <1>5 DEF Move
<1>7. /\ queue' \in Seq(Event) /\ batch' \in Seq(Event) /\ Len(queue') <= pushed'
      /\ QueueIs' /\ Taken' \in Nat /\ Taken <= Taken'
      /\ Range(queue') \subseteq Range(q) /\ Range(batch') \subseteq Range(q) \union Range(batch)
      /\ batch' \in {batch, <<>>} \/ Fresh(batch')
      /\ q # <<>> /\ Send(q) => IdsOf(batch') \union IdsOf(queue') = IdsOf(q)
  BY <1>2, <1>4, <1>6, Moves
<1>8. late' \subseteq Handed /\ Logged' = Logged
  BY <1>1 DEF Handed, Logged
<1>9. Batches'
  BY <1>4, <1>7, <1>8, BatchesKeep
<1>10. Numbers'
  BY <1>1, <1>2, <1>7, PushNumbers
<1>11. Core'
  BY <1>1, <1>4, <1>7, <1>9, <1>10 DEF Core, Inv, Types
<1>12. (draining' = "no" <=> batch' = <<>>) /\ draining' \in {"no", "sending", "sleeping"}
  BY <1>5 DEF Inv, Flags, Types
<1>13. /\ IdsOf(batch') \union IdsOf(queue') = IdsOf(batch) \union IdsOf(q)
       /\ batch' = batch \/ batch = <<>>
  <2>1. CASE draining = "no" /\ q # <<>> /\ Send(q)
    <3>1. batch = <<>>
      BY <2>1 DEF Inv, Flags
    <3> QED
      BY <1>7, <2>1, <3>1, NoIds
  <2>2. CASE queue' = q /\ UNCHANGED <<batch, draining>>
    BY <2>2
  <2> QED
    BY <1>5, <2>1, <2>2
<1>14. Waits'
  <2>1. Waiting' \subseteq Waiting \union {pushed + 1}
    BY <1>1, <1>4, <1>8, WaitingIs, WaitingWillBe
  <2>2. pushed + 1 \notin lost /\ \A b \in Handed : pushed + 1 \notin IdsOf(b)
    <3>1. lost \subseteq 1..pushed
      BY DEF Inv, Types
    <3>2. \A b \in Handed : \A e \in IdsOf(b) : e <= Taken
      BY DEF Inv, Batches, Before
    <3> QED
      BY <1>4, <3>1, <3>2
  <2>3. ASSUME NEW b \in late' PROVE b = batch' \/ IdsOf(b) \intersect Waiting' = {}
    <3>1. b \in Handed /\ (b = batch \/ IdsOf(b) \intersect Waiting = {})
      BY <1>1, <2>3 DEF Handed, Inv, Waits
    <3> QED
      BY <1>13, <2>1, <2>2, <3>1, NoIds
  <2>4. Waiting' \subseteq IdsOf(batch') \union IdsOf(queue')
    BY <1>2, <1>13, <2>1 DEF Inv, Waits
  <2>5. (IdsOf(batch') \union IdsOf(queue')) \intersect lost' = {}
    BY <1>1, <1>2, <1>13, <2>2 DEF Inv, Waits
  <2> QED
    BY <1>1, <2>3, <2>4, <2>5 DEF Waits
<1>15. Rest' /\ Flags'
  <2>1. lost' \subseteq 1..pushed'
    BY <1>1, <1>4 DEF Inv, Types
  <2>2. seq' <= attempt' * SEQ_PER_ATTEMPT /\ seq' \in Nat
    <3> DEFINE a == attempt * SEQ_PER_ATTEMPT
    <3>1. seq \in Nat /\ a \in Nat /\ seq < a
      BY <1>1, AttemptsFit DEF Inv, Types
    <3> HIDE DEF a
    <3>2. seq + 1 <= a
      BY <3>1
    <3> QED
      BY <1>1, <3>1, <3>2 DEF a
  <2> QED
    BY <1>1, <1>3, <1>12, <2>1, <2>2 DEF Rest, Inv, Types, Flags
<1> QED
  BY <1>11, <1>14, <1>15 DEF Inv, Core, Rest, Types

-----------------------------------------------------------------------------
(* The invariant holds. *)

LEMMA InitInv == Init => Inv
<1> SUFFICES ASSUME Init PROVE Inv
  OBVIOUS
<1> USE DEF Init
<1>1. Types
  <2>1. <<>> \in Seq(Event) /\ Len(<<>>) = 0
    OBVIOUS
  <2>2. FirstSeq(1) = 0
    BY BatcherAssumption DEF FirstSeq
  <2>3. 0 <= 1 * SEQ_PER_ATTEMPT /\ 1 \in 1..MaxAttempts /\ 0 \in 0..MaxEvents
    BY BatcherAssumption
  <2>4. seq \in Nat /\ seq <= attempt * SEQ_PER_ATTEMPT /\ attempt \in 1..MaxAttempts
    BY <2>2, <2>3
  <2>5. pushed \in 0..MaxEvents /\ Len(queue) <= pushed
    BY <2>1, <2>3
  <2> QED
    BY <2>1, <2>4, <2>5 DEF Types
<1>2. Flags
  BY DEF Flags
<1>3. QueueIs
  BY DEF QueueIs
<1>4. Handed = {<<>>} /\ Logged = {} /\ IdsOf(<<>>) = {}
  BY NoIds DEF Handed, Logged
<1>5. Batches
  BY <1>4 DEF Batches, Runs, Run, Before, Whole, Apart
<1>6. Known = {}
  BY <1>4, NoIds DEF Known, Raw
<1>7. Numbers
  BY <1>6 DEF Numbers
<1>8. Waiting = {}
  BY WaitingIs
<1>9. Waits
  BY <1>8, NoIds DEF Waits
<1> QED
  BY <1>1, <1>2, <1>3, <1>5, <1>7, <1>9 DEF Inv

LEMMA StutterKeeps == ASSUME Inv, UNCHANGED vars PROVE Inv'
<1> USE DEF vars, flags, job, history
<1>1. Move(queue) /\ late' \subseteq Handed
  BY DEF Move, Handed
<1>2. Core' /\ Logged \subseteq Logged'
  BY <1>1, Continues
<1>3. Waits'
  BY <1>1, <1>2, WaitsStay
<1>4. Rest' /\ Flags'
  BY DEF Rest, Inv, Types, Flags
<1> QED
  BY <1>2, <1>3, <1>4 DEF Inv, Core, Rest, Types

LEMMA NextKeeps == ASSUME Inv, [Next]_vars PROVE Inv'
BY PushKeeps, TickKeeps, AcceptedKeeps, FailsKeeps, RefusedKeeps, UnwantedKeeps, WakeKeeps,
   CloseKeeps, ExpireKeeps, AbandonKeeps, LateArrivalKeeps, FinishKeeps, RerunKeeps, RetryKeeps,
   StutterKeeps DEF Next

LEMMA InvHolds == Spec => []Inv
<1>1. Inv /\ [Next]_vars => Inv'
  BY NextKeeps
<1> QED
  BY <1>1, InitInv, PTL DEF Spec

(* Every event the batcher or the log holds is an event pushed; the queue, *)
(* the batch under way and the late requests of batcher.ts hold events     *)
(* only, and a drain is under way just when there is a batch.              *)
THEOREM TypeCorrect == Spec => [](Types /\ Flags)
BY InvHolds, PTL DEF Inv

(* The agent's own numbers, in do.ts events(): over attempts, retries and  *)
(* whatever landed late, a higher number is a later event, and no number   *)
(* is of two events.                                                       *)
THEOREM NumbersRise == Spec => []Numbers
BY InvHolds, PTL DEF Inv

-----------------------------------------------------------------------------
(* Nothing is stranded. *)

LEMMA StrandedKeeps == ASSUME Inv, NothingStranded, [Next]_vars PROVE NothingStranded'
<1> USE DEF NothingStranded
<1>0. queue \in Seq(Event) /\ Flags /\ timer \in BOOLEAN
  BY DEF Inv, Types
<1>1. CASE Push
  <2> DEFINE q == Append(queue, NewEvent)
  <2>1. /\ close' = close /\ abandoned' = abandoned
        /\ IF Len(q) >= MaxBatch THEN Start(q) /\ UNCHANGED timer
           ELSE timer' = TRUE /\ UNCHANGED draining
    BY <1>1 DEF Push, NewEvent, flags
  <2>2. q # <<>>
    BY <1>0
  <2> HIDE DEF q
  <2>3. ~abandoned
    BY <1>1 DEF Push
  <2> QED
    BY <2>1, <2>2, <2>3 DEF Start, Send
<1>2. CASE Tick
  BY <1>2, Starts DEF Tick, flags
<1>3. ASSUME Delivered, UNCHANGED abandoned, draining # "no" PROVE NothingStranded'
  BY <1>0, <1>3 DEF Delivered, Send, Flags
<1>4. CASE Accepted
  BY <1>3, <1>4 DEF Accepted
<1>5. CASE Fails
  BY <1>5 DEF Fails, flags
<1>6. CASE Refused
  BY <1>3, <1>6 DEF Refused
<1>7. CASE Unwanted
  BY <1>7 DEF Unwanted, Abandoning
<1>8. CASE Wake
  <2>1. CASE abandoned
    BY <1>3, <1>8, <2>1 DEF Wake
  <2>2. CASE ~abandoned
    BY <1>8, <2>2 DEF Wake
  <2> QED
    BY <2>1, <2>2
<1>9. CASE Close
  <2>1. CASE abandoned \/ draining = "sleeping"
    BY <1>9, <2>1 DEF Close
  <2>2. CASE ~(abandoned \/ draining = "sleeping")
    <3>1. /\ Start(queue) /\ abandoned' = abandoned
          /\ close' = IF queue = <<>> /\ draining = "no" THEN "drained" ELSE "pending"
      BY <1>9, <2>2 DEF Close
    <3> QED
      BY <2>2, <3>1, Starts
  <2> QED
    BY <2>1, <2>2
<1>10. CASE Expire
  BY <1>10 DEF Expire
<1>11. CASE Abandon
  BY <1>11 DEF Abandon, Abandoning
<1>12. CASE LateArrival
  BY <1>12 DEF LateArrival, flags
<1>13. CASE Finish
  BY <1>13 DEF Finish, flags
<1>14. CASE Rerun \/ Retry
  BY <1>14 DEF Rerun, Retry, Ends
<1>15. CASE UNCHANGED vars
  BY <1>15 DEF vars, flags
<1> QED
  BY <1>1, <1>2, <1>4, <1>5, <1>6, <1>7, <1>8, <1>9, <1>10, <1>11, <1>12, <1>13, <1>14, <1>15
     DEF Next

(* NothingStranded: whatever interleaving of pushes, the timer, answers    *)
(* and close() came before, start() and drain() leave no event queued that *)
(* nothing will send, and no close() that waits for no drain.              *)
THEOREM StrandedTheorem == Spec => []NothingStranded
<1>1. Init => NothingStranded
  BY DEF Init, NothingStranded
<1>2. Inv /\ NothingStranded /\ [Next]_vars => NothingStranded'
  BY StrandedKeeps
<1> QED
  BY <1>1, <1>2, InvHolds, PTL DEF Spec

(* SendsNoMore: abandon(), and a close() that gave up, keep their word: an *)
(* abandoned batcher takes no batch and makes no send, whatever its drain  *)
(* was doing.                                                              *)
THEOREM SendsNoMoreTheorem == Spec => SendsNoMore
<1>1. ASSUME Inv, [Next]_vars
      PROVE  [abandoned /\ abandoned' /\ draining' = "sending" =>
                draining = "sending" /\ batch' = batch]_vars
  <2> SUFFICES ASSUME Next, abandoned, abandoned', draining' = "sending"
               PROVE  draining = "sending" /\ batch' = batch
    BY <1>1
  <2>0. ASSUME Delivered PROVE FALSE
    BY <2>0 DEF Delivered
  <2>1. CASE Push
    BY <2>1 DEF Push
  <2>2. CASE Tick
    BY <2>2 DEF Tick, Start
  <2>3. CASE Accepted \/ Refused
    BY <2>0, <2>3 DEF Accepted, Refused
  <2>4. CASE Fails
    BY <2>4 DEF Fails
  <2>5. CASE Unwanted
    BY <2>5 DEF Unwanted
  <2>6. CASE Wake
    BY <2>0, <2>6 DEF Wake
  <2>7. CASE Close
    BY <2>7 DEF Close
  <2>8. CASE Expire \/ Abandon
    BY <2>8 DEF Expire, Abandon, StopSleeping
  <2>9. CASE LateArrival \/ Finish
    BY <2>9 DEF LateArrival, Finish
  <2>10. CASE Rerun \/ Retry
    BY <2>10 DEF Rerun, Retry, Ends
  <2> QED
    BY <2>1, <2>2, <2>3, <2>4, <2>5, <2>6, <2>7, <2>8, <2>9, <2>10 DEF Next
<1> QED
  BY <1>1, InvHolds, PTL DEF Spec, SendsNoMore

-----------------------------------------------------------------------------
(* The promise, step by step. *)

Closed == IF ~abandoned THEN close ELSE IF close = "expired" THEN "expired" ELSE "abandoned"

(* A stutter of EventLog. *)
LEMMA Stays ==
  ASSUME UNCHANGED <<pushed, log, lost, abandoned, close>>
  PROVE  UNCHANGED Promise!vars
BY DEF Promise!vars

LEMMA IdsAre ==
  /\ Promise!Waiting = Waiting /\ Promise!Waiting' = Waiting'
  /\ Range([i \in DOMAIN log |-> log[i].id]) = Logged
BY DEF Waiting, Range, Logged, IdsOf

(* A batch that lands: the log's answer, or a straggler, or nothing new. *)
LEMMA LandingKeeps ==
  ASSUME Inv, NEW b \in Handed, log' = Land(b), UNCHANGED <<pushed, lost, abandoned>>,
         b = batch \/ IdsOf(b) \intersect Waiting = {},
         \/ close' = close
         \/ /\ ~abandoned /\ close = "pending" /\ close' = "drained" /\ Waiting' = {}
            /\ b = batch
  PROVE  Promise!Next \/ UNCHANGED Promise!vars
<1> DEFINE first == b[1].id
           last == b[Len(b)].id
<1>1. b \in Seq(Event) /\ Run(b)
  BY KnownAre DEF Inv, Batches, Runs
<1>2. pushed \in Nat /\ Taken \in Nat /\ Taken <= pushed
  BY Counting
<1>3. \/ Closed' = Closed
      \/ Closed = "pending" /\ Promise!Waiting' = {} /\ Closed' = "drained"
  BY IdsAre DEF Closed
<1>4. CASE IdsOf(b) \subseteq Logged /\ log' = log
  <2>1. CASE close' = close
    BY <1>4, <2>1, Stays
  <2>2. CASE ~abandoned /\ close = "pending" /\ close' = "drained" /\ Waiting' = {}
    <3>1. Waiting = {}
      BY <1>4, <2>2, WaitingIs, WaitingWillBe DEF Logged
    <3>2. Promise!Drained
      BY <1>4, <2>2, <3>1, IdsAre DEF Promise!Drained
    <3> QED
      BY <3>2 DEF Promise!Next
  <2> QED
    BY <2>1, <2>2
<1>5. CASE /\ b # <<>> /\ IdsOf(b) \intersect Logged = {}
           /\ Ids' = Ids \o Promise!Ascending(b[1].id, b[Len(b)].id)
  <2>1. IdsOf(b) = first..last /\ first \in Nat \ {0} /\ last \in Nat /\ first <= last
    BY <1>1, <1>5, RunIds, BatcherAssumption
  <2>2. first \in IdsOf(b) /\ last \in IdsOf(b) /\ \A e \in IdsOf(b) : e <= Taken
    BY <2>1 DEF Inv, Batches, Before
  <2>3. Ids' = Ids \o Promise!Ascending(first, last)
    BY <1>5
  <2> HIDE DEF first, last
  <2>4. first \in 1..pushed /\ last \in 1..pushed /\ IdsOf(b) \subseteq 1..pushed
    BY <1>2, <2>1, <2>2
  <2>5. CASE IdsOf(b) \intersect lost = {}
    <3>1. IdsOf(b) \subseteq Waiting /\ b = batch /\ ~abandoned
      BY <1>5, <2>2, <2>4, <2>5, WaitingIs DEF Inv, Waits
    <3>2. \A e \in Waiting : first <= e
      <4> SUFFICES ASSUME NEW e \in Waiting PROVE first <= e
        OBVIOUS
      <4>1. CASE e \in IdsOf(batch)
        BY <2>1, <3>1, <4>1
      <4>2. CASE e \in IdsOf(queue)
        <5>1. e \in (Taken + 1)..pushed
          BY <4>2, HeldIds
        <5> QED
          BY <1>2, <2>1, <2>2, <5>1
      <4> QED
        BY <4>1, <4>2 DEF Inv, Waits
    <3>3. Promise!Oldest(first, last)
      BY <2>1, <3>1, <3>2, IdsAre DEF Promise!Oldest
    <3>4. Promise!Deliver(first, last)
      BY <2>3, <3>3 DEF Promise!Deliver, Ids
    <3>5. Promise!Settles
      BY <1>3 DEF Promise!Settles, Closed
    <3>6. Promise!Answered
      BY <2>4, <3>4, <3>5 DEF Promise!Answered
    <3> QED
      BY <3>6 DEF Promise!Next
  <2>6. CASE ~(IdsOf(b) \intersect lost = {})
    <3>1. ~(IdsOf(b) \subseteq Waiting)
      BY <2>6, WaitingIs
    <3>2. IdsOf(b) \intersect Waiting = {}
      <4>1. CASE b = batch
        <5>1. abandoned
          BY <2>6, <4>1 DEF Inv, Waits
        <5> QED
          BY <5>1 DEF Inv, Waits
      <4> QED
        BY <4>1
    <3>3. first..last \subseteq lost \ Logged
      BY <1>5, <2>1, <2>4, <3>2, WaitingIs
    <3>4. close' = close
      <4> SUFFICES ASSUME ~abandoned, b = batch PROVE FALSE
        OBVIOUS
      <4> QED
        BY <2>6 DEF Inv, Waits
    <3>5. Promise!Straggle(first, last)
      BY <2>1, <2>3, <3>3, <3>4, IdsAre DEF Promise!Straggle, Promise!Range, Range, Ids
    <3> QED
      BY <2>4, <3>5 DEF Promise!Next
  <2> QED
    BY <2>5, <2>6
<1> QED
  BY <1>4, <1>5, Landed

(* A send's end that answers with a batch refused: given up, or known to be in the log. *)
LEMMA RefusedPromise == ASSUME Inv, Refused PROVE Promise!Next \/ UNCHANGED Promise!vars
<1>0. /\ UNCHANGED <<closing, abandoned, wanted, log, late, pushed>> /\ draining = "sending"
      /\ lost' = lost \union (IdsOf(batch) \ Logged) /\ Delivered
  BY DEF Refused
<1>1. \/ queue # <<>> /\ Send(queue) /\ close' = close
      \/ /\ queue' = queue /\ batch' = <<>>
         /\ close' = close \/ (close = "pending" /\ close' = "drained")
         /\ close = "pending" => close' = "drained" /\ queue = <<>>
  BY <1>0, Returns
<1>2. /\ batch \in Handed /\ batch \in Seq(Event) /\ Run(batch) /\ batch # <<>>
      /\ pushed \in Nat /\ Taken \in Nat /\ Taken <= pushed
  BY <1>0, Counting DEF Handed, Inv, Types, Flags, Batches, Runs
<1>3. Logged' = Logged
  BY <1>0 DEF Logged
<1>4. close' # close => Waiting' = {} /\ close = "pending" /\ close' = "drained" /\ ~abandoned
  <2> SUFFICES ASSUME close' # close
               PROVE  Waiting' = {} /\ close = "pending" /\ close' = "drained" /\ ~abandoned
    OBVIOUS
  <2>1. close = "pending" /\ close' = "drained" /\ queue = <<>> /\ ~abandoned
    BY <1>1 DEF Inv, Flags
  <2>2. Waiting \subseteq IdsOf(batch)
    BY <2>1, NoIds DEF Inv, Waits
  <2> QED
    BY <1>0, <1>3, <2>1, <2>2, WaitingIs, WaitingWillBe
<1>5. CASE abandoned \/ IdsOf(batch) \subseteq Logged
  <2>1. lost' = lost
    <3>1. CASE abandoned
      <4>1. Waiting = {} /\ IdsOf(batch) \subseteq 1..pushed
        <5>1. IdsOf(batch) \subseteq 1..Taken
          BY HeldIds
        <5> QED
          BY <1>2, <3>1, <5>1 DEF Inv, Waits
      <4> QED
        BY <1>0, <4>1, WaitingIs
    <3>2. CASE IdsOf(batch) \subseteq Logged
      BY <1>0, <3>2
    <3> QED
      BY <1>5, <3>1, <3>2
  <2>2. CASE close' = close
    BY <1>0, <2>1, <2>2, Stays
  <2>3. CASE close' # close
    <3>1. Waiting = {}
      BY <1>0, <1>3, <1>4, <2>1, <2>3, WaitingIs, WaitingWillBe
    <3>2. Promise!Drained
      BY <1>0, <1>4, <2>1, <2>3, <3>1, IdsAre DEF Promise!Drained
    <3> QED
      BY <3>2 DEF Promise!Next
  <2> QED
    BY <2>2, <2>3
<1>6. CASE ~abandoned /\ ~(IdsOf(batch) \subseteq Logged)
  <2> DEFINE first == batch[1].id
             last == batch[Len(batch)].id
  <2>1. IdsOf(batch) = first..last /\ first \in Nat \ {0} /\ last \in Nat /\ first <= last
    BY <1>2, RunIds, BatcherAssumption
  <2> HIDE DEF first, last
  <2>2. IdsOf(batch) \subseteq 1..Taken /\ IdsOf(batch) \intersect Logged = {}
    BY <1>2, <1>6, HeldIds DEF Inv, Batches, Whole
  <2>3. first \in 1..pushed /\ last \in 1..pushed /\ first..last \subseteq 1..pushed
    BY <1>2, <2>1, <2>2
  <2>4. first..last \subseteq Waiting
    BY <1>6, <2>1, <2>2, <2>3, WaitingIs DEF Inv, Waits
  <2>5. \A e \in Waiting : first <= e
    <3> SUFFICES ASSUME NEW e \in Waiting PROVE first <= e
      OBVIOUS
    <3>1. CASE e \in IdsOf(batch)
      BY <2>1, <3>1
    <3>2. CASE e \in IdsOf(queue)
      <4>1. e \in (Taken + 1)..pushed /\ first \in 1..Taken
        BY <2>1, <2>2, <3>2, HeldIds
      <4> QED
        BY <1>2, <2>1, <4>1
    <3> QED
      BY <3>1, <3>2 DEF Inv, Waits
  <2>6. Promise!Drop(first, last)
    BY <1>0, <2>1, <2>2, <2>4, <2>5, IdsAre DEF Promise!Drop, Promise!Oldest
  <2>7. Promise!Settles
    BY <1>0, <1>4, IdsAre DEF Promise!Settles
  <2>8. Promise!Answered
    BY <2>3, <2>6, <2>7 DEF Promise!Answered
  <2> QED
    BY <2>8 DEF Promise!Next
<1> QED
  BY <1>5, <1>6

LEMMA GivingUpPromise ==
  ASSUME Inv, lost' = lost \union (IdsOf(batch \o queue) \ Logged), abandoned' = TRUE,
         UNCHANGED <<log, pushed>>
  PROVE  Promise!GiveUp
<1>1. lost' = lost \union Waiting
  BY GivesUp
<1>2. Closed' \in {"expired", "abandoned"}
  BY DEF Closed
<1> QED
  BY <1>1, <1>2, IdsAre DEF Promise!GiveUp, Closed

LEMMA EndsPromise == ASSUME Inv, Ends PROVE Promise!Restart
<1>1. lost' = lost \union Waiting
  BY GivesUp DEF Ends
<1> QED
  BY <1>1, IdsAre DEF Promise!Restart, Ends

LEMMA AcceptedPromise == ASSUME Inv, Accepted PROVE Promise!Next \/ UNCHANGED Promise!vars
<1>0. /\ UNCHANGED <<closing, abandoned, pushed, lost>> /\ draining = "sending"
      /\ log' = Land(batch) /\ Delivered /\ batch \in Handed
  BY DEF Accepted, history, Handed
<1>1. \/ queue # <<>> /\ Send(queue) /\ close' = close
      \/ /\ queue' = queue /\ batch' = <<>>
         /\ close' = close \/ (close = "pending" /\ close' = "drained")
         /\ close = "pending" => close' = "drained" /\ queue = <<>>
  BY <1>0, Returns
<1>2. \/ close' = close
      \/ ~abandoned /\ close = "pending" /\ close' = "drained" /\ Waiting' = {}
  <2> SUFFICES ASSUME close' # close
               PROVE  ~abandoned /\ close = "pending" /\ close' = "drained" /\ Waiting' = {}
    OBVIOUS
  <2>1. close = "pending" /\ close' = "drained" /\ queue = <<>> /\ ~abandoned
    BY <1>1 DEF Inv, Flags
  <2>2. Waiting \subseteq IdsOf(batch)
    BY <2>1, NoIds DEF Inv, Waits
  <2>3. Logged' = Logged \union IdsOf(batch)
    BY <1>0, Landed
  <2> QED
    BY <1>0, <2>1, <2>2, <2>3, WaitingIs, WaitingWillBe
<1> QED
  BY <1>0, <1>2, LandingKeeps

LEMMA ClosePromise == ASSUME Inv, Close PROVE Promise!Next \/ UNCHANGED Promise!vars
<1>0. close = "open" /\ UNCHANGED <<abandoned, log, pushed, lost>>
  BY DEF Close, history
<1>1. CASE abandoned
  <2>1. close' = "released"
    BY <1>1 DEF Close
  <2> QED
    BY <1>0, <1>1, <2>1 DEF Promise!vars
<1>2. CASE ~abandoned
  <2>1. close' = IF queue = <<>> /\ draining = "no" THEN "drained" ELSE "pending"
    BY <1>2 DEF Close
  <2>2. queue = <<>> /\ draining = "no" => Waiting = {}
    BY NoIds DEF Inv, Flags, Waits
  <2>3. Promise!Close
    BY <1>0, <1>2, <2>1, <2>2, IdsAre DEF Promise!Close
  <2> QED
    BY <2>3 DEF Promise!Next
<1> QED
  BY <1>1, <1>2

LEMMA StepPromise == ASSUME Inv, [Next]_vars PROVE [Promise!Next]_(Promise!vars)
<1> USE DEF flags, history
<1>1. CASE Push
  <2>1. /\ pushed < MaxEvents /\ ~abandoned /\ pushed' = pushed + 1
        /\ UNCHANGED <<abandoned, close, log, lost>>
    BY <1>1 DEF Push
  <2>2. close \notin {"expired", "abandoned"}
    BY <2>1 DEF Inv, Types, Flags
  <2>3. ~Promise!GivenUp
    BY <2>1, <2>2 DEF Promise!GivenUp
  <2>4. Promise!Push
    BY <2>1, <2>3 DEF Promise!Push
  <2> QED
    BY <2>4 DEF Promise!Next
<1>2. CASE Tick
  BY <1>2, Stays DEF Tick
<1>3. CASE Accepted
  BY <1>3, AcceptedPromise
<1>4. CASE Fails
  <2>1. UNCHANGED <<pushed, lost, abandoned, close>> /\ (log' = log \/ log' = Land(batch))
    BY <1>4 DEF Fails
  <2> QED
    BY <2>1, Stays, LandingKeeps DEF Handed
<1>5. CASE Refused
  BY <1>5, RefusedPromise
<1>6. CASE Unwanted
  BY <1>6, GivingUpPromise DEF Unwanted, Abandoning, Promise!Next
<1>7. CASE Wake
  <2>1. UNCHANGED <<pushed, lost, abandoned, log>> /\ close' = close
    BY <1>7 DEF Wake, Delivered, Send, Inv, Flags
  <2> QED
    BY <2>1, Stays
<1>8. CASE Close
  BY <1>8, ClosePromise
<1>9. CASE Expire
  BY <1>9, GivingUpPromise DEF Expire, Promise!Next
<1>10. CASE Abandon
  BY <1>10, GivingUpPromise DEF Abandon, Abandoning, Promise!Next
<1>11. CASE LateArrival
  <2>1. PICK b \in late : log' = (IF wanted THEN Land(b) ELSE log)
                          /\ UNCHANGED <<pushed, lost, abandoned, close>>
    BY <1>11 DEF LateArrival
  <2>2. b \in Handed /\ (b = batch \/ IdsOf(b) \intersect Waiting = {})
    BY DEF Handed, Inv, Waits
  <2>3. CASE wanted
    BY <2>1, <2>2, <2>3, LandingKeeps
  <2>4. CASE ~wanted
    BY <2>1, <2>4, Stays
  <2> QED
    BY <2>3, <2>4
<1>12. CASE Finish
  BY <1>12, Stays DEF Finish
<1>13. CASE Rerun \/ Retry
  BY <1>13, EndsPromise DEF Rerun, Retry, Promise!Next
<1>14. CASE UNCHANGED vars
  BY <1>14, Stays DEF vars
<1> QED
  BY <1>1, <1>2, <1>3, <1>4, <1>5, <1>6, <1>7, <1>8, <1>9, <1>10, <1>11, <1>12, <1>13, <1>14
     DEF Next

(* KeepsThePromise: batcher.ts and do.ts events() together implement       *)
(* EventLog, whatever is retried, lands late, is refused or is run again:  *)
(* events reach the log in the order pushed, none twice, none skipped for  *)
(* a number already held, none unanswered when close() says drained.       *)
THEOREM PromiseTheorem == Spec => KeepsThePromise
<1>1. Init => Promise!Init
  BY DEF Init, Promise!Init
<1>2. Inv /\ [Next]_vars => [Promise!Next]_(Promise!vars)
  BY StepPromise
<1> QED
  BY <1>1, <1>2, InvHolds, PTL DEF Spec, Promise!Spec, KeepsThePromise

Log == INSTANCE EventLogProofs WITH
  log <- [i \in DOMAIN log |-> log[i].id],
  closed <- IF ~abandoned THEN close ELSE IF close = "expired" THEN "expired" ELSE "abandoned"

(* The dashboard's log, over jobs, retries and late requests: no event     *)
(* twice, and the ones never given up in the order pushed, none before an  *)
(* earlier one that still waits.                                           *)
THEOREM LogInOrder == Spec => []Promise!InOrder
<1>1. Log!Spec => []Log!InOrder
  BY Log!OrderTheorem
<1>2. Log!InOrder <=> Promise!InOrder
  BY DEF Log!InOrder, Promise!InOrder, Log!Waiting, Promise!Waiting, Log!Range, Promise!Range
<1>3. Promise!Init => Log!Init
  BY DEF Promise!Init, Log!Init
<1>4. [Promise!Next]_(Promise!vars) => [Log!Next]_(Log!vars)
  <2>1. \A first, last : Promise!Oldest(first, last) <=> Log!Oldest(first, last)
    BY DEF Promise!Oldest, Log!Oldest, Log!Waiting, Promise!Waiting, Log!Range, Promise!Range
  <2>2. \A first, last : /\ Promise!Deliver(first, last) <=> Log!Deliver(first, last)
                         /\ Promise!Drop(first, last) <=> Log!Drop(first, last)
    BY <2>1 DEF Promise!Deliver, Log!Deliver, Promise!Drop, Log!Drop,
                Promise!Ascending, Log!Ascending
  <2>3. \A first, last : Promise!Straggle(first, last) <=> Log!Straggle(first, last)
    BY DEF Promise!Straggle, Log!Straggle, Promise!Ascending, Log!Ascending,
           Log!Range, Promise!Range
  <2>4. Promise!Settles <=> Log!Settles
    BY DEF Promise!Settles, Log!Settles, Log!Waiting, Promise!Waiting, Log!Range, Promise!Range
  <2>5. Promise!Answered <=> Log!Answered
    BY <2>2, <2>4 DEF Promise!Answered, Log!Answered
  <2>6. /\ Promise!Push <=> Log!Push
        /\ Promise!Close <=> Log!Close
        /\ Promise!Drained <=> Log!Drained
        /\ Promise!GiveUp <=> Log!GiveUp
        /\ Promise!Restart <=> Log!Restart
    BY DEF Promise!Push, Log!Push, Promise!GivenUp, Log!GivenUp, Promise!Close, Log!Close,
           Promise!Drained, Log!Drained, Promise!GiveUp, Log!GiveUp, Promise!Restart, Log!Restart,
           Log!Waiting, Promise!Waiting, Log!Range, Promise!Range
  <2>7. Promise!vars = Log!vars /\ Promise!vars' = Log!vars'
    BY DEF Promise!vars, Log!vars
  <2> QED
    BY <2>3, <2>5, <2>6, <2>7 DEF Promise!Next, Log!Next
<1> QED
  BY <1>1, <1>2, <1>3, <1>4, PromiseTheorem, PTL DEF KeepsThePromise, Promise!Spec, Log!Spec
=============================================================================
