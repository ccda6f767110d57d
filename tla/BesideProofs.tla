---------------------------- MODULE BesideProofs ----------------------------
(***************************************************************************)
(* Of what stands beside the runs (MCBeside).  The Go app starts and       *)
(* serves as it should: resolve calls the constructors in dependency       *)
(* order, and the framework serves a program exactly if it is one it can   *)
(* start, for any constructors and any list of routes; a client is sent    *)
(* one answer and its pages cover the orders, for any number of requests,  *)
(* orders and clients' limits.  CI never deploys backwards, rolls back     *)
(* what it should and leaves the newest commit serving, for any number of  *)
(* pushes, reruns, deploys by hand and failed calls.  A PR is given what   *)
(* its author and its whole diff call for, whatever its pages and pushes,  *)
(* and the client's token outlasts each call it is used for.  And an open  *)
(* list of runs ends up with what the index holds, for any runs, frames,   *)
(* fetches and faults.                                                     *)
(***************************************************************************)
EXTENDS
  Resolver, Server, CiDeploy, Intake, RunsLive, FiniteSetTheorems, SequenceTheorems,
  WellFoundedInduction, TLAPS

Elements(s) == {s[n] : n \in DOMAIN s}
Distinct(s) == \A n, m \in DOMAIN s : s[n] = s[m] => n = m

Built == Elements(built)

(* The parameters of i nothing was built for yet. *)
Lacking(i) == {k \in Needs(i) : \A j \in Built : k \notin NeedsOf(i, j)}

(* What was called came after what it needs, and is no cycle. *)
Before(n) == {built[m] : m \in 1..n - 1}
Ordered ==
  \A n \in DOMAIN built, i \in Active :
    i = built[n] => \A k \in Needs(i) : \E j \in Before(n) : k \in NeedsOf(i, j)
Acyclic == \A S \in SUBSET Built : S # {} => ~Waiting(S)
OrderInv == built \in Seq(Active) /\ Distinct(built) /\ Ordered /\ Acyclic

(* The indegrees count what is open; ready are those with nothing open that were not called. *)
QueueInv ==
  stage = "build" =>
    /\ \A i \in Active : indegree[i] = Cardinality(Lacking(i))
    /\ ready \in Seq(Active) /\ Distinct(ready)
    /\ \A i \in Active : i \in Elements(ready) <=> i \notin Built /\ Lacking(i) = {}

WellFormed == \A i \in DOMAIN services : Analyze(services[i]) /\ services[i].provides \notin Builtin
Linked == \A i \in Active : \A k \in Needs(i) : services[i].deps[k] \in Provided

(* What was mounted is allowed, and is whole. *)
RoutesInv ==
  stage \in {"mount", "serving"} =>
    /\ HasPostgres /\ Built = Active
    /\ Len(routes) \in Nat /\ DOMAIN routes = 1..Len(routes)
    /\ mounted \in 0..Len(routes)
    /\ \A i \in 1..mounted : Allowed(i)
    /\ mounted > 0 => routes[mounted].kind # "path"
    /\ stage = "serving" => mounted = Len(routes)

StageInv ==
  /\ services \in Seq(Constructor)
  /\ stage = "register" => built = <<>> /\ mounted = 0
  /\ stage = "build" => mounted = 0
  /\ stage # "failed" => WellFormed
  /\ stage \notin {"register", "failed"} => Linked
  /\ stage = "failed" => ~Startable

ResolverInv == StageInv /\ OrderInv /\ QueueInv /\ RoutesInv

-----------------------------------------------------------------------------
(* Sequences *)

LEMMA SeqFacts ==
  ASSUME NEW S, NEW s \in Seq(S)
  PROVE  /\ Len(s) \in Nat /\ DOMAIN s = 1..Len(s) /\ s \in [1..Len(s) -> S]
         /\ Elements(s) \subseteq S
  BY LenProperties, ElementOfSeq DEF Elements

LEMMA AppendDistinct ==
  ASSUME NEW S, NEW s \in Seq(S), Distinct(s), NEW x \in S, x \notin Elements(s)
  PROVE  /\ Append(s, x) \in Seq(S) /\ Distinct(Append(s, x))
         /\ Elements(Append(s, x)) = Elements(s) \union {x}
<1> DEFINE t == Append(s, x)
           n == Len(s)
<1>1. n \in Nat /\ DOMAIN s = 1..n
  BY SeqFacts
<1>2. t \in Seq(S) /\ Len(t) = n + 1 /\ (\A i \in 1..n : t[i] = s[i]) /\ t[n + 1] = x
  BY AppendProperties
<1>3. DOMAIN t = 1..n + 1
  BY <1>2, SeqFacts
<1> HIDE DEF t, n
<1>4. \A i \in 1..n + 1 : i \in 1..n \/ i = n + 1
  BY <1>1
<1>5. \A i \in 1..n : i \in 1..n + 1
  BY <1>1
<1>6. Elements(t) = Elements(s) \union {x}
  BY <1>1, <1>2, <1>3, <1>4, <1>5 DEF Elements
<1>7. \A i \in 1..n : s[i] # x
  BY <1>1 DEF Elements
<1>8. Distinct(t)
  BY <1>1, <1>2, <1>3, <1>4, <1>7 DEF Distinct
<1> QED
  BY <1>2, <1>6, <1>8 DEF t

(* A queue whose head left and which others joined. *)
LEMMA QueueLemma ==
  ASSUME NEW S, NEW s \in Seq(S), s # <<>>, Distinct(s),
         NEW t \in Seq(S), Distinct(t), Elements(s) \cap Elements(t) = {}
  PROVE  /\ Tail(s) \o t \in Seq(S) /\ Distinct(Tail(s) \o t)
         /\ Elements(Tail(s) \o t) = (Elements(s) \ {Head(s)}) \union Elements(t)
         /\ Head(s) \in Elements(s)
<1> DEFINE u == Tail(s) \o t
           n == Len(s)
           m == Len(t)
<1>1. /\ n \in Nat \ {0} /\ DOMAIN s = 1..n /\ m \in Nat /\ DOMAIN t = 1..m
      /\ Head(s) = s[1]
  BY SeqFacts, EmptySeq
<1>2. /\ Tail(s) \in Seq(S) /\ Len(Tail(s)) = n - 1
      /\ \A i \in 1..n - 1 : Tail(s)[i] = s[i + 1]
  BY HeadTailProperties
<1>3. /\ u \in Seq(S) /\ Len(u) = n - 1 + m
      /\ \A i \in 1..n - 1 + m : u[i] = IF i <= n - 1 THEN Tail(s)[i] ELSE t[i - (n - 1)]
  BY <1>2, ConcatProperties
<1>4. DOMAIN u = 1..n - 1 + m
  BY <1>3, SeqFacts
<1> HIDE DEF u, n, m
<1>5. \A i \in 1..n - 1 : u[i] = s[i + 1] /\ i \in DOMAIN u /\ i + 1 \in DOMAIN s
  BY <1>1, <1>2, <1>3, <1>4
<1>6. \A i \in DOMAIN u : i > n - 1 => u[i] = t[i - (n - 1)] /\ i - (n - 1) \in DOMAIN t
  BY <1>1, <1>3, <1>4
<1>7. \A i \in DOMAIN u : i \in 1..n - 1 \/ i > n - 1
  BY <1>1, <1>4
<1>8. \A i \in DOMAIN s : i # 1 => i - 1 \in 1..n - 1 /\ (i - 1) + 1 = i
  BY <1>1
<1>9. \A j \in DOMAIN t : /\ n - 1 + j \in DOMAIN u /\ n - 1 + j > n - 1 /\ n - 1 + j - (n - 1) = j
  BY <1>1, <1>4
<1>10. \A i \in 1..n - 1 : i + 1 # 1
  BY <1>1
<1>11. Elements(u) \subseteq (Elements(s) \ {s[1]}) \union Elements(t)
  <2> SUFFICES ASSUME NEW i \in DOMAIN u PROVE u[i] \in (Elements(s) \ {s[1]}) \union Elements(t)
    BY DEF Elements
  <2>1. CASE i \in 1..n - 1
    <3>1. u[i] = s[i + 1] /\ i + 1 \in DOMAIN s /\ i + 1 # 1 /\ 1 \in DOMAIN s
      BY <1>1, <1>5, <1>10, <2>1
    <3>2. s[i + 1] # s[1]
      BY <3>1 DEF Distinct
    <3> QED
      BY <3>1, <3>2 DEF Elements
  <2>2. CASE i > n - 1
    BY <1>6, <2>2 DEF Elements
  <2> QED
    BY <1>7, <2>1, <2>2
<1>12. (Elements(s) \ {s[1]}) \union Elements(t) \subseteq Elements(u)
  <2>1. ASSUME NEW i \in DOMAIN s, i # 1 PROVE s[i] \in Elements(u)
    <3>1. i - 1 \in 1..n - 1 /\ (i - 1) + 1 = i
      BY <1>8, <2>1
    <3>2. i - 1 \in DOMAIN u /\ u[i - 1] = s[i]
      BY <1>5, <3>1
    <3> QED
      BY <3>2 DEF Elements
  <2>2. ASSUME NEW j \in DOMAIN t PROVE t[j] \in Elements(u)
    <3> DEFINE i == n - 1 + j
    <3>1. i \in DOMAIN u /\ i > n - 1 /\ i - (n - 1) = j
      BY <1>1, <1>4
    <3> HIDE DEF i
    <3>2. i \in DOMAIN u /\ u[i] = t[j]
      BY <1>6, <3>1
    <3> QED
      BY <3>2 DEF Elements
  <2> QED
    BY <2>1, <2>2 DEF Elements
<1>13. Distinct(u)
  <2> SUFFICES ASSUME NEW i \in DOMAIN u, NEW j \in DOMAIN u, u[i] = u[j] PROVE i = j
    BY DEF Distinct
  <2>1. CASE i \in 1..n - 1 /\ j \in 1..n - 1
    <3>1. s[i + 1] = s[j + 1] /\ i + 1 \in DOMAIN s /\ j + 1 \in DOMAIN s
      BY <1>5, <2>1
    <3>2. i + 1 = j + 1
      BY <3>1, Zenon DEF Distinct
    <3> QED
      BY <1>1, <2>1, <3>2
  <2>2. CASE i > n - 1 /\ j > n - 1
    <3>1. i - (n - 1) = j - (n - 1)
      BY <1>6, <2>2 DEF Distinct
    <3> QED
      BY <1>1, <1>4, <3>1
  <2>3. ASSUME NEW a \in DOMAIN u, NEW b \in DOMAIN u, a \in 1..n - 1, b > n - 1 PROVE u[a] # u[b]
    BY <1>5, <1>6, <2>3 DEF Elements
  <2> QED
    BY <1>7, <2>1, <2>2, <2>3
<1>14. Head(s) \in Elements(s)
  BY <1>1 DEF Elements
<1> QED
  BY <1>1, <1>3, <1>11, <1>12, <1>13, <1>14 DEF u

LEMMA AscendingLemma ==
  ASSUME NEW S \in SUBSET Nat, IsFiniteSet(S), NEW s \in Ascending(S)
  PROVE  s \in Seq(S) /\ Distinct(s) /\ Elements(s) = S
<1>1. /\ s \in [1..Cardinality(S) -> S] /\ Elements(s) = S
      /\ \A i, j \in DOMAIN s : i < j => s[i] < s[j]
  BY DEF Ascending, Elements
<1>2. Cardinality(S) \in Nat
  BY FS_CardinalityType
<1>3. s \in Seq(S)
  BY <1>1, <1>2, IsASeq
<1>4. \A i \in DOMAIN s : i \in Nat /\ s[i] \in Nat
  <2>1. DOMAIN s = 1..Len(s) /\ Len(s) \in Nat
    BY <1>3, SeqFacts
  <2>2. \A i \in DOMAIN s : s[i] \in S
    BY <1>1 DEF Elements
  <2>3. \A i \in DOMAIN s : s[i] \in Nat
    BY <2>2
  <2>4. \A i \in DOMAIN s : i \in Nat
    BY <2>1
  <2> QED
    BY <2>3, <2>4
<1>5. \A i, j \in DOMAIN s : i < j => s[i] # s[j]
  BY <1>1, <1>4
<1>6. \A i, j \in DOMAIN s : i = j \/ i < j \/ j < i
  BY <1>4
<1>7. Distinct(s)
  BY <1>5, <1>6 DEF Distinct
<1> QED
  BY <1>1, <1>3, <1>7

-----------------------------------------------------------------------------
(* Constructors and what they wait for *)

LEMMA ServicesFacts ==
  ASSUME services \in Seq(Constructor)
  PROVE  /\ Len(services) \in Nat /\ DOMAIN services = 1..Len(services)
         /\ Active \subseteq 1..Len(services) /\ Active \in SUBSET Nat /\ IsFiniteSet(Active)
         /\ \A i \in Active : IsFiniteSet(Needs(i))
<1>1. Len(services) \in Nat /\ DOMAIN services = 1..Len(services)
  BY SeqFacts
<1>2. Active \subseteq 1..Len(services) /\ 1..Len(services) \subseteq Nat
  BY <1>1 DEF Active
<1>3. IsFiniteSet(1..Len(services))
  BY <1>1, FS_Interval
<1>4. IsFiniteSet(Active)
  BY <1>2, <1>3, FS_Subset
<1>5. ASSUME NEW i \in Active PROVE IsFiniteSet(Needs(i))
  <2>1. services[i] \in Constructor
    BY <1>1, <1>2, ElementOfSeq
  <2>2. PICK T : services[i].deps \in Seq(T)
    BY <2>1, ResolverAssumption
  <2>3. Len(services[i].deps) \in Nat /\ DOMAIN services[i].deps = 1..Len(services[i].deps)
    BY <2>2, SeqFacts
  <2>4. IsFiniteSet(DOMAIN services[i].deps)
    BY <2>3, FS_Interval
  <2>5. Needs(i) \in SUBSET (DOMAIN services[i].deps)
    BY DEF Needs
  <2> QED
    BY <2>4, <2>5, FS_Subset
<1> QED
  BY <1>1, <1>2, <1>4, <1>5

(* One active constructor for a type. *)
LEMMA OneProvider ==
  ASSUME services \in Seq(Constructor), NEW i \in Active, NEW j \in Active,
         services[i].provides = services[j].provides
  PROVE  i = j
<1>1. Len(services) \in Nat /\ i \in 1..Len(services) /\ j \in 1..Len(services)
  BY ServicesFacts
<1>2. ~(i < j) /\ ~(j < i)
  BY <1>1 DEF Active, Superseded
<1> QED
  BY <1>1, <1>2

(* What was called has nothing open. *)
LEMMA CalledIsClosed ==
  ASSUME services \in Seq(Constructor), OrderInv, NEW i \in Built
  PROVE  i \in Active /\ Lacking(i) = {}
<1>1. PICK n \in DOMAIN built : i = built[n]
  BY DEF Built, Elements
<1>2. DOMAIN built = 1..Len(built) /\ Len(built) \in Nat /\ Built \subseteq Active
  BY SeqFacts DEF OrderInv, Built
<1>3. ASSUME NEW k \in Needs(i) PROVE k \notin Lacking(i)
  <2>1. PICK m \in 1..n - 1 : k \in NeedsOf(i, built[m])
    BY <1>1, <1>2, <1>3 DEF OrderInv, Ordered, Before, Built, Elements
  <2>2. m \in DOMAIN built
    BY <1>2, <2>1
  <2> QED
    BY <2>1, <2>2 DEF Lacking, Built, Elements
<1> QED
  BY <1>2, <1>3 DEF Lacking

(* Calling one with nothing open leaves open what it does not provide. *)
LEMMA OpenLess ==
  ASSUME services \in Seq(Constructor), OrderInv, NEW p \in Active \ Built, Lacking(p) = {},
    NEW i \in Active
  PROVE  LET left == {k \in Needs(i) : \A j \in Built \union {p} : k \notin NeedsOf(i, j)}
         IN /\ left = Lacking(i) \ NeedsOf(i, p) /\ IsFiniteSet(left)
            /\ Cardinality(left) = Cardinality(Lacking(i)) - Cardinality(NeedsOf(i, p))
            /\ NeedsOf(i, p) \subseteq Lacking(i)
<1> DEFINE left == {k \in Needs(i) : \A j \in Built \union {p} : k \notin NeedsOf(i, j)}
<1>1. left = Lacking(i) \ NeedsOf(i, p)
  BY DEF Lacking
<1>2. Lacking(i) \in SUBSET Needs(i) /\ IsFiniteSet(Lacking(i))
  BY ServicesFacts, FS_Subset DEF Lacking
<1>3. NeedsOf(i, p) \subseteq Lacking(i)
  <2> SUFFICES ASSUME NEW k \in NeedsOf(i, p), NEW j \in Built, k \in NeedsOf(i, j) PROVE FALSE
    BY DEF Lacking, NeedsOf
  <2>1. services[j].provides = services[p].provides /\ j \in Active
    BY CalledIsClosed DEF NeedsOf
  <2> QED
    BY <2>1, OneProvider
<1>4. Lacking(i) \cap NeedsOf(i, p) = NeedsOf(i, p)
  BY <1>3
<1>5. IsFiniteSet(left) /\ Cardinality(left) = Cardinality(Lacking(i)) - Cardinality(NeedsOf(i, p))
  <2>1. IsFiniteSet(Lacking(i))
    BY <1>2
  <2>2. /\ IsFiniteSet(Lacking(i) \ NeedsOf(i, p))
        /\ Cardinality(Lacking(i) \ NeedsOf(i, p)) =
             Cardinality(Lacking(i)) - Cardinality(Lacking(i) \cap NeedsOf(i, p))
    BY <2>1, FS_Difference, Zenon
  <2> QED
    BY <1>1, <1>4, <2>2, Zenon
<1> QED
  BY <1>1, <1>3, <1>5

(* One with nothing open that was not called needs nothing of its own, and nothing called needs it. *)
LEMMA NoBackEdge ==
  ASSUME services \in Seq(Constructor), OrderInv, NEW p \in Active \ Built, Lacking(p) = {},
    NEW i \in Built \union {p}
  PROVE  NeedsOf(i, p) = {}
<1>1. i \in Active /\ Lacking(i) = {}
  BY CalledIsClosed
<1> QED
  BY <1>1, OpenLess

-----------------------------------------------------------------------------
(* What calling a constructor keeps *)

LEMMA OrderKept ==
  ASSUME services \in Seq(Constructor), OrderInv, NEW p \in Active \ Built, Lacking(p) = {},
         UNCHANGED services, built' = Append(built, p)
  PROVE  OrderInv' /\ Built' = Built \union {p}
<1> DEFINE n == Len(built)
<1>1. built \in Seq(Active) /\ Distinct(built) /\ n \in Nat /\ DOMAIN built = 1..n
  BY SeqFacts DEF OrderInv
<1>2. built' \in Seq(Active) /\ Distinct(built') /\ Built' = Built \union {p}
  BY <1>1, AppendDistinct DEF Built
<1>3. /\ Len(built') = n + 1 /\ DOMAIN built' = 1..n + 1
      /\ (\A i \in 1..n : built'[i] = built[i]) /\ built'[n + 1] = p
  BY <1>1, <1>2, AppendProperties, SeqFacts
<1>4. Active' = Active
  BY DEF Active, Superseded
<1>5. ASSUME NEW m \in 1..n + 1, NEW i \in Active, i = built'[m], NEW k \in Needs(i)
      PROVE  \E j \in Before(m)' : k \in NeedsOf(i, j)
  <2>1. CASE m \in 1..n
    <3>1. PICK j \in Before(m) : k \in NeedsOf(i, j)
      BY <1>1, <1>3, <1>5, <2>1 DEF OrderInv, Ordered
    <3>2. PICK l \in 1..m - 1 : j = built[l]
      BY <3>1 DEF Before
    <3>3. l \in 1..n
      BY <1>1, <2>1, <3>2
    <3> QED
      BY <1>3, <3>1, <3>2, <3>3 DEF Before
  <2>2. CASE m = n + 1
    <3>1. PICK j \in Built : k \in NeedsOf(i, j)
      BY <1>3, <1>5, <2>2 DEF Lacking
    <3>2. PICK l \in 1..n : j = built[l]
      BY <1>1, <3>1 DEF Built, Elements
    <3>3. l \in 1..m - 1
      BY <1>1, <2>2, <3>2
    <3> QED
      BY <1>3, <3>1, <3>2, <3>3 DEF Before
  <2> QED
    BY <1>1, <2>1, <2>2
<1>6. ASSUME NEW S \in SUBSET (Built \union {p}), S # {} PROVE ~Waiting(S)
  <2> SUFFICES ASSUME Waiting(S) PROVE FALSE
    OBVIOUS
  <2>1. S \ {p} # {}
    BY <1>6, NoBackEdge DEF Waiting
  <2>2. Waiting(S \ {p})
    BY NoBackEdge DEF Waiting
  <2> QED
    BY <2>1, <2>2 DEF OrderInv, Acyclic
<1>7. OrderInv'
  <2>1. Acyclic'
    <3> SUFFICES ASSUME NEW S \in SUBSET Built', S # {} PROVE ~Waiting(S)'
      BY DEF Acyclic
    <3>1. Waiting(S)' = Waiting(S)
      BY DEF Waiting, NeedsOf, Needs
    <3> QED
      BY <1>2, <1>6, <3>1
  <2>2. Ordered'
    <3> SUFFICES ASSUME NEW m \in DOMAIN built', NEW i \in Active', i = built'[m], NEW k \in Needs(i)'
                 PROVE  \E j \in Before(m)' : (k \in NeedsOf(i, j))'
      BY DEF Ordered
    <3>1. k \in Needs(i)
      BY DEF Needs
    <3>2. PICK j \in Before(m)' : k \in NeedsOf(i, j)
      BY <1>3, <1>4, <1>5, <3>1
    <3>3. (k \in NeedsOf(i, j))'
      BY <3>2 DEF NeedsOf, Needs
    <3> QED
      BY <3>2, <3>3
  <2> QED
    BY <1>2, <1>4, <2>1, <2>2 DEF OrderInv
<1> QED
  BY <1>2, <1>7

(* What hangs on the constructors and what was called alone. *)
LEMMA Frame ==
  ASSUME services' = services
  PROVE  /\ Active' = Active /\ WellFormed' = WellFormed /\ Linked' = Linked /\ HasPostgres' = HasPostgres
         /\ built' = built => Built' = Built /\ (OrderInv => OrderInv')
         /\ routes' = routes => Startable' = Startable /\ \A i : Allowed(i)' = Allowed(i)
<1>1. Active' = Active
  BY DEF Active, Superseded
<1>2. \A i, j : Needs(i)' = Needs(i) /\ NeedsOf(i, j)' = NeedsOf(i, j)
  BY DEF NeedsOf, Needs
<1>3. Provided' = Provided
  BY <1>1 DEF Provided
<1>4. Linked' = Linked
  BY <1>1, <1>2, <1>3 DEF Linked
<1>5. WellFormed' = WellFormed
  BY DEF WellFormed
<1>6. HasPostgres' = HasPostgres
  BY <1>3 DEF HasPostgres
<1>7. \A S : Waiting(S)' = Waiting(S)
  BY <1>2 DEF Waiting
<1>8. ASSUME built' = built PROVE Built' = Built /\ (OrderInv => OrderInv')
  <2>1. Built' = Built /\ \A n : Before(n)' = Before(n)
    BY <1>8 DEF Built, Elements, Before
  <2>2. Acyclic' = Acyclic
    BY <1>7, <2>1 DEF Acyclic
  <2>3. Ordered' = Ordered
    BY <1>1, <1>2, <1>8, <2>1 DEF Ordered
  <2> QED
    BY <1>1, <1>8, <2>1, <2>2, <2>3 DEF OrderInv
<1>9. ASSUME routes' = routes PROVE Startable' = Startable /\ \A i : Allowed(i)' = Allowed(i)
  <2>1. Injectable' = Injectable
    BY <1>3 DEF Injectable
  <2>2. \A i : Mountable(i)' = Mountable(i)
    BY <1>9, <2>1 DEF Mountable, Injects
  <2>3. \A i : Allowed(i)' = Allowed(i)
    BY <1>9, <2>1, <2>2 DEF Allowed, Injects
  <2>4. Startable' = Startable
    BY <1>1, <1>4, <1>5, <1>6, <1>7, <1>9, <2>3 DEF Startable, Linked, WellFormed
  <2> QED
    BY <2>3, <2>4
<1> QED
  BY <1>1, <1>4, <1>5, <1>6, <1>8, <1>9

-----------------------------------------------------------------------------
(* The steps of the start *)

LEMMA NothingBuilt == ASSUME built = <<>> PROVE OrderInv /\ Built = {}
<1>1. DOMAIN built = {} /\ built \in Seq(Active)
  BY EmptySeq
<1>2. Built = {}
  BY <1>1 DEF Built, Elements
<1> QED
  BY <1>1, <1>2 DEF OrderInv, Distinct, Ordered, Acyclic

LEMMA NotStartable == Startable => WellFormed /\ Linked /\ HasPostgres
  BY DEF Startable, WellFormed, Linked

LEMMA RegisterKeeps == ASSUME ResolverInv, Register PROVE ResolverInv'
<1>1. PICK constructor \in Constructor :
        /\ services' = Append(services, constructor)
        /\ IF Analyze(constructor) /\ constructor.provides \notin Builtin THEN UNCHANGED stage ELSE Fails
  BY DEF Register
<1>2. /\ stage = "register" /\ stage' \in {"register", "failed"} /\ built = <<>> /\ mounted = 0
      /\ UNCHANGED <<indegree, ready, built, routes, mounted>>
  BY <1>1 DEF Register, Fails, ResolverInv, StageInv
<1>3. services \in Seq(Constructor) /\ WellFormed
  BY <1>2 DEF ResolverInv, StageInv
<1>4. /\ services' \in Seq(Constructor) /\ Len(services') = Len(services) + 1
      /\ (\A i \in 1..Len(services) : services'[i] = services[i])
      /\ services'[Len(services) + 1] = constructor
  BY <1>1, <1>3, AppendProperties
<1>5. /\ DOMAIN services = 1..Len(services) /\ DOMAIN services' = 1..Len(services) + 1
      /\ Len(services) \in Nat
  BY <1>3, <1>4, SeqFacts
<1>6. OrderInv' /\ QueueInv' /\ RoutesInv'
  BY <1>2, NothingBuilt DEF QueueInv, RoutesInv, OrderInv, Distinct, Ordered, Acyclic, Built, Elements
<1>7. CASE Analyze(constructor) /\ constructor.provides \notin Builtin
  <2>1. \A i \in 1..Len(services) + 1 : i \in 1..Len(services) \/ i = Len(services) + 1
    BY <1>5
  <2>2. WellFormed'
    BY <1>3, <1>4, <1>5, <1>7, <2>1 DEF WellFormed, Analyze
  <2> QED
    BY <1>1, <1>2, <1>4, <1>6, <1>7, <2>2 DEF ResolverInv, StageInv
<1>8. CASE ~(Analyze(constructor) /\ constructor.provides \notin Builtin)
  <2>1. Len(services) + 1 \in DOMAIN services'
    BY <1>5
  <2>2. ~WellFormed'
    BY <1>4, <1>8, <2>1 DEF WellFormed, Analyze
  <2>3. ~Startable'
    BY <2>2 DEF Startable, WellFormed
  <2> QED
    BY <1>1, <1>2, <1>4, <1>6, <1>8, <2>3 DEF ResolverInv, StageInv, Fails
<1> QED
  BY <1>7, <1>8

LEMMA LinkKeeps == ASSUME ResolverInv, Link PROVE ResolverInv'
<1>1. /\ stage = "register" /\ built = <<>> /\ mounted = 0 /\ WellFormed /\ OrderInv
      /\ services \in Seq(Constructor) /\ UNCHANGED <<services, built, routes, mounted>>
  BY DEF Link, ResolverInv, StageInv
<1>2. Active' = Active /\ WellFormed' /\ OrderInv' /\ Built' = {}
  BY <1>1, Frame, NothingBuilt
<1>3. CASE Linked
  <2> DEFINE free == {i \in Active : Needs(i) = {}}
  <2>1. stage' = "build" /\ ready' \in Ascending(free) /\
          indegree' = [i \in Active |-> Cardinality(Needs(i))]
    BY <1>3 DEF Link, Linked
  <2>2. StageInv' /\ RoutesInv'
    BY <1>1, <1>2, <1>3, <2>1, Frame DEF StageInv, RoutesInv
  <2>3. \A i \in Active : Lacking(i)' = Needs(i)
    BY <1>1, <1>2 DEF Lacking, Needs
  <2>4. free \in SUBSET Nat /\ IsFiniteSet(free) /\ free \subseteq Active
    BY <1>1, ServicesFacts, FS_Subset
  <2>5. ready' \in Seq(free) /\ Distinct(ready') /\ Elements(ready') = free
    BY <2>1, <2>4, AscendingLemma
  <2>6. ready' \in Seq(Active)
    BY <2>4, <2>5, SeqMonotonic
  <2>7. QueueInv'
    BY <1>2, <2>1, <2>3, <2>5, <2>6 DEF QueueInv
  <2> QED
    BY <1>2, <2>2, <2>7 DEF ResolverInv
<1>4. CASE ~Linked
  <2>1. stage' = "failed"
    BY <1>4 DEF Link, Linked, Fails
  <2>2. ~Startable'
    BY <1>1, <1>4, Frame, NotStartable
  <2> QED
    BY <1>1, <1>2, <2>1, <2>2 DEF ResolverInv, StageInv, QueueInv, RoutesInv
<1> QED
  BY <1>3, <1>4

LEMMA BuildKeeps == ASSUME ResolverInv, Build PROVE ResolverInv'
<1>1. /\ stage = "build" /\ ready # <<>> /\ mounted = 0 /\ WellFormed /\ Linked /\ OrderInv
      /\ services \in Seq(Constructor) /\ UNCHANGED <<services, routes, mounted>>
      /\ \A i \in Active : indegree[i] = Cardinality(Lacking(i))
      /\ ready \in Seq(Active) /\ Distinct(ready)
      /\ \A i \in Active : i \in Elements(ready) <=> i \notin Built /\ Lacking(i) = {}
  BY DEF Build, ResolverInv, StageInv, QueueInv
<1>2. Active' = Active /\ WellFormed' /\ Linked'
  BY <1>1, Frame
<1>3. CASE stage' = "constructor failed" /\ UNCHANGED <<indegree, ready, built>>
  <2>1. OrderInv'
    BY <1>1, <1>3, Frame
  <2> QED
    BY <1>1, <1>2, <1>3, <2>1 DEF ResolverInv, StageInv, QueueInv, RoutesInv
<1>4. CASE /\ indegree' = [i \in Active |-> Less(i, Head(ready))]
           /\ \E freed \in Ascending(Freed(Head(ready))) : ready' = Tail(ready) \o freed
           /\ built' = Append(built, Head(ready))
           /\ UNCHANGED stage
  <2> DEFINE p == Head(ready)
  <2>1. PICK freed \in Ascending(Freed(p)) : ready' = Tail(ready) \o freed
    BY <1>4
  <2>2. p \in Elements(ready) /\ p \in Active
    BY <1>1, SeqFacts, EmptySeq, HeadTailProperties DEF Elements
  <2>3. p \notin Built /\ Lacking(p) = {}
    BY <1>1, <2>2
  <2>4. indegree' = [i \in Active |-> Less(i, p)] /\ built' = Append(built, p) /\ stage' = "build"
    BY <1>1, <1>4
  <2> HIDE DEF p
  <2>5. OrderInv' /\ Built' = Built \union {p}
    BY <1>1, <2>2, <2>3, <2>4, OrderKept
  <2>6. ASSUME NEW i \in Active
        PROVE  /\ Lacking(i)' = Lacking(i) \ NeedsOf(i, p) /\ IsFiniteSet(Lacking(i)')
               /\ Cardinality(Lacking(i)') = Less(i, p) /\ NeedsOf(i, p) \subseteq Lacking(i)
    <3> DEFINE left == {k \in Needs(i) : \A j \in Built \union {p} : k \notin NeedsOf(i, j)}
    <3>1. Lacking(i)' = left
      BY <1>1, <2>5 DEF Lacking, Needs, NeedsOf
    <3>2. indegree[i] = Cardinality(Lacking(i))
      BY <1>1
    <3>3. /\ left = Lacking(i) \ NeedsOf(i, p) /\ IsFiniteSet(left)
          /\ Cardinality(left) = Cardinality(Lacking(i)) - Cardinality(NeedsOf(i, p))
          /\ NeedsOf(i, p) \subseteq Lacking(i)
      BY <1>1, <2>2, <2>3, OpenLess
    <3> HIDE DEF left
    <3> QED
      BY <3>1, <3>2, <3>3, Zenon DEF Less
  <2>7. Freed(p) \in SUBSET Nat /\ IsFiniteSet(Freed(p)) /\ Freed(p) \subseteq Active
    BY <1>1, ServicesFacts, FS_Subset DEF Freed
  <2>8. freed \in Seq(Freed(p)) /\ Distinct(freed) /\ Elements(freed) = Freed(p)
    BY <2>1, <2>7, AscendingLemma
  <2>9. freed \in Seq(Active)
    BY <2>7, <2>8, SeqMonotonic
  <2>10. ASSUME NEW i \in Freed(p) PROVE i \notin Elements(ready) /\ i \notin Built /\ i # p
    <3>1. i \in Active /\ NeedsOf(i, p) # {}
      BY DEF Freed
    <3>2. Lacking(i) # {}
      BY <2>6, <3>1
    <3> QED
      BY <1>1, <2>3, <3>1, <3>2, CalledIsClosed
  <2>11. /\ ready' \in Seq(Active) /\ Distinct(ready')
         /\ Elements(ready') = (Elements(ready) \ {p}) \union Freed(p)
    BY <1>1, <2>1, <2>8, <2>9, <2>10, QueueLemma DEF p
  <2>12. ASSUME NEW i \in Active PROVE i \in Elements(ready') <=> i \notin Built' /\ Lacking(i)' = {}
    <3>1. Less(i, p) = 0 <=> Lacking(i)' = {}
      BY <2>6, FS_EmptySet
    <3>2. CASE NeedsOf(i, p) = {}
      BY <1>1, <2>5, <2>6, <2>11, <3>2 DEF Freed
    <3>3. CASE NeedsOf(i, p) # {}
      <4>1. i \notin Elements(ready) /\ i \notin Built /\ i # p
        BY <1>1, <2>3, <2>6, <3>3, CalledIsClosed
      <4> QED
        BY <2>5, <2>11, <3>1, <3>3, <4>1 DEF Freed
    <3> QED
      BY <3>2, <3>3
  <2>13. QueueInv'
    BY <1>2, <2>4, <2>6, <2>11, <2>12 DEF QueueInv
  <2>14. StageInv' /\ RoutesInv'
    BY <1>1, <1>2, <2>4 DEF StageInv, RoutesInv
  <2> QED
    BY <2>5, <2>13, <2>14 DEF ResolverInv
<1> QED
  BY <1>3, <1>4 DEF Build

LEMMA UpTo == ASSUME NEW n \in Nat PROVE Cardinality(1..n) = n
<1>1. 1 \in Int /\ n \in Int
  OBVIOUS
<1>2. Cardinality(1..n) = IF 1 > n THEN 0 ELSE n - 1 + 1
  BY <1>1, FS_Interval, Zenon
<1> QED
  BY <1>2

(* Called once each: as many as there are is all of them, and fewer leave a cycle. *)
LEMMA AllCalled ==
  ASSUME services \in Seq(Constructor), OrderInv
  PROVE  Len(built) = Cardinality(Active) <=> Built = Active
<1>1. /\ Len(built) \in Nat /\ DOMAIN built = 1..Len(built) /\ built \in [1..Len(built) -> Active]
      /\ Built \subseteq Active
  BY SeqFacts DEF OrderInv, Built
<1>2. built \in Injection(1..Len(built), Active)
  BY <1>1 DEF Injection, IsInjective, OrderInv, Distinct
<1>3. IsFiniteSet(Active) /\ Cardinality(1..Len(built)) = Len(built)
  <2>1. Cardinality(1..Len(built)) = Len(built)
    BY <1>1, UpTo
  <2> QED
    BY <2>1, ServicesFacts
<1>4. Len(built) = Cardinality(Active) <=> built \in Surjection(1..Len(built), Active)
  BY <1>2, <1>3, FS_Injection
<1>5. built \in Surjection(1..Len(built), Active) <=> Built = Active
  BY <1>1 DEF Surjection, Built, Elements
<1> QED
  BY <1>4, <1>5

LEMMA StuckInACycle ==
  ASSUME services \in Seq(Constructor), OrderInv, Linked, Built # Active,
         \A i \in Active : i \in Built \/ Lacking(i) # {}
  PROVE  ~Startable
<1> DEFINE left == Active \ Built
<1>1. left # {} /\ left \in SUBSET Active
  BY CalledIsClosed
<1>2. ASSUME NEW i \in left PROVE \E j \in left : NeedsOf(i, j) # {}
  <2>1. PICK k \in Lacking(i) : TRUE
    BY <1>2
  <2>2. k \in Needs(i) /\ services[i].deps[k] \in Provided \ Builtin
    BY <2>1 DEF Lacking, Linked, Needs
  <2>3. PICK j \in Active : services[i].deps[k] = services[j].provides
    BY <2>2 DEF Provided
  <2>4. k \in NeedsOf(i, j)
    BY <2>2, <2>3 DEF NeedsOf
  <2>5. j \notin Built
    BY <2>1, <2>4 DEF Lacking
  <2> QED
    BY <2>3, <2>4, <2>5
<1>3. Waiting(left)
  BY <1>2 DEF Waiting
<1> QED
  BY <1>1, <1>3 DEF Startable

LEMMA ResolvedKeeps == ASSUME ResolverInv, Resolved PROVE ResolverInv'
<1>1. /\ stage = "build" /\ ready = <<>> /\ mounted = 0 /\ WellFormed /\ Linked /\ OrderInv
      /\ services \in Seq(Constructor) /\ UNCHANGED <<services, indegree, ready, built, mounted>>
      /\ \A i \in Active : i \in Elements(ready) <=> i \notin Built /\ Lacking(i) = {}
  BY DEF Resolved, ResolverInv, StageInv, QueueInv
<1>2. Active' = Active /\ Built' = Built /\ WellFormed' /\ Linked' /\ OrderInv' /\
        HasPostgres' = HasPostgres
  BY <1>1, Frame
<1>3. Elements(ready) = {}
  BY <1>1 DEF Elements
<1>4. CASE Len(built) = Cardinality(Active) /\ HasPostgres
  <2>1. PICK n \in 0..MaxItems : \E items \in [1..n -> RouteItem] : routes' = items \o Health
    BY <1>4 DEF Resolved
  <2>2. PICK items \in [1..n -> RouteItem] : routes' = items \o Health
    BY <2>1
  <2> DEFINE Item == RouteItem \union {Health[1], Health[2]}
  <2>3. items \in Seq(Item) /\ Health \in Seq(Item)
    <3>1. n \in Nat
      BY <2>1, ResolverAssumption
    <3>2. items \in [1..n -> Item]
      OBVIOUS
    <3>3. items \in Seq(Item)
      BY <3>1, <3>2, IsASeq
    <3> QED
      BY <3>3 DEF Health
  <2>4. routes' \in Seq(Item)
    BY <2>2, <2>3, ConcatProperties
  <2>5. Len(routes') \in Nat /\ DOMAIN routes' = 1..Len(routes')
    BY <2>4, SeqFacts
  <2>6. stage' = "mount" /\ mounted' = 0
    BY <1>1, <1>4 DEF Resolved
  <2>7. Built = Active
    BY <1>1, <1>4, AllCalled
  <2>8. RoutesInv'
    BY <1>2, <1>4, <2>5, <2>6, <2>7 DEF RoutesInv
  <2>9. StageInv' /\ QueueInv'
    BY <1>1, <1>2, <2>6 DEF StageInv, QueueInv
  <2> QED
    BY <1>2, <2>8, <2>9 DEF ResolverInv
<1>5. CASE ~(Len(built) = Cardinality(Active) /\ HasPostgres)
  <2>1. stage' = "failed" /\ UNCHANGED routes
    BY <1>5 DEF Resolved, Fails
  <2>2. ~Startable
    BY <1>1, <1>3, <1>5, AllCalled, StuckInACycle, NotStartable
  <2>3. ~Startable'
    BY <1>1, <2>1, <2>2, Frame
  <2> QED
    BY <1>1, <1>2, <2>1, <2>3 DEF ResolverInv, StageInv, QueueInv, RoutesInv
<1> QED
  BY <1>4, <1>5

LEMMA MountKeeps == ASSUME ResolverInv, Mount PROVE ResolverInv'
<1> DEFINE i == mounted + 1
<1>1. /\ stage = "mount" /\ mounted < Len(routes) /\ WellFormed /\ Linked /\ OrderInv
      /\ services \in Seq(Constructor) /\ UNCHANGED <<services, indegree, ready, built, routes>>
      /\ HasPostgres /\ Built = Active
      /\ Len(routes) \in Nat /\ DOMAIN routes = 1..Len(routes) /\ mounted \in 0..Len(routes)
      /\ \A j \in 1..mounted : Allowed(j)
      /\ mounted > 0 => routes[mounted].kind # "path"
  BY DEF Mount, ResolverInv, StageInv, RoutesInv
<1>2. /\ Active' = Active /\ Built' = Built /\ WellFormed' /\ Linked' /\ OrderInv' /\ HasPostgres'
      /\ Startable' = Startable /\ \A j : Allowed(j)' = Allowed(j)
  BY <1>1, Frame
<1>3. i \in DOMAIN routes /\ i \in Nat /\ i - 1 = mounted
  BY <1>1
<1>4. ASSUME MountSpec(i) \/ MountPath(i), UNCHANGED stage PROVE ResolverInv'
  <2>1. /\ mounted' \in {i, i + 1} /\ mounted' <= Len(routes)
        /\ Allowed(i) /\ Allowed(mounted')
        /\ routes[mounted'].kind # "path"
    <3>1. CASE MountSpec(i)
      BY <1>3, <1>1, <3>1 DEF MountSpec, Allowed
    <3>2. CASE MountPath(i)
      <4>1. mounted' = i + 1 /\ routes[i].kind = "path" /\ Mountable(i)
        BY <3>2 DEF MountPath
      <4>2. i + 1 <= Len(routes) /\ routes[i + 1].kind = "controller" /\ i + 1 > 1 /\ i + 1 - 1 = i
        BY <1>3, <4>1 DEF Mountable
      <4>3. Allowed(i)
        BY <4>1 DEF Allowed
      <4>4. Allowed(i + 1)
        <5> DEFINE j == i + 1
        <5>1. j - 1 = i
          BY <1>1
        <5> HIDE DEF i
        <5>2. routes[j].kind = "controller" /\ j > 1 /\ routes[i].kind = "path"
          BY <4>1, <4>2
        <5> HIDE DEF j
        <5>3. routes[j].kind = "controller" /\ j > 1 /\ routes[j - 1].kind = "path"
          BY <5>1, <5>2
        <5>4. Allowed(j)
          BY <5>3 DEF Allowed
        <5> QED
          BY <5>4 DEF j
      <4> QED
        BY <4>1, <4>2, <4>3, <4>4
    <3> QED
      BY <1>4, <3>1, <3>2
  <2>2. mounted' \in 0..Len(routes') /\ mounted' > 0
    BY <1>1, <1>3, <2>1
  <2>3. \A j \in 1..mounted' : j \in 1..mounted \/ j = i \/ j = mounted'
    BY <1>1, <2>1
  <2>4. \A j \in 1..mounted' : Allowed(j)'
    BY <1>1, <1>2, <2>1, <2>3
  <2>5. RoutesInv'
    BY <1>1, <1>2, <1>4, <2>1, <2>2, <2>4 DEF RoutesInv
  <2> QED
    BY <1>1, <1>2, <1>4, <2>5 DEF ResolverInv, StageInv, QueueInv
<1>5. ASSUME Refused(i), Fails PROVE ResolverInv'
  <2>1. ~Allowed(i)
    BY <1>1, <1>3, <1>5 DEF Refused, Allowed
  <2>2. ~Startable'
    BY <1>2, <1>3, <2>1 DEF Startable
  <2> QED
    BY <1>1, <1>2, <1>5, <2>2 DEF ResolverInv, StageInv, QueueInv, RoutesInv, Fails
<1> QED
  BY <1>4, <1>5 DEF Mount

LEMMA ServeKeeps == ASSUME ResolverInv, Serve PROVE ResolverInv'
<1>1. /\ stage = "mount" /\ mounted = Len(routes) /\ stage' \in {"serving", "migration failed"}
      /\ UNCHANGED <<services, indegree, ready, built, routes, mounted>>
  BY DEF Serve
<1>2. OrderInv' /\ Active' = Active /\ Built' = Built /\ WellFormed' = WellFormed /\ Linked' = Linked
      /\ HasPostgres' = HasPostgres /\ \A j : Allowed(j)' = Allowed(j)
  BY <1>1, Frame DEF ResolverInv
<1>3. StageInv' /\ QueueInv' /\ RoutesInv'
  BY <1>1, <1>2 DEF ResolverInv, StageInv, QueueInv, RoutesInv
<1> QED
  BY <1>2, <1>3 DEF ResolverInv

LEMMA StartOK == ASSUME StartInit PROVE ResolverInv
<1>1. services \in Seq(Constructor) /\ DOMAIN services = {} /\ built = <<>>
  BY DEF StartInit
<1> QED
  BY <1>1, NothingBuilt DEF StartInit, ResolverInv, StageInv, QueueInv, RoutesInv, WellFormed

LEMMA StepOK == ASSUME ResolverInv, [StartNext]_startVars PROVE ResolverInv'
<1>1. CASE UNCHANGED startVars
  <2>1. UNCHANGED <<stage, services, indegree, ready, built, routes, mounted>>
    BY <1>1 DEF startVars
  <2>2. /\ OrderInv' /\ Active' = Active /\ Built' = Built /\ WellFormed' = WellFormed /\
             Linked' = Linked
        /\ HasPostgres' = HasPostgres /\ Startable' = Startable /\ \A j : Allowed(j)' = Allowed(j)
    BY <2>1, Frame DEF ResolverInv
  <2>3. \A i \in Active : Lacking(i)' = Lacking(i)
    BY <2>1, <2>2 DEF Lacking, Needs, NeedsOf
  <2>4. StageInv' /\ RoutesInv'
    BY <2>1, <2>2 DEF ResolverInv, StageInv, RoutesInv
  <2>5. QueueInv'
    BY <2>1, <2>2, <2>3 DEF ResolverInv, QueueInv
  <2> QED
    BY <2>2, <2>4, <2>5 DEF ResolverInv
<1>2. CASE StartNext
  BY <1>2, RegisterKeeps, LinkKeeps, BuildKeeps, ResolvedKeeps, MountKeeps, ServeKeeps DEF StartNext
<1> QED
  BY <1>1, <1>2

LEMMA ResolverInvAlways == StartSpec => []ResolverInv
<1>1. StartInit => ResolverInv
  BY StartOK
<1>2. ResolverInv /\ [StartNext]_startVars => ResolverInv'
  BY StepOK
<1> QED
  BY <1>1, <1>2, PTL DEF StartSpec

-----------------------------------------------------------------------------

(* Each constructor is called at most once, after one for each of its parameters, and never when *)
(* a later registration supersedes it (resolve).                                                 *)
THEOREM BuiltInOrderTheorem == StartSpec => []BuiltInOrder
<1>1. ASSUME ResolverInv PROVE BuiltInOrder
  <2>1. services \in Seq(Constructor) /\ OrderInv
    BY <1>1 DEF ResolverInv, StageInv
  <2>2. built \in Seq(Active) /\ Len(built) \in Nat /\ DOMAIN built = 1..Len(built) /\ Distinct(built)
    BY <2>1, SeqFacts DEF OrderInv
  <2>3. \A n \in DOMAIN built : built[n] \in Active
    BY <2>2, ElementOfSeq
  <2>4. ASSUME NEW n \in DOMAIN built, NEW k \in Needs(built[n])
        PROVE  \E m \in 1..n - 1 : services[built[m]].provides = services[built[n]].deps[k]
    <3>1. PICK j \in Before(n) : k \in NeedsOf(built[n], j)
      BY <2>1, <2>3, <2>4 DEF OrderInv, Ordered
    <3> QED
      BY <3>1 DEF Before, NeedsOf
  <2> QED
    BY <2>2, <2>3, <2>4 DEF BuiltInOrder, Active, Distinct
<1> QED
  BY <1>1, ResolverInvAlways, PTL

(* The framework serves what it can start and refuses what it cannot (resolve, newRouter). *)
THEOREM StartsIffItCanTheorem == StartSpec => []StartsIffItCan
<1>1. ASSUME ResolverInv PROVE StartsIffItCan
  <2>1. ASSUME stage = "serving" PROVE Startable /\ {built[n] : n \in DOMAIN built} = Active
    <3>1. WellFormed /\ Linked /\ HasPostgres /\ Built = Active /\ Acyclic
          /\ DOMAIN routes = 1..mounted /\ \A i \in 1..mounted : Allowed(i)
      BY <1>1, <2>1 DEF ResolverInv, StageInv, RoutesInv, OrderInv
    <3> QED
      BY <3>1 DEF Startable, WellFormed, Linked, Acyclic, Built, Elements
  <2>2. stage = "failed" => ~Startable
    BY <1>1 DEF ResolverInv, StageInv
  <2> QED
    BY <2>1, <2>2 DEF StartsIffItCan
<1> QED
  BY <1>1, ResolverInvAlways, PTL

-----------------------------------------------------------------------------
(* The store: an order's id is its place. *)

StoreOK(s) ==
  /\ s.seq \in Nat /\ s.ids \in Seq(Nat) /\ Len(s.ids) = s.seq
  /\ \A i \in 1..s.seq : s.ids[i] = i

(* Nothing is lost from one store to the other. *)
Grows(s, t) == s.seq <= t.seq

LEMMA CreateOK ==
  ASSUME NEW s, StoreOK(s)
  PROVE  StoreOK(Create(s)) /\ Grows(s, Create(s)) /\ Holds(Create(s), Created(s))
<1> DEFINE ids == Append(s.ids, s.seq + 1)
<1>1. /\ ids \in Seq(Nat) /\ Len(ids) = s.seq + 1 /\ ids[s.seq + 1] = s.seq + 1
      /\ \A i \in 1..s.seq : ids[i] = s.ids[i]
  BY AppendProperties DEF StoreOK
<1> HIDE DEF ids
<1>2. Create(s).seq = s.seq + 1 /\ Create(s).ids = ids
  BY DEF Create, ids
<1>3. StoreOK(Create(s)) /\ Grows(s, Create(s))
  <2>1. s.seq + 1 \in Nat /\ \A i \in 1..s.seq + 1 : i \in 1..s.seq \/ i = s.seq + 1
    BY DEF StoreOK
  <2>2. \A i \in 1..s.seq + 1 : ids[i] = i
    BY <1>1, <2>1 DEF StoreOK
  <2> QED
    BY <1>1, <1>2, <2>1, <2>2 DEF StoreOK, Grows
<1>4. DOMAIN ids = 1..s.seq + 1
  BY <1>1, LenProperties
<1>5. s.seq + 1 \in DOMAIN ids
  BY <1>4 DEF StoreOK
<1> QED
  BY <1>1, <1>2, <1>3, <1>5 DEF Holds, Created

(* A store holds the ids up to its last. *)
LEMMA HoldsLemma ==
  ASSUME NEW s, StoreOK(s), NEW id
  PROVE  Holds(s, id) <=> id \in 1..s.seq
<1>1. DOMAIN s.ids = 1..s.seq
  BY LenProperties DEF StoreOK
<1> QED
  BY <1>1 DEF Holds, StoreOK

LEMMA StartAfterLemma ==
  ASSUME NEW s, StoreOK(s), NEW cursor \in Nat
  PROVE  StartAfter(s, cursor) = IF cursor <= s.seq THEN cursor ELSE s.seq
<1>1. CASE cursor = NoCursor
  BY <1>1 DEF StartAfter, NoCursor, StoreOK
<1>2. CASE cursor # NoCursor /\ cursor <= s.seq
  <2>1. cursor \in 1..s.seq /\ Holds(s, cursor)
    BY <1>2, HoldsLemma DEF NoCursor, StoreOK
  <2>2. \A i \in DOMAIN s.ids : s.ids[i] = cursor <=> i = cursor
    BY LenProperties, <2>1 DEF StoreOK
  <2>3. cursor \in DOMAIN s.ids
    BY LenProperties, <2>1 DEF StoreOK
  <2>4. (CHOOSE i \in DOMAIN s.ids : s.ids[i] = cursor) = cursor
    BY <2>2, <2>3
  <2> QED
    BY <1>2, <2>1, <2>4 DEF StartAfter
<1>3. CASE ~(cursor <= s.seq)
  BY <1>3, HoldsLemma DEF StartAfter, StoreOK, NoCursor
<1> QED
  BY <1>1, <1>2, <1>3

(* A page goes on from its cursor, and there is a next one only if orders are left. *)
PageOK(listed, s, cursor) ==
  /\ listed.page \in Seq(Nat) /\ listed.next \in Nat
  /\ cursor + Len(listed.page) <= s.seq
  /\ \A i \in 1..Len(listed.page) : listed.page[i] = cursor + i
  /\ listed.next # NoCursor => listed.next = cursor + Len(listed.page)
  /\ listed.next = NoCursor => cursor + Len(listed.page) = s.seq

LEMMA ListOK ==
  ASSUME NEW s, StoreOK(s), NEW limit \in Nat \ {0}, NEW cursor \in Nat, cursor <= s.seq
  PROVE  PageOK(List(s, limit, cursor), s, cursor)
<1> DEFINE end == Least(cursor + limit, s.seq)
           page == SubSeq(s.ids, cursor + 1, end)
<1>1. end \in Nat /\ cursor <= end /\ end <= s.seq /\ (end = cursor => end = s.seq)
  BY DEF Least, StoreOK
<1> HIDE DEF end
<1>2. /\ page \in Seq(Nat) /\ Len(page) = end - cursor
      /\ \A i \in 1..Len(page) : page[i] = cursor + i
  <2>1. ASSUME NEW i \in cursor + 1..end PROVE s.ids[i] = i /\ s.ids[i] \in Nat
    <3>1. i \in Nat /\ i \in 1..s.seq
      BY <1>1 DEF StoreOK
    <3> QED
      BY <3>1 DEF StoreOK
  <2>2. /\ page \in Seq(Nat)
        /\ Len(page) = IF cursor + 1 <= end THEN end - (cursor + 1) + 1 ELSE 0
        /\ \A i \in 1..end - (cursor + 1) + 1 : page[i] = s.ids[cursor + 1 + i - 1]
    <3>1. cursor + 1 \in Int /\ end \in Int
      BY <1>1
    <3> DEFINE m == cursor + 1
    <3> HIDE DEF m
    <3>2. \A i \in m..end : s.ids[i] \in Nat
      BY <2>1 DEF m
    <3>3. /\ SubSeq(s.ids, m, end) \in Seq(Nat)
          /\ Len(SubSeq(s.ids, m, end)) = IF m <= end THEN end - m + 1 ELSE 0
          /\ \A i \in 1..end - m + 1 : SubSeq(s.ids, m, end)[i] = s.ids[m + i - 1]
      BY <3>1, <3>2, SubSeqProperties DEF m
    <3> QED
      BY <3>3 DEF m
  <2> HIDE DEF page
  <2>3. Len(page) = end - cursor
    BY <2>2, <1>1
  <2>4. ASSUME NEW i \in 1..Len(page) PROVE page[i] = cursor + i
    <3>1. i \in 1..end - (cursor + 1) + 1 /\ cursor + 1 + i - 1 = cursor + i
          /\ cursor + i \in cursor + 1..end
      BY <2>3, <1>1
    <3> QED
      BY <3>1, <2>1, <2>2
  <2> QED
    BY <2>2, <2>3, <2>4
<1> HIDE DEF page
<1>3. /\ List(s, limit, cursor).page = page
      /\ List(s, limit, cursor).next = IF cursor < end /\ end < s.seq THEN s.ids[end] ELSE NoCursor
  BY StartAfterLemma DEF List, StoreOK, end, page
<1>4. cursor < end => s.ids[end] = end
  BY <1>1 DEF StoreOK
<1> DEFINE next == List(s, limit, cursor).next
<1>5. s.seq \in Nat
  BY DEF StoreOK
<1>6. /\ next \in Nat
      /\ next # 0 => next = end
      /\ next = 0 => end = s.seq
  BY <1>1, <1>3, <1>4, <1>5 DEF NoCursor
<1>7. cursor + Len(page) = end
  BY <1>1, <1>2
<1> HIDE DEF next
<1>8. List(s, limit, cursor).next = next
  BY DEF next
<1> QED
  BY <1>1, <1>2, <1>3, <1>6, <1>7, <1>8 DEF PageOK, NoCursor

-----------------------------------------------------------------------------
(* A request *)

Chains == {"heard", "direct", "waiting", "returned", "aborted"}
Handlers == {"begins", "acted", "wrote", "panic", "abort", "ended", "panicked"}
Fields == {"upgrade", "chain", "handler", "todo", "buffer", "done", "sent"}

(* The buffer holds a whole answer once the handler has acted. *)
HasAnswered(call) == call.handler = "acted" \/ call.done = <<"acted">>

Names(answer, s) == answer.status = 201 => Holds(s, answer.id)

(* One answer, and while the chain is under way only from a handler that has none between it and *)
(* the connection; behind TimeoutMW, a success is what a goroutine that has ended wrote.         *)
CallOK(call, s) ==
  /\ DOMAIN call = Fields
  /\ call.chain \in Chains /\ call.handler \in Handlers
  /\ call.done \in {<<>>, <<"acted">>, <<"panic">>, <<"abort">>}
  /\ call.done # <<>> => call.handler \in {"ended", "panicked"}
  /\ call.done = <<"acted">> => call.handler = "ended"
  /\ call.handler = "begins" => call.todo.kind \in {"create", "get", "list", "socket"}
  /\ call.sent = <<>> \/ \E answer : call.sent = <<answer>>
  /\ call.chain = "waiting" => call.sent = <<>>
  /\ call.chain = "direct" =>
       /\ call.upgrade /\ call.done = <<>> /\ call.handler \in {"begins", "acted", "wrote"}
       /\ call.handler # "wrote" => call.sent = <<>>
  /\ call.handler = "wrote" => call.chain = "direct" /\ call.sent # <<>>
  /\ call.chain = "returned" => call.sent # <<>>
  /\ HasAnswered(call) => Names(call.buffer, s)
  /\ call.sent # <<>> /\ call.sent[1].status \in {200, 201} =>
       /\ Names(call.sent[1], s)
       /\ ~call.upgrade => call.handler = "ended" /\ call.sent[1] = call.buffer

CallsInv ==
  /\ calls = [r \in Request |-> calls[r]]
  /\ \A r \in Request : CallOK(calls[r], store)

LEMMA IdleOK == \A s : CallOK(Idle, s)
  BY DEF CallOK, Idle, Chains, Handlers, Fields, HasAnswered

LEMMA AppendEmpty == ASSUME NEW x PROVE Append(<<>>, x) = <<x>>
<1>1. <<>> \in Seq({x}) /\ <<x>> \in Seq({x}) /\ Len(<<>>) = 0 /\ Len(<<x>>) = 1 /\ <<x>>[1] = x
  OBVIOUS
<1>2. /\ Append(<<>>, x) \in Seq({x}) /\ Len(Append(<<>>, x)) = 1
      /\ Append(<<>>, x)[1] = x
  BY <1>1, AppendProperties
<1> QED
  BY <1>1, <1>2, SeqEqual

LEMMA HoldsGrows ==
  ASSUME NEW s, NEW t, StoreOK(s), StoreOK(t), Grows(s, t), NEW id, Holds(s, id)
  PROVE  Holds(t, id)
  BY HoldsLemma DEF Grows, StoreOK

LEMMA CallGrows ==
  ASSUME NEW s, NEW t, StoreOK(s), StoreOK(t), Grows(s, t), NEW call, CallOK(call, s)
  PROVE  CallOK(call, t)
  BY HoldsGrows DEF CallOK, Names

LEMMA BecomesOK ==
  ASSUME CallsInv, StoreOK(store), StoreOK(store'), Grows(store, store'),
         NEW r \in Request, NEW call, CallOK(call, store'), Becomes(r, call)
  PROVE  CallsInv'
<1> DEFINE new == IF Over(call) THEN Idle ELSE call
<1>1. CallOK(new, store')
  BY IdleOK
<1>2. calls' = [calls EXCEPT ![r] = new]
  BY DEF Becomes
<1> HIDE DEF new
<1>3. calls' = [q \in Request |-> calls'[q]] /\
        \A q \in Request : calls'[q] = IF q = r THEN new ELSE calls[q]
  BY <1>2 DEF CallsInv
<1>4. \A q \in Request : CallOK(calls[q], store')
  BY CallGrows DEF CallsInv
<1>5. \A q \in Request : CallOK(calls'[q], store')
  BY <1>1, <1>3, <1>4
<1> QED
  BY <1>3, <1>5 DEF CallsInv

(* An answer goes out once, when nothing has. *)
LEMMA SentOK ==
  ASSUME NEW s, NEW r \in Request, CallOK(calls[r], s), calls[r].sent = <<>>,
         calls[r].handler # "wrote", NEW answer,
         answer.status \in {200, 201} =>
           calls[r].handler = "ended" /\ answer = calls[r].buffer /\ Names(answer, s)
  PROVE  /\ CallOK(Sent(r, answer), s)
         /\ Sent(r, answer).handler = calls[r].handler /\ Sent(r, answer).sent = <<answer>>
         /\ Sent(r, answer).chain = "returned" /\ Sent(r, answer).upgrade = calls[r].upgrade
<1> DEFINE c == calls[r]
           d == Sent(r, answer)
<1>1. /\ DOMAIN d = Fields
      /\ d.chain = "returned" /\ d.sent = Append(c.sent, answer)
      /\ d.handler = c.handler /\ d.todo = c.todo /\ d.buffer = c.buffer /\ d.done = c.done
      /\ d.upgrade = c.upgrade
  BY DEF Sent, CallOK, Fields
<1>2. d.sent = <<answer>> /\ d.sent # <<>> /\ d.sent[1] = answer
  BY <1>1, AppendEmpty
<1> HIDE DEF c, d
<1>3. CallOK(c, s) /\ c.handler # "wrote"
  BY DEF c
<1>4. answer.status \in {200, 201} => c.handler = "ended" /\ answer = c.buffer /\ Names(answer, s)
  BY DEF c
<1>5. CallOK(d, s)
  BY <1>1, <1>2, <1>3, <1>4 DEF CallOK, Chains, HasAnswered
<1> QED
  BY <1>1, <1>2, <1>5 DEF c, d

LEMMA ErrorSentOK ==
  ASSUME NEW s, NEW r \in Request, CallOK(calls[r], s), calls[r].sent = <<>>,
         calls[r].handler # "wrote",
         NEW status, status \notin {200, 201}
  PROVE  CallOK(Sent(r, [status |-> status]), s)
<1> DEFINE answer == [status |-> status]
<1>1. answer.status \notin {200, 201}
  OBVIOUS
<1> HIDE DEF answer
<1>2. CallOK(Sent(r, answer), s)
  BY <1>1, SentOK
<1> QED
  BY <1>2 DEF answer

-----------------------------------------------------------------------------
(* A walk: what it has seen are the first orders, and its cursor the last of them. *)

Fits(listed, w, s) ==
  /\ listed.page \in Seq(Nat) /\ listed.next \in Nat
  /\ Len(w.seen) + Len(listed.page) <= s.seq
  /\ \A i \in 1..Len(listed.page) : listed.page[i] = Len(w.seen) + i
  /\ listed.next # NoCursor => listed.next = Len(w.seen) + Len(listed.page)
  /\ listed.next = NoCursor => w.known <= Len(w.seen) + Len(listed.page)

Walk == [limit : {NoLimit, MaxLimit + 1}, cursor : Nat, seen : Seq(Nat), known : Nat,
         on : Request \union {Nil}, over : BOOLEAN]

WalkOK(w, s) ==
  /\ w \in Walk
  /\ Len(w.seen) <= s.seq /\ w.known <= s.seq
  /\ \A i \in 1..Len(w.seen) : w.seen[i] = i
  /\ ~w.over => w.cursor = Len(w.seen)
  /\ w.over => w.on = Nil /\ w.known <= Len(w.seen)

(* The request the walk waits for is its own, and whatever page comes of it goes on from it. *)
Pending(call, w, s) ==
  /\ call.chain \in {"waiting", "returned", "aborted"} /\ ~call.upgrade
  /\ call.handler = "begins" => call.todo = [kind |-> "list", limit |-> w.limit, cursor |-> w.cursor]
  /\ HasAnswered(call) => Fits(call.buffer.list, w, s)
  /\ call.sent # <<>> /\ call.sent[1].status = 200 => Fits(call.sent[1].list, w, s)

WalkInv ==
  walk # Nil => WalkOK(walk, store) /\ (walk.on # Nil => Pending(calls[walk.on], walk, store))

ServerInv == StoreOK(store) /\ CallsInv /\ WalkInv

LEMMA WalkGrows ==
  ASSUME NEW s, NEW t, StoreOK(s), StoreOK(t), Grows(s, t), NEW w, WalkOK(w, s)
  PROVE  /\ WalkOK(w, t)
         /\ \A call : Pending(call, w, s) => Pending(call, w, t)
<1>1. /\ s.seq \in Nat /\ t.seq \in Nat /\ s.seq <= t.seq
      /\ Len(w.seen) \in Nat /\ w.known \in Nat
  BY LenProperties DEF StoreOK, Grows, WalkOK, Walk
<1>2. ASSUME NEW listed, Fits(listed, w, s) PROVE Fits(listed, w, t)
  <2>1. listed.page \in Seq(Nat) /\ Len(w.seen) + Len(listed.page) <= s.seq
    BY <1>2 DEF Fits
  <2>2. Len(listed.page) \in Nat
    BY <2>1, LenProperties
  <2>3. \A l \in Nat, m \in Nat : l + m <= s.seq => l + m <= t.seq
    BY <1>1
  <2>5. Len(w.seen) + Len(listed.page) <= t.seq
    BY <1>1, <2>1, <2>2, <2>3
  <2> QED
    BY <1>2, <2>5 DEF Fits
<1> QED
  BY <1>1, <1>2 DEF WalkOK, Pending

(* Whatever becomes of one request, a walk that stays is as it was. *)
LEMMA WalkStays ==
  ASSUME ServerInv, StoreOK(store'), Grows(store, store'), UNCHANGED walk,
         NEW r \in Request, NEW call, Becomes(r, call),
         walk # Nil /\ walk.on = r /\ Pending(calls[r], walk, store) => Pending(call, walk, store')
  PROVE  WalkInv'
<1> SUFFICES ASSUME walk # Nil
             PROVE  WalkOK(walk, store') /\ (walk.on # Nil => Pending(calls'[walk.on], walk, store'))
  BY DEF WalkInv
<1>1. WalkOK(walk, store) /\ (walk.on # Nil => Pending(calls[walk.on], walk, store))
  BY DEF ServerInv, WalkInv
<1>2. /\ WalkOK(walk, store')
      /\ \A c : Pending(c, walk, store) => Pending(c, walk, store')
  BY <1>1, WalkGrows DEF ServerInv
<1>3. CASE walk.on = Nil
  BY <1>2, <1>3
<1>4. CASE walk.on = r /\ walk.on # Nil
  <2>1. Pending(call, walk, store') /\ call.chain # "heard"
    BY <1>1, <1>4 DEF Pending
  <2>2. calls' = [calls EXCEPT ![r] = call]
    BY <2>1 DEF Becomes, Over
  <2>3. calls'[r] = call
    BY <2>2 DEF ServerInv, CallsInv
  <2> QED
    BY <1>2, <1>4, <2>1, <2>3
<1>5. CASE walk.on # r /\ walk.on # Nil
  <2>1. calls'[walk.on] = calls[walk.on]
    BY <1>1, <1>5 DEF Becomes, ServerInv, CallsInv, WalkOK, Walk
  <2> QED
    BY <1>1, <1>2, <1>5, <2>1
<1> QED
  BY <1>3, <1>4, <1>5

LEMMA SameStore == ASSUME StoreOK(store), UNCHANGED store PROVE StoreOK(store') /\
  Grows(store, store')
  BY DEF StoreOK, Grows

(* A step of one request that leaves the store and the walk alone. *)
LEMMA CallStep ==
  ASSUME ServerInv, UNCHANGED <<store, walk>>, NEW r \in Request, NEW call, Becomes(r, call),
         CallOK(call, store),
         walk # Nil /\ walk.on = r /\ Pending(calls[r], walk, store) => Pending(call, walk, store)
  PROVE  ServerInv'
<1>1. StoreOK(store') /\ Grows(store, store') /\ store' = store
  BY SameStore DEF ServerInv
<1>2. CallsInv'
  BY <1>1, BecomesOK DEF ServerInv
<1>3. WalkInv'
  BY <1>1, WalkStays
<1>4. StoreOK(store)'
  BY <1>1 DEF StoreOK
<1> QED
  BY <1>2, <1>3, <1>4 DEF ServerInv

-----------------------------------------------------------------------------
(* Every step keeps it. *)

LEMMA ArrivesOK ==
  ASSUME NEW s, NEW r \in Request, calls[r] = Idle, NEW op, NEW upgrade \in BOOLEAN,
         op.kind \in {"create", "get", "list", "preflight", "socket"}
  PROVE  CallOK(IF op.kind = "preflight" THEN Preflight(r) ELSE Started(op, upgrade), s)
<1>1. CASE op.kind = "preflight"
  <2>1. CallOK(calls[r], s)
    BY IdleOK
  <2>2. calls[r].sent = <<>> /\ calls[r].handler = "ended"
    BY DEF Idle
  <2>3. CallOK(Preflight(r), s)
    BY <2>1, <2>2, ErrorSentOK DEF Preflight
  <2> QED
    BY <1>1, <2>3
<1>2. CASE op.kind # "preflight"
  <2> DEFINE d == Started(op, upgrade)
  <2>1. /\ DOMAIN d = Fields /\ d.upgrade = upgrade /\ d.handler = "begins" /\ d.todo = op
        /\ d.chain = IF upgrade THEN "direct" ELSE "waiting"
        /\ d.done = <<>> /\ d.sent = <<>>
    BY DEF Started, Idle, Fields
  <2> HIDE DEF d
  <2>2. CallOK(d, s)
    BY <1>2, <2>1 DEF CallOK, Chains, Handlers, HasAnswered
  <2> QED
    BY <1>2, <2>2 DEF d
<1> QED
  BY <1>1, <1>2

LEMMA AsksKeeps == ASSUME ServerInv, NEW r \in Request, Asks(r) PROVE ServerInv'
<1>1. PICK op \in Ops, upgrade \in BOOLEAN : Arrives(r, op, upgrade)
  BY DEF Asks
<1>2. op.kind \in {"create", "get", "list", "preflight", "socket"}
  BY DEF Ops
<1>3. ~Pending(calls[r], walk, store)
  BY <1>1 DEF Arrives, Pending, Idle
<1> QED
  BY <1>1, <1>2, <1>3, ArrivesOK, CallStep DEF Arrives, Asks

(* What a handler that writes to the connection makes of its call: it is no walk's.              *)
LEMMA DirectStep ==
  ASSUME ServerInv, UNCHANGED <<store, walk>>, NEW r \in Request, Direct(r),
         NEW call, Becomes(r, call), CallOK(call, store)
  PROVE  ServerInv'
<1>1. ~Pending(calls[r], walk, store)
  BY DEF Direct, Pending
<1> QED
  BY <1>1, CallStep

LEMMA DirectWritesKeeps == ASSUME ServerInv, NEW r \in Request, DirectWrites(r) PROVE ServerInv'
<1> DEFINE c == calls[r]
<1>1. CallOK(c, store) /\ Direct(r) /\ c.chain = "direct" /\ UNCHANGED <<store, walk>>
  BY DEF DirectWrites, Direct, ServerInv, CallsInv
<1>2. ASSUME NEW status \in {101, 400, 500}, c.handler = "begins",
             Becomes(r, [c EXCEPT !.handler = "wrote", !.todo = Nil,
                                  !.sent = Append(@, [status |-> status])])
      PROVE  ServerInv'
  <2> DEFINE answer == [status |-> status]
             d == [c EXCEPT !.handler = "wrote", !.todo = Nil, !.sent = Append(@, answer)]
  <2>1. answer.status \notin {200, 201}
    BY <1>2
  <2> HIDE DEF answer
  <2>0. c.sent = <<>> /\ c.done = <<>> /\ DOMAIN c = Fields
    BY <1>1, <1>2 DEF CallOK
  <2>2. /\ DOMAIN d = Fields /\ d.upgrade = c.upgrade /\ d.chain = "direct" /\ d.handler = "wrote"
        /\ d.done = <<>> /\ d.sent = <<answer>>
    BY <1>1, <2>0, AppendEmpty DEF Fields
  <2>3. Becomes(r, d)
    BY <1>2 DEF answer
  <2> HIDE DEF d
  <2>4. <<answer>>[1] = answer /\ <<answer>> # <<>>
    OBVIOUS
  <2>5. CallOK(d, store)
    BY <1>1, <2>1, <2>2, <2>4 DEF CallOK, Chains, Handlers, HasAnswered
  <2> QED
    BY <1>1, <2>3, <2>5, DirectStep
<1>3. ASSUME c.handler = "acted",
             Becomes(r, [c EXCEPT !.handler = "wrote", !.sent = Append(@, c.buffer)])
      PROVE  ServerInv'
  <2> DEFINE answer == c.buffer
             d == [c EXCEPT !.handler = "wrote", !.sent = Append(@, answer)]
  <2>1. Names(answer, store)
    BY <1>1, <1>3 DEF CallOK, HasAnswered
  <2> HIDE DEF answer
  <2>2. /\ DOMAIN d = Fields /\ d.upgrade = c.upgrade /\ d.chain = "direct" /\ d.handler = "wrote"
        /\ d.done = <<>> /\ d.sent = <<answer>>
    BY <1>1, <1>3, AppendEmpty DEF CallOK, Fields
  <2>3. Becomes(r, d)
    BY <1>3 DEF answer
  <2> HIDE DEF d
  <2>4. <<answer>>[1] = answer /\ <<answer>> # <<>>
    OBVIOUS
  <2>5. CallOK(d, store)
    BY <1>1, <2>1, <2>2, <2>4 DEF CallOK, Chains, Handlers, HasAnswered
  <2> QED
    BY <1>1, <2>3, <2>5, DirectStep
<1>4. ASSUME c.handler = "acted", Becomes(r, [c EXCEPT !.handler = "ended", !.chain = "aborted"])
      PROVE  ServerInv'
  <2> DEFINE d == [c EXCEPT !.handler = "ended", !.chain = "aborted"]
  <2>1. /\ DOMAIN d = Fields /\ d.upgrade = c.upgrade /\ d.chain = "aborted" /\ d.handler = "ended"
        /\ d.done = <<>> /\ d.sent = <<>>
    BY <1>1, <1>4 DEF CallOK, Fields
  <2>2. Becomes(r, d)
    BY <1>4
  <2> HIDE DEF d
  <2>3. CallOK(d, store)
    BY <2>1 DEF CallOK, Chains, Handlers, HasAnswered
  <2> QED
    BY <1>1, <2>2, <2>3, DirectStep
<1> QED
  BY <1>2, <1>3, <1>4 DEF DirectWrites, Handles

LEMMA DirectReturnsKeeps == ASSUME ServerInv, NEW r \in Request, DirectReturns(r) PROVE ServerInv'
<1> DEFINE c == calls[r]
           d == [c EXCEPT !.handler = "ended", !.chain = "returned"]
<1>1. /\ CallOK(c, store) /\ Direct(r) /\ c.chain = "direct" /\ c.handler = "wrote"
      /\ UNCHANGED <<store, walk>> /\ Becomes(r, d)
  BY DEF DirectReturns, Direct, Handles, ServerInv, CallsInv
<1>2. /\ DOMAIN d = Fields /\ d.upgrade = c.upgrade /\ d.chain = "returned" /\ d.handler = "ended"
      /\ d.done = <<>> /\ d.sent = c.sent
  BY <1>1 DEF CallOK, Fields
<1> HIDE DEF c, d
<1>3. CallOK(d, store)
  BY <1>1, <1>2 DEF CallOK, Chains, Handlers, HasAnswered
<1> QED
  BY <1>1, <1>3, DirectStep

LEMMA DirectPanicsKeeps == ASSUME ServerInv, NEW r \in Request, DirectPanics(r) PROVE ServerInv'
<1>1. PICK how \in {"panic", "abort"} :
        Becomes(r, [Recovered(r, how) EXCEPT !.handler = "panicked", !.todo = Nil])
  BY DEF DirectPanics
<1> DEFINE c == calls[r]
           recovered == Recovered(r, how)
           d == [recovered EXCEPT !.handler = "panicked", !.todo = Nil]
<1>2. CallOK(c, store) /\ Direct(r) /\ c.chain = "direct" /\ UNCHANGED <<store, walk>>
  BY DEF DirectPanics, Direct, ServerInv, CallsInv
<1>3. /\ DOMAIN recovered = Fields /\ recovered.upgrade = c.upgrade /\ recovered.done = <<>>
      /\ \/ recovered.chain = "aborted" /\ recovered.sent = c.sent
         \/ recovered.chain = "returned" /\ recovered.sent = c.sent /\ c.sent # <<>>
         \/ recovered.chain = "returned" /\ recovered.sent = <<[status |-> 500]>>
  <2>1. CASE how = "abort"
    BY <1>2, <2>1 DEF Recovered, CallOK, Fields
  <2>2. CASE how # "abort" /\ c.sent # <<>>
    BY <1>2, <2>2 DEF Recovered, CallOK, Fields
  <2>3. CASE how # "abort" /\ c.sent = <<>>
    <3> DEFINE answer == [status |-> 500]
    <3>1. recovered = Sent(r, answer)
      BY <2>3 DEF Recovered
    <3> HIDE DEF answer, recovered
    <3>2. /\ DOMAIN recovered = Fields /\ recovered.upgrade = c.upgrade /\ recovered.done = <<>>
          /\ recovered.chain = "returned" /\ recovered.sent = <<answer>>
      BY <1>2, <2>3, <3>1, AppendEmpty DEF Sent, CallOK, Fields
    <3> QED
      BY <3>2 DEF answer
  <2> QED
    BY <2>1, <2>2, <2>3
<1> HIDE DEF recovered
<1>4. /\ DOMAIN d = Fields /\ d.upgrade = recovered.upgrade /\ d.done = recovered.done
      /\ d.chain = recovered.chain /\ d.sent = recovered.sent /\ d.handler = "panicked"
  BY <1>3 DEF Fields
<1>5. Becomes(r, d)
  BY <1>1 DEF recovered
<1> HIDE DEF d
<1>6. c.upgrade /\ (c.sent # <<>> /\ c.sent[1].status \in {200, 201} => Names(c.sent[1], store))
  BY <1>2 DEF CallOK
<1>7. CASE d.sent = c.sent /\ (d.chain = "aborted" \/ (d.chain = "returned" /\ c.sent # <<>>))
  <2>1. CallOK(d, store)
    BY <1>2, <1>3, <1>4, <1>6, <1>7 DEF CallOK, Chains, Handlers, HasAnswered
  <2> QED
    BY <1>2, <1>5, <2>1, DirectStep
<1>8. CASE d.chain = "returned" /\ d.sent = <<[status |-> 500]>>
  <2>1. d.sent # <<>> /\ d.sent[1].status = 500
    BY <1>8
  <2>2. CallOK(d, store)
    BY <1>3, <1>4, <1>8, <2>1 DEF CallOK, Chains, Handlers, HasAnswered
  <2> QED
    BY <1>2, <1>5, <2>2, DirectStep
<1> QED
  BY <1>3, <1>4, <1>7, <1>8

LEMMA TimesOutKeeps == ASSUME ServerInv, NEW r \in Request, TimesOut(r) PROVE ServerInv'
<1> DEFINE d == Sent(r, [status |-> 504])
<1>1. CallOK(calls[r], store) /\ calls[r].sent = <<>> /\ calls[r].handler # "wrote"
  BY DEF TimesOut, Waits, ServerInv, CallsInv, CallOK
<1>2. CallOK(d, store)
  BY <1>1, ErrorSentOK
<1>3. /\ d.chain = "returned" /\ d.handler = calls[r].handler /\ d.todo = calls[r].todo
      /\ d.buffer = calls[r].buffer /\ d.done = calls[r].done /\ d.sent[1].status = 504
      /\ d.upgrade = calls[r].upgrade
  BY <1>1, AppendEmpty DEF Sent, CallOK, Fields
<1> HIDE DEF d
<1>4. Pending(calls[r], walk, store) => Pending(d, walk, store)
  BY <1>2, <1>3 DEF Pending, HasAnswered
<1> QED
  BY <1>2, <1>4, CallStep DEF TimesOut, d

LEMMA PanicsKeeps == ASSUME ServerInv, NEW r \in Request, Panics(r) PROVE ServerInv'
<1>1. PICK how \in {"panic", "abort"} : Becomes(r, [calls[r] EXCEPT !.handler = how, !.todo = Nil])
  BY DEF Panics
<1> DEFINE d == [calls[r] EXCEPT !.handler = how, !.todo = Nil]
<1>2. CallOK(calls[r], store) /\ calls[r].handler \in {"begins", "acted"} /\ calls[r].chain # "direct"
  BY DEF Panics, Handles, Direct, ServerInv, CallsInv
<1>3. /\ DOMAIN d = Fields /\ d.upgrade = calls[r].upgrade
      /\ d.chain = calls[r].chain /\ d.handler = how /\ d.buffer = calls[r].buffer
      /\ d.done = calls[r].done /\ d.sent = calls[r].sent
  BY <1>2 DEF CallOK, Fields
<1>4. Becomes(r, d)
  BY <1>1
<1> HIDE DEF d
<1>5. d.done = <<>>
  BY <1>2, <1>3 DEF CallOK
<1>6. CallOK(d, store)
  BY <1>2, <1>3, <1>5 DEF CallOK, Chains, Handlers, HasAnswered
<1>7. Pending(calls[r], walk, store) => Pending(d, walk, store)
  BY <1>3, <1>5 DEF Pending, HasAnswered
<1> QED
  BY <1>4, <1>6, <1>7, CallStep DEF Panics

LEMMA EndsKeeps == ASSUME ServerInv, NEW r \in Request, Ends(r) PROVE ServerInv'
<1> DEFINE d == [calls[r] EXCEPT !.done = Append(@, calls[r].handler),
                                 !.handler = IF @ = "acted" THEN "ended" ELSE "panicked"]
<1>1. CallOK(calls[r], store) /\ calls[r].handler \in {"acted", "panic", "abort"}
      /\ calls[r].chain # "direct"
  BY DEF Ends, Handles, Direct, ServerInv, CallsInv
<1>2. calls[r].done = <<>> /\ Append(calls[r].done, calls[r].handler) = <<calls[r].handler>>
  BY <1>1, AppendEmpty DEF CallOK
<1>3. /\ DOMAIN d = Fields /\ d.upgrade = calls[r].upgrade
      /\ d.chain = calls[r].chain /\ d.buffer = calls[r].buffer
      /\ d.handler = IF calls[r].handler = "acted" THEN "ended" ELSE "panicked"
      /\ d.done = <<calls[r].handler>> /\ d.sent = calls[r].sent
  BY <1>1, <1>2 DEF CallOK, Fields
<1>4. Becomes(r, d)
  BY DEF Ends
<1> HIDE DEF d
<1>5. HasAnswered(d) => HasAnswered(calls[r])
  BY <1>1, <1>3 DEF HasAnswered
<1>6. CallOK(d, store)
  BY <1>1, <1>3, <1>5 DEF CallOK, Chains, Handlers
<1>7. Pending(calls[r], walk, store) => Pending(d, walk, store)
  BY <1>3, <1>5 DEF Pending
<1> QED
  BY <1>4, <1>6, <1>7, CallStep DEF Ends

LEMMA ReceivedOK ==
  ASSUME NEW s, NEW c, CallOK(c, s)
  PROVE  LET d == [c EXCEPT !.done = <<>>]
         IN /\ CallOK(d, s) /\ d.done = <<>>
            /\ d.chain = c.chain /\ d.handler = c.handler /\ d.todo = c.todo
            /\ d.buffer = c.buffer /\ d.sent = c.sent /\ d.upgrade = c.upgrade
<1> DEFINE d == [c EXCEPT !.done = <<>>]
<1>1. /\ DOMAIN d = Fields /\ d.done = <<>> /\ d.upgrade = c.upgrade
      /\ d.chain = c.chain /\ d.handler = c.handler /\ d.todo = c.todo
      /\ d.buffer = c.buffer /\ d.sent = c.sent
  BY DEF CallOK, Fields
<1> HIDE DEF d
<1>2. CallOK(d, s)
  BY <1>1 DEF CallOK, HasAnswered
<1> QED
  BY <1>1, <1>2 DEF d

LEMMA CompletesKeeps == ASSUME ServerInv, NEW r \in Request, Completes(r) PROVE ServerInv'
<1> DEFINE how == Head(calls[r].done)
           answered == IF how = "acted" THEN Flushed(r) ELSE Recovered(r, how)
           d == [answered EXCEPT !.done = <<>>]
<1>1. /\ CallOK(calls[r], store) /\ calls[r].sent = <<>>
      /\ calls[r].handler \in {"ended", "panicked"} /\ (how = "acted" => calls[r].handler = "ended")
      /\ how \in {"acted", "panic", "abort"} /\ calls[r].done = <<how>>
  BY DEF Completes, Waits, ServerInv, CallsInv, CallOK
<1>2. Becomes(r, d) /\ UNCHANGED <<store, walk>>
  BY DEF Completes
<1> HIDE DEF how, d, answered
<1>3. CASE how = "acted"
  <2>1. answered = Sent(r, calls[r].buffer) /\ Names(calls[r].buffer, store)
    BY <1>1, <1>3 DEF Flushed, CallOK, HasAnswered, answered
  <2>2. /\ CallOK(answered, store)
        /\ answered.sent = <<calls[r].buffer>> /\ answered.chain = "returned"
    <3>1. calls[r].handler = "ended" /\ calls[r].handler # "wrote"
      BY <1>1, <1>3
    <3> QED
      BY <1>1, <2>1, <3>1, SentOK
  <2>3. answered.handler = "ended"
    BY <1>1, <1>3, <2>1, SentOK
  <2>6. answered.upgrade = calls[r].upgrade
    BY <1>1, <1>3, <2>1, SentOK
  <2>4. /\ CallOK(d, store) /\ d.done = <<>> /\ d.chain = "returned" /\ d.handler = "ended"
        /\ d.sent = <<calls[r].buffer>> /\ d.upgrade = calls[r].upgrade
    BY <2>2, <2>3, <2>6, ReceivedOK DEF d
  <2>5. Pending(calls[r], walk, store) => Pending(d, walk, store)
    BY <1>1, <1>3, <2>4 DEF Pending, HasAnswered
  <2> QED
    BY <1>2, <2>4, <2>5, CallStep
<1>4. CASE how = "panic"
  <2>1. answered = Sent(r, [status |-> 500])
    BY <1>1, <1>4 DEF Recovered, answered
  <2>2. CallOK(answered, store)
    BY <1>1, <2>1, ErrorSentOK
  <2>3. /\ answered.handler = calls[r].handler /\ answered.chain = "returned"
        /\ answered.sent = Append(<<>>, [status |-> 500]) /\ answered.upgrade = calls[r].upgrade
    BY <1>1, <2>1 DEF Sent, CallOK, Fields
  <2>4. /\ CallOK(d, store) /\ d.done = <<>> /\ d.chain = "returned"
        /\ d.handler \in {"ended", "panicked"} /\ d.sent[1].status = 500
        /\ d.upgrade = calls[r].upgrade
    BY <1>1, <2>2, <2>3, ReceivedOK, AppendEmpty DEF d
  <2>5. Pending(calls[r], walk, store) => Pending(d, walk, store)
    BY <2>4 DEF Pending, HasAnswered
  <2> QED
    BY <1>2, <2>4, <2>5, CallStep
<1>5. CASE how = "abort"
  <2>1. answered = [calls[r] EXCEPT !.chain = "aborted"]
    BY <1>5 DEF Recovered, answered
  <2>2. /\ DOMAIN answered = Fields
        /\ answered.chain = "aborted" /\ answered.handler = calls[r].handler
        /\ answered.todo = calls[r].todo /\ answered.upgrade = calls[r].upgrade
        /\ answered.buffer = calls[r].buffer /\ answered.done = calls[r].done /\ answered.sent = <<>>
    BY <1>1, <2>1 DEF CallOK, Fields
  <2>3. CallOK(answered, store)
    BY <1>1, <2>2 DEF CallOK, Chains, HasAnswered
  <2>4. /\ CallOK(d, store) /\ d.done = <<>> /\ d.chain = "aborted"
        /\ d.handler \in {"ended", "panicked"} /\ d.sent = <<>>
        /\ d.upgrade = calls[r].upgrade
    BY <1>1, <2>2, <2>3, ReceivedOK DEF d
  <2>5. Pending(calls[r], walk, store) => Pending(d, walk, store)
    BY <2>4 DEF Pending, HasAnswered
  <2> QED
    BY <1>2, <2>4, <2>5, CallStep
<1> QED
  BY <1>1, <1>3, <1>4, <1>5

(* The store operation, and an answer that tells of it. *)
LEMMA HandledOK ==
  ASSUME NEW s, StoreOK(s), NEW op, op.kind \in {"create", "get", "list"}
  PROVE  LET handled == Handled(s, op)
         IN /\ StoreOK(handled.store) /\ Grows(s, handled.store)
            /\ Names(handled.answer, handled.store)
<1> DEFINE handled == Handled(s, op)
<1>0. Grows(s, s)
  BY DEF StoreOK, Grows
<1>1. CASE op.kind = "create" /\ op.valid
  <2>1. handled = [store |-> Create(s), answer |-> [status |-> 201, id |-> Created(s)]]
    BY <1>1 DEF Handled
  <2> QED
    BY <2>1, CreateOK DEF Names
<1>2. CASE op.kind = "create" /\ ~op.valid
  <2>1. handled = [store |-> s, answer |-> [status |-> 400]]
    BY <1>2 DEF Handled
  <2> QED
    BY <1>0, <2>1 DEF Names
<1>3. CASE op.kind = "get"
  <2>1. handled = [store |-> s, answer |-> [status |-> IF Holds(s, op.id) THEN 200 ELSE 404]]
    BY <1>3 DEF Handled
  <2> QED
    BY <1>0, <2>1 DEF Names
<1>4. CASE op.kind = "list"
  <2>1. handled = [store |-> s,
                   answer |-> [status |-> 200, list |-> List(s, PageLimit(op.limit), op.cursor)]]
    BY <1>4 DEF Handled
  <2> QED
    BY <1>0, <2>1 DEF Names
<1> QED
  BY <1>1, <1>2, <1>3, <1>4

LEMMA ActsKeeps == ASSUME ServerInv, NEW r \in Request, Acts(r) PROVE ServerInv'
<1> DEFINE op == calls[r].todo
           handled == Handled(store, op)
           d == [calls[r] EXCEPT !.handler = "acted", !.todo = Nil, !.buffer = handled.answer]
<1>1. CallOK(calls[r], store) /\ calls[r].handler = "begins" /\ StoreOK(store)
      /\ op.kind \in {"create", "get", "list"} /\ calls[r].done = <<>>
  BY DEF Acts, Handles, ServerInv, CallsInv, CallOK
<1>2. store' = handled.store /\ Becomes(r, d) /\ UNCHANGED walk
  BY DEF Acts
<1>3. StoreOK(store') /\ Grows(store, store') /\ Names(handled.answer, store')
  BY <1>1, <1>2, HandledOK
<1>4. /\ DOMAIN d = Fields /\ d.upgrade = calls[r].upgrade
      /\ d.chain = calls[r].chain /\ d.handler = "acted" /\ d.buffer = handled.answer
      /\ d.done = <<>> /\ d.sent = calls[r].sent
  BY <1>1 DEF CallOK, Fields
<1> HIDE DEF d
<1>5. CallOK(calls[r], store')
  BY <1>1, <1>3, CallGrows
<1>6. CallOK(d, store')
  BY <1>1, <1>3, <1>4, <1>5 DEF CallOK, Handlers, HasAnswered
<1>7. CallsInv'
  BY <1>2, <1>3, <1>6, BecomesOK DEF ServerInv
<1>8. ASSUME walk # Nil, walk.on = r, Pending(calls[r], walk, store) PROVE Pending(d, walk, store')
  <2>1. op = [kind |-> "list", limit |-> walk.limit, cursor |-> walk.cursor]
    BY <1>1, <1>8 DEF Pending
  <2>0. ~calls[r].upgrade
    BY <1>8 DEF Pending
  <2>2. WalkOK(walk, store) /\ ~walk.over /\ walk.cursor = Len(walk.seen)
    BY <1>8, ServerAssumption DEF ServerInv, WalkInv, WalkOK
  <2>3. PageLimit(walk.limit) \in Nat \ {0} /\ walk.cursor \in Nat /\ walk.cursor <= store.seq
        /\ walk.known \in Nat /\ walk.known <= store.seq
    BY <2>2, OrdersAssumption DEF WalkOK, Walk, PageLimit, Least, NoLimit
  <2> DEFINE listed == List(store, PageLimit(walk.limit), walk.cursor)
  <2>4. PageOK(listed, store, walk.cursor)
    BY <1>1, <2>3, ListOK
  <2>5. handled.answer.list = listed /\ store' = store
    BY <1>2, <2>1 DEF Handled
  <2> HIDE DEF listed
  <2>6. Fits(listed, walk, store)
    BY <2>2, <2>3, <2>4 DEF PageOK, Fits
  <2>7. calls[r].sent # <<>> => calls[r].sent[1].status # 200
    BY <1>1, <2>0 DEF CallOK
  <2> QED
    BY <1>4, <1>8, <2>5, <2>6, <2>7 DEF Pending
<1>9. WalkInv'
  BY <1>2, <1>3, <1>8, WalkStays
<1>10. StoreOK(store)'
  BY <1>3 DEF StoreOK
<1> QED
  BY <1>7, <1>9, <1>10 DEF ServerInv

LEMMA WalkBeginsKeeps == ASSUME ServerInv, WalkBegins PROVE ServerInv'
<1>1. PICK limit \in {NoLimit, MaxLimit + 1} :
        walk' = [limit |-> limit, cursor |-> NoCursor, seen |-> <<>>, known |-> Len(store.ids),
                 on |-> Nil, over |-> FALSE]
  BY DEF WalkBegins
<1>2. UNCHANGED <<store, calls>>
  BY DEF WalkBegins
<1>3. StoreOK(store') /\ CallsInv'
  BY <1>2 DEF ServerInv, StoreOK, CallsInv, CallOK, Names, Holds, HasAnswered
<1>4. WalkOK(walk', store) /\ walk'.on = Nil
  <2>1. <<>> \in Seq(Nat) /\ Len(<<>>) = 0
    BY EmptySeq
  <2>2. Len(store.ids) \in Nat /\ Len(store.ids) <= store.seq /\ 0 <= store.seq
    BY DEF ServerInv, StoreOK
  <2> QED
    BY <1>1, <2>1, <2>2 DEF WalkOK, Walk, NoCursor
<1> QED
  BY <1>2, <1>3, <1>4 DEF ServerInv, WalkInv, StoreOK

LEMMA WalkAsksKeeps == ASSUME ServerInv, NEW r \in Request, WalkAsks(r) PROVE ServerInv'
<1> DEFINE op == [kind |-> "list", limit |-> walk.limit, cursor |-> walk.cursor]
           d == Started(op, FALSE)
<1>1. /\ walk # Nil /\ ~walk.over /\ calls[r] = Idle /\ Becomes(r, d)
      /\ walk' = [walk EXCEPT !.on = r] /\ UNCHANGED store
  BY DEF WalkAsks, Arrives
<1>2. d = [Idle EXCEPT !.upgrade = FALSE, !.chain = "waiting", !.handler = "begins", !.todo = op]
  BY DEF Started
<1>3. /\ d.chain = "waiting" /\ d.handler = "begins" /\ d.todo = op /\ d.done = <<>> /\ d.sent = <<>>
      /\ ~d.upgrade
  BY <1>2 DEF Idle
<1>4. CallOK(d, store)
  BY <1>1, ArrivesOK
<1> HIDE DEF d
<1>5. StoreOK(store') /\ Grows(store, store') /\ CallsInv' /\ StoreOK(store)'
  <2>1. StoreOK(store') /\ Grows(store, store')
    BY <1>1, SameStore DEF ServerInv
  <2>2. CallsInv'
    BY <1>1, <1>4, <2>1, BecomesOK DEF ServerInv
  <2> QED
    BY <2>1, <2>2 DEF StoreOK
<1>6. calls'[r] = d
  BY <1>1, <1>3 DEF Becomes, Over, ServerInv, CallsInv
<1>7. WalkOK(walk, store)
  BY <1>1 DEF ServerInv, WalkInv
<1>8. WalkOK(walk', store) /\ walk'.on = r /\ walk'.limit = walk.limit /\ walk'.cursor = walk.cursor
  BY <1>1, <1>7 DEF WalkOK, Walk
<1>9. Pending(d, walk', store)
  BY <1>3, <1>8 DEF Pending, HasAnswered
<1> QED
  BY <1>1, <1>5, <1>6, <1>8, <1>9 DEF ServerInv, WalkInv

(* A page joins what the walk has seen. *)
LEMMA WalkedOK ==
  ASSUME NEW s, StoreOK(s), WalkOK(walk, s), walk.on # Nil, NEW answers,
         answers # <<>> /\ answers[1].status = 200 => Fits(answers[1].list, walk, s)
  PROVE  WalkOK(Walked(answers), s) /\ Walked(answers).on = Nil
<1>0. ~walk.over /\ walk \in Walk
  BY DEF WalkOK
<1>1. CASE answers # <<>> /\ answers[1].status = 200
  <2> DEFINE listed == answers[1].list
             w == Walked(answers)
             n == Len(walk.seen)
             m == Len(listed.page)
  <2>1. Fits(listed, walk, s) /\ listed.page \in Seq(Nat) /\ listed.next \in Nat /\
          walk.seen \in Seq(Nat)
    BY <1>0, <1>1 DEF Fits, Walk
  <2>2. w = [walk EXCEPT !.seen = walk.seen \o listed.page, !.cursor = listed.next, !.on = Nil,
                         !.over = listed.next = NoCursor]
    BY <1>1 DEF Walked
  <2>3. /\ walk.seen \o listed.page \in Seq(Nat) /\ Len(walk.seen \o listed.page) = n + m
        /\ \A i \in 1..n + m : (walk.seen \o listed.page)[i] =
             IF i <= n THEN walk.seen[i] ELSE listed.page[i - n]
    BY <2>1, ConcatProperties
  <2>4. n \in Nat /\ m \in Nat
    BY <2>1, LenProperties
  <2>5. /\ w \in Walk /\ w.on = Nil /\ w.seen = walk.seen \o listed.page /\ w.cursor = listed.next
        /\ w.over = (listed.next = NoCursor) /\ w.known = walk.known
    BY <1>0, <2>1, <2>2, <2>3 DEF Walk
  <2>6. /\ n + m <= s.seq /\ walk.known <= s.seq
        /\ listed.next # NoCursor => listed.next = n + m
        /\ listed.next = NoCursor => walk.known <= n + m
    BY <2>1 DEF Fits, WalkOK
  <2>7. \A k \in 1..m : listed.page[k] = n + k
    BY <2>1 DEF Fits
  <2>8. ASSUME NEW i \in 1..n + m PROVE (walk.seen \o listed.page)[i] = i
    <3>1. CASE i <= n
      <4>1. i \in 1..n
        BY <3>1, <2>4
      <4> QED
        BY <3>1, <2>3, <4>1 DEF WalkOK
    <3> HIDE DEF n, m
    <3>2. CASE ~(i <= n)
      <4>1. i - n \in 1..m /\ n + (i - n) = i
        BY <3>2, <2>4
      <4>2. listed.page[i - n] = n + (i - n)
        BY <4>1, <2>7
      <4> QED
        BY <3>2, <2>3, <4>1, <4>2
    <3> QED
      BY <3>1, <3>2
  <2> HIDE DEF listed, w
  <2>9. Len(w.seen) = n + m /\ \A i \in 1..Len(w.seen) : w.seen[i] = i
    BY <2>3, <2>5, <2>8
  <2>10. Len(w.seen) <= s.seq /\ w.known <= s.seq
        /\ (~w.over => w.cursor = Len(w.seen)) /\ (w.over => w.known <= Len(w.seen))
    BY <2>5, <2>6, <2>9
  <2> QED
    BY <2>5, <2>9, <2>10 DEF WalkOK, w
<1>2. CASE ~(answers # <<>> /\ answers[1].status = 200)
  <2>1. Walked(answers) = [walk EXCEPT !.on = Nil]
    BY <1>2 DEF Walked
  <2> QED
    BY <1>0, <2>1 DEF WalkOK, Walk
<1> QED
  BY <1>1, <1>2

LEMMA HearsKeeps == ASSUME ServerInv, NEW r \in Request, Hears(r) PROVE ServerInv'
<1> DEFINE d == [calls[r] EXCEPT !.chain = "heard"]
<1>1. /\ calls[r].chain \in {"returned", "aborted"} /\ Becomes(r, d) /\ UNCHANGED store
      /\ walk' = IF walk # Nil /\ walk.on = r THEN Walked(calls[r].sent) ELSE walk
  BY DEF Hears
<1>2. CallOK(calls[r], store)
  BY DEF ServerInv, CallsInv
<1>3. /\ DOMAIN d = Fields /\ d.upgrade = calls[r].upgrade
      /\ d.chain = "heard" /\ d.handler = calls[r].handler /\ d.todo = calls[r].todo
      /\ d.buffer = calls[r].buffer /\ d.done = calls[r].done /\ d.sent = calls[r].sent
  BY <1>2 DEF CallOK, Fields
<1> HIDE DEF d
<1>4. CallOK(d, store)
  BY <1>1, <1>2, <1>3 DEF CallOK, Chains, HasAnswered
<1>5. StoreOK(store') /\ Grows(store, store') /\ StoreOK(store)'
  <2>1. StoreOK(store') /\ Grows(store, store')
    BY <1>1, SameStore DEF ServerInv
  <2> QED
    BY <2>1 DEF StoreOK
<1>6. CallsInv'
  BY <1>1, <1>4, <1>5, BecomesOK DEF ServerInv
<1>7. CASE walk # Nil /\ walk.on = r
  <2>1. WalkOK(walk, store) /\ walk.on # Nil /\ Pending(calls[r], walk, store)
    BY <1>7, ServerAssumption DEF ServerInv, WalkInv
  <2>2. WalkOK(walk', store) /\ walk'.on = Nil
    BY <1>1, <1>7, <2>1, WalkedOK DEF ServerInv, Pending
  <2> QED
    BY <1>1, <1>5, <1>6, <2>2 DEF ServerInv, WalkInv
<1>8. CASE ~(walk # Nil /\ walk.on = r)
  <2>1. WalkInv'
    BY <1>1, <1>5, <1>8, WalkStays
  <2> QED
    BY <1>5, <1>6, <2>1 DEF ServerInv
<1> QED
  BY <1>7, <1>8

LEMMA ServerInitOK == ServerInit => ServerInv
<1> SUFFICES ASSUME ServerInit PROVE ServerInv
  OBVIOUS
<1>1. store = EmptyStore /\ walk = Nil /\ calls = [r \in Request |-> Idle]
  BY DEF ServerInit
<1>2. StoreOK(store)
  BY <1>1, EmptySeq DEF StoreOK, EmptyStore
<1>3. CallsInv
  BY <1>1, IdleOK DEF CallsInv
<1> QED
  BY <1>1, <1>2, <1>3 DEF ServerInv, WalkInv

LEMMA ServerNextOK == ServerInv /\ [ServerNext]_serverVars => ServerInv'
<1> SUFFICES ASSUME ServerInv, [ServerNext]_serverVars PROVE ServerInv'
  OBVIOUS
<1>1. CASE WalkBegins
  BY <1>1, WalkBeginsKeeps
<1>2. ASSUME NEW r \in Request,
             \/ Asks(r) \/ Completes(r) \/ TimesOut(r)
             \/ Acts(r) \/ Panics(r) \/ Ends(r)
             \/ DirectWrites(r) \/ DirectReturns(r) \/ DirectPanics(r)
             \/ WalkAsks(r) \/ Hears(r)
      PROVE  ServerInv'
  BY <1>2, AsksKeeps, CompletesKeeps, TimesOutKeeps, ActsKeeps, PanicsKeeps, EndsKeeps,
     DirectWritesKeeps, DirectReturnsKeeps, DirectPanicsKeeps, WalkAsksKeeps, HearsKeeps
<1>3. CASE UNCHANGED serverVars
  <2>1. store' = store /\ calls' = calls /\ walk' = walk
    BY <1>3 DEF serverVars
  <2>2. StoreOK(store)' /\ CallsInv'
    BY <2>1 DEF ServerInv, StoreOK, CallsInv
  <2>3. WalkInv'
    BY <2>1 DEF ServerInv, WalkInv
  <2> QED
    BY <2>2, <2>3 DEF ServerInv
<1> QED
  BY <1>1, <1>2, <1>3 DEF ServerNext

LEMMA ServerInvariant == ServerSpec => []ServerInv
<1> QED
  BY ServerInitOK, ServerNextOK, PTL DEF ServerSpec

(* However many requests race their deadlines, and bypass them (OneAnswer): a client is sent once *)
(* the middlewares' word or a handler's, and behind TimeoutMW no success but the whole answer of   *)
(* a handler that has ended.                                                                       *)
THEOREM OneAnswerTheorem == ServerSpec => []OneAnswer
<1>1. ServerInv => OneAnswer
  <2> SUFFICES ASSUME ServerInv, NEW r \in Request
               PROVE  LET call == calls[r] IN
                      /\ Len(call.sent) <= 1
                      /\ call.chain = "returned" => Len(call.sent) = 1
                      /\ call.sent # <<>> /\ call.sent[1].status \in {200, 201} =>
                           /\ call.sent[1].status = 201 => Holds(store, call.sent[1].id)
                           /\ ~call.upgrade => call.handler = "ended" /\ call.sent[1] = call.buffer
    BY DEF OneAnswer
  <2>1. CallOK(calls[r], store)
    BY DEF ServerInv, CallsInv
  <2>2. Len(calls[r].sent) = IF calls[r].sent = <<>> THEN 0 ELSE 1
    BY <2>1 DEF CallOK
  <2> QED
    BY <2>1, <2>2 DEF CallOK, Names
<1> QED
  BY <1>1, ServerInvariant, PTL

(* For any limits and any number of clients and orders (PagesCoverOrders): a walk has seen the   *)
(* first orders, each once, and when it ends all that there were at its beginning.               *)
THEOREM PagesTheorem == ServerSpec => []PagesCoverOrders
<1>1. ServerInv => PagesCoverOrders
  <2> SUFFICES ASSUME ServerInv, walk # Nil
               PROVE  /\ Len(walk.seen) <= Len(store.ids)
                      /\ walk.seen = SubSeq(store.ids, 1, Len(walk.seen))
                      /\ walk.over => Len(walk.seen) >= walk.known
    BY DEF PagesCoverOrders
  <2> DEFINE n == Len(walk.seen)
             first == SubSeq(store.ids, 1, n)
  <2>1. StoreOK(store) /\ WalkOK(walk, store) /\ walk.seen \in Seq(Nat) /\ walk.known \in Nat
    BY DEF ServerInv, WalkInv, WalkOK, Walk
  <2>2. n \in Nat /\ n <= store.seq /\ store.seq \in Nat /\ Len(store.ids) = store.seq
    BY <2>1, LenProperties DEF WalkOK, StoreOK
  <2>3. \A i \in 1..n : store.ids[i] = i /\ walk.seen[i] = i
    BY <2>1, <2>2 DEF WalkOK, StoreOK
  <2>4. first \in Seq(Nat) /\ Len(first) = n /\ \A i \in 1..n : first[i] = store.ids[i]
    <3>1. \A i \in 1..n : store.ids[i] \in Nat
      BY <2>3
    <3> HIDE DEF n
    <3>2. /\ SubSeq(store.ids, 1, n) \in Seq(Nat)
          /\ Len(SubSeq(store.ids, 1, n)) = IF 1 <= n THEN n - 1 + 1 ELSE 0
          /\ \A i \in 1..n - 1 + 1 : SubSeq(store.ids, 1, n)[i] = store.ids[1 + i - 1]
      BY <2>2, <3>1, SubSeqProperties
    <3>3. n - 1 + 1 = n /\ \A i \in 1..n : 1 + i - 1 = i
      BY <2>2
    <3>4. Len(first) = n
      BY <2>2, <3>2, <3>3
    <3> QED
      BY <3>2, <3>3, <3>4
  <2>5. walk.seen = first
    <3> HIDE DEF first
    <3> QED
      BY <2>1, <2>3, <2>4, SeqEqual
  <2>6. walk.over => n >= walk.known
    BY <2>1, <2>2 DEF WalkOK
  <2> QED
    BY <2>2, <2>5, <2>6
<1> QED
  BY <1>1, ServerInvariant, PTL

-----------------------------------------------------------------------------
(* The deploy of main *)


Deployment == [version : Nat, tag : Nat \union {None}, worker : Worker]

(* Every version is one Worker, and a tag the commit it was built from. *)
DeploymentsInv ==
  /\ commits \in Seq(Worker)
  /\ deployments \in Seq(Deployment) /\ deployments # <<>>
  /\ \A i \in DOMAIN deployments :
       /\ deployments[i].version <= i
       /\ deployments[i].tag # None =>
            deployments[i].tag \in DOMAIN commits /\
              deployments[i].worker = commits[deployments[i].tag]
  /\ \A i, j \in DOMAIN deployments :
       deployments[i].version = deployments[j].version =>
         deployments[i].worker = deployments[j].worker

Stages == {"verify", "plan", "recheck", "migrate", "deploy", "watch", "rollback"}
Looked == {"migrate", "deploy", "watch", "rollback"}

RunsInv ==
  /\ waiting # None => waiting.sha \in DOMAIN commits /\ waiting.stage \in {"verify", "recheck"}
  /\ job # None =>
       /\ DOMAIN job = {"sha", "stage", "before", "since", "deployed"}
       /\ job.sha \in DOMAIN commits /\ job.stage \in Stages

(* From its look on, what the job does is one deployment at most, unless somebody deploys by hand. *)
JobInv ==
  job # None /\ job.stage \in Looked =>
    /\ job.since \in DOMAIN deployments
    /\ job.before # None => job.before.version = deployments[job.since].version
    /\ job.stage \in {"migrate", "deploy"} /\ job.before # None => ~Outdated(job.sha)
    /\ HandsOff =>
         /\ Len(deployments) <= job.since + 1
         /\ job.stage \in {"migrate", "deploy"} => Len(deployments) = job.since
         /\ job.stage = "watch" /\ job.deployed => Len(deployments) = job.since + 1
         /\ job.stage = "rollback" /\ job.before = None =>
              Len(deployments) = job.since + 1 \/ deployments[job.since].tag = job.sha

(* What is settled stays: every run there is, is the newest commit's. *)
SettledInv ==
  settled =>
    /\ commits # <<>>
    /\ waiting # None => waiting.sha = Newest
    /\ job # None => job.sha = Newest
    /\ job # None /\ job.stage \in Looked => deployments[job.since].worker = commits[Newest]
    /\ Live.worker = commits[Newest] /\ Live.worker \in Healthy

CiInv == DeploymentsInv /\ RunsInv /\ JobInv /\ SettledInv

LEMMA NotNone == \A n \in Nat : n # None
  BY CiDeployAssumption

LEMMA Places ==
  ASSUME DeploymentsInv
  PROVE  /\ Newest \in Nat /\ DOMAIN commits = 1..Newest
         /\ Len(deployments) \in Nat \ {0} /\ DOMAIN deployments = 1..Len(deployments)
         /\ \A i \in DOMAIN deployments : deployments[i] \in Deployment
         /\ Live \in Deployment
  BY LenProperties, EmptySeq DEF DeploymentsInv, Newest, Live

(* What a look shows, if anything, is what serves; in trouble, unhealthy. *)
LEMMA LookLemma ==
  ASSUME DeploymentsInv, NEW live \in {Answer(Live)} \union Troubled(Answer(Live)), live # None
  PROVE  /\ live.version = Live.version /\ live.tag = Live.tag
         /\ live.ok => Live.worker \in Healthy
<1> DEFINE answer == [ok |-> Live.worker \in Healthy, version |-> Live.version, tag |-> Live.tag]
<1>1. CASE Live.worker \in Silent
  BY <1>1 DEF Answer, Troubled
<1>2. CASE Live.worker \notin Silent
  <2>1. Answer(Live) = answer
    BY <1>2 DEF Answer
  <2>2. live = answer \/ live = [answer EXCEPT !.ok = FALSE]
    BY <2>1 DEF Troubled
  <2>3. CASE live = answer
    BY <2>3, Zenon
  <2>4. CASE live = [answer EXCEPT !.ok = FALSE]
    <3>1. live = [ok |-> FALSE, version |-> Live.version, tag |-> Live.tag]
      BY <2>4
    <3> QED
      BY <3>1, Zenon
  <2> QED
    BY <2>2, <2>3, <2>4
<1> QED
  BY <1>1, <1>2

(* A commit that needs no deploy, when it is the newest, is what serves. *)
LEMMA SkippedNewest ==
  ASSUME DeploymentsInv, NEW live \in {Answer(Live)} \union Troubled(Answer(Live)),
         Newest \in DOMAIN commits, SkipReason(live, Newest)
  PROVE  Live.worker = commits[Newest] /\ Live.worker \in Healthy
<1>1. live # None /\ live.tag # None
  BY DEF SkipReason
<1>2. live.tag = Live.tag /\ (live.ok => Live.worker \in Healthy)
  BY <1>1, LookLemma
<1>3. Live.tag \in 1..Newest /\ Live.worker = commits[Live.tag] /\ Newest \in Nat
  BY <1>1, <1>2, Places DEF DeploymentsInv, Live
<1>4. ~(live.tag # Newest /\ IsAncestor(Newest, live.tag))
  BY <1>2, <1>3 DEF IsAncestor
<1> QED
  BY <1>1, <1>2, <1>3, <1>4 DEF SkipReason, WorkerChanged

(* A commit that does need one, and an answer to tell by: no newer one is live. *)
LEMMA NotOutdated ==
  ASSUME DeploymentsInv, NEW live \in {Answer(Live)} \union Troubled(Answer(Live)), live # None,
         NEW sha \in DOMAIN commits, ~SkipReason(live, sha)
  PROVE  ~Outdated(sha)
<1>1. live.tag = Live.tag
  BY LookLemma
<1>2. Live.tag # None => Live.tag \in Nat /\ sha \in Nat
  BY Places DEF Deployment
<1> QED
  BY <1>1, <1>2 DEF Outdated, SkipReason, HasCommit, IsAncestor

-----------------------------------------------------------------------------
(* What queues runs *)

LEMMA PushKeeps == ASSUME CiInv, Push PROVE CiInv'
<1>1. PICK worker \in Worker : commits' = Append(commits, worker)
  BY DEF Push
<1>2. /\ UNCHANGED <<job, planned, deployments>> /\ settled' = FALSE
      /\ waiting' = [sha |-> Newest + 1, stage |-> "verify"] /\ dropped \subseteq dropped'
  BY DEF Push, Enqueue
<1>3. /\ commits' \in Seq(Worker) /\ Len(commits') = Newest + 1
      /\ \A i \in 1..Newest : commits'[i] = commits[i]
  BY <1>1, AppendProperties DEF CiInv, DeploymentsInv, Newest
<1>4. DOMAIN commits = 1..Newest /\ DOMAIN commits' = 1..Newest + 1 /\ Newest \in Nat
  BY <1>3, Places, LenProperties DEF CiInv
<1>5. DOMAIN commits \subseteq DOMAIN commits' /\ \A i \in DOMAIN commits : commits'[i] = commits[i]
  BY <1>3, <1>4
<1>6. DeploymentsInv'
  BY <1>2, <1>3, <1>5 DEF CiInv, DeploymentsInv
<1>7. RunsInv'
  <2>1. Newest + 1 \in DOMAIN commits'
    BY <1>4
  <2>2. waiting'.sha = Newest + 1 /\ waiting'.stage = "verify"
    BY <1>2
  <2> QED
    BY <1>2, <1>5, <2>1, <2>2 DEF CiInv, RunsInv
<1>8. JobInv'
  BY <1>2 DEF CiInv, JobInv, Outdated, Live, HandsOff
<1>9. SettledInv'
  BY <1>2 DEF SettledInv
<1> QED
  BY <1>6, <1>7, <1>8, <1>9 DEF CiInv

LEMMA RerunKeeps == ASSUME CiInv, Rerun PROVE CiInv'
<1>1. PICK sha \in 1..Newest, to \in {"verify", "recheck"} :
        /\ waiting' = [sha |-> sha, stage |-> to] /\ settled' = (settled /\ sha = Newest)
        /\ UNCHANGED <<commits, dropped, job, planned, deployments>>
  BY DEF Rerun, Enqueue
<1>2. waiting'.sha = sha /\ waiting'.stage = to /\ sha \in DOMAIN commits
  BY <1>1, Places DEF CiInv
<1>3. DeploymentsInv'
  BY <1>1 DEF CiInv, DeploymentsInv
<1>4. RunsInv'
  BY <1>1, <1>2 DEF CiInv, RunsInv
<1>5. JobInv'
  BY <1>1 DEF CiInv, JobInv, Outdated, Live, HandsOff
<1>6. SettledInv'
  BY <1>1, <1>2 DEF CiInv, SettledInv, Live, Newest
<1> QED
  BY <1>3, <1>4, <1>5, <1>6 DEF CiInv

(* A version more, the newest there is. *)
LEMMA NewVersionOK ==
  ASSUME DeploymentsInv, NEW deployment \in Deployment, deployment.version = NewVersion,
         deployment.tag # None =>
           deployment.tag \in DOMAIN commits /\ deployment.worker = commits[deployment.tag],
         UNCHANGED commits, deployments' = Append(deployments, deployment)
  PROVE  /\ DeploymentsInv'
         /\ Len(deployments') = Len(deployments) + 1 /\
              deployments'[Len(deployments) + 1] = deployment
         /\ \A i \in DOMAIN deployments : i \in DOMAIN deployments' /\
              deployments'[i] = deployments[i]
<1> DEFINE n == Len(deployments)
<1>1. n \in Nat \ {0} /\ DOMAIN deployments = 1..n /\ deployments \in Seq(Deployment)
  BY Places DEF DeploymentsInv
<1>2. /\ deployments' \in Seq(Deployment) /\ Len(deployments') = n + 1
      /\ \A i \in 1..n : deployments'[i] = deployments[i]
      /\ deployments'[n + 1] = deployment /\ deployments' # <<>>
  BY <1>1, AppendProperties
<1>3. DOMAIN deployments' = 1..n + 1
  BY <1>2, LenProperties
<1>4. \A i \in 1..n : deployments[i].version \in Nat /\ deployments[i].version <= i
  BY <1>1, Places DEF DeploymentsInv, Deployment
<1>5. deployment.version = n + 1
  BY DEF NewVersion
<1> HIDE DEF n
<1>6. \A i \in 1..n + 1 : i \in 1..n \/ i = n + 1
  BY <1>1
<1>7. \A i \in 1..n + 1 : deployments'[i].version <= i /\
        (i # n + 1 => deployments'[i].version # n + 1)
  BY <1>1, <1>2, <1>4, <1>5, <1>6
<1>8. \A i \in 1..n + 1 : deployments'[i].tag # None =>
        deployments'[i].tag \in DOMAIN commits /\
          deployments'[i].worker = commits[deployments'[i].tag]
  BY <1>1, <1>2, <1>6 DEF DeploymentsInv
<1>9. \A i, j \in 1..n + 1 :
        deployments'[i].version = deployments'[j].version =>
          deployments'[i].worker = deployments'[j].worker
  BY <1>1, <1>2, <1>5, <1>6, <1>7 DEF DeploymentsInv
<1>10. DeploymentsInv'
  BY <1>2, <1>3, <1>7, <1>8, <1>9 DEF DeploymentsInv
<1> QED
  BY <1>1, <1>2, <1>3, <1>10 DEF n

LEMMA HandDeployKeeps == ASSUME CiInv, HandDeploy PROVE CiInv'
<1>1. PICK worker \in Worker :
        deployments' = Append(deployments, [version |-> NewVersion, tag |-> None, worker |-> worker])
  BY DEF HandDeploy
<1> DEFINE deployment == [version |-> NewVersion, tag |-> None, worker |-> worker]
           n == Len(deployments)
<1>2. settled' = FALSE /\ UNCHANGED <<commits, dropped, waiting, job, planned>>
  BY DEF HandDeploy
<1>3. n \in Nat \ {0} /\ DOMAIN deployments = 1..n
  BY Places DEF CiInv
<1>4. deployment \in Deployment /\ deployment.version = NewVersion /\ deployment.tag = None
  BY <1>3 DEF Deployment, NewVersion
<1> HIDE DEF deployment
<1>5. /\ DeploymentsInv'
      /\ Len(deployments') = n + 1 /\ deployments'[n + 1] = deployment
      /\ \A i \in DOMAIN deployments : i \in DOMAIN deployments' /\ deployments'[i] = deployments[i]
  BY <1>1, <1>2, <1>4, NewVersionOK DEF CiInv, deployment
<1>6. Live' = deployment
  BY <1>5 DEF Live
<1>7. JobInv'
  <2> SUFFICES ASSUME job # None, job.stage \in Looked
               PROVE  /\ job.since \in DOMAIN deployments'
                      /\ job.before # None => job.before.version = deployments'[job.since].version
                      /\ ~Outdated(job.sha)' /\ ~HandsOff'
    BY <1>2 DEF JobInv
  <2>1. /\ job.since \in DOMAIN deployments /\ job.sha \in DOMAIN commits
        /\ job.before # None => job.before.version = deployments[job.since].version
    BY DEF CiInv, JobInv, RunsInv
  <2>2. ~Outdated(job.sha)'
    BY <1>2, <1>4, <1>6 DEF Outdated
  <2>3. job.sha # None
    BY <2>1, Places, NotNone DEF CiInv
  <2>4. n + 1 \in job.since + 1..n + 1
    BY <1>3, <2>1
  <2>5. ~HandsOff'
    BY <1>2, <1>4, <1>5, <2>3, <2>4 DEF HandsOff
  <2> QED
    BY <1>5, <2>1, <2>2, <2>5
<1>8. RunsInv'
  BY <1>2 DEF CiInv, RunsInv
<1>9. SettledInv'
  BY <1>2 DEF SettledInv
<1> QED
  BY <1>5, <1>7, <1>8, <1>9 DEF CiInv

-----------------------------------------------------------------------------
(* A run *)

LEMMA BeginKeeps == ASSUME CiInv, Begin PROVE CiInv'
<1>1. /\ waiting # None /\ waiting' = None /\ job = None
      /\ job' = [sha |-> waiting.sha, stage |-> waiting.stage, before |-> None, since |-> 0,
           deployed |-> FALSE]
      /\ UNCHANGED <<commits, dropped, planned, deployments, troubles, settled>>
  BY DEF Begin
<1>2. /\ job'.sha = waiting.sha /\ job'.stage = waiting.stage
      /\ DOMAIN job' = {"sha", "stage", "before", "since", "deployed"}
      /\ waiting.sha \in DOMAIN commits /\ waiting.stage \in {"verify", "recheck"}
  BY <1>1 DEF CiInv, RunsInv
<1>3. DeploymentsInv'
  BY <1>1 DEF CiInv, DeploymentsInv
<1>4. RunsInv' /\ JobInv'
  BY <1>1, <1>2 DEF RunsInv, JobInv, Stages, Looked
<1>5. SettledInv'
  BY <1>1, <1>2 DEF CiInv, SettledInv, Looked, Live, Newest
<1> QED
  BY <1>3, <1>4, <1>5 DEF CiInv

(* The job ends; what is settled, if newly so, is what serves. *)
LEMMA EndKeeps ==
  ASSUME CiInv, UNCHANGED <<commits, dropped, waiting, deployments>>, job' = None,
         settled' => \/ settled
                     \/ /\ commits # <<>> /\ (waiting # None => waiting.sha = Newest)
                        /\ Live.worker = commits[Newest] /\ Live.worker \in Healthy
  PROVE  CiInv'
<1>1. DeploymentsInv'
  BY DEF CiInv, DeploymentsInv
<1>2. RunsInv' /\ JobInv'
  BY DEF CiInv, RunsInv, JobInv
<1>3. SettledInv'
  BY DEF CiInv, SettledInv, Live, Newest
<1> QED
  BY <1>1, <1>2, <1>3 DEF CiInv

(* The job goes on to a stage before it looks. *)
LEMMA GoOnKeeps ==
  ASSUME CiInv, UNCHANGED <<commits, dropped, waiting, deployments>>, job # None,
         NEW to \in Stages \ Looked, GoOn(to)
  PROVE  CiInv'
<1>1. job' = [job EXCEPT !.stage = to] /\ UNCHANGED settled
  BY DEF GoOn
<1>2. /\ DOMAIN job' = {"sha", "stage", "before", "since", "deployed"}
      /\ job'.sha = job.sha /\ job'.stage = to
  BY <1>1 DEF CiInv, RunsInv
<1>3. DeploymentsInv'
  BY DEF CiInv, DeploymentsInv
<1>4. RunsInv'
  BY <1>2 DEF CiInv, RunsInv
<1>5. JobInv'
  BY <1>2 DEF JobInv
<1>6. SettledInv'
  BY <1>1, <1>2 DEF CiInv, SettledInv, Live, Newest
<1> QED
  BY <1>3, <1>4, <1>5, <1>6 DEF CiInv

LEMMA VerifyKeeps == ASSUME CiInv, Verify PROVE CiInv'
<1>1. job # None /\ UNCHANGED <<commits, dropped, waiting, planned, deployments>>
  BY DEF Verify, At
<1>2. CASE GoOn("plan")
  BY <1>1, <1>2, GoOnKeeps DEF Stages, Looked
<1>3. CASE EndRed
  BY <1>1, <1>3, EndKeeps DEF EndRed
<1> QED
  BY <1>2, <1>3 DEF Verify

(* A job that finds nothing to deploy. *)
LEMMA SkipKeeps ==
  ASSUME CiInv, UNCHANGED <<commits, dropped, waiting, deployments>>, job # None,
         ~At("watch"), NEW live \in {Answer(Live)} \union Troubled(Answer(Live)),
         SkipReason(live, job.sha), EndGreen
  PROVE  CiInv'
<1>1. /\ job' = None
      /\ settled' => settled \/ (job.sha = Newest /\ (waiting # None => waiting.sha = Newest))
  BY DEF EndGreen
<1>2. job.sha \in DOMAIN commits /\ commits # <<>>
  BY Places DEF CiInv, RunsInv, Newest
<1>3. job.sha = Newest => Live.worker = commits[Newest] /\ Live.worker \in Healthy
  BY <1>2, SkippedNewest DEF CiInv
<1> QED
  BY <1>1, <1>2, <1>3, EndKeeps

LEMMA PlanKeeps == ASSUME CiInv, Plan PROVE CiInv'
<1>1. job # None /\ ~At("watch") /\ UNCHANGED <<commits, dropped, waiting, deployments>>
  BY DEF Plan, At
<1>2. PICK live \in {Answer(Live)} \union Troubled(Answer(Live)) :
        IF SkipReason(live, job.sha) THEN EndGreen ELSE GoOn("recheck")
  BY DEF Plan
<1>3. CASE SkipReason(live, job.sha)
  BY <1>1, <1>2, <1>3, SkipKeeps
<1>4. CASE ~SkipReason(live, job.sha)
  BY <1>1, <1>2, <1>4, GoOnKeeps DEF Stages, Looked
<1> QED
  BY <1>3, <1>4

LEMMA RecheckKeeps == ASSUME CiInv, Recheck PROVE CiInv'
<1>1. job # None /\ ~At("watch") /\ UNCHANGED <<commits, dropped, waiting, deployments>>
  BY DEF Recheck, At
<1>2. PICK live \in {Answer(Live)} \union Troubled(Answer(Live)) :
        IF SkipReason(live, job.sha) THEN EndGreen
        ELSE /\ job' = [job EXCEPT !.stage = "migrate", !.before = live, !.since = Len(deployments)]
             /\ UNCHANGED settled
  BY DEF Recheck
<1>3. CASE SkipReason(live, job.sha)
  BY <1>1, <1>2, <1>3, SkipKeeps
<1>4. CASE ~SkipReason(live, job.sha)
  <2>1. /\ DOMAIN job' = {"sha", "stage", "before", "since", "deployed"}
        /\ job'.sha = job.sha /\ job'.stage = "migrate" /\ job'.before = live
        /\ job'.since = Len(deployments) /\ settled' = settled /\ job.sha \in DOMAIN commits
    BY <1>1, <1>2, <1>4 DEF CiInv, RunsInv
  <2>2. DeploymentsInv'
    BY <1>1 DEF CiInv, DeploymentsInv
  <2>3. RunsInv'
    BY <1>1, <2>1 DEF CiInv, RunsInv, Stages
  <2>4. /\ Len(deployments) \in DOMAIN deployments /\ Len(deployments) <= Len(deployments) + 1
        /\ deployments[Len(deployments)] = Live
    BY Places DEF CiInv, Live
  <2>5. live # None => live.version = Live.version /\ ~Outdated(job.sha)
    BY <1>4, <2>1, LookLemma, NotOutdated DEF CiInv
  <2>6. JobInv'
    BY <1>1, <2>1, <2>4, <2>5 DEF JobInv, Outdated, Live
  <2>7. SettledInv'
    BY <1>1, <2>1, <2>4 DEF CiInv, SettledInv, Live, Newest
  <2> QED
    BY <2>2, <2>3, <2>6, <2>7 DEF CiInv
<1> QED
  BY <1>3, <1>4

LEMMA MigrateKeeps == ASSUME CiInv, Migrate PROVE CiInv'
<1>1. At("migrate") /\ UNCHANGED <<commits, dropped, waiting, deployments>>
  BY DEF Migrate
<1>2. CASE GoOn("deploy")
  <2>1. job' = [job EXCEPT !.stage = "deploy"] /\ UNCHANGED settled
    BY <1>2 DEF GoOn
  <2>2. /\ DOMAIN job' = {"sha", "stage", "before", "since", "deployed"} /\ job # None
        /\ job.stage = "migrate" /\ job'.stage = "deploy"
        /\ job'.sha = job.sha /\ job'.before = job.before /\ job'.since = job.since
    BY <1>1, <2>1 DEF At, CiInv, RunsInv
  <2>3. DeploymentsInv'
    BY <1>1 DEF CiInv, DeploymentsInv
  <2>4. RunsInv'
    BY <1>1, <2>2 DEF CiInv, RunsInv, Stages
  <2>5. JobInv'
    BY <1>1, <2>2 DEF CiInv, JobInv, Looked, Outdated, Live, HandsOff
  <2>6. SettledInv'
    BY <1>1, <2>1, <2>2 DEF CiInv, SettledInv, Looked, Live, Newest
  <2> QED
    BY <2>3, <2>4, <2>5, <2>6 DEF CiInv
<1>3. CASE EndRed
  BY <1>1, <1>3, EndKeeps DEF EndRed
<1> QED
  BY <1>2, <1>3 DEF Migrate

LEMMA KilledKeeps == ASSUME CiInv, Killed PROVE CiInv'
  BY EndKeeps DEF Killed, EndRed

LEMMA DeployKeeps == ASSUME CiInv, Deploy PROVE CiInv'
<1> DEFINE deployment == [version |-> NewVersion, tag |-> job.sha, worker |-> commits[job.sha]]
           n == Len(deployments)
<1>1. PICK live, deployed \in BOOLEAN :
        /\ deployed => live
        /\ deployments' = IF live THEN Append(deployments, deployment) ELSE deployments
        /\ job' = [job EXCEPT !.stage = "watch", !.deployed = deployed]
  BY DEF Deploy
<1>2. /\ job # None /\ job.stage = "deploy" /\ job.sha \in DOMAIN commits
      /\ UNCHANGED <<commits, dropped, waiting, settled>>
  BY DEF Deploy, At, CiInv, RunsInv
<1>3. /\ DOMAIN job' = {"sha", "stage", "before", "since", "deployed"}
      /\ job'.sha = job.sha /\ job'.stage = "watch" /\ job'.deployed = deployed
      /\ job'.before = job.before /\ job'.since = job.since
  BY <1>1, <1>2 DEF CiInv, RunsInv
<1>4. /\ job.since \in DOMAIN deployments
      /\ job.before # None => job.before.version = deployments[job.since].version
      /\ HandsOff => n = job.since
  BY <1>2 DEF CiInv, JobInv, Looked
<1>5. n \in Nat \ {0} /\ DOMAIN deployments = 1..n /\ Newest \in Nat /\ DOMAIN commits = 1..Newest
  BY Places DEF CiInv
<1>6. deployment \in Deployment /\ deployment.version = NewVersion /\ deployment.tag = job.sha
      /\ deployment.worker = commits[job.sha]
  BY <1>2, <1>5 DEF Deployment, NewVersion, CiInv, DeploymentsInv
<1> HIDE DEF deployment
<1>7. RunsInv'
  BY <1>2, <1>3 DEF CiInv, RunsInv, Stages
<1>8. CASE live
  <2>1. /\ DeploymentsInv'
        /\ Len(deployments') = n + 1 /\ deployments'[n + 1] = deployment
        /\ \A i \in DOMAIN deployments : i \in DOMAIN deployments' /\ deployments'[i] = deployments[i]
    BY <1>1, <1>2, <1>6, <1>8, NewVersionOK DEF CiInv
  <2>2. HandsOff' => HandsOff
    <3> SUFFICES ASSUME HandsOff', NEW i \in job.since + 1..n PROVE deployments[i].tag = job.sha
      BY DEF HandsOff
    <3>1. i \in job.since + 1..n + 1 /\ i \in DOMAIN deployments
      BY <1>4, <1>5
    <3> QED
      BY <1>3, <2>1, <3>1 DEF HandsOff
  <2>3. JobInv'
    <3>1. HandsOff' => Len(deployments') = job.since + 1
      BY <1>4, <2>1, <2>2
    <3>2. Len(deployments') \in Nat
      BY <1>5, <2>1
    <3>3. job.since + 1 <= job.since + 1
      BY <1>4, <1>5
    <3>4. job'.since \in DOMAIN deployments' /\ deployments'[job.since] = deployments[job.since]
      BY <1>3, <1>4, <2>1
    <3> QED
      BY <1>3, <1>4, <3>1, <3>3, <3>4 DEF JobInv
  <2>4. SettledInv'
    <3>1. Live' = deployment
      BY <2>1 DEF Live
    <3>2. deployments'[job.since] = deployments[job.since]
      BY <1>4, <2>1
    <3> QED
      BY <1>2, <1>3, <1>6, <3>1, <3>2 DEF CiInv, SettledInv, Looked, Newest
  <2> QED
    BY <1>7, <2>1, <2>3, <2>4 DEF CiInv
<1>9. CASE ~live
  <2>1. UNCHANGED deployments /\ ~deployed
    BY <1>1, <1>9
  <2>2. DeploymentsInv'
    BY <1>2, <2>1 DEF CiInv, DeploymentsInv
  <2>3. JobInv'
    <3>1. HandsOff' => HandsOff
      BY <1>3, <2>1 DEF HandsOff
    <3>2. n <= n + 1
      BY <1>5
    <3> QED
      BY <1>3, <1>4, <2>1, <3>1, <3>2 DEF JobInv
  <2>4. SettledInv'
    BY <1>2, <1>3, <2>1 DEF CiInv, SettledInv, Looked, Live, Newest
  <2> QED
    BY <1>7, <2>2, <2>3, <2>4 DEF CiInv
<1> QED
  BY <1>8, <1>9

(* What the watch saw last, if anything, is of what serves or, where a version is live the job   *)
(* did not find, of the one before.                                                              *)
LEMMA SeenLemma ==
  ASSUME CiInv, At("watch"), NEW last \in SeenLast, last # None
  PROVE  \E i \in {Len(deployments)} \union ({Len(deployments) - 1} \cap job.since..Len(deployments)) :
           /\ last.tag = deployments[i].tag
           /\ last.ok => deployments[i].worker \in Healthy
<1> DEFINE n == Len(deployments)
<1>1. CASE last \in {Answer(Live)} \union Troubled(Answer(Live))
  <2>1. last.tag = Live.tag /\ (last.ok => Live.worker \in Healthy)
    BY <1>1, LookLemma DEF CiInv
  <2> QED
    BY <2>1 DEF Live
<1>2. CASE last \notin {Answer(Live)} \union Troubled(Answer(Live))
  <2>1. PICK i \in {n - 1} \cap job.since..n : last = Answer(deployments[i])
    BY <1>2 DEF SeenLast
  <2>2. last = [ok |-> deployments[i].worker \in Healthy, version |-> deployments[i].version,
          tag |-> deployments[i].tag]
    BY <2>1 DEF Answer
  <2>3. last.tag = deployments[i].tag /\ (last.ok => deployments[i].worker \in Healthy)
    BY <2>2, Zenon
  <2> QED
    BY <2>1, <2>3
<1> QED
  BY <1>1, <1>2

LEMMA WatchKeeps == ASSUME CiInv, Watch PROVE CiInv'
<1> DEFINE n == Len(deployments)
<1>1. PICK last \in SeenLast :
        IF Serves(last, job.sha) THEN IF job.deployed THEN EndGreen ELSE EndRed
        ELSE IF LeaveAlone(last) THEN EndRed ELSE GoOn("rollback")
  BY DEF Watch
<1>2. /\ At("watch") /\ job # None /\ job.stage = "watch" /\ job.sha \in DOMAIN commits
      /\ UNCHANGED <<commits, dropped, waiting, deployments>>
  BY DEF Watch, At, CiInv, RunsInv
<1>3. /\ job.since \in DOMAIN deployments
      /\ job.before # None => job.before.version = deployments[job.since].version
      /\ HandsOff => n <= job.since + 1 /\ (job.deployed => n = job.since + 1)
  BY <1>2 DEF CiInv, JobInv, Looked
<1>4. n \in Nat \ {0} /\ DOMAIN deployments = 1..n /\ Newest \in Nat /\ DOMAIN commits = 1..Newest
  BY Places DEF CiInv
<1>5. CASE Serves(last, job.sha) /\ job.deployed
  <2>1. /\ job' = None
        /\ settled' => settled \/ (job.sha = Newest /\ HandsOff /\
             (waiting # None => waiting.sha = Newest))
    BY <1>1, <1>2, <1>5 DEF EndGreen
  <2>2. HandsOff => Live.worker = commits[job.sha] /\ Live.worker \in Healthy
    <3> SUFFICES ASSUME HandsOff PROVE Live.worker = commits[job.sha] /\ Live.worker \in Healthy
      OBVIOUS
    <3>1. n = job.since + 1
      BY <1>3, <1>5
    <3>2. n \in job.since + 1..n
      BY <1>3, <1>4, <3>1
    <3>3. Live.tag = job.sha /\ job.sha # None
      BY <1>2, <1>4, <3>2, NotNone DEF HandsOff, Live
    <3>4. Live.worker = commits[job.sha]
      BY <1>4, <3>3 DEF CiInv, DeploymentsInv, Live
    <3>5. last # None /\ last.ok /\ last.tag = job.sha
      BY <1>5 DEF Serves
    <3>6. PICK i \in {n} \union ({n - 1} \cap job.since..n) :
            last.tag = deployments[i].tag /\ (last.ok => deployments[i].worker \in Healthy)
      BY <1>2, <3>5, SeenLemma
    <3>7. i \in DOMAIN deployments
      BY <1>3, <1>4, <3>6
    <3>8. deployments[i].tag = job.sha /\ job.sha # None
      BY <3>3, <3>5, <3>6
    <3>9. deployments[i].worker = commits[job.sha]
      BY <3>7, <3>8 DEF CiInv, DeploymentsInv
    <3> QED
      BY <3>4, <3>5, <3>6, <3>9
  <2>3. commits # <<>>
    BY <1>2, <1>4 DEF Newest
  <2> QED
    BY <1>2, <2>1, <2>2, <2>3, EndKeeps
<1>6. CASE EndRed
  BY <1>2, <1>6, EndKeeps DEF EndRed
<1>7. CASE ~Serves(last, job.sha) /\ ~LeaveAlone(last)
  <2>1. job' = [job EXCEPT !.stage = "rollback"] /\ UNCHANGED settled
    BY <1>1, <1>7 DEF GoOn
  <2>2. /\ DOMAIN job' = {"sha", "stage", "before", "since", "deployed"}
        /\ job'.sha = job.sha /\ job'.stage = "rollback"
        /\ job'.before = job.before /\ job'.since = job.since
    BY <1>2, <2>1 DEF CiInv, RunsInv
  <2>3. DeploymentsInv'
    BY <1>2 DEF CiInv, DeploymentsInv
  <2>4. RunsInv'
    BY <1>2, <2>2 DEF CiInv, RunsInv, Stages
  <2>5. HandsOff /\ job.before = None => n = job.since + 1 \/ deployments[job.since].tag = job.sha
    <3> SUFFICES ASSUME HandsOff, job.before = None, n # job.since + 1
                 PROVE  deployments[job.since].tag = job.sha
      OBVIOUS
    <3>1. ~job.deployed /\ n <= job.since + 1 /\ job.since \in 1..n
      BY <1>3, <1>4
    <3>2. n = job.since
      BY <1>4, <3>1
    <3>3. last # None /\ last.tag = job.sha
      BY <1>7, <3>1 DEF LeaveAlone
    <3>4. PICK i \in {n} \union ({n - 1} \cap job.since..n) : last.tag = deployments[i].tag
      BY <1>2, <3>3, SeenLemma
    <3>5. i = job.since
      BY <1>4, <3>2, <3>4
    <3> QED
      BY <3>3, <3>4, <3>5
  <2>6. HandsOff' => HandsOff
    BY <1>2, <2>2 DEF HandsOff
  <2>7. JobInv'
    BY <1>2, <1>3, <2>2, <2>5, <2>6 DEF JobInv
  <2>8. SettledInv'
    BY <1>2, <2>1, <2>2 DEF CiInv, SettledInv, Looked, Live, Newest
  <2> QED
    BY <2>3, <2>4, <2>7, <2>8 DEF CiInv
<1> QED
  BY <1>1, <1>5, <1>6, <1>7

(* An earlier version again. *)
LEMMA OldVersionOK ==
  ASSUME DeploymentsInv, NEW i \in DOMAIN deployments, UNCHANGED commits,
         deployments' = Append(deployments, deployments[i])
  PROVE  DeploymentsInv' /\ Live' = deployments[i]
<1> DEFINE n == Len(deployments)
<1>1. n \in Nat \ {0} /\ DOMAIN deployments = 1..n /\ deployments \in Seq(Deployment)
      /\ \A j \in 1..n : deployments[j] \in Deployment
  BY Places DEF DeploymentsInv
<1>2. /\ deployments' \in Seq(Deployment) /\ Len(deployments') = n + 1
      /\ \A j \in 1..n : deployments'[j] = deployments[j]
      /\ deployments'[n + 1] = deployments[i] /\ deployments' # <<>>
  BY <1>1, AppendProperties
<1>3. DOMAIN deployments' = 1..n + 1
  BY <1>2, LenProperties
<1>4. i \in 1..n /\ deployments[i].version \in Nat /\ deployments[i].version <= i
  BY <1>1 DEF DeploymentsInv, Deployment
<1>5. deployments[i].version <= n + 1
  BY <1>1, <1>4
<1>6. Live' = deployments[i]
  BY <1>2 DEF Live
<1> HIDE DEF n
<1>7. \A j \in 1..n + 1 : j \in 1..n \/ j = n + 1
  BY <1>1
<1>8. \A j \in 1..n + 1 : \E k \in 1..n : deployments'[j] = deployments[k]
  BY <1>1, <1>2, <1>4, <1>7
<1>9. \A j \in 1..n + 1 : deployments'[j].version <= j
  BY <1>1, <1>2, <1>5, <1>7 DEF DeploymentsInv
<1>10. ASSUME NEW j \in 1..n + 1, deployments'[j].tag # None
       PROVE  deployments'[j].tag \in DOMAIN commits /\
         deployments'[j].worker = commits[deployments'[j].tag]
  <2>1. PICK k \in DOMAIN deployments : deployments'[j] = deployments[k]
    BY <1>1, <1>8
  <2> QED
    BY <1>10, <2>1 DEF DeploymentsInv
<1>11. ASSUME NEW j \in 1..n + 1, NEW k \in 1..n + 1,
         deployments'[j].version = deployments'[k].version
       PROVE  deployments'[j].worker = deployments'[k].worker
  <2>1. PICK of \in DOMAIN deployments : deployments'[j] = deployments[of]
    BY <1>1, <1>8
  <2>2. PICK other \in DOMAIN deployments : deployments'[k] = deployments[other]
    BY <1>1, <1>8
  <2> QED
    BY <1>11, <2>1, <2>2 DEF DeploymentsInv
<1>12. DeploymentsInv'
  BY <1>2, <1>3, <1>9, <1>10, <1>11 DEF DeploymentsInv
<1> QED
  BY <1>6, <1>12

LEMMA RollBackKeeps == ASSUME CiInv, RollBack PROVE CiInv'
<1>1. /\ job # None /\ job.stage = "rollback" /\ job' = None
      /\ UNCHANGED <<commits, dropped, waiting, planned>>
  BY DEF RollBack, At
<1>2. CASE UNCHANGED <<deployments, settled>>
  BY <1>1, <1>2, EndKeeps
<1>3. CASE /\ \E i \in DOMAIN deployments :
                /\ IF job.before # None THEN deployments[i].version = job.before.version
                   ELSE i = Len(deployments) - 1
                /\ deployments' = Append(deployments, deployments[i])
           /\ settled' = (settled /\ job.before # None)
  <2>1. PICK i \in DOMAIN deployments :
          /\ job.before # None => deployments[i].version = job.before.version
          /\ deployments' = Append(deployments, deployments[i])
    BY <1>3
  <2>2. settled' => settled /\ job.before # None
    BY <1>3
  <2>3. DeploymentsInv' /\ Live' = deployments[i]
    BY <1>1, <2>1, OldVersionOK DEF CiInv
  <2>4. RunsInv' /\ JobInv'
    BY <1>1 DEF CiInv, RunsInv, JobInv
  <2>5. /\ job.since \in DOMAIN deployments
        /\ job.before # None => job.before.version = deployments[job.since].version
    BY <1>1 DEF CiInv, JobInv, Looked
  <2>6. settled' => deployments[i].worker = deployments[job.since].worker
    BY <2>1, <2>2, <2>5 DEF CiInv, DeploymentsInv
  <2>7. SettledInv'
    BY <1>1, <2>2, <2>3, <2>6 DEF CiInv, SettledInv, Looked, Newest
  <2> QED
    BY <2>3, <2>4, <2>7 DEF CiInv
<1> QED
  BY <1>2, <1>3 DEF RollBack

-----------------------------------------------------------------------------

LEMMA InitOK == ASSUME DeployInit PROVE CiInv
<1>1. PICK worker \in Worker : deployments = <<[version |-> 1, tag |-> None, worker |-> worker]>>
  BY DEF DeployInit
<1>2. /\ Len(deployments) = 1 /\ DOMAIN deployments = {1} /\ deployments \in Seq(Deployment)
      /\ deployments # <<>>
      /\ deployments[1].version = 1 /\ deployments[1].tag = None /\ deployments[1].worker = worker
  BY <1>1 DEF Deployment
<1>3. commits \in Seq(Worker)
  BY DEF DeployInit
<1>4. DeploymentsInv
  BY <1>2, <1>3 DEF DeploymentsInv
<1>5. RunsInv /\ JobInv /\ SettledInv
  BY DEF DeployInit, RunsInv, JobInv, SettledInv
<1> QED
  BY <1>4, <1>5 DEF CiInv

LEMMA NextOK == ASSUME CiInv, [DeployNext]_deployVars PROVE CiInv'
<1>1. CASE UNCHANGED deployVars
  <2>1. UNCHANGED <<commits, dropped, waiting, job, deployments, settled>>
    BY <1>1 DEF deployVars
  <2>2. DeploymentsInv' /\ RunsInv' /\ JobInv' /\ SettledInv'
    BY <2>1 DEF CiInv, DeploymentsInv, RunsInv, JobInv, SettledInv, Outdated, HandsOff, Live, Newest
  <2> QED
    BY <2>2 DEF CiInv
<1>2. CASE DeployNext
  BY <1>2, PushKeeps, RerunKeeps, HandDeployKeeps, BeginKeeps, VerifyKeeps, PlanKeeps, RecheckKeeps,
     MigrateKeeps, DeployKeeps, WatchKeeps, RollBackKeeps, KilledKeeps DEF DeployNext
<1> QED
  BY <1>1, <1>2

LEMMA CiInvAlways == DeploySpec => []CiInv
<1>1. DeployInit => CiInv
  BY InitOK
<1>2. CiInv /\ [DeployNext]_deployVars => CiInv'
  BY NextOK
<1> QED
  BY <1>1, <1>2, PTL DEF DeploySpec

(* Once the newest commit's run ended green, that commit is what serves (skipReason, runDeploy). *)
THEOREM NewestServesTheorem == DeploySpec => []NewestServes
<1>1. CiInv => NewestServes
  BY DEF CiInv, SettledInv, NewestServes
<1> QED
  BY <1>1, CiInvAlways, PTL

(* CI never puts a commit over a live one that has it in its history (skipReason, runDeploy). *)
THEOREM NeverBackwardsTheorem == DeploySpec => NeverBackwards
<1>1. CiInv => (DeploysNow /\ job.before # None => ~Outdated(job.sha))
  BY DEF CiInv, JobInv, Looked, DeploysNow, At
<1> QED
  BY <1>1, CiInvAlways, PTL DEF NeverBackwards

(* Only a rollback ends a job at "rollback" with other deployments than before. *)
LEMMA OnlyRollBack ==
  ASSUME CiInv, [DeployNext]_deployVars, RollsBack
  PROVE  \E i \in DOMAIN deployments :
           /\ IF job.before # None THEN deployments[i].version = job.before.version
              ELSE i = Len(deployments) - 1
           /\ deployments' = Append(deployments, deployments[i])
<1>1. job # None /\ job.stage = "rollback" /\ job' = None /\ deployments' # deployments
  BY DEF RollsBack, At
<1>2. ~UNCHANGED deployVars
  BY <1>1 DEF deployVars
<1>3. ~(Push \/ Rerun \/ HandDeploy \/ Begin)
  BY <1>1 DEF Push, Rerun, HandDeploy, Begin
<1>4. ~(Verify \/ Plan \/ Recheck \/ Migrate \/ Deploy \/ Watch \/ Killed)
  BY <1>1 DEF Verify, Plan, Recheck, Migrate, Deploy, Watch, Killed, At
<1> QED
  BY <1>1, <1>2, <1>3, <1>4 DEF DeployNext, RollBack

(* A rollback goes back to what served when the deploy began (runDeploy, rollBack). *)
THEOREM RollbackRestoresTheorem == DeploySpec => RollbackRestores
<1> DEFINE Restores ==
      RollsBack /\ HandsOff =>
        \/ deployments'[Len(deployments')].version = deployments[job.since].version
        \/ deployments[job.since].tag = job.sha
<1>1. ASSUME CiInv, [DeployNext]_deployVars PROVE Restores
  <2> SUFFICES ASSUME RollsBack, HandsOff
               PROVE  \/ deployments'[Len(deployments')].version = deployments[job.since].version
                      \/ deployments[job.since].tag = job.sha
    OBVIOUS
  <2>1. PICK i \in DOMAIN deployments :
          /\ IF job.before # None THEN deployments[i].version = job.before.version
             ELSE i = Len(deployments) - 1
          /\ deployments' = Append(deployments, deployments[i])
    BY <1>1, OnlyRollBack
  <2>2. Live' = deployments[i]
    <3>1. deployments \in Seq(Deployment) /\ deployments[i] \in Deployment
      BY <1>1, Places DEF CiInv, DeploymentsInv
    <3>2. Len(deployments') = Len(deployments) + 1 /\
            deployments'[Len(deployments) + 1] = deployments[i]
      BY <2>1, <3>1, AppendProperties
    <3> QED
      BY <3>2 DEF Live
  <2>3. /\ job # None /\ job.stage = "rollback" /\ job.since \in DOMAIN deployments
        /\ job.before # None => job.before.version = deployments[job.since].version
        /\ job.before = None => Len(deployments) = job.since + 1 \/
             deployments[job.since].tag = job.sha
    BY <1>1 DEF RollsBack, At, CiInv, JobInv, Looked
  <2>4. job.since \in Nat
    BY <1>1, <2>3, Places DEF CiInv
  <2>5. CASE job.before # None
    BY <2>1, <2>2, <2>3, <2>5 DEF Live
  <2>6. CASE job.before = None
    <3>1. i = Len(deployments) - 1
      BY <2>1, <2>6
    <3>2. Len(deployments) = job.since + 1 => i = job.since
      BY <2>4, <3>1
    <3> QED
      BY <2>2, <2>3, <2>6, <3>2 DEF Live
  <2> QED
    BY <2>5, <2>6
<1> QED
  BY <1>1, CiInvAlways, PTL DEF DeploySpec, RollbackRestores

------------------------------------------------------------------------------
(* What a PR is given (Intake) *)

(* What Dispatch gives a PR: the invariant. *)
Named == {"owner", "refresh"}
AsksForHead == {"has_check", "pull", "files", "check"}
GiftType == [head : Nat \ {0}, what : {"run", "neutral"}, same : BOOLEAN]
RefType == [author : Named, head : Nat \ {0}, retarget : BOOLEAN]
Work ==
  [at : {"idle", "mint", "get"}, op : {"pulls"} \union AsksForHead \union {Unset},
   ref : RefType \union {Unset}, page : Nat \ {0}, files : Seq(FileType), age : Nat,
   same : BOOLEAN]

IntakeTypes ==
  /\ pr \in Pull \union {Outside}
  /\ given \in SUBSET GiftType
  /\ work \in Work
  /\ token \in 0 .. Lifetime

(* A call is under way no longer than its token lasts, unless it outlasts the margin. *)
TokenLasts == work.at = "get" /\ work.age <= RefreshMargin => token + work.age > RefreshMargin

(* What the diff the PR has may be given. *)
Due(what) ==
  LET touched == UNION {{f.path, f.previous} \ {Unset} : f \in ListedFiles(pr.files)}
  IN CASE what = "run" -> pr.author = "owner" /\ touched \subseteq {"other"}
       [] what = "neutral" ->
            IF pr.author = "owner" THEN ~(touched \subseteq {"other"}) ELSE touched = {"names"}

GivenInv ==
  /\ given # {} => pr # Outside /\ pr.author \in Named /\ pr.repo = "ours"
  /\ \A gift \in given : gift.same =>
       gift.head = pr.head /\ pr.base = "default" /\ Due(gift.what)

(* What the files listed so far are of the PR's, while its diff is the one they are listed for. *)
Listing ==
  LET listed == (work.page - 1) * FilesPerPage
  IN /\ listed <= Len(pr.files) /\ Len(work.files) = listed
     /\ \A i \in 1 .. listed : work.files[i] = pr.files[i]

WorkInv ==
  work.at # "idle" /\ work.op # "pulls" =>
    /\ pr # Outside /\ work.op \in AsksForHead /\ work.ref \in RefType
    /\ work.ref.author = pr.author /\ pr.repo = "ours"
    /\ work.same => work.ref.head = pr.head /\ pr.base = "default"
    /\ work.op = "files" /\ work.same => Listing
    /\ work.op = "check" /\ work.same =>
         Judged(pr.author, ListedFiles(pr.files)) = "neutral"

IntakeInv == IntakeTypes /\ TokenLasts /\ GivenInv /\ WorkInv

LEMMA PullOf == Outside \notin Pull
<1> SUFFICES ASSUME Outside \in Pull PROVE FALSE
  OBVIOUS
<1>1. "author" \in DOMAIN Outside
  BY DEF Pull
<1> QED
  BY <1>1 DEF Outside

LEMMA IdleWork == NoWork \in Work /\ NoWork.at = "idle" /\ NoWork.age = 0 /\ NoWork.same = FALSE
  BY DEF NoWork, Work, AsksForHead

(* A call starts at once, with a token that is good, or asks for one first. *)
LEMMA CallingWork ==
  ASSUME NEW op \in {"pulls"} \union AsksForHead, NEW left \in Nat, NEW same \in BOOLEAN,
         NEW ref \in RefType \union {Unset}
  PROVE  LET w == Calling(op, ref, left, same)
         IN /\ w \in Work /\ w.op = op /\ w.ref = ref /\ w.page = 1 /\ w.files = <<>> /\ w.age = 0
            /\ w.same = same /\ w.at \in {"get", "mint"} /\ (w.at = "get" => left > RefreshMargin)
<1> DEFINE at == IF Fresh(left) THEN "get" ELSE "mint"
           w == [at |-> at, op |-> op, ref |-> ref, page |-> 1, files |-> <<>>, age |-> 0,
                 same |-> same]
<1>1. at \in {"get", "mint"} /\ (at = "get" => left > RefreshMargin)
  BY DEF Fresh
<1>2. Calling(op, ref, left, same) = w
  <2> HIDE DEF w
  <2> DEFINE no == FALSE
  <2>0. NoWork = [at |-> "idle", op |-> Unset, ref |-> Unset, page |-> 1, files |-> <<>>, age |-> 0,
                  same |-> no]
    BY DEF NoWork
  <2> DEFINE w1 == [NoWork EXCEPT !.at = at]
             w2 == [w1 EXCEPT !.op = op]
             w3 == [w2 EXCEPT !.ref = ref]
  <2>1. Calling(op, ref, left, same) = [w3 EXCEPT !.same = same]
    BY DEF Calling
  <2> HIDE DEF at, no
  <2>2. w1 = [at |-> at, op |-> Unset, ref |-> Unset, page |-> 1, files |-> <<>>, age |-> 0,
              same |-> no]
    BY <2>0
  <2> HIDE DEF w1
  <2>3. w2 = [at |-> at, op |-> op, ref |-> Unset, page |-> 1, files |-> <<>>, age |-> 0,
              same |-> no]
    BY <2>2
  <2> HIDE DEF w2
  <2>4. w3 = [at |-> at, op |-> op, ref |-> ref, page |-> 1, files |-> <<>>, age |-> 0,
              same |-> no]
    BY <2>3
  <2> HIDE DEF w3
  <2> QED
    BY <2>1, <2>4 DEF w
<1>3. <<>> \in Seq(FileType)
  OBVIOUS
<1> HIDE DEF at
<1>4. w \in Work
  BY <1>1, <1>3 DEF Work
<1> QED
  BY <1>1, <1>2, <1>4

LEMMA CallingLasts ==
  ASSUME NEW op \in {"pulls"} \union AsksForHead, token' \in 0 .. Lifetime, NEW same \in BOOLEAN,
         NEW ref \in RefType \union {Unset}, work' = Calling(op, ref, token', same)
  PROVE  work' \in Work /\ TokenLasts'
<1>1. token' \in Nat
  BY IntakeAssumption
<1> QED
  BY <1>1, CallingWork, IntakeAssumption DEF TokenLasts

LEMMA IdleKeeps ==
  ASSUME IntakeInv, work' = NoWork, token' \in 0 .. Lifetime, UNCHANGED pr, GivenInv',
         given' \in SUBSET GiftType
  PROVE  IntakeInv'
  BY IdleWork DEF IntakeInv, IntakeTypes, TokenLasts, WorkInv

(* Nothing is given: what was stands. *)
LEMMA NothingGiven == ASSUME GivenInv, UNCHANGED <<pr, given>> PROVE GivenInv'
  BY DEF GivenInv, Due

(* An invocation asks the next thing of GitHub, about the head it is for. *)
LEMMA AskKeeps ==
  ASSUME IntakeInv, UNCHANGED <<pr, token>>, NEW op \in AsksForHead, NEW same \in BOOLEAN,
         NEW ref \in RefType, Ask(op, ref, same), pr # Outside, ref.author = pr.author,
         pr.repo = "ours", same => ref.head = pr.head /\ pr.base = "default",
         op = "check" /\ same => Judged(pr.author, ListedFiles(pr.files)) = "neutral",
         GivenInv', given' \in SUBSET GiftType
  PROVE  IntakeInv'
<1>1. token' \in 0 .. Lifetime /\ token' \in Nat /\ work' = Calling(op, ref, token', same)
  BY IntakeAssumption DEF IntakeInv, IntakeTypes, Ask
<1>2. work' \in Work /\ TokenLasts'
  BY <1>1, CallingLasts
<1>3. work'.op = op /\ work'.ref = ref /\ work'.page = 1 /\ work'.files = <<>> /\ work'.same = same
  <2>1. op \in {"pulls"} \union AsksForHead /\ ref \in RefType \union {Unset}
    OBVIOUS
  <2> QED
    BY <1>1, <2>1, CallingWork
<1>4. op = "files" => Listing'
  <2>1. pr.files \in Seq(FileType)
    BY DEF IntakeInv, IntakeTypes, Pull
  <2>2. (1 - 1) * FilesPerPage = 0
    BY IntakeAssumption
  <2> QED
    BY <1>3, <2>1, <2>2 DEF Listing
<1>5. WorkInv'
  BY <1>3, <1>4 DEF WorkInv
<1> QED
  BY <1>1, <1>2, <1>5 DEF IntakeInv, IntakeTypes

LEMMA DeliverEventKeeps == ASSUME IntakeInv, DeliverEvent PROVE IntakeInv'
<1>1. PICK head \in 1 .. pr.head, retarget \in {FALSE, pr.retargeted} :
        work' = Calling("pull", EventRef(pr, head, retarget), 0, FALSE)
  BY DEF DeliverEvent
<1>2. pr # Outside /\ Triggers(pr) /\ token' = 0 /\ UNCHANGED <<pr, given>>
  BY DEF DeliverEvent
<1>3. /\ pr \in Pull /\ pr.author \in Named /\ pr.repo = "ours" /\ pr.head \in Nat
      /\ retarget \in BOOLEAN
  BY <1>2 DEF IntakeInv, IntakeTypes, Triggers, Named, Pull
<1> DEFINE ref == EventRef(pr, head, retarget)
<1>4. ref \in RefType /\ ref.author = pr.author
  BY <1>3 DEF EventRef, RefType
<1> HIDE DEF ref
<1>5. 0 \in 0 .. Lifetime /\ "pull" \in AsksForHead /\ FALSE \in BOOLEAN
  BY IntakeAssumption DEF AsksForHead
<1>6. work' \in Work /\ TokenLasts'
  BY <1>1, <1>2, <1>4, <1>5, CallingLasts DEF ref
<1>7. work'.op = "pull" /\ work'.ref = ref /\ work'.same = FALSE
  <2>1. "pull" \in {"pulls"} \union AsksForHead /\ ref \in RefType \union {Unset} /\ 0 \in Nat
    BY <1>4, <1>5
  <2>2. PICK same \in BOOLEAN : same = FALSE
    OBVIOUS
  <2>3. work' = Calling("pull", ref, 0, same)
    BY <1>1, <2>2 DEF ref
  <2>4. work'.op = "pull" /\ work'.ref = ref /\ work'.same = same
    BY <2>1, <2>3, CallingWork
  <2> QED
    BY <2>2, <2>4
<1>8. GivenInv'
  BY <1>2, NothingGiven DEF IntakeInv
<1>9. WorkInv'
  BY <1>2, <1>3, <1>4, <1>5, <1>7 DEF WorkInv
<1> QED
  BY <1>2, <1>5, <1>6, <1>8, <1>9 DEF IntakeInv, IntakeTypes

LEMMA TickStartsKeeps == ASSUME IntakeInv, TickStarts PROVE IntakeInv'
<1>1. work' = Calling("pulls", Unset, 0, FALSE) /\ token' = 0 /\ UNCHANGED <<pr, given>>
  BY DEF TickStarts
<1>2. 0 \in 0 .. Lifetime
  BY IntakeAssumption
<1>3. work' \in Work /\ TokenLasts' /\ work'.op = "pulls"
  <2>1. "pulls" \in {"pulls"} \union AsksForHead /\ Unset \in RefType \union {Unset}
        /\ FALSE \in BOOLEAN /\ 0 \in Nat
    OBVIOUS
  <2>4. PICK same \in BOOLEAN : same = FALSE
    OBVIOUS
  <2>5. work' = Calling("pulls", Unset, 0, same)
    BY <1>1, <2>4
  <2>2. work' \in Work /\ TokenLasts'
    BY <1>1, <1>2, <2>1, CallingLasts
  <2>3. work'.op = "pulls"
    BY <2>1, <2>5, CallingWork
  <2> QED
    BY <2>2, <2>3
<1>4. GivenInv' /\ WorkInv'
  BY <1>1, <1>3, NothingGiven DEF IntakeInv, WorkInv
<1> QED
  BY <1>1, <1>2, <1>3, <1>4 DEF IntakeInv, IntakeTypes

(* The invocation goes on with the call it is in. *)
LEMMA SameCallKeeps ==
  ASSUME IntakeInv, UNCHANGED <<pr, given>>, work.at # "idle", work' \in Work,
         work'.op = work.op, work'.ref = work.ref, work'.page = work.page, work'.files = work.files,
         work'.same = work.same
  PROVE  GivenInv' /\ WorkInv'
<1>1. GivenInv'
  BY NothingGiven DEF IntakeInv
<1>2. Listing => Listing'
  BY DEF Listing
<1> QED
  BY <1>1, <1>2 DEF IntakeInv, WorkInv

LEMMA MintKeeps == ASSUME IntakeInv, Mint PROVE IntakeInv'
<1>1. /\ work.at = "mint" /\ token' = Lifetime /\ work' = [work EXCEPT !.at = "get"]
      /\ UNCHANGED <<pr, given>>
  BY DEF Mint
<1>2. work \in Work
  BY DEF IntakeInv, IntakeTypes
<1>3. /\ work' \in Work /\ work'.age = work.age /\ work.age \in Nat
      /\ work'.op = work.op /\ work'.ref = work.ref /\ work'.page = work.page
      /\ work'.files = work.files /\ work'.same = work.same
  BY <1>1, <1>2 DEF Work
<1>4. GivenInv' /\ WorkInv'
  BY <1>1, <1>3, SameCallKeeps
<1>5. TokenLasts' /\ token' \in 0 .. Lifetime
  BY <1>1, <1>3, IntakeAssumption DEF TokenLasts
<1> QED
  BY <1>1, <1>3, <1>4, <1>5 DEF IntakeInv, IntakeTypes

LEMMA MinuteKeeps == ASSUME IntakeInv, Minute PROVE IntakeInv'
<1> DEFINE age == IF work.age > RefreshMargin THEN work.age ELSE work.age + 1
<1>1. /\ work.at # "idle" /\ token' = (IF token = 0 THEN 0 ELSE token - 1)
      /\ work' = [work EXCEPT !.age = age] /\ UNCHANGED <<pr, given>>
  BY DEF Minute
<1>2. work \in Work /\ token \in 0 .. Lifetime /\ TokenLasts
  BY DEF IntakeInv, IntakeTypes
<1>3. work.age \in Nat /\ age \in Nat
  BY <1>2, IntakeAssumption DEF Work
<1>4. /\ work' \in Work /\ work'.age = age /\ work'.at = work.at
      /\ work'.op = work.op /\ work'.ref = work.ref /\ work'.page = work.page
      /\ work'.files = work.files /\ work'.same = work.same
  BY <1>1, <1>2, <1>3 DEF Work
<1>5. GivenInv' /\ WorkInv'
  BY <1>1, <1>4, SameCallKeeps
<1>6. TokenLasts' /\ token' \in 0 .. Lifetime
  BY <1>1, <1>2, <1>3, <1>4, IntakeAssumption DEF TokenLasts
<1> QED
  BY <1>1, <1>4, <1>5, <1>6 DEF IntakeInv, IntakeTypes

(* What an invocation knows while it asks about a head. *)
LEMMA AskingFor ==
  ASSUME IntakeInv, NEW op \in AsksForHead, Answers(op)
  PROVE  /\ pr # Outside /\ pr \in Pull /\ work.ref \in RefType
         /\ work.ref.author = pr.author /\ pr.repo = "ours" /\ work.same \in BOOLEAN
         /\ work.same => work.ref.head = pr.head /\ pr.base = "default"
         /\ op = "files" /\ work.same => Listing
         /\ op = "check" /\ work.same =>
              Judged(pr.author, ListedFiles(pr.files)) = "neutral"
  BY DEF IntakeInv, IntakeTypes, Answers, WorkInv, AsksForHead, Work

LEMMA ReadsKeep ==
  ASSUME IntakeInv, PullsListed \/ HasCheckAnswered \/ PullRead PROVE IntakeInv'
<1>1. /\ UNCHANGED <<pr, given, token>> /\ token' \in 0 .. Lifetime /\ GivenInv'
      /\ given' \in SUBSET GiftType
  <2>1. UNCHANGED <<pr, given, token>>
    BY DEF PullsListed, HasCheckAnswered, PullRead
  <2> QED
    BY <2>1, NothingGiven DEF IntakeInv, IntakeTypes
<1>2. CASE work' = NoWork
  BY <1>1, <1>2, IdleKeeps
<1>3. CASE PullsListed /\ work' # NoWork
  <2>1. pr # Outside /\ PatrolledPull(OpenPull(pr))
        /\ \E op \in {"pull", "has_check"} : Ask(op, RefOf(OpenPull(pr)), FALSE)
    BY <1>3 DEF PullsListed
  <2>2. pr \in Pull /\ pr.author \in Named /\ pr.repo = "ours"
    BY <2>1 DEF IntakeInv, IntakeTypes, PatrolledPull, OpenPull, Named
  <2> DEFINE ref == RefOf(OpenPull(pr))
  <2>3. ref \in RefType /\ ref.author = pr.author
    BY <2>2 DEF RefOf, OpenPull, Pull, RefType
  <2> HIDE DEF ref
  <2>4. PICK op \in {"pull", "has_check"} : Ask(op, ref, FALSE)
    BY <2>1 DEF ref
  <2>5. op \in AsksForHead /\ op # "check" /\ FALSE \in BOOLEAN
    BY DEF AsksForHead
  <2> QED
    BY <1>1, <2>1, <2>2, <2>3, <2>4, <2>5, AskKeeps
<1>4. CASE HasCheckAnswered /\ work' # NoWork
  <2>1. Answers("has_check") /\ Ask("pull", work.ref, FALSE)
    BY <1>4 DEF HasCheckAnswered
  <2>2. "has_check" \in AsksForHead /\ "pull" \in AsksForHead /\ FALSE \in BOOLEAN
    BY DEF AsksForHead
  <2> QED
    BY <1>1, <2>1, <2>2, AskingFor, AskKeeps
<1>5. CASE PullRead /\ work' # NoWork
  <2>1. Answers("pull") /\ Ask("files", work.ref, TRUE) /\ work.ref.head = pr.head /\
          pr.base = "default"
    BY <1>5 DEF PullRead, PullState
  <2>2. "pull" \in AsksForHead /\ "files" \in AsksForHead /\ TRUE \in BOOLEAN
    BY DEF AsksForHead
  <2> QED
    BY <1>1, <2>1, <2>2, AskingFor, AskKeeps
<1> QED
  BY <1>2, <1>3, <1>4, <1>5

(* The page asked for continues the list: in full, or to its end. *)
LEMMA PageContinues ==
  ASSUME IntakeTypes, pr \in Pull, Listing
  PROVE  LET entries == Page(pr.files, work.page)
             files == work.files \o entries
             listed == work.page * FilesPerPage
         IN /\ LastPage(entries) => files = pr.files
            /\ ~LastPage(entries) =>
                 /\ listed <= Len(pr.files) /\ Len(files) = listed
                 /\ \A i \in 1 .. listed : files[i] = pr.files[i]
<1> DEFINE entries == Page(pr.files, work.page)
           files == work.files \o entries
           n == (work.page - 1) * FilesPerPage
           m == work.page * FilesPerPage
           last == IF m < Len(pr.files) THEN m ELSE Len(pr.files)
<1>1. /\ work.page \in Nat \ {0} /\ FilesPerPage \in Nat \ {0}
      /\ work.files \in Seq(FileType) /\ pr.files \in Seq(FileType) /\ Len(pr.files) \in Nat
  BY IntakeAssumption DEF IntakeTypes, Work, Pull
<1>2. n \in Nat /\ m = n + FilesPerPage
  BY <1>1
<1>3. n <= Len(pr.files) /\ Len(work.files) = n /\ \A i \in 1 .. n : work.files[i] = pr.files[i]
  BY DEF Listing
<1>4. entries = SubSeq(pr.files, n + 1, last)
  BY DEF Page
<1> HIDE DEF n, m, entries
<1>5. /\ last \in Nat /\ n <= last /\ last <= Len(pr.files)
      /\ (last = m \/ (last = Len(pr.files) /\ last < m))
  BY <1>1, <1>2, <1>3
<1> HIDE DEF last
<1>6. /\ entries \in Seq(FileType) /\ Len(entries) = last - n
      /\ \A i \in 1 .. last - n : entries[i] = pr.files[n + i]
  <2> DEFINE all == pr.files
  <2>1. /\ all \in Seq(FileType) /\ n + 1 \in 1 .. Len(all) + 1 /\ last \in n .. Len(all)
        /\ n \in Nat /\ last \in Nat /\ entries = SubSeq(all, n + 1, last)
    BY <1>1, <1>2, <1>3, <1>4, <1>5
  <2> HIDE DEF all
  <2>2. /\ SubSeq(all, n + 1, last) \in Seq(FileType)
        /\ Len(SubSeq(all, n + 1, last)) = last - n
        /\ \A i \in 1 .. last - n : SubSeq(all, n + 1, last)[i] = all[n + i]
    BY <2>1, SMTT(30)
  <2> QED
    BY <2>1, <2>2 DEF all
<1>7. /\ files \in Seq(FileType) /\ Len(files) = last
      /\ \A i \in 1 .. last : files[i] = IF i <= n THEN work.files[i] ELSE entries[i - n]
  <2> DEFINE had == work.files
  <2>1. had \in Seq(FileType) /\ Len(had) = n /\ files = had \o entries
    BY <1>1, <1>3
  <2> HIDE DEF had
  <2>2. /\ files \in Seq(FileType) /\ Len(files) = Len(had) + Len(entries)
        /\ \A i \in 1 .. Len(had) + Len(entries) :
             files[i] = IF i <= Len(had) THEN had[i] ELSE entries[i - Len(had)]
    <3> HIDE DEF files
    <3> QED
      BY <1>6, <2>1, ConcatProperties
  <2>3. Len(had) + Len(entries) = last
    BY <1>2, <1>5, <1>6, <2>1
  <2> QED
    BY <2>1, <2>2, <2>3 DEF had
<1> HIDE DEF files
<1>8. \A i \in 1 .. last : files[i] = pr.files[i]
  <2> SUFFICES ASSUME NEW i \in 1 .. last PROVE files[i] = pr.files[i]
    OBVIOUS
  <2>1. CASE i <= n
    <3>1. i \in 1 .. n
      BY <1>2, <1>5, <2>1
    <3> QED
      BY <1>3, <1>7, <2>1, <3>1
  <2>2. CASE ~(i <= n)
    <3>1. i - n \in 1 .. last - n /\ n + (i - n) = i
      BY <1>2, <1>5, <2>2
    <3>2. entries[i - n] = pr.files[n + (i - n)]
      BY <1>6, <3>1
    <3> QED
      BY <1>7, <2>2, <3>1, <3>2
  <2> QED
    BY <2>1, <2>2
<1>9. LastPage(entries) <=> last < m
  BY <1>1, <1>2, <1>5, <1>6 DEF LastPage
<1>10. CASE LastPage(entries)
  <2>1. last = Len(pr.files)
    BY <1>5, <1>9, <1>10
  <2>2. files = pr.files
    BY <1>1, <1>7, <1>8, <2>1
  <2> QED
    BY <1>10, <2>2 DEF entries, files
<1>11. CASE ~LastPage(entries)
  <2>1. last = m
    BY <1>1, <1>2, <1>5, <1>9, <1>11
  <2> QED
    BY <1>5, <1>7, <1>8, <1>11, <2>1 DEF entries, files, m
<1> QED
  BY <1>10, <1>11 DEF entries, files

(* What the whole diff of the head calls for is what the head may be given. *)
LEMMA JudgedDue ==
  ASSUME pr \in Pull, pr.author \in Named, NEW what \in {"run", "neutral"},
         Judged(pr.author, ListedFiles(pr.files)) = what
  PROVE  Due(what)
<1> DEFINE files == ListedFiles(pr.files)
           touched == UNION {{f.path, f.previous} \ {Unset} : f \in files}
<1>1. files \in SUBSET FileType
  BY DEF Pull, ListedFiles
<1>2. \A f \in FileType : Sides(f) = {f.path, f.previous} \ {Unset} /\ Sides(f) \subseteq Side
  BY IntakeAssumption DEF FileType, Sides
<1> HIDE DEF files
<1>3. /\ touched \subseteq Side /\ \A f \in files : Sides(f) \subseteq touched
      /\ \A side \in touched : \E f \in files : side \in Sides(f)
  BY <1>1, <1>2
<1> HIDE DEF touched
<1>4. \A f \in files : Sides(f) # {}
  BY <1>1, IntakeAssumption DEF Sides, FileType
<1>5. CASE what = "run"
  <2>1. \A f \in files : ~IsUnpatrolled(f)
    BY <1>5 DEF Judged, files
  <2>2. touched \subseteq {"other"}
    BY <1>3, <2>1 DEF IsUnpatrolled, Side
  <2>3. ASSUME pr.author = "refresh" PROVE FALSE
    <3>1. files # {} /\ \A f \in files : IsRefresh(f)
      BY <1>5, <2>3 DEF Judged, files
    <3> QED
      BY <2>1, <3>1 DEF IsRefresh, IsUnpatrolled
  <2> QED
    BY <1>5, <2>2, <2>3 DEF Due, Named, touched, files
<1>6. CASE what = "neutral"
  <2>1. PICK f \in files : IsUnpatrolled(f)
    BY <1>6 DEF Judged, files
  <2>2. ~(touched \subseteq {"other"})
    BY <1>3, <2>1 DEF IsUnpatrolled
  <2>3. pr.author = "refresh" => touched = {"names"}
    <3>1. SUFFICES ASSUME pr.author = "refresh" PROVE touched = {"names"}
      OBVIOUS
    <3>2. \A g \in files : IsRefresh(g)
      BY <1>6, <3>1 DEF Judged, files
    <3> QED
      BY <1>3, <2>1, <3>2 DEF IsRefresh
  <2> QED
    BY <1>6, <2>2, <2>3 DEF Due, Named, touched, files
<1> QED
  BY <1>5, <1>6

(* A head is given what its diff calls for, if the PR has it still. *)
LEMMA Gives ==
  ASSUME IntakeTypes, GivenInv, UNCHANGED pr, pr \in Pull, pr.author \in Named, pr.repo = "ours",
         NEW what \in {"run", "neutral"}, work.ref \in RefType, work.same \in BOOLEAN,
         work.same => /\ work.ref.head = pr.head /\ pr.base = "default"
                      /\ Judged(pr.author, ListedFiles(pr.files)) = what,
         given' = given \union {Gift(what)}
  PROVE  GivenInv' /\ given' \in SUBSET GiftType
<1>1. work.same => Due(what)
  BY JudgedDue
<1>2. pr # Outside
  BY PullOf
<1>3. \A w : Due(w) => Due(w)'
  BY DEF Due
<1> DEFINE gift == Gift(what)
<1>4. /\ gift \in GiftType /\ gift.head = work.ref.head /\ gift.what = what
      /\ gift.same = work.same
  BY DEF Gift, GiftType, RefType
<1> HIDE DEF gift
<1>5. given' = given \union {gift}
  BY DEF gift
<1> QED
  BY <1>1, <1>2, <1>3, <1>4, <1>5 DEF GivenInv, IntakeTypes

LEMMA FilesReadKeeps == ASSUME IntakeInv, FilesRead PROVE IntakeInv'
<1> DEFINE entries == Page(pr.files, work.page)
           files == work.files \o entries
           judged == Judged(work.ref.author, ListedFiles(files))
           ref == work.ref
<1>1. /\ Answers("files") /\ UNCHANGED <<pr, token>>
      /\ ~LastPage(entries) =>
           work' = [work EXCEPT !.page = work.page + 1, !.files = files] /\ UNCHANGED given
      /\ LastPage(entries) =>
           /\ given' = IF judged = "run" THEN given \union {Gift("run")} ELSE given
           /\ IF judged = "neutral" THEN Ask("check", ref, work.same) ELSE work' = NoWork
  BY DEF FilesRead
<1>2. /\ pr # Outside /\ pr \in Pull /\ ref \in RefType
      /\ ref.author = pr.author /\ pr.repo = "ours" /\ work.same \in BOOLEAN
      /\ work.same => ref.head = pr.head /\ pr.base = "default" /\ Listing
  BY <1>1, AskingFor DEF AsksForHead
<1>3. /\ work.same /\ LastPage(entries) => files = pr.files
      /\ work.same /\ ~LastPage(entries) =>
           /\ work.page * FilesPerPage <= Len(pr.files) /\ Len(files) = work.page * FilesPerPage
           /\ \A i \in 1 .. work.page * FilesPerPage : files[i] = pr.files[i]
  BY <1>2, PageContinues DEF IntakeInv
<1>4. pr.author \in Named
  BY <1>2 DEF RefType
<1>5. token' \in 0 .. Lifetime /\ IntakeTypes /\ GivenInv /\ work \in Work /\ TokenLasts
  BY <1>1 DEF IntakeInv, IntakeTypes
<1>6. CASE ~LastPage(entries)
  <2>1. entries \in Seq(FileType)
    <3>1. pr.files \in Seq(FileType) /\ work.page \in Nat \ {0}
      BY <1>2, <1>5 DEF Pull, Work
    <3> DEFINE n == (work.page - 1) * FilesPerPage
               last == IF work.page * FilesPerPage < Len(pr.files) THEN work.page * FilesPerPage
                       ELSE Len(pr.files)
    <3>2. n \in Nat /\ last \in Nat /\ last <= Len(pr.files) /\ entries = SubSeq(pr.files, n + 1,
            last)
      BY <3>1, IntakeAssumption DEF Page
    <3> HIDE DEF n, last, entries
    <3> QED
      BY <3>1, <3>2
  <2>2. files \in Seq(FileType)
    BY <1>5, <2>1, ConcatProperties DEF Work
  <2> HIDE DEF files, entries
  <2>3. work' = [work EXCEPT !.page = work.page + 1, !.files = files] /\ UNCHANGED given
    BY <1>1, <1>6
  <2>4. /\ work' \in Work /\ work'.page = work.page + 1 /\ work'.files = files
        /\ work'.at = work.at /\ work'.op = work.op /\ work'.ref = ref /\ work'.age = work.age
        /\ work'.same = work.same
    <3> DEFINE page == work.page + 1
               paged == [work EXCEPT !.page = page]
    <3>1. page \in Nat \ {0} /\ work' = [paged EXCEPT !.files = files]
      BY <1>5, <2>3 DEF Work
    <3> HIDE DEF page
    <3>2. /\ paged \in Work /\ paged.page = page /\ paged.at = work.at /\ paged.op = work.op
          /\ paged.ref = ref /\ paged.age = work.age /\ paged.same = work.same
      BY <1>5, <3>1 DEF Work
    <3> HIDE DEF paged
    <3> QED
      BY <2>2, <3>1, <3>2 DEF Work, page
  <2>5. work.same => Listing'
    <3>1. (work.page + 1) - 1 = work.page
      BY <1>5 DEF Work
    <3> QED
      BY <1>1, <1>3, <1>6, <2>4, <3>1 DEF Listing
  <2>6. work.op = "files"
    BY <1>1 DEF Answers
  <2>7. WorkInv'
    BY <1>1, <1>2, <2>4, <2>5, <2>6 DEF WorkInv, AsksForHead
  <2>8. GivenInv' /\ TokenLasts'
    BY <1>1, <1>5, <2>3, <2>4, NothingGiven DEF TokenLasts
  <2> QED
    BY <1>1, <1>5, <2>3, <2>4, <2>7, <2>8 DEF IntakeInv, IntakeTypes
<1>7. CASE LastPage(entries)
  <2>1. work.same => judged = Judged(pr.author, ListedFiles(pr.files))
    BY <1>2, <1>3, <1>7
  <2> HIDE DEF judged
  <2>2. GivenInv' /\ given' \in SUBSET GiftType
    <3>1. CASE judged = "run"
      BY <1>1, <1>2, <1>4, <1>5, <1>7, <2>1, <3>1, Gives
    <3>2. CASE judged # "run"
      BY <1>1, <1>5, <1>7, <3>2, NothingGiven DEF IntakeTypes
    <3> QED
      BY <3>1, <3>2
  <2>3. CASE judged = "neutral"
    BY <1>1, <1>2, <1>7, <2>1, <2>2, <2>3, AskKeeps DEF AsksForHead
  <2>4. CASE judged # "neutral"
    BY <1>1, <1>5, <1>7, <2>2, <2>4, IdleKeeps
  <2> QED
    BY <2>3, <2>4
<1> QED
  BY <1>6, <1>7

(* The check is posted, or asked for and not heard of. *)
LEMMA NeutralGiven ==
  ASSUME IntakeInv, UNCHANGED pr, Answers("check") \/ (work.at # "idle" /\ work.op = "check"),
         given' = given \union {Gift("neutral")}
  PROVE  GivenInv' /\ given' \in SUBSET GiftType
<1>1. /\ pr # Outside /\ pr \in Pull /\ work.ref \in RefType
      /\ work.ref.author = pr.author /\ pr.repo = "ours" /\ work.same \in BOOLEAN
      /\ work.same => /\ work.ref.head = pr.head /\ pr.base = "default"
                      /\ Judged(pr.author, ListedFiles(pr.files)) = "neutral"
  BY DEF IntakeInv, IntakeTypes, WorkInv, Answers, AsksForHead, Work
<1>2. pr.author \in Named
  BY <1>1 DEF RefType
<1> QED
  BY <1>1, <1>2, Gives DEF IntakeInv

LEMMA CheckPostedKeeps == ASSUME IntakeInv, CheckPosted PROVE IntakeInv'
<1>1. /\ Answers("check") /\ given' = given \union {Gift("neutral")} /\ work' = NoWork
      /\ UNCHANGED <<pr, token>>
  BY DEF CheckPosted
<1>2. token' \in 0 .. Lifetime
  BY <1>1 DEF IntakeInv, IntakeTypes
<1> QED
  BY <1>1, <1>2, NeutralGiven, IdleKeeps

LEMMA CallFailsKeeps == ASSUME IntakeInv, CallFails PROVE IntakeInv'
<1>1. /\ work.at # "idle" /\ work' = NoWork /\ UNCHANGED <<pr, token>>
      /\ given' = given \/ (work.op = "check" /\ given' = given \union {Gift("neutral")})
  BY DEF CallFails
<1>2. token' \in 0 .. Lifetime /\ GivenInv
      /\ given \in SUBSET GiftType
  BY <1>1 DEF IntakeInv, IntakeTypes
<1>3. GivenInv' /\ given' \in SUBSET GiftType
  BY <1>1, <1>2, NeutralGiven, NothingGiven
<1> QED
  BY <1>1, <1>2, <1>3, IdleKeeps

(* GitHub changes the PR; when it changes the diff, what was given is another diff's. *)
LEMMA OpenKeeps == ASSUME IntakeInv, Open PROVE IntakeInv'
<1>1. PICK kind \in PullKind, files \in FileList, draft \in BOOLEAN :
        pr' = [kind EXCEPT !.draft = draft, !.files = files]
  BY DEF Open
<1>2. pr = Outside /\ UNCHANGED <<given, work, token>>
  BY DEF Open
<1>3. pr' \in Pull
  BY <1>1, IntakeAssumption DEF Pull
<1> QED
  BY <1>2, <1>3 DEF IntakeInv, IntakeTypes, TokenLasts, GivenInv, WorkInv

LEMMA AnotherDiffKeeps ==
  ASSUME IntakeInv, pr # Outside, pr' \in Pull, pr'.author = pr.author, pr'.repo = pr.repo,
         AnotherDiff
  PROVE  IntakeInv'
<1>1. /\ given' = {[gift EXCEPT !.same = FALSE] : gift \in given} /\ token' = token
      /\ work' = [work EXCEPT !.same = FALSE]
      /\ given \in SUBSET GiftType /\ work \in Work
  BY DEF AnotherDiff, IntakeInv, IntakeTypes
<1>2. pr' # Outside
  BY PullOf
<1>3. \A gift \in GiftType :
        [gift EXCEPT !.same = FALSE] \in GiftType /\ [gift EXCEPT !.same = FALSE].same = FALSE
  BY DEF GiftType
<1>4. given' \in SUBSET GiftType /\ \A gift \in given' : gift.same = FALSE
  BY <1>1, <1>3
<1>5. given' # {} => given # {}
  BY <1>1
<1>6. GivenInv'
  BY <1>2, <1>4, <1>5 DEF IntakeInv, GivenInv
<1>7. /\ work' \in Work /\ work'.at = work.at /\ work'.op = work.op /\ work'.ref = work.ref
      /\ work'.age = work.age /\ work'.same = FALSE
  BY <1>1 DEF Work
<1>8. WorkInv' /\ TokenLasts'
  BY <1>1, <1>2, <1>7 DEF IntakeInv, WorkInv, TokenLasts
<1> QED
  BY <1>1, <1>4, <1>6, <1>7, <1>8 DEF IntakeInv, IntakeTypes

LEMMA PushToKeeps == ASSUME IntakeInv, PushTo PROVE IntakeInv'
<1>1. PICK files \in FileList : pr' = [pr EXCEPT !.head = pr.head + 1, !.files = files]
  BY DEF PushTo
<1>2. pr # Outside /\ pr \in Pull /\ AnotherDiff
  BY DEF PushTo, IntakeInv, IntakeTypes
<1> DEFINE head == pr.head + 1
           moved == [pr EXCEPT !.head = head]
<1>3. head \in Nat \ {0} /\ files \in Seq(FileType)
  BY <1>2, IntakeAssumption DEF Pull
<1>4. pr' = [moved EXCEPT !.files = files]
  BY <1>1
<1> HIDE DEF head
<1>5. moved \in Pull /\ moved.author = pr.author /\ moved.repo = pr.repo
  BY <1>2, <1>3 DEF Pull
<1> HIDE DEF moved
<1>6. pr' \in Pull /\ pr'.author = pr.author /\ pr'.repo = pr.repo
  BY <1>3, <1>4, <1>5 DEF Pull
<1> QED
  BY <1>2, <1>6, AnotherDiffKeeps

LEMMA RetargetKeeps == ASSUME IntakeInv, Retarget PROVE IntakeInv'
<1>1. PICK base \in {"default", "other"}, files \in FileList :
        pr' = [pr EXCEPT !.base = base, !.files = files, !.retargeted = TRUE]
  BY DEF Retarget
<1>2. pr # Outside /\ pr \in Pull /\ AnotherDiff /\ files \in Seq(FileType)
  BY IntakeAssumption DEF Retarget, IntakeInv, IntakeTypes
<1> DEFINE moved == [pr EXCEPT !.base = base]
           shown == [moved EXCEPT !.files = files]
<1>3. pr' = [shown EXCEPT !.retargeted = TRUE]
  BY <1>1
<1>4. moved \in Pull /\ moved.author = pr.author /\ moved.repo = pr.repo
  BY <1>2 DEF Pull
<1> HIDE DEF moved
<1>5. shown \in Pull /\ shown.author = pr.author /\ shown.repo = pr.repo
  BY <1>2, <1>4 DEF Pull
<1> HIDE DEF shown
<1>6. pr' \in Pull /\ pr'.author = pr.author /\ pr'.repo = pr.repo
  BY <1>3, <1>5 DEF Pull
<1> QED
  BY <1>2, <1>6, AnotherDiffKeeps

LEMMA EditKeeps == ASSUME IntakeInv, Edit PROVE IntakeInv'
<1>1. pr # Outside /\ pr \in Pull /\ UNCHANGED <<given, work, token>>
  BY DEF Edit, IntakeInv, IntakeTypes
<1>2. /\ pr' \in Pull /\ pr'.head = pr.head /\ pr'.files = pr.files /\ pr'.base = pr.base
      /\ pr'.author = pr.author /\ pr'.repo = pr.repo
  BY <1>1 DEF Edit, Pull
<1>3. pr' # Outside
  BY <1>2, PullOf
<1>4. (\A w : Due(w) => Due(w)') /\ (Listing => Listing')
  BY <1>1, <1>2 DEF Due, Listing
<1>5. GivenInv'
  BY <1>1, <1>2, <1>3, <1>4 DEF IntakeInv, GivenInv
<1>6. WorkInv'
  BY <1>1, <1>2, <1>3, <1>4 DEF IntakeInv, WorkInv
<1> QED
  BY <1>1, <1>2, <1>5, <1>6 DEF IntakeInv, IntakeTypes, TokenLasts

LEMMA IntakeKeeps == IntakeInv /\ [IntakeNext]_intakeVars => IntakeInv'
<1> SUFFICES ASSUME IntakeInv, [IntakeNext]_intakeVars PROVE IntakeInv'
  OBVIOUS
<1>1. CASE UNCHANGED intakeVars
  <2>1. UNCHANGED <<pr, given, work, token>>
    BY <1>1 DEF intakeVars
  <2>2. (\A w : Due(w) => Due(w)') /\ (Listing => Listing')
    BY <2>1 DEF Due, Listing
  <2> QED
    BY <2>1, <2>2 DEF IntakeInv, IntakeTypes, TokenLasts, GivenInv, WorkInv
<1> QED
  BY <1>1, DeliverEventKeeps, TickStartsKeeps, MintKeeps, ReadsKeep, FilesReadKeeps,
     CheckPostedKeeps, CallFailsKeeps, OpenKeeps, PushToKeeps, RetargetKeeps, EditKeeps,
     MinuteKeeps
     DEF IntakeNext

LEMMA IntakeLemma == IntakeSpec => []IntakeInv
<1>1. IntakeInit => IntakeInv
  BY IdleWork, IntakeAssumption
     DEF IntakeInit, IntakeInv, IntakeTypes, TokenLasts, GivenInv, WorkInv
<1> QED
  BY <1>1, IntakeKeeps, PTL DEF IntakeSpec

(* What a PR is given while it has a diff is what its author and the whole of that diff call     *)
(* for, whichever path found it, however its files are paged, and whatever fails, is retargeted  *)
(* or changes on the way (GivenWhatItTouches).                                                   *)
THEOREM GivenTheorem == IntakeSpec => []GivenWhatItTouches
<1>1. IntakeInv => GivenWhatItTouches
  BY DEF IntakeInv, IntakeTypes, GivenInv, GivenWhatItTouches, Due, Named
<1> QED
  BY <1>1, IntakeLemma, PTL

(* GitHub never refuses a token for its age in a call it answers within the margin.              *)
THEOREM TokenTheorem == IntakeSpec => []TokenInForce
<1>1. IntakeInv => TokenInForce
  BY IntakeAssumption DEF IntakeInv, IntakeTypes, TokenLasts, TokenInForce, Work
<1> QED
  BY <1>1, IntakeLemma, PTL

------------------------------------------------------------------------------
(* The open list (RunsLive) *)

Version == [at : Nat, onHill : BOOLEAN]
Summary == [run : Run, at : Nat \ {0}, onHill : BOOLEAN]
IndexWrite == [run : Run, revision : Nat, onHill : BOOLEAN, at : Nat \ {0}, wrote : BOOLEAN]
FetchType == [answered : BOOLEAN, runs : SUBSET Summary, opened : BOOLEAN]

LiveTypes ==
  /\ current \in [Run -> Version] /\ owed \in [Run -> Nat] /\ writes \in SUBSET IndexWrite
  /\ rows \in [Run -> Version] /\ landed \in [Run -> Nat]
  /\ socket \in {"down", "accepted", "up"} /\ frames \in Seq(Summary) /\ fetches \in Seq(FetchType)
  /\ list \in SUBSET Summary /\ refetched \in BOOLEAN /\ clock \in Nat

(* The copies there are of the runs: the page's, those on the way to it, D1's and the runs' own. *)
CopyOf(r, v) == [run |-> r, at |-> v.at, onHill |-> v.onHill]
OnPage == list \union Elements(frames) \union UNION {f.runs : f \in Elements(fetches)}
InD1 == {CopyOf(r, rows[r]) : r \in Listed}
InRuns == {CopyOf(r, current[r]) : r \in {q \in Run : current[q].at # Never}}
Written == {CopyOf(w.run, w) : w \in writes}
Copies == OnPage \union InD1 \union InRuns \union Written

(* The updates of a run have different times, so the time of a copy tells what it says. *)
Told ==
  \E history \in [Run -> [Nat -> BOOLEAN]] : \A s \in Copies : s.onHill = history[s.run][s.at]

(* What a run owes, and what D1 has of it. *)
RowOK(r) ==
  /\ rows[r].at <= landed[r] /\ landed[r] <= current[r].at /\ current[r].at <= clock
  /\ landed[r] # Never => rows[r].at # Never
  /\ rows[r].at = Never => rows[r] = Unborn
  /\ owed[r] \in {Never, current[r].at}
  /\ owed[r] = Never => landed[r] = current[r].at
RowsInv == \A r \in Run : RowOK(r)

WriteOK(w) ==
  /\ w.revision = w.at /\ w.at <= current[w.run].at /\ (w.wrote => w.at <= landed[w.run])
  /\ owed[w.run] = Never => w.at < current[w.run].at
WritesInv ==
  \A w \in writes :
    /\ WriteOK(w)
    /\ \A v \in writes : v.run = w.run /\ v.revision = w.revision => v = w

(* The page has one copy of a run, and none that D1 did not have. *)
SeenInv == \A s \in OnPage : s.at <= landed[s.run]
OneEach(copies) == \A s, t \in copies : s.run = t.run => s = t
OpenedInv == socket # "up" => \A f \in Elements(fetches) : ~f.opened

(* A copy of the run, and its newest where D1 has that. *)
Has(copies, r, at) == \E s \in copies : s.run = r /\ at \in {Never, s.at}
Goal(r) == IF rows[r].at = landed[r] THEN landed[r] ELSE Never

(* What is owed no more the list has, or a frame brings it, or the fetch of the open does. *)
Brought(r) ==
  \/ Has(list \union Elements(frames), r, Goal(r))
  \/ /\ ~refetched
     /\ \A f \in Elements(fetches) : f.opened /\ f.answered => Has(f.runs, r, Goal(r))
ListFits == Cardinality(Listed) <= ListMax
BroughtInv ==
  /\ IsFiniteSet(Listed)
  /\ socket = "up" /\ ListFits => \A r \in Listed : owed[r] = Never => Brought(r)

LiveInv ==
  LiveTypes /\ Told /\ RowsInv /\ WritesInv /\ SeenInv /\ OneEach(list) /\ OpenedInv /\ BroughtInv

------------------------------------------------------------------------------
(* Sets and sequences *)

LEMMA Greatest ==
  ASSUME NEW T \in SUBSET Nat, T # {}, NEW most \in Nat, \A n \in T : n <= most
  PROVE  \E x \in T : \A y \in T : y <= x
<1> DEFINE R == OpToRel(<, Nat)
           S == {most - n : n \in T}
<1>1. IsWellFoundedOn(R, Nat)
  BY NatLessThanWellFounded
<1>2. \A x, y \in Nat : x < y => <<x, y>> \in R
  BY DEF OpToRel
<1>3. S \in SUBSET Nat /\ S # {}
  <2>1. \A n \in T : most - n \in Nat
    OBVIOUS
  <2> QED
    BY <2>1
<1> HIDE DEF R
<1>4. PICK x \in S : \A y \in S : ~(<<y, x>> \in R)
  BY <1>1, <1>3, WFMin
<1>5. \A y \in S : ~(y < x)
  BY <1>2, <1>3, <1>4
<1>6. PICK n \in T : x = most - n
  BY <1>4
<1>7. \A m \in T : ~(most - m < most - n)
  BY <1>5, <1>6
<1> QED
  BY <1>7

LEMMA ElementsAppend ==
  ASSUME NEW S, NEW s \in Seq(S), NEW x \in S
  PROVE  Append(s, x) \in Seq(S) /\ Elements(Append(s, x)) = Elements(s) \union {x}
<1> DEFINE t == Append(s, x)
<1>1. /\ t \in Seq(S) /\ Len(t) = Len(s) + 1 /\ t[Len(s) + 1] = x
      /\ \A i \in 1 .. Len(s) : t[i] = s[i]
  BY AppendProperties
<1>2. DOMAIN s = 1 .. Len(s) /\ Len(s) \in Nat /\ DOMAIN t = 1 .. Len(s) + 1
  BY <1>1
<1> HIDE DEF t
<1> QED
  BY <1>1, <1>2 DEF Elements, t

LEMMA ElementsTail ==
  ASSUME NEW S, NEW s \in Seq(S), s # <<>>
  PROVE  /\ Head(s) \in S /\ Tail(s) \in Seq(S)
         /\ Elements(s) = {Head(s)} \union Elements(Tail(s))
<1> DEFINE t == Tail(s)
<1>1. /\ Head(s) \in S /\ t \in Seq(S) /\ Len(t) = Len(s) - 1 /\ Head(s) = s[1]
      /\ \A i \in 1 .. Len(t) : t[i] = s[i + 1]
  BY HeadTailProperties
<1>2. Len(s) \in Nat \ {0} /\ DOMAIN s = 1 .. Len(s) /\ DOMAIN t = 1 .. Len(s) - 1
  BY <1>1
<1> HIDE DEF t
<1>3. \A i \in DOMAIN s : s[i] = Head(s) \/ (i - 1 \in DOMAIN t /\ s[i] = t[i - 1])
  <2> SUFFICES ASSUME NEW i \in DOMAIN s, i # 1 PROVE i - 1 \in DOMAIN t /\ s[i] = t[i - 1]
    BY <1>1
  <2>1. i - 1 \in 1 .. Len(s) - 1 /\ (i - 1) + 1 = i
    BY <1>2
  <2> QED
    BY <1>1, <1>2, <2>1
<1>4. \A i \in DOMAIN t : i + 1 \in DOMAIN s /\ t[i] = s[i + 1]
  BY <1>1, <1>2
<1>5. 1 \in DOMAIN s
  BY <1>2
<1> QED
  BY <1>1, <1>3, <1>4, <1>5 DEF Elements, t

------------------------------------------------------------------------------
(* Lists *)

(* A list of one copy each, of runs there are, that are no more than the most: none is left out. *)
LEMMA CappedAll ==
  ASSUME IsFiniteSet(Listed), ListFits,
         NEW S \in SUBSET Summary, OneEach(S), \A s \in S : s.run \in Listed
  PROVE  Capped(S) = S
<1> SUFFICES ASSUME NEW s \in S PROVE Cardinality({t \in S : Above(t, s)}) < ListMax
  BY DEF Capped
<1> DEFINE T == {t \in S : Above(t, s)}
           others == Listed \ {s.run}
           run == [t \in T |-> t.run]
<1>1. ~Above(s, s)
  BY DEF Above, Summary
<1>2. run \in Injection(T, others)
  BY <1>1 DEF OneEach, Injection, IsInjective
<1>3. IsFiniteSet(others) /\ Cardinality(others) = Cardinality(Listed) - 1
  BY FS_RemoveElement
<1> HIDE DEF T, others, run
<1>4. Cardinality(T) <= Cardinality(others) /\ IsFiniteSet(T)
  BY <1>2, <1>3, FS_Injection
<1>5. Cardinality(T) \in Nat /\ Cardinality(Listed) \in Nat
  BY <1>4, FS_CardinalityType
<1> QED
  BY <1>3, <1>4, <1>5, RunsLiveAssumption DEF ListFits, T

(* What the copies of the page and of D1 have in common. *)
LEMMA PageCopies ==
  ASSUME LiveInv
  PROVE  /\ Copies \in SUBSET Summary
         /\ \A s, t \in Copies : s.run = t.run /\ s.at = t.at => s = t
         /\ \A s \in OnPage \union InD1 : s.run \in Listed /\ s.at <= landed[s.run]
         /\ OnPage \in SUBSET Summary /\ InD1 \in SUBSET Summary /\ OneEach(InD1)
<1>1. OnPage \in SUBSET Summary
  <2>1. Elements(frames) \in SUBSET Summary
    BY DEF Elements, LiveInv, LiveTypes
  <2>2. Elements(fetches) \in SUBSET FetchType
    BY DEF Elements, LiveInv, LiveTypes
  <2> QED
    BY <2>1, <2>2 DEF OnPage, FetchType, LiveInv, LiveTypes
<1>2. \A r \in Run : (rows[r].at = Never <=> rows[r] = Unborn)
  <2>1. Unborn.at = Never
    BY DEF Unborn
  <2>2. \A r \in Run : rows[r].at = Never => rows[r] = Unborn
    BY DEF LiveInv, RowsInv, RowOK
  <2> QED
    BY <2>1, <2>2
<1>3. InD1 \in SUBSET Summary /\ InRuns \in SUBSET Summary /\ Written \in SUBSET Summary
  BY <1>2 DEF InD1, InRuns, Written, CopyOf, Listed, Summary, LiveInv, LiveTypes, Version,
    IndexWrite, Never
<1>4. Copies \in SUBSET Summary
  BY <1>1, <1>3 DEF Copies
<1>5. \A s, t \in Copies : s.run = t.run /\ s.at = t.at => s = t
  BY <1>4 DEF LiveInv, Told, Summary
<1>6. \A s \in OnPage \union InD1 : s.run \in Listed /\ s.at <= landed[s.run]
  <2>1. \A s \in InD1 : s.run \in Listed /\ s.at = rows[s.run].at /\ s.run \in Run
    BY DEF InD1, CopyOf, Listed
  <2>2. \A s \in InD1 : s.run \in Listed /\ s.at <= landed[s.run]
    BY <2>1 DEF LiveInv, RowsInv, RowOK
  <2>3. ASSUME NEW s \in OnPage PROVE s.run \in Listed /\ s.at <= landed[s.run]
    <3>1. s.run \in Run /\ s.at \in Nat \ {0} /\ s.at <= landed[s.run] /\ landed[s.run] \in Nat
      BY <1>1 DEF LiveInv, SeenInv, Summary, LiveTypes
    <3>2. landed[s.run] # Never
      BY <3>1 DEF Never
    <3> QED
      BY <1>2, <3>1, <3>2 DEF LiveInv, RowsInv, RowOK, Listed
  <2> QED
    BY <2>2, <2>3
<1>7. OneEach(InD1)
  BY DEF OneEach, InD1, CopyOf
<1> QED
  BY <1>1, <1>3, <1>4, <1>5, <1>6, <1>7

LEMMA ListRunsLemma ==
  ASSUME LiveInv
  PROVE  ListRuns \in SUBSET InD1 /\ (ListFits => ListRuns = InD1)
<1>1. ListRuns = Capped(InD1)
  BY DEF ListRuns, InD1, CopyOf, Listed
<1>2. InD1 \in SUBSET Summary /\ OneEach(InD1) /\ \A s \in InD1 : s.run \in Listed
  BY PageCopies
<1> QED
  BY <1>1, <1>2, CappedAll DEF Capped, LiveInv, BroughtInv

(* Merging keeps one copy of each run, the newest, and loses no run. *)
LEMMA MergeLemma ==
  ASSUME LiveInv, NEW held \in SUBSET OnPage, NEW incoming \in SUBSET OnPage
  PROVE  /\ Merge(held, incoming) \in SUBSET (held \union incoming)
         /\ OneEach(Merge(held, incoming))
         /\ ListFits => \A r \in Listed :
              Has(held \union incoming, r, Goal(r)) => Has(Merge(held, incoming), r, Goal(r))
<1> DEFINE all == held \union incoming
           newest == {s \in all : \A t \in all : t.run = s.run => t.at <= s.at}
<1>1. Merge(held, incoming) = Capped(newest)
  BY DEF Merge
<1>2. /\ all \in SUBSET Summary /\ \A s \in all : s.run \in Listed /\ s.at <= landed[s.run]
      /\ \A s, t \in all : s.run = t.run /\ s.at = t.at => s = t
  BY PageCopies DEF Copies
<1> HIDE DEF all
<1>3. OneEach(newest)
  BY <1>2 DEF OneEach, Summary
<1>4. Capped(newest) \in SUBSET newest
  BY DEF Capped
<1>5. ASSUME ListFits, NEW r \in Listed, Has(all, r, Goal(r)) PROVE Has(newest, r, Goal(r))
  <2>1. PICK s \in all : s.run = r /\ Goal(r) \in {Never, s.at}
    BY <1>5 DEF Has
  <2> DEFINE mine == {t \in all : t.run = r}
             ats == {t.at : t \in mine}
  <2>2. ats \in SUBSET Nat /\ s.at \in ats /\ landed[r] \in Nat /\ \A n \in ats : n <= landed[r]
    BY <1>2, <2>1 DEF Summary, Listed, LiveInv, LiveTypes
  <2> HIDE DEF ats
  <2>3. PICK n \in ats : \A m \in ats : m <= n
    BY <2>2, Greatest
  <2>4. PICK t \in all : t.run = r /\ t.at = n
    BY <2>3 DEF ats
  <2>5. t \in newest
    BY <2>3, <2>4 DEF ats
  <2>6. Goal(r) \in {Never, t.at}
    <3>1. CASE Goal(r) = Never
      BY <3>1
    <3>2. CASE Goal(r) # Never
      <4>1. Goal(r) = landed[r] /\ s.at = landed[r]
        BY <2>1, <3>2 DEF Goal
      <4>2. s.at <= n /\ n <= landed[r] /\ n \in Nat
        BY <2>2, <2>3
      <4> QED
        BY <2>2, <2>4, <4>1, <4>2
    <3> QED
      BY <3>1, <3>2
  <2> QED
    BY <2>4, <2>5, <2>6 DEF Has
<1>6. ListFits => Capped(newest) = newest
  <2>1. newest \in SUBSET Summary /\ \A s \in newest : s.run \in Listed
    BY <1>2
  <2> HIDE DEF newest
  <2> QED
    BY <1>3, <2>1, CappedAll DEF LiveInv, BroughtInv
<1> HIDE DEF newest
<1>7. newest \in SUBSET all
  BY DEF newest
<1> QED
  BY <1>1, <1>3, <1>4, <1>5, <1>6, <1>7 DEF OneEach, all

------------------------------------------------------------------------------
(* Steps of the page: the runs go on as they are *)

(* Nothing new is told, and nothing the page has D1 has not had. *)
LEMMA ToldKept == ASSUME Told, Copies' \in SUBSET Copies PROVE Told'
<1>1. PICK history \in [Run -> [Nat -> BOOLEAN]] :
        \A s \in Copies : s.onHill = history[s.run][s.at]
  BY DEF Told
<1>2. \A s \in Copies' : s.onHill = history[s.run][s.at]
  BY <1>1
<1> QED
  BY <1>2 DEF Told

LEMMA PageKeeps ==
  ASSUME LiveInv, UNCHANGED <<current, owed, writes, rows, landed, clock>>, LiveTypes',
         OnPage' \in SUBSET (OnPage \union InD1), OneEach(list'), OpenedInv',
         socket' = "up" /\ ListFits => \A r \in Listed : owed[r] = Never => Brought(r)'
  PROVE  LiveInv'
<1>1. UNCHANGED <<InD1, InRuns, Written, Listed>>
  BY DEF InD1, InRuns, Written, Listed
<1>2. Copies' \in SUBSET Copies
  BY <1>1 DEF Copies
<1>3. Told'
  BY <1>2, ToldKept DEF LiveInv
<1>4. RowsInv'
  BY DEF LiveInv, RowsInv, RowOK
<1>5. WritesInv'
  BY DEF LiveInv, WritesInv, WriteOK
<1>6. SeenInv'
  BY PageCopies DEF SeenInv
<1>7. BroughtInv'
  BY <1>1 DEF LiveInv, BroughtInv, ListFits
<1> QED
  BY <1>3, <1>4, <1>5, <1>6, <1>7 DEF LiveInv

LEMMA RefreshLemma ==
  ASSUME LiveTypes, NEW opened \in BOOLEAN, Refresh(opened)
  PROVE  /\ fetches' \in Seq(FetchType)
         /\ Elements(fetches') = Elements(fetches) \union {[Asked EXCEPT !.opened = opened]}
         /\ LET f == [Asked EXCEPT !.opened = opened]
            IN f.opened = opened /\ ~f.answered /\ f.runs = {}
<1> DEFINE f == [Asked EXCEPT !.opened = opened]
<1>1. f \in FetchType /\ f.opened = opened /\ ~f.answered /\ f.runs = {}
  BY DEF Asked, FetchType
<1>2. fetches' = Append(fetches, f) /\ fetches \in Seq(FetchType)
  BY DEF Refresh, LiveTypes
<1> HIDE DEF f
<1> QED
  BY <1>1, <1>2, ElementsAppend DEF f

LEMMA ConnectKeeps == ASSUME LiveInv, Connect PROVE LiveInv'
<1>1. /\ socket = "down" /\ socket' = "accepted"
      /\ UNCHANGED <<frames, list, fetches, polling, visible, refetched, clock, faults>>
      /\ UNCHANGED runVars
  BY DEF Connect
<1>2. LiveTypes'
  BY <1>1 DEF LiveInv, LiveTypes, runVars
<1>3. OnPage' = OnPage
  BY <1>1 DEF OnPage
<1>4. OpenedInv' /\ OneEach(list')
  BY <1>1 DEF LiveInv, OpenedInv
<1> QED
  BY <1>1, <1>2, <1>3, <1>4, PageKeeps DEF runVars

LEMMA OnOpenKeeps == ASSUME LiveInv, OnOpen PROVE LiveInv'
<1>1. /\ socket = "accepted" /\ socket' = "up" /\ Refresh(TRUE) /\ refetched' = FALSE
      /\ UNCHANGED <<frames, list, clock>> /\ UNCHANGED runVars
  BY DEF OnOpen
<1> DEFINE f == [Asked EXCEPT !.opened = TRUE]
<1>2. /\ fetches' \in Seq(FetchType) /\ Elements(fetches') = Elements(fetches) \union {f}
      /\ ~f.answered /\ f.runs = {}
  BY <1>1, RefreshLemma DEF LiveInv
<1> HIDE DEF f
<1>3. LiveTypes'
  BY <1>1, <1>2 DEF LiveInv, LiveTypes, runVars
<1>4. OnPage' \in SUBSET OnPage
  BY <1>1, <1>2 DEF OnPage
<1>5. OpenedInv' /\ OneEach(list')
  BY <1>1 DEF LiveInv, OpenedInv
<1>6. \A g \in Elements(fetches') : ~(g.opened /\ g.answered)
  BY <1>1, <1>2 DEF LiveInv, OpenedInv
<1>7. \A r \in Listed : Brought(r)'
  BY <1>1, <1>6 DEF Brought
<1> QED
  BY <1>1, <1>3, <1>4, <1>5, <1>7, PageKeeps DEF runVars

(* The page has more of the run than before, or as much. *)
LEMMA HasMore ==
  ASSUME NEW few, NEW many, few \subseteq many, NEW r, NEW at, Has(few, r, at)
  PROVE  Has(many, r, at)
  BY DEF Has

LEMMA OnMessageKeeps == ASSUME LiveInv, OnMessage PROVE LiveInv'
<1>1. /\ socket = "up" /\ frames # <<>> /\ list' = Merge(list, {Head(frames)})
      /\ frames' = Tail(frames)
      /\ UNCHANGED clock /\ UNCHANGED runVars /\ UNCHANGED pageVars
  BY DEF OnMessage
<1>2. /\ Head(frames) \in Summary /\ frames' \in Seq(Summary)
      /\ Elements(frames) = {Head(frames)} \union Elements(frames')
  BY <1>1, ElementsTail DEF LiveInv, LiveTypes
<1>3. list \in SUBSET OnPage /\ {Head(frames)} \in SUBSET OnPage
  BY <1>2 DEF OnPage
<1>4. /\ list' \in SUBSET (list \union {Head(frames)}) /\ OneEach(list')
      /\ ListFits => \A r \in Listed :
           Has(list \union {Head(frames)}, r, Goal(r)) => Has(list', r, Goal(r))
  BY <1>1, <1>3, MergeLemma
<1>5. LiveTypes'
  BY <1>1, <1>2, <1>4 DEF LiveInv, LiveTypes, runVars, pageVars
<1>6. OnPage' \in SUBSET OnPage
  BY <1>1, <1>2, <1>4 DEF OnPage, pageVars
<1>7. OpenedInv'
  BY <1>1 DEF LiveInv, OpenedInv, pageVars
<1>8. ASSUME ListFits, NEW r \in Listed, owed[r] = Never PROVE Brought(r)'
  <2>1. Goal(r)' = Goal(r) /\ UNCHANGED <<refetched, fetches>>
    BY <1>1 DEF Goal, runVars, pageVars
  <2>2. Brought(r)
    BY <1>1, <1>8 DEF LiveInv, BroughtInv
  <2>3. CASE Has(list \union Elements(frames), r, Goal(r))
    <3>1. Has(list \union {Head(frames)}, r, Goal(r)) \/ Has(Elements(frames'), r, Goal(r))
      BY <1>2, <2>3 DEF Has
    <3>2. Has(list', r, Goal(r)) \/ Has(Elements(frames'), r, Goal(r))
      BY <1>4, <1>8, <3>1
    <3>3. Has(list' \union Elements(frames'), r, Goal(r))
      BY <3>2 DEF Has
    <3> QED
      BY <2>1, <3>3 DEF Brought
  <2>4. CASE ~refetched /\ \A f \in Elements(fetches) : f.opened /\ f.answered =>
          Has(f.runs, r, Goal(r))
    BY <2>1, <2>4 DEF Brought
  <2> QED
    BY <2>2, <2>3, <2>4 DEF Brought
<1> QED
  BY <1>1, <1>4, <1>5, <1>6, <1>7, <1>8, PageKeeps DEF runVars

LEMMA OnCloseKeeps == ASSUME LiveInv, OnClose PROVE LiveInv'
<1>1. /\ socket' = "down" /\ frames' = <<>> /\ refetched' = FALSE
      /\ fetches' = [i \in DOMAIN fetches |-> [fetches[i] EXCEPT !.opened = FALSE]]
      /\ UNCHANGED <<list, clock>> /\ UNCHANGED runVars
  BY DEF OnClose
<1>2. \A f \in FetchType :
        LET g == [f EXCEPT !.opened = FALSE] IN g \in FetchType /\ g.runs = f.runs /\ ~g.opened
  BY DEF FetchType
<1>3. fetches \in Seq(FetchType) /\ DOMAIN fetches = 1 .. Len(fetches) /\ Len(fetches) \in Nat
  BY DEF LiveInv, LiveTypes
<1>4. fetches' \in Seq(FetchType)
  BY <1>1, <1>2, <1>3
<1>5. \A g \in Elements(fetches') : ~g.opened /\ \E f \in Elements(fetches) : g.runs = f.runs
  <2> SUFFICES ASSUME NEW i \in DOMAIN fetches'
               PROVE  ~fetches'[i].opened /\ \E f \in Elements(fetches) : fetches'[i].runs = f.runs
    BY DEF Elements
  <2>1. i \in DOMAIN fetches /\ fetches'[i] = [fetches[i] EXCEPT !.opened = FALSE]
    BY <1>1
  <2>2. fetches[i] \in FetchType /\ fetches[i] \in Elements(fetches)
    BY <1>3, <2>1 DEF Elements
  <2> QED
    BY <1>2, <2>1, <2>2
<1>6. LiveTypes'
  <2>1. <<>> \in Seq(Summary)
    OBVIOUS
  <2> QED
    BY <1>1, <1>4, <2>1 DEF LiveInv, LiveTypes, runVars
<1>7. OnPage' \in SUBSET OnPage
  BY <1>1, <1>5 DEF OnPage, Elements
<1>8. OpenedInv' /\ OneEach(list')
  BY <1>1, <1>5 DEF LiveInv, OpenedInv
<1> QED
  BY <1>1, <1>6, <1>7, <1>8, PageKeeps DEF runVars

(* The page asks, or stops or starts to poll. *)
LEMMA AskingKeeps ==
  ASSUME LiveInv, UNCHANGED <<socket, frames, list, refetched, clock>>, UNCHANGED runVars,
         Refresh(FALSE) \/ UNCHANGED fetches
  PROVE  LiveInv'
<1> DEFINE g == [Asked EXCEPT !.opened = FALSE]
<1>1. /\ fetches' \in Seq(FetchType)
      /\ \A f \in Elements(fetches') : f \in Elements(fetches) \/ (~f.opened /\ f.runs = {})
  <2>1. CASE Refresh(FALSE)
    <3>1. /\ fetches' \in Seq(FetchType) /\ Elements(fetches') = Elements(fetches) \union {g}
          /\ g.opened = FALSE /\ g.runs = {}
      BY <2>1, RefreshLemma DEF LiveInv
    <3> HIDE DEF g
    <3> QED
      BY <3>1
  <2>2. CASE UNCHANGED fetches
    BY <2>2 DEF LiveInv, LiveTypes
  <2> QED
    BY <2>1, <2>2
<1>2. LiveTypes'
  BY <1>1 DEF LiveInv, LiveTypes, runVars
<1>3. OnPage' \in SUBSET OnPage
  BY <1>1 DEF OnPage
<1>4. OpenedInv' /\ OneEach(list')
  BY <1>1 DEF LiveInv, OpenedInv
<1>5. ASSUME socket' = "up", ListFits, NEW r \in Listed, owed[r] = Never PROVE Brought(r)'
  <2>1. Goal(r)' = Goal(r)
    BY DEF Goal, runVars
  <2>2. Brought(r)
    BY <1>5 DEF LiveInv, BroughtInv
  <2> QED
    BY <1>1, <2>1, <2>2 DEF Brought
<1> QED
  BY <1>2, <1>3, <1>4, <1>5, PageKeeps DEF runVars

LEMMA AnsweredKeeps ==
  ASSUME LiveInv, NEW i \in DOMAIN fetches, Answered(i) PROVE LiveInv'
<1> DEFINE g == [fetches[i] EXCEPT !.answered = TRUE]
           f == [g EXCEPT !.runs = ListRuns]
<1>1. /\ fetches' = [fetches EXCEPT ![i] = f]
      /\ UNCHANGED <<socket, frames, list, refetched, clock>> /\ UNCHANGED runVars
  <2>1. /\ fetches' = [fetches EXCEPT ![i].answered = TRUE, ![i].runs = ListRuns]
        /\ UNCHANGED <<socket, frames, list, refetched, clock>> /\ UNCHANGED runVars
    BY DEF Answered
  <2> HIDE DEF ListRuns
  <2> QED
    BY <2>1
<1>2. ListRuns \in SUBSET InD1 /\ (ListFits => ListRuns = InD1) /\ InD1 \in SUBSET Summary
  BY ListRunsLemma, PageCopies
<1>3. fetches \in Seq(FetchType) /\ fetches[i] \in FetchType
  BY DEF LiveInv, LiveTypes
<1> HIDE DEF ListRuns
<1>4. g \in FetchType /\ g.opened = fetches[i].opened
  BY <1>3 DEF FetchType
<1> HIDE DEF g
<1>5. f \in FetchType /\ f.opened = fetches[i].opened /\ f.runs = ListRuns
  BY <1>2, <1>4 DEF FetchType
<1> HIDE DEF f
<1>6. fetches' \in Seq(FetchType) /\ \A h \in Elements(fetches') : h = f \/ h \in Elements(fetches)
  BY <1>1, <1>3, <1>5 DEF Elements
<1>7. fetches[i] \in Elements(fetches)
  BY DEF Elements
<1>8. LiveTypes'
  BY <1>1, <1>6 DEF LiveInv, LiveTypes, runVars
<1>9. OnPage' \in SUBSET (OnPage \union InD1)
  BY <1>1, <1>2, <1>5, <1>6 DEF OnPage
<1>10. OpenedInv' /\ OneEach(list')
  BY <1>1, <1>5, <1>6, <1>7 DEF LiveInv, OpenedInv
<1>11. ASSUME socket' = "up", ListFits, NEW r \in Listed, owed[r] = Never PROVE Brought(r)'
  <2>1. Goal(r)' = Goal(r)
    BY <1>1 DEF Goal, runVars
  <2>2. Brought(r)
    BY <1>1, <1>11 DEF LiveInv, BroughtInv
  <2>3. Has(f.runs, r, Goal(r))
    <3>1. CopyOf(r, rows[r]) \in f.runs
      BY <1>2, <1>5, <1>11 DEF InD1
    <3> QED
      BY <3>1 DEF Has, Goal, CopyOf
  <2> QED
    BY <1>1, <1>6, <2>1, <2>2, <2>3 DEF Brought
<1> QED
  BY <1>1, <1>8, <1>9, <1>10, <1>11, PageKeeps DEF runVars

LEMMA WithoutLemma ==
  ASSUME LiveTypes, NEW i \in DOMAIN fetches
  PROVE  Without(i) \in Seq(FetchType) /\ Elements(Without(i)) \subseteq Elements(fetches)
<1>1. fetches \in Seq(FetchType) /\ Len(fetches) \in Nat /\ DOMAIN fetches = 1 .. Len(fetches)
  BY DEF LiveTypes
<1>2. \A j \in 1 .. Len(fetches) - 1 : j \in DOMAIN fetches /\ j + 1 \in DOMAIN fetches
  BY <1>1
<1>3. Len(fetches) - 1 \in Nat
  BY <1>1
<1> QED
  BY <1>1, <1>2, <1>3 DEF Without, Elements

LEMMA FetchedKeeps ==
  ASSUME LiveInv, NEW i \in DOMAIN fetches, Fetched(i) PROVE LiveInv'
<1> DEFINE f == fetches[i]
<1>1. /\ fetches' = Without(i)
      /\ \/ list' = Merge(list, f.runs) /\ f.answered /\ refetched' = (refetched \/ f.opened)
         \/ UNCHANGED <<list, refetched>>
      /\ UNCHANGED <<socket, frames, clock>> /\ UNCHANGED runVars
  BY DEF Fetched
<1>2. fetches' \in Seq(FetchType) /\ Elements(fetches') \subseteq Elements(fetches)
  BY <1>1, WithoutLemma DEF LiveInv
<1>3. f \in Elements(fetches) /\ f \in FetchType
  BY DEF Elements, LiveInv, LiveTypes
<1>4. f.runs \in SUBSET OnPage /\ list \in SUBSET OnPage /\ list \in SUBSET Summary
  BY <1>3 DEF OnPage, LiveInv, LiveTypes
<1>5. /\ Merge(list, f.runs) \in SUBSET (list \union f.runs) /\ OneEach(Merge(list, f.runs))
      /\ ListFits => \A r \in Listed :
           Has(list \union f.runs, r, Goal(r)) => Has(Merge(list, f.runs), r, Goal(r))
  BY <1>4, MergeLemma
<1> HIDE DEF f
<1>6. LiveTypes'
  <2>1. list' \in SUBSET Summary /\ refetched' \in BOOLEAN
    BY <1>1, <1>3, <1>4, <1>5 DEF FetchType, LiveInv, LiveTypes
  <2> QED
    BY <1>1, <1>2, <2>1 DEF LiveInv, LiveTypes, runVars
<1>7. OnPage' \in SUBSET OnPage
  BY <1>1, <1>2, <1>4, <1>5 DEF OnPage
<1>8. OpenedInv' /\ OneEach(list')
  BY <1>1, <1>2, <1>5 DEF LiveInv, OpenedInv
<1>9. ASSUME socket' = "up", ListFits, NEW r \in Listed, owed[r] = Never PROVE Brought(r)'
  <2>1. Goal(r)' = Goal(r)
    BY <1>1 DEF Goal, runVars
  <2>2. Brought(r)
    BY <1>1, <1>9 DEF LiveInv, BroughtInv
  <2>3. CASE Has(list \union Elements(frames), r, Goal(r))
    <3>1. Has(list', r, Goal(r)) \/ Has(Elements(frames), r, Goal(r))
      BY <1>1, <1>5, <1>9, <2>3 DEF Has
    <3> QED
      BY <1>1, <2>1, <3>1 DEF Brought, Has
  <2>4. CASE /\ ~refetched
             /\ \A h \in Elements(fetches) : h.opened /\ h.answered => Has(h.runs, r, Goal(r))
    <3>1. CASE refetched'
      <4>1. f.answered /\ f.opened /\ list' = Merge(list, f.runs)
        BY <1>1, <2>4, <3>1
      <4>2. Has(list \union f.runs, r, Goal(r))
        BY <1>3, <2>4, <4>1, HasMore
      <4>3. Has(list', r, Goal(r))
        BY <1>5, <1>9, <4>1, <4>2
      <4> QED
        BY <2>1, <4>3 DEF Brought, Has
    <3>2. CASE ~refetched'
      BY <1>2, <2>1, <2>4, <3>2 DEF Brought
    <3> QED
      BY <3>1, <3>2
  <2> QED
    BY <2>2, <2>3, <2>4 DEF Brought
<1> QED
  BY <1>1, <1>6, <1>7, <1>8, <1>9, PageKeeps DEF runVars

------------------------------------------------------------------------------
(* Steps of the runs *)

LEMMA UpdateKeeps == ASSUME LiveInv, NEW r \in Run, Update(r) PROVE LiveInv'
<1>1. PICK onHill \in BOOLEAN : current' = [current EXCEPT ![r] = [at |-> clock', onHill |-> onHill]]
  BY DEF Update
<1>2. /\ clock' = clock + 1 /\ owed' = [owed EXCEPT ![r] = clock']
      /\ UNCHANGED <<writes, rows, landed, frames, list, socket, fetches, refetched>>
  BY DEF Update, pageVars
<1> DEFINE copy == CopyOf(r, current'[r])
<1>3. clock \in Nat /\ clock' \in Nat \ {0} /\ LiveTypes
  BY <1>2 DEF LiveInv, LiveTypes
<1>4. /\ current' \in [Run -> Version] /\ current'[r].at = clock' /\ owed' \in [Run -> Nat]
      /\ owed'[r] = clock' /\ copy = [run |-> r, at |-> clock', onHill |-> onHill]
      /\ \A q \in Run \ {r} : current'[q] = current[q] /\ owed'[q] = owed[q]
  BY <1>1, <1>2, <1>3 DEF LiveTypes, Version, CopyOf
<1>5. LiveTypes'
  BY <1>2, <1>3, <1>4 DEF LiveTypes
<1>6. Copies' \in SUBSET (Copies \union {copy})
  <2>1. UNCHANGED <<OnPage, InD1, Written>>
    BY <1>2 DEF OnPage, InD1, Written, Listed
  <2>2. InRuns' \in SUBSET (InRuns \union {copy})
    BY <1>4 DEF InRuns
  <2> QED
    BY <2>1, <2>2 DEF Copies
<1>7. \A s \in Copies : s.at <= clock /\ s \in Summary
  <2>1. Copies \in SUBSET Summary
    BY PageCopies
  <2>2. \A q \in Run : /\ current[q].at \in Nat /\ current[q].at <= clock /\ landed[q] \in Nat
                       /\ landed[q] <= current[q].at /\ rows[q].at \in Nat /\ rows[q].at <= landed[q]
    BY <1>3 DEF LiveInv, RowsInv, RowOK, LiveTypes, Version
  <2>3. \A s \in OnPage \union InD1 : s.at <= landed[s.run]
    BY PageCopies
  <2>4. \A s \in InRuns : s.at <= clock
    BY <2>2 DEF InRuns, CopyOf
  <2>5. \A s \in Written : s.at <= clock
    <3> SUFFICES ASSUME NEW w \in writes PROVE w.at <= clock
      BY DEF Written, CopyOf
    <3>1. w.at <= current[w.run].at /\ w.run \in Run /\ w.at \in Nat
      BY <1>3 DEF LiveInv, WritesInv, WriteOK, LiveTypes, IndexWrite
    <3> QED
      BY <1>3, <2>2, <3>1
  <2>6. ASSUME NEW s \in OnPage \union InD1 PROVE s.at <= clock
    <3>1. s \in Summary
      BY <2>1 DEF Copies
    <3> QED
      BY <1>3, <2>2, <2>3, <3>1 DEF Summary
  <2> QED
    BY <2>1, <2>4, <2>5, <2>6 DEF Copies
<1>8. Told'
  <2>1. PICK history \in [Run -> [Nat -> BOOLEAN]] :
          \A s \in Copies : s.onHill = history[s.run][s.at]
    BY DEF LiveInv, Told
  <2> DEFINE told == [history EXCEPT ![r] = [history[r] EXCEPT ![clock'] = onHill]]
  <2>2. told \in [Run -> [Nat -> BOOLEAN]] /\ told[r][clock'] = onHill
    BY <1>3, <2>1
  <2>3. \A q \in Run, n \in Nat : n # clock' => told[q][n] = history[q][n]
    BY <2>1
  <2> HIDE DEF told
  <2>4. \A s \in Copies : s.onHill = told[s.run][s.at]
    <3> SUFFICES ASSUME NEW s \in Copies PROVE s.onHill = told[s.run][s.at]
      OBVIOUS
    <3>1. s.run \in Run /\ s.at \in Nat /\ s.at # clock'
      BY <1>2, <1>3, <1>7 DEF Summary
    <3> QED
      BY <2>1, <2>3, <3>1
  <2>5. copy.onHill = told[copy.run][copy.at]
    BY <1>4, <2>2
  <2>6. \A s \in Copies' : s.onHill = told[s.run][s.at]
    BY <1>6, <2>4, <2>5
  <2> QED
    BY <2>2, <2>6 DEF Told
<1>9. RowsInv'
  <2> SUFFICES ASSUME NEW q \in Run PROVE RowOK(q)'
    BY DEF RowsInv
  <2>1. /\ RowOK(q) /\ rows[q].at \in Nat /\ landed[q] \in Nat /\ current[q].at \in Nat
    BY <1>3 DEF LiveInv, RowsInv, LiveTypes, Version
  <2>2. CASE q = r
    BY <1>2, <1>3, <1>4, <2>1, <2>2 DEF RowOK, Never
  <2>3. CASE q # r
    BY <1>2, <1>3, <1>4, <2>1, <2>3 DEF RowOK
  <2> QED
    BY <2>2, <2>3
<1>10. WritesInv'
  <2> SUFFICES ASSUME NEW w \in writes PROVE WriteOK(w)'
    BY <1>2 DEF WritesInv, LiveInv
  <2>1. /\ WriteOK(w) /\ w.run \in Run /\ w.at \in Nat
    BY <1>3 DEF LiveInv, WritesInv, LiveTypes, IndexWrite
  <2>2. current[w.run].at \in Nat /\ current[w.run].at <= clock
    BY <1>3, <2>1 DEF LiveInv, RowsInv, RowOK, LiveTypes, Version
  <2> QED
    BY <1>2, <1>3, <1>4, <2>1, <2>2 DEF WriteOK, Never
<1>11. SeenInv' /\ OneEach(list') /\ OpenedInv'
  BY <1>2 DEF LiveInv, SeenInv, OnPage, OpenedInv
<1>12. BroughtInv'
  <2>1. UNCHANGED Listed
    BY <1>2 DEF Listed
  <2>2. ASSUME socket' = "up", ListFits, NEW q \in Listed, owed'[q] = Never PROVE Brought(q)'
    <3>1. q # r /\ owed[q] = Never
      BY <1>3, <1>4, <2>2 DEF Never, Listed
    <3>2. Brought(q)
      BY <1>2, <2>2, <3>1 DEF LiveInv, BroughtInv
    <3> QED
      BY <1>2, <3>2 DEF Brought, Goal
  <2> QED
    BY <2>1, <2>2 DEF LiveInv, BroughtInv, ListFits
<1> QED
  BY <1>5, <1>8, <1>9, <1>10, <1>11, <1>12 DEF LiveInv

LEMMA IndexKeeps == ASSUME LiveInv, NEW r \in Run, Index(r) PROVE LiveInv'
<1> DEFINE new == [run |-> r, revision |-> owed[r], onHill |-> current[r].onHill,
                   at |-> current[r].at, wrote |-> FALSE]
<1>1. /\ owed[r] # Never /\ (\A w \in writes : w.run = r => w.revision # owed[r])
      /\ writes' = writes \union {new}
      /\ UNCHANGED <<current, owed, rows, landed, frames, list, clock, socket, fetches, refetched>>
  BY DEF Index, pageVars
<1>2. /\ owed[r] = current[r].at /\ current[r] \in Version /\ current[r].at # Never
      /\ owed[r] \in Nat
  BY <1>1 DEF LiveInv, RowsInv, RowOK, LiveTypes
<1>3. new \in IndexWrite
  BY <1>2 DEF IndexWrite, Version, Never
<1>4. LiveTypes'
  BY <1>1, <1>3 DEF LiveInv, LiveTypes
<1>5. CopyOf(new.run, new) = CopyOf(r, current[r])
  BY DEF CopyOf
<1>6. Copies' \in SUBSET Copies
  <2>1. UNCHANGED <<OnPage, InD1, InRuns>>
    BY <1>1 DEF OnPage, InD1, InRuns, Listed
  <2>2. CopyOf(r, current[r]) \in InRuns
    BY <1>2 DEF InRuns
  <2> HIDE DEF new
  <2>3. Written' \in SUBSET (Written \union InRuns)
    BY <1>1, <1>5, <2>2 DEF Written
  <2> QED
    BY <2>1, <2>3 DEF Copies
<1>7. Told'
  BY <1>6, ToldKept DEF LiveInv
<1>8. RowsInv' /\ SeenInv' /\ OneEach(list') /\ OpenedInv'
  BY <1>1 DEF LiveInv, RowsInv, RowOK, SeenInv, OnPage, OpenedInv
<1>9. WritesInv'
  <2>1. new.run = r /\ new.revision = owed[r] /\ new.at = current[r].at /\ ~new.wrote
    OBVIOUS
  <2> HIDE DEF new
  <2>2. ASSUME NEW w \in writes' PROVE WriteOK(w)'
    <3>1. CASE w = new
      BY <1>1, <1>2, <2>1, <3>1 DEF WriteOK, Version
    <3>2. CASE w \in writes
      BY <1>1, <3>2 DEF LiveInv, WritesInv, WriteOK
    <3> QED
      BY <1>1, <3>1, <3>2
  <2>3. ASSUME NEW w \in writes', NEW v \in writes', v.run = w.run, v.revision = w.revision
        PROVE  v = w
    <3>1. CASE w \in writes /\ v \in writes
      BY <2>3, <3>1 DEF LiveInv, WritesInv
    <3> QED
      BY <1>1, <2>1, <2>3, <3>1
  <2> QED
    BY <2>2, <2>3 DEF WritesInv
<1>10. BroughtInv'
  BY <1>1 DEF LiveInv, BroughtInv, Brought, Goal, Listed, ListFits
<1> QED
  BY <1>4, <1>7, <1>8, <1>9, <1>10 DEF LiveInv

(* D1's row of a run becomes that of a write under way. *)
LEMMA LandsLemma ==
  ASSUME LiveInv, NEW w \in writes, Lands(w)
  PROVE  /\ w \in IndexWrite /\ w.run \in Run
         /\ rows' \in [Run -> Version] /\ landed' \in [Run -> Nat]
         /\ rows'[w.run] = [at |-> w.at, onHill |-> w.onHill]
         /\ landed'[w.run] = (IF w.at > landed[w.run] THEN w.at ELSE landed[w.run])
         /\ \A r \in Run \ {w.run} : rows'[r] = rows[r] /\ landed'[r] = landed[r]
         /\ Listed' = Listed \union {w.run} /\ InD1' \in SUBSET (InD1 \union {CopyOf(w.run, w)})
         /\ owed[w.run] = Never => w.run \in Listed /\ w.at < landed[w.run]
<1>1. w \in IndexWrite /\ rows \in [Run -> Version] /\ landed \in [Run -> Nat]
  BY DEF LiveInv, LiveTypes
<1>2. w.run \in Run /\ w.at \in Nat \ {0} /\ w.onHill \in BOOLEAN
  BY <1>1 DEF IndexWrite
<1>3. /\ rows' = [rows EXCEPT ![w.run] = [at |-> w.at, onHill |-> w.onHill]]
      /\ landed' = [landed EXCEPT ![w.run] = IF w.at > landed[w.run] THEN w.at ELSE landed[w.run]]
  BY DEF Lands
<1>4. /\ rows' \in [Run -> Version] /\ landed' \in [Run -> Nat]
      /\ rows'[w.run] = [at |-> w.at, onHill |-> w.onHill]
      /\ landed'[w.run] = (IF w.at > landed[w.run] THEN w.at ELSE landed[w.run])
      /\ \A r \in Run \ {w.run} : rows'[r] = rows[r] /\ landed'[r] = landed[r]
  BY <1>1, <1>2, <1>3 DEF Version
<1>5. rows'[w.run] # Unborn
  BY <1>2, <1>4 DEF Unborn, Never
<1>6. Listed' = Listed \union {w.run}
  BY <1>2, <1>4, <1>5 DEF Listed
<1>7. InD1' \in SUBSET (InD1 \union {CopyOf(w.run, w)})
  <2> SUFFICES ASSUME NEW r \in Listed'
               PROVE  CopyOf(r, rows'[r]) \in InD1 \union {CopyOf(w.run, w)}
    BY DEF InD1
  <2>1. CASE r = w.run
    BY <1>4, <2>1 DEF CopyOf
  <2>2. CASE r # w.run
    BY <1>4, <1>6, <2>2 DEF InD1, Listed
  <2> QED
    BY <2>1, <2>2
<1>8. owed[w.run] = Never => w.run \in Listed /\ w.at < landed[w.run]
  <2>1. SUFFICES ASSUME owed[w.run] = Never PROVE w.run \in Listed /\ w.at < landed[w.run]
    OBVIOUS
  <2>2. w.at < current[w.run].at /\ landed[w.run] = current[w.run].at
    BY <1>2, <2>1 DEF LiveInv, WritesInv, WriteOK, RowsInv, RowOK
  <2>3. landed[w.run] # Never
    BY <1>1, <1>2, <2>2 DEF Never
  <2>4. rows[w.run].at # Never
    BY <1>2, <2>3 DEF LiveInv, RowsInv, RowOK
  <2> QED
    BY <1>2, <2>2, <2>4 DEF Listed, Unborn
<1> QED
  BY <1>1, <1>2, <1>4, <1>6, <1>7, <1>8

(* D1 has the row of a write under way, perhaps: a failed call may have written it. *)
LEMMA RowLemma ==
  ASSUME LiveInv, NEW w \in writes, Lands(w) \/ UNCHANGED <<rows, landed>>
  PROVE  /\ rows' \in [Run -> Version] /\ landed' \in [Run -> Nat]
         /\ \A r \in Run :
              \/ rows'[r] = rows[r] /\ landed'[r] = landed[r]
              \/ /\ r = w.run /\ rows'[r].at = w.at
                 /\ landed'[r] = (IF w.at > landed[r] THEN w.at ELSE landed[r])
                 /\ owed[r] = Never => r \in Listed /\ w.at < landed[r]
         /\ Listed' = Listed \/ (Listed' = Listed \union {w.run} /\ Lands(w))
         /\ InD1' \in SUBSET (InD1 \union {CopyOf(w.run, w)})
<1>1. CASE Lands(w)
  <2>1. /\ rows' \in [Run -> Version] /\ landed' \in [Run -> Nat]
        /\ Listed' = Listed \union {w.run} /\ InD1' \in SUBSET (InD1 \union {CopyOf(w.run, w)})
    BY <1>1, LandsLemma
  <2>2. /\ rows'[w.run].at = w.at
        /\ landed'[w.run] = (IF w.at > landed[w.run] THEN w.at ELSE landed[w.run])
        /\ owed[w.run] = Never => w.run \in Listed /\ w.at < landed[w.run]
    <3>1. rows'[w.run] = [at |-> w.at, onHill |-> w.onHill]
      BY <1>1, LandsLemma
    <3> QED
      BY <1>1, <3>1, LandsLemma
  <2>3. \A r \in Run \ {w.run} : rows'[r] = rows[r] /\ landed'[r] = landed[r]
    BY <1>1, LandsLemma
  <2> QED
    BY <1>1, <2>1, <2>2, <2>3
<1>2. CASE UNCHANGED <<rows, landed>>
  BY <1>2 DEF LiveInv, LiveTypes, Listed, InD1
<1> QED
  BY <1>1, <1>2

(* A write whose row D1 has, perhaps, and which goes on or has failed. *)
LEMMA RowWritten ==
  ASSUME LiveInv, NEW w \in writes, Lands(w) \/ UNCHANGED <<rows, landed>>,
         UNCHANGED <<current, owed, frames, list, clock, socket, fetches, refetched>>,
         \/ writes' = writes \ {w}
         \/ Lands(w) /\ writes' = (writes \ {w}) \union {[w EXCEPT !.wrote = TRUE]}
  PROVE  LiveInv'
<1> DEFINE done == [w EXCEPT !.wrote = TRUE]
<1>1. /\ w \in IndexWrite /\ w.run \in Run /\ w.at \in Nat \ {0}
      /\ done \in IndexWrite /\ done.run = w.run /\ done.at = w.at /\ done.onHill = w.onHill
      /\ done.revision = w.revision
  BY DEF LiveInv, LiveTypes, IndexWrite
<1>2. CopyOf(done.run, done) = CopyOf(w.run, w)
  BY <1>1 DEF CopyOf
<1>3. \A v \in writes' : v \in writes \/ (v = done /\ Lands(w))
  OBVIOUS
<1> HIDE DEF done
<1>4. rows' \in [Run -> Version] /\ landed' \in [Run -> Nat] /\ writes' \in SUBSET IndexWrite
  BY <1>1, <1>3, RowLemma DEF LiveInv, LiveTypes
<1>row. \A r \in Run :
        \/ rows'[r] = rows[r] /\ landed'[r] = landed[r]
        \/ /\ r = w.run /\ rows'[r].at = w.at
           /\ landed'[r] = (IF w.at > landed[r] THEN w.at ELSE landed[r])
           /\ owed[r] = Never => r \in Listed /\ w.at < landed[r]
  BY RowLemma
<1>5. LiveTypes'
  BY <1>4 DEF LiveInv, LiveTypes
<1>6. CopyOf(w.run, w) \in Written
  BY DEF Written
<1>7. Copies' \in SUBSET Copies
  <2>1. UNCHANGED <<OnPage, InRuns>>
    BY DEF OnPage, InRuns
  <2>2. InD1' \in SUBSET (InD1 \union Written)
    BY <1>6, RowLemma
  <2>3. Written' \in SUBSET Written
    BY <1>2, <1>3, <1>6 DEF Written
  <2> QED
    BY <2>1, <2>2, <2>3 DEF Copies
<1>8. Told'
  BY <1>7, ToldKept DEF LiveInv
<1>9. \A r \in Run : landed[r] \in Nat /\ landed'[r] \in Nat /\ landed[r] <= landed'[r]
  <2>1. \A r \in Run : landed[r] \in Nat /\ landed'[r] \in Nat
    BY <1>4 DEF LiveInv, LiveTypes
  <2> QED
    BY <1>1, <1>row, <2>1
<1>10. RowsInv'
  <2> SUFFICES ASSUME NEW r \in Run PROVE RowOK(r)'
    BY DEF RowsInv
  <2>1. RowOK(r) /\ current[r].at \in Nat /\ rows[r].at \in Nat /\ landed[r] \in Nat
    BY DEF LiveInv, RowsInv, LiveTypes, Version
  <2>2. w.run = r => w.at <= current[r].at /\ w.at # Never
    BY <1>1 DEF LiveInv, WritesInv, WriteOK, Never
  <2>3. CASE rows'[r] = rows[r] /\ landed'[r] = landed[r]
    BY <2>1, <2>3 DEF RowOK
  <2>4. CASE /\ r = w.run /\ rows'[r].at = w.at
             /\ landed'[r] = (IF w.at > landed[r] THEN w.at ELSE landed[r])
             /\ owed[r] = Never => r \in Listed /\ w.at < landed[r]
    BY <1>1, <2>1, <2>2, <2>4 DEF RowOK
  <2> QED
    BY <1>row, <2>3, <2>4
<1>11. WritesInv'
  <2>1. ASSUME NEW v \in writes' PROVE WriteOK(v)'
    <3>1. CASE v \in writes
      <4>1. WriteOK(v) /\ v.run \in Run /\ v.at \in Nat
        BY <3>1 DEF LiveInv, WritesInv, LiveTypes, IndexWrite
      <4> QED
        BY <1>9, <4>1 DEF WriteOK
    <3>2. CASE v = done /\ Lands(w)
      <4>1. WriteOK(w)
        BY DEF LiveInv, WritesInv
      <4>2. landed'[w.run] = (IF w.at > landed[w.run] THEN w.at ELSE landed[w.run])
        BY <1>1, <3>2, LandsLemma
      <4>3. w.at <= landed'[w.run]
        BY <1>1, <1>9, <4>2
      <4> QED
        BY <1>1, <3>2, <4>1, <4>3 DEF WriteOK
    <3> QED
      BY <1>3, <3>1, <3>2
  <2>2. ASSUME NEW v \in writes', NEW u \in writes', u.run = v.run, u.revision = v.revision
        PROVE  u = v
    <3>1. \A x \in writes' : (x \in writes /\ x # w) \/ x = done
      BY DEF done
    <3>2. \A x, y \in writes : x.run = y.run /\ x.revision = y.revision => x = y
      BY DEF LiveInv, WritesInv
    <3> QED
      BY <1>1, <2>2, <3>1, <3>2
  <2> QED
    BY <2>1, <2>2 DEF WritesInv
<1>12. SeenInv'
  <2>1. \A s \in OnPage : s.run \in Run /\ s.at \in Nat /\ s.at <= landed[s.run]
    BY PageCopies DEF Summary
  <2>2. OnPage' = OnPage
    BY DEF OnPage
  <2>3. \A s \in OnPage : s.at <= landed'[s.run]
    BY <1>9, <2>1
  <2> QED
    BY <2>2, <2>3 DEF SeenInv
<1>13. OneEach(list') /\ OpenedInv'
  BY DEF LiveInv, OpenedInv
<1>14. BroughtInv'
  <2>1. Listed' = Listed \/ Listed' = Listed \union {w.run}
    BY RowLemma
  <2>2. IsFiniteSet(Listed') /\ (ListFits' => ListFits)
    <3>1. IsFiniteSet(Listed)
      BY DEF LiveInv, BroughtInv
    <3>2. IsFiniteSet(Listed')
      BY <2>1, <3>1, FS_AddElement
    <3>3. Cardinality(Listed) <= Cardinality(Listed')
      BY <2>1, <3>2, FS_Subset
    <3>4. Cardinality(Listed) \in Nat /\ Cardinality(Listed') \in Nat
      BY <3>1, <3>2, FS_CardinalityType
    <3> QED
      BY <3>2, <3>3, <3>4, RunsLiveAssumption DEF ListFits
  <2>3. ASSUME socket' = "up", ListFits', NEW r \in Listed', owed'[r] = Never PROVE Brought(r)'
    <3>1. r \in Listed /\ (Goal(r)' = Goal(r) \/ Goal(r)' = Never)
      <4>1. r \in Run /\ owed[r] = Never /\ landed[r] \in Nat /\ landed'[r] \in Nat
        BY <1>9, <2>3 DEF Listed
      <4>2. CASE rows'[r] = rows[r] /\ landed'[r] = landed[r]
        <5>1. rows'[r] # Unborn
          BY <2>3 DEF Listed
        <5> QED
          BY <4>1, <4>2, <5>1 DEF Goal, Listed
      <4>3. CASE /\ r = w.run /\ rows'[r].at = w.at
                 /\ landed'[r] = (IF w.at > landed[r] THEN w.at ELSE landed[r])
                 /\ owed[r] = Never => r \in Listed /\ w.at < landed[r]
        BY <1>1, <4>1, <4>3 DEF Goal
      <4> QED
        BY <1>row, <4>1, <4>2, <4>3
    <3>2. Brought(r)
      BY <2>2, <2>3, <3>1 DEF LiveInv, BroughtInv
    <3>3. \A copies : Has(copies, r, Goal(r)) => Has(copies, r, Goal(r)')
      BY <3>1 DEF Has
    <3> QED
      BY <3>2, <3>3 DEF Brought
  <2> QED
    BY <2>2, <2>3 DEF BroughtInv
<1> QED
  BY <1>5, <1>8, <1>10, <1>11, <1>12, <1>13, <1>14 DEF LiveInv

LEMMA UpsertRunKeeps == ASSUME LiveInv, NEW w \in writes, UpsertRun(w) PROVE LiveInv'
  BY RowWritten DEF UpsertRun, pageVars

LEMMA AnnounceKeeps == ASSUME LiveInv, NEW w \in writes, Announce(w) PROVE LiveInv'
<1> DEFINE copy == CopyOf(w.run, w)
           clears == owed[w.run] = w.revision
<1>1. /\ w.wrote /\ writes' = writes \ {w}
      /\ \/ Sends(w) /\ owed' = [owed EXCEPT ![w.run] = IF clears THEN Never ELSE owed[w.run]]
         \/ (Sends(w) \/ UNCHANGED frames) /\ UNCHANGED owed
      /\ UNCHANGED <<current, rows, landed, list, clock, socket, fetches, refetched>>
  BY DEF Announce, pageVars
<1>2. /\ w \in IndexWrite /\ w.run \in Run /\ w.at \in Nat \ {0} /\ LiveTypes
      /\ WriteOK(w) /\ RowOK(w.run)
      /\ landed[w.run] \in Nat /\ current[w.run].at \in Nat
  BY DEF LiveInv, LiveTypes, IndexWrite, WritesInv, RowsInv, Version
<1>3. copy \in Summary /\ copy \in Written /\ copy.run = w.run /\ copy.at = w.at
  BY <1>2 DEF CopyOf, Summary, Written, IndexWrite
<1>4. w.at <= landed[w.run]
  BY <1>1, <1>2 DEF WriteOK
<1>5. clears => owed[w.run] = current[w.run].at /\ w.at = current[w.run].at
                /\ landed[w.run] = current[w.run].at
  BY <1>2, <1>4 DEF WriteOK, RowOK, Never
<1>6. Sends(w) => frames' = IF socket = "down" THEN frames ELSE Append(frames, copy)
  BY DEF Sends, CopyOf
<1> HIDE DEF copy
<1>7. /\ frames' \in Seq(Summary) /\ Elements(frames) \in SUBSET Elements(frames')
      /\ Elements(frames') \in SUBSET (Elements(frames) \union {copy})
      /\ Sends(w) /\ socket = "up" => copy \in Elements(frames')
  <2>1. CASE frames' = frames
    <3>1. Sends(w) /\ socket = "up" => frames' = Append(frames, copy)
      BY <1>6
    <3>2. Elements(Append(frames, copy)) = Elements(frames) \union {copy}
      BY <1>2, <1>3, ElementsAppend DEF LiveTypes
    <3>3. Sends(w) /\ socket = "up" => copy \in Elements(frames')
      BY <3>1, <3>2
    <3> QED
      BY <1>2, <2>1, <3>3 DEF LiveTypes
  <2>2. CASE frames' = Append(frames, copy)
    BY <1>2, <1>3, <2>2, ElementsAppend DEF LiveTypes
  <2> QED
    BY <1>1, <1>6, <2>1, <2>2
<1>8. /\ owed' \in [Run -> Nat]
      /\ \A r \in Run : owed'[r] = owed[r] \/ (r = w.run /\ clears /\ owed'[r] = Never /\ Sends(w))
  <2>1. CASE UNCHANGED owed
    BY <1>2, <2>1 DEF LiveTypes
  <2>2. CASE Sends(w) /\ owed' = [owed EXCEPT ![w.run] = IF clears THEN Never ELSE owed[w.run]]
    BY <1>2, <2>2 DEF LiveTypes, Never
  <2> QED
    BY <1>1, <2>1, <2>2
<1> HIDE DEF clears
<1>9. LiveTypes'
  BY <1>1, <1>2, <1>7, <1>8 DEF LiveTypes
<1>10. OnPage' \in SUBSET (OnPage \union {copy})
  BY <1>1, <1>7 DEF OnPage
<1>11. Copies' \in SUBSET Copies
  <2>1. UNCHANGED <<InD1, InRuns>> /\ Written' \in SUBSET Written
    BY <1>1 DEF InD1, InRuns, Written, Listed
  <2> QED
    BY <1>3, <1>10, <2>1 DEF Copies
<1>12. Told'
  BY <1>11, ToldKept DEF LiveInv
<1>13. RowsInv'
  <2> SUFFICES ASSUME NEW r \in Run PROVE RowOK(r)'
    BY DEF RowsInv
  <2>1. RowOK(r)
    BY DEF LiveInv, RowsInv
  <2> QED
    BY <1>1, <1>5, <1>8, <2>1 DEF RowOK
<1>14. WritesInv'
  <2>1. \A v, u \in writes : u.run = v.run /\ u.revision = v.revision => u = v
    BY DEF LiveInv, WritesInv
  <2>2. ASSUME NEW v \in writes' PROVE WriteOK(v)'
    <3>1. WriteOK(v) /\ v \in writes /\ v # w /\ v.run \in Run /\ v.at \in Nat
      BY <1>1, <1>2 DEF LiveInv, WritesInv, LiveTypes, IndexWrite
    <3>2. v.run = w.run => v.at # w.at
      BY <1>2, <2>1, <3>1 DEF WriteOK
    <3>3. current[v.run].at \in Nat
      BY <1>2, <3>1 DEF LiveTypes, Version
    <3> QED
      BY <1>1, <1>2, <1>5, <1>8, <3>1, <3>2, <3>3 DEF WriteOK
  <2> QED
    BY <1>1, <2>1, <2>2 DEF WritesInv
<1>15. SeenInv'
  <2>1. \A s \in OnPage : s.at <= landed[s.run]
    BY DEF LiveInv, SeenInv
  <2> QED
    BY <1>1, <1>3, <1>4, <1>10, <2>1 DEF SeenInv
<1>16. OneEach(list') /\ OpenedInv'
  BY <1>1 DEF LiveInv, OpenedInv
<1>17. BroughtInv'
  <2>1. UNCHANGED Listed
    BY <1>1 DEF Listed
  <2>2. ASSUME socket' = "up", ListFits, NEW r \in Listed, owed'[r] = Never PROVE Brought(r)'
    <3>1. Goal(r)' = Goal(r)
      BY <1>1 DEF Goal
    <3>2. CASE owed[r] = Never
      <4>1. Brought(r)
        BY <1>1, <2>2, <3>2 DEF LiveInv, BroughtInv
      <4>2. list \union Elements(frames) \subseteq list' \union Elements(frames')
        BY <1>1, <1>7
      <4> QED
        BY <1>1, <3>1, <4>1, <4>2, HasMore DEF Brought
    <3>3. CASE owed[r] # Never
      <4>1. r = w.run /\ clears /\ Sends(w)
        BY <1>8, <2>2, <3>3 DEF Listed
      <4>2. copy \in Elements(frames') /\ Goal(r) \in {Never, copy.at}
        BY <1>1, <1>3, <1>5, <1>7, <2>2, <4>1 DEF Goal
      <4> QED
        BY <1>3, <3>1, <4>1, <4>2 DEF Brought, Has
    <3> QED
      BY <3>2, <3>3
  <2> QED
    BY <2>1, <2>2 DEF LiveInv, BroughtInv, ListFits
<1> QED
  BY <1>9, <1>12, <1>13, <1>14, <1>15, <1>16, <1>17 DEF LiveInv

------------------------------------------------------------------------------

LEMMA LiveKeeps == LiveInv /\ [LiveNext]_liveVars => LiveInv'
<1> SUFFICES ASSUME LiveInv, [LiveNext]_liveVars PROVE LiveInv'
  OBVIOUS
<1>1. CASE UNCHANGED liveVars
  BY <1>1, AskingKeeps DEF liveVars, runVars
<1>2. CASE Poll \/ OnVisibility
  BY <1>2, AskingKeeps DEF Poll, OnVisibility
<1> QED
  BY <1>1, <1>2, UpdateKeeps, IndexKeeps, UpsertRunKeeps, AnnounceKeeps, ConnectKeeps, OnOpenKeeps,
     OnMessageKeeps, OnCloseKeeps, AnsweredKeeps, FetchedKeeps DEF LiveNext

LEMMA LiveBegins == LiveInit => LiveInv
<1> SUFFICES ASSUME LiveInit PROVE LiveInv
  OBVIOUS
<1>1. Unborn \in Version /\ Unborn.at = Never /\ Never \in Nat
  BY DEF Unborn, Never, Version
<1>2. LiveTypes
  <2>1. <<>> \in Seq(Summary) /\ <<>> \in Seq(FetchType)
    OBVIOUS
  <2>2. [r \in Run |-> Unborn] \in [Run -> Version] /\ [r \in Run |-> Never] \in [Run -> Nat]
    BY <1>1
  <2> QED
    BY <2>1, <2>2 DEF LiveInit, LiveTypes
<1>3. Elements(frames) = {} /\ Elements(fetches) = {}
  BY DEF LiveInit, Elements
<1>4. OnPage = {} /\ Listed = {} /\ InD1 = {} /\ Written = {}
  BY <1>3 DEF LiveInit, OnPage, Listed, InD1, Written
<1>5. InRuns = {}
  BY <1>1 DEF LiveInit, InRuns
<1>6. Told
  <2>1. [r \in Run |-> [n \in Nat |-> TRUE]] \in [Run -> [Nat -> BOOLEAN]]
    OBVIOUS
  <2> QED
    BY <1>4, <1>5, <2>1 DEF Told, Copies
<1>7. RowsInv /\ WritesInv
  BY <1>1 DEF LiveInit, RowsInv, RowOK, WritesInv, Never
<1>8. IsFiniteSet(Listed)
  BY <1>4, FS_EmptySet
<1> QED
  BY <1>2, <1>3, <1>4, <1>6, <1>7, <1>8
     DEF LiveInv, SeenInv, OneEach, OpenedInv, BroughtInv, LiveInit

(* An open list that nothing is owed shows each run there is as D1 has it, for any number of     *)
(* runs that fit, updates, fetches and failures, whatever crosses on the way.                    *)
THEOREM ListTheorem == LiveSpec => []ListIsCurrent
<1>1. LiveInv => ListIsCurrent
  <2> SUFFICES ASSUME LiveInv, Quiet, ListFits
               PROVE  /\ {s.run : s \in list} = Listed
                      /\ \A s \in list : InStep(s.run) =>
                           s.at = rows[s.run].at /\ s.onHill = rows[s.run].onHill
    BY DEF ListIsCurrent, ListFits
  <2>1. Elements(frames) = {} /\ Elements(fetches) = {}
    BY DEF Quiet, Elements
  <2>2. \A r \in Listed : Has(list, r, Goal(r))
    <3> SUFFICES ASSUME NEW r \in Listed PROVE Has(list, r, Goal(r))
      OBVIOUS
    <3>1. Brought(r)
      BY DEF LiveInv, BroughtInv, Quiet, Listed
    <3> QED
      BY <2>1, <3>1 DEF Brought, Quiet
  <2>3. /\ list \subseteq Copies /\ list \subseteq Summary /\ \A s \in list : s.run \in Listed
        /\ \A s \in Copies, t \in Copies : s.run = t.run /\ s.at = t.at => s = t
    BY PageCopies DEF OnPage, Copies
  <2>4. {s.run : s \in list} = Listed
    BY <2>2, <2>3 DEF Has
  <2>5. ASSUME NEW s \in list, InStep(s.run)
        PROVE  s.at = rows[s.run].at /\ s.onHill = rows[s.run].onHill
    <3> DEFINE r == s.run
               copy == CopyOf(r, rows[r])
    <3>1. r \in Listed /\ r \in Run
      BY <2>3 DEF Listed
    <3>2. PICK t \in list : t.run = r /\ Goal(r) \in {Never, t.at}
      BY <2>2, <3>1 DEF Has
    <3>3. t = s
      BY <3>2 DEF LiveInv, OneEach
    <3>4. rows[r].at = landed[r] /\ landed[r] \in Nat /\ rows[r] # Unborn
      BY <2>5, <3>1 DEF InStep, LiveInv, LiveTypes, Listed
    <3>5. landed[r] # Never
      BY <3>1, <3>4 DEF LiveInv, RowsInv, RowOK
    <3>6. s.at = rows[r].at
      BY <3>2, <3>3, <3>4, <3>5 DEF Goal
    <3>7. copy \in Copies /\ copy.run = r /\ copy.at = rows[r].at /\ copy.onHill = rows[r].onHill
      BY <3>1 DEF Copies, InD1, CopyOf
    <3>8. s = copy
      BY <2>3, <3>6, <3>7
    <3> QED
      BY <3>6, <3>7, <3>8
  <2> QED
    BY <2>4, <2>5
<1> QED
  BY <1>1, LiveBegins, LiveKeeps, PTL DEF LiveSpec
=============================================================================
