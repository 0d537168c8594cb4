--------------------------- MODULE Budgets_proofs ---------------------------
(***************************************************************************)
(* The budgets of a workspace, for every number of intervals, every        *)
(* amount, and every number of mishaps and edits: what order budget_writes *)
(* sends its writes in, why the server's ordering rule then refuses only   *)
(* writes of one shape, and why nothing is issued before the budgets are   *)
(* in force.                                                               *)
(***************************************************************************)
EXTENDS Budgets, FiniteSetTheorems, SequenceTheorems, WellFoundedInduction, TLAPS

-----------------------------------------------------------------------------
(* A set of intervals, sorted.                                             *)

Increasing(s) == \A p, q \in DOMAIN s : p < q => s[p] < s[q]
Sortable(n) == \A S \in SUBSET (1..n) :
                 \E s \in [1..Cardinality(S) -> S] : Increasing(s)

(* The widest interval is appended to the others, sorted.                  *)
LEMMA SortableStep ==
  ASSUME NEW n \in Nat, Sortable(n)
  PROVE  Sortable(n + 1)
<1> SUFFICES ASSUME NEW S \in SUBSET (1..n + 1)
             PROVE  \E s \in [1..Cardinality(S) -> S] : Increasing(s)
  BY DEF Sortable
<1>1. CASE n + 1 \notin S
  <2>1. S \in SUBSET (1..n)
    BY <1>1
  <2> QED BY <2>1 DEF Sortable
<1>2. CASE n + 1 \in S
  <2> DEFINE T == S \ {n + 1}
             m == Cardinality(T)
  <2>1. T \in SUBSET (1..n)
    OBVIOUS
  <2>2. IsFiniteSet(S)
    <3>1. IsFiniteSet(1..n + 1)
      BY FS_Interval
    <3> QED BY <3>1, FS_Subset
  <2>3. IsFiniteSet(T) /\ m = Cardinality(S) - 1 /\ m \in Nat /\ Cardinality(S) \in Nat
    BY <1>2, <2>2, FS_RemoveElement, FS_CardinalityType
  <2>4. PICK t \in [1..m -> T] : Increasing(t)
    BY <2>1 DEF Sortable
  <2> HIDE DEF m
  <2> DEFINE s == [i \in 1..Cardinality(S) |-> IF i = m + 1 THEN n + 1 ELSE t[i]]
  <2>5. s \in [1..Cardinality(S) -> S]
    BY <1>2, <2>3, <2>4
  <2>6. ASSUME NEW p \in DOMAIN s, NEW q \in DOMAIN s, p < q
        PROVE  s[p] < s[q]
    <3>1. p \in 1..m /\ q \in 1..m + 1
      <4>1. DOMAIN s = 1..m + 1
        BY <2>3
      <4> QED BY <2>3, <2>6, <4>1
    <3>2. s[p] = t[p] /\ t[p] \in T
      BY <2>3, <2>4, <3>1
    <3>3. CASE q = m + 1
      <4>1. s[q] = n + 1
        BY <2>3, <3>1, <3>3
      <4>2. t[p] \in 1..n
        BY <2>1, <3>2
      <4> HIDE DEF s
      <4> QED BY <3>2, <4>1, <4>2
    <3>4. CASE q # m + 1
      <4>1. q \in 1..m /\ s[q] = t[q]
        BY <2>3, <3>1, <3>4
      <4> QED BY <2>4, <2>6, <3>1, <3>2, <4>1 DEF Increasing
    <3> QED BY <3>3, <3>4
  <2> HIDE DEF s
  <2>7. Increasing(s)
    BY <2>6 DEF Increasing
  <2> QED BY <2>5, <2>7
<1> QED BY <1>1, <1>2

LEMMA AlwaysSortable ==
  ASSUME NEW n \in Nat
  PROVE  Sortable(n)
<1> DEFINE R == {p \in Nat \X Nat : p[1] < p[2]}
           Bad == {k \in Nat : ~Sortable(k)}
<1>1. IsWellFoundedOn(R, Nat)
  BY NatLessThanWellFounded DEF OpToRel
<1>2. Bad \subseteq Nat
  OBVIOUS
<1> HIDE DEF R
<1>3. SUFFICES ASSUME Bad # {}
               PROVE  FALSE
  OBVIOUS
<1>4. PICK k \in Bad : \A j \in Bad : <<j, k>> \notin R
  BY <1>1, <1>2, <1>3, WFMin
<1>5. CASE k = 0
  <2>1. \A S \in SUBSET (1..0) : S = {}
    OBVIOUS
  <2>2. <<>> \in [1..0 -> {}] /\ Increasing(<<>>)
    BY DEF Increasing
  <2> QED BY <1>4, <1>5, <2>1, <2>2, FS_EmptySet DEF Sortable
<1>6. CASE k # 0
  <2>1. k - 1 \in Nat /\ k \in Nat /\ k - 1 < k /\ (k - 1) + 1 = k
    BY <1>4, <1>6
  <2>2. k - 1 \notin Bad
    BY <1>4, <2>1 DEF R
  <2> QED BY <1>4, <2>1, <2>2, SortableStep
<1> QED BY <1>5, <1>6

LEMMA IntervalsAreIntegers == \A i \in Interval : i \in Int
BY BoundsAssumption DEF Interval

(* Sorting lists every interval of the set, once, narrowest first.         *)
LEMMA Sorted ==
  ASSUME NEW S \in SUBSET Interval
  PROVE  LET s == NarrowestFirst(S)
         IN s \in Seq(S) /\ ToSet(s) = S /\ Increasing(s)
<1> DEFINE n == Cardinality(S)
           s == NarrowestFirst(S)
<1>1. Widest \in Nat
  BY BoundsAssumption
<1>2. IsFiniteSet(S) /\ n \in Nat
  <2>1. IsFiniteSet(Interval)
    BY <1>1, FS_Interval DEF Interval
  <2> QED BY <2>1, FS_Subset, FS_CardinalityType
<1>3. \E t \in [1..n -> S] : Increasing(t)
  BY <1>1, AlwaysSortable DEF Sortable, Interval
<1>4. s \in [1..n -> S] /\ Increasing(s)
  <2>1. s = CHOOSE t \in [1..n -> S] : Increasing(t)
    BY DEF NarrowestFirst, Increasing
  <2> QED BY <1>3, <2>1
<1> HIDE DEF s
<1>5. s \in Injection(1..n, S)
  <2> SUFFICES ASSUME NEW p \in 1..n, NEW q \in 1..n, s[p] = s[q]
               PROVE  p = q
    BY <1>4 DEF Injection, IsInjective
  <2>1. s[p] \in Int /\ s[q] \in Int
    BY <1>4, IntervalsAreIntegers
  <2> QED BY <1>2, <1>4, <2>1 DEF Increasing
<1>6. s \in Surjection(1..n, S)
  <2> HIDE DEF n
  <2>1. Cardinality(1..n) = n
    BY <1>2, FS_Interval
  <2> QED BY <1>2, <1>5, <2>1, FS_Injection DEF n
<1>7. ToSet(s) = S
  BY <1>4, <1>6 DEF Surjection, ToSet
<1>8. s \in Seq(S)
  BY <1>2, <1>4, SeqDef
<1> QED BY <1>4, <1>7, <1>8 DEF s

Decreasing(s) == \A p, q \in DOMAIN s : p < q => s[p] > s[q]

LEMMA SortedWidest ==
  ASSUME NEW S \in SUBSET Interval
  PROVE  LET s == WidestFirst(S)
         IN s \in Seq(S) /\ ToSet(s) = S /\ Decreasing(s)
<1> DEFINE t == NarrowestFirst(S)
           s == WidestFirst(S)
<1>1. t \in Seq(S) /\ ToSet(t) = S /\ Increasing(t)
  BY Sorted
<1>2. s = [i \in 1..Len(t) |-> t[(Len(t) - i) + 1]]
  BY DEF WidestFirst, Reverse
<1>3. Len(t) \in Nat /\ DOMAIN t = 1..Len(t) /\ \A i \in DOMAIN t : t[i] \in S
  BY <1>1, LenProperties, ElementOfSeq
<1> HIDE DEF t, s
<1>4. s \in [1..Len(t) -> S]
  BY <1>2, <1>3
<1>5. s \in Seq(S)
  BY <1>3, <1>4, SeqDef
<1>6. ToSet(s) = S
  <2>1. ASSUME NEW x \in S PROVE x \in ToSet(s)
    <3>1. PICK i \in 1..Len(t) : t[i] = x
      BY <1>1, <1>3 DEF ToSet
    <3>2. (Len(t) - i) + 1 \in 1..Len(t) /\ (Len(t) - ((Len(t) - i) + 1)) + 1 = i
      BY <1>3
    <3> QED BY <1>2, <3>1, <3>2 DEF ToSet
  <2> QED BY <1>4, <2>1 DEF ToSet
<1>7. Decreasing(s)
  <2> SUFFICES ASSUME NEW p \in DOMAIN s, NEW q \in DOMAIN s, p < q
               PROVE  s[p] > s[q]
    BY DEF Decreasing
  <2> DEFINE P == (Len(t) - p) + 1
             Q == (Len(t) - q) + 1
  <2>1. P \in 1..Len(t) /\ Q \in 1..Len(t) /\ Q < P /\ s[p] = t[P] /\ s[q] = t[Q]
    BY <1>2, <1>3
  <2> HIDE DEF P, Q
  <2>2. t[Q] < t[P]
    BY <1>1, <1>3, <2>1 DEF Increasing
  <2>3. t[Q] \in Int /\ t[P] \in Int
    BY <1>3, <2>1, IntervalsAreIntegers
  <2> QED BY <2>1, <2>2, <2>3
<1> QED BY <1>5, <1>6, <1>7 DEF s

-----------------------------------------------------------------------------
(* The order of budget_writes: deletes, increases, decreases, carriers.    *)

Writes(block, read) == Changed(block, read) \cup Carriers(block, read)

(* i is written before j.                                                  *)
Precedes(block, read, i, j) ==
  \/ i \in Deleted(block, read) /\ j \in Deleted(block, read) /\ i < j
  \/ i \in Deleted(block, read) /\ j \notin Deleted(block, read)
  \/ i \in Increased(block, read) /\ j \in Increased(block, read) /\ i > j
  \/ i \in Increased(block, read) /\ j \in Decreased(block, read) \cup Carriers(block, read)
  \/ i \in Decreased(block, read) /\ j \in Decreased(block, read) /\ i < j
  \/ i \in Decreased(block, read) /\ j \in Carriers(block, read)
  \/ i \in Carriers(block, read) /\ j \in Carriers(block, read) /\ i > j

Queue(block, read, left) ==
  \A p, q \in DOMAIN left : p < q => Precedes(block, read, left[p], left[q])

LEMMA Classes ==
  ASSUME NEW block \in Block, NEW read
  PROVE  /\ Deleted(block, read) \subseteq Interval
         /\ Increased(block, read) \subseteq Interval
         /\ Decreased(block, read) \subseteq Interval
         /\ Carriers(block, read) \subseteq Interval
         /\ Changed(block, read) = Deleted(block, read) \cup Increased(block, read)
                                   \cup Decreased(block, read)
         /\ Deleted(block, read) \cap Increased(block, read) = {}
         /\ Deleted(block, read) \cap Decreased(block, read) = {}
         /\ Increased(block, read) \cap Decreased(block, read) = {}
         /\ Changed(block, read) \cap Carriers(block, read) = {}
BY DEF Deleted, Increased, Decreased, Carriers, Changed

LEMMA NotTwice ==
  ASSUME NEW block \in Block, NEW read, NEW i \in Writes(block, read)
  PROVE  ~Precedes(block, read, i, i)
<1>1. i \in Int
  BY Classes, IntervalsAreIntegers DEF Writes
<1> QED BY <1>1, Classes DEF Precedes

(* Two queues, one after the other.                                        *)
LEMMA QueueConcat ==
  ASSUME NEW block \in Block, NEW read, NEW s \in Seq(Interval), NEW t \in Seq(Interval),
         Queue(block, read, s), Queue(block, read, t),
         \A i \in ToSet(s), j \in ToSet(t) : Precedes(block, read, i, j)
  PROVE  /\ s \o t \in Seq(Interval)
         /\ ToSet(s \o t) = ToSet(s) \cup ToSet(t)
         /\ Queue(block, read, s \o t)
<1> DEFINE u == s \o t
<1>1. /\ u \in Seq(Interval)
      /\ Len(u) = Len(s) + Len(t)
      /\ \A i \in 1..Len(s) + Len(t) : u[i] = IF i <= Len(s) THEN s[i] ELSE t[i - Len(s)]
  BY ConcatProperties
<1>2. /\ Len(s) \in Nat /\ DOMAIN s = 1..Len(s)
      /\ Len(t) \in Nat /\ DOMAIN t = 1..Len(t)
      /\ DOMAIN u = 1..Len(s) + Len(t)
  BY <1>1, LenProperties
<1> HIDE DEF u
<1>3. ASSUME NEW p \in 1..Len(s)
      PROVE  p \in DOMAIN u /\ u[p] = s[p]
  BY <1>1, <1>2
<1>4. ASSUME NEW p \in 1..Len(t)
      PROVE  Len(s) + p \in DOMAIN u /\ u[Len(s) + p] = t[p]
  <2>1. /\ Len(s) + p \in 1..Len(s) + Len(t)
        /\ ~(Len(s) + p <= Len(s))
        /\ (Len(s) + p) - Len(s) = p
    BY <1>2
  <2> QED BY <1>1, <1>2, <2>1
<1>5. ASSUME NEW p \in DOMAIN u
      PROVE  \/ p \in 1..Len(s) /\ u[p] = s[p]
             \/ p - Len(s) \in 1..Len(t) /\ u[p] = t[p - Len(s)] /\ p > Len(s)
  BY <1>1, <1>2
<1>6. ToSet(u) = ToSet(s) \cup ToSet(t)
  BY <1>2, <1>3, <1>4, <1>5 DEF ToSet
<1>7. Queue(block, read, u)
  <2> SUFFICES ASSUME NEW p \in DOMAIN u, NEW q \in DOMAIN u, p < q
               PROVE  Precedes(block, read, u[p], u[q])
    BY DEF Queue
  <2>1. CASE q \in 1..Len(s)
    <3>1. p \in 1..Len(s) /\ u[p] = s[p] /\ u[q] = s[q]
      BY <1>2, <1>3, <2>1
    <3> QED BY <1>2, <2>1, <3>1 DEF Queue
  <2>2. CASE p \in 1..Len(s) /\ q \notin 1..Len(s)
    <3>1. u[p] \in ToSet(s) /\ u[q] \in ToSet(t)
      BY <1>2, <1>3, <1>5, <2>2 DEF ToSet
    <3> QED BY <3>1
  <2>3. CASE p \notin 1..Len(s) /\ q \notin 1..Len(s)
    <3>1. /\ p - Len(s) \in DOMAIN t /\ u[p] = t[p - Len(s)]
          /\ q - Len(s) \in DOMAIN t /\ u[q] = t[q - Len(s)]
      BY <1>2, <1>5, <2>3
    <3>2. p - Len(s) < q - Len(s)
      BY <1>2
    <3> QED BY <3>1, <3>2 DEF Queue
  <2> QED BY <2>1, <2>2, <2>3
<1> QED BY <1>1, <1>6, <1>7 DEF u

LEMMA WritesInOrder ==
  ASSUME NEW block \in Block, NEW read
  PROVE  LET w == BudgetWrites(block, read)
         IN /\ w \in Seq(Interval)
            /\ ToSet(w) = Writes(block, read)
            /\ Queue(block, read, w)
<1> DEFINE del == NarrowestFirst(Deleted(block, read))
           inc == WidestFirst(Increased(block, read))
           dec == NarrowestFirst(Decreased(block, read))
           car == WidestFirst(Carriers(block, read))
<1>1. del \in Seq(Interval) /\ ToSet(del) = Deleted(block, read) /\ Increasing(del)
  BY Classes, Sorted, SeqMonotonic
<1>2. inc \in Seq(Interval) /\ ToSet(inc) = Increased(block, read) /\ Decreasing(inc)
  BY Classes, SortedWidest, SeqMonotonic
<1>3. dec \in Seq(Interval) /\ ToSet(dec) = Decreased(block, read) /\ Increasing(dec)
  BY Classes, Sorted, SeqMonotonic
<1>4. car \in Seq(Interval) /\ ToSet(car) = Carriers(block, read) /\ Decreasing(car)
  BY Classes, SortedWidest, SeqMonotonic
<1>5. BudgetWrites(block, read) = del \o inc \o dec \o car
  BY DEF BudgetWrites
<1> HIDE DEF del, inc, dec, car
<1>6. Queue(block, read, del)
  BY <1>1 DEF Queue, Increasing, Precedes, ToSet
<1>7. Queue(block, read, inc)
  BY <1>2 DEF Queue, Decreasing, Precedes, ToSet
<1>8. Queue(block, read, dec)
  BY <1>3 DEF Queue, Increasing, Precedes, ToSet
<1>9. Queue(block, read, car)
  BY <1>4 DEF Queue, Decreasing, Precedes, ToSet
<1> DEFINE two == del \o inc
<1>10. /\ two \in Seq(Interval)
       /\ ToSet(two) = Deleted(block, read) \cup Increased(block, read)
       /\ Queue(block, read, two)
  <2>1. \A i \in ToSet(del), j \in ToSet(inc) : Precedes(block, read, i, j)
    BY <1>1, <1>2, Classes DEF Precedes
  <2> QED BY <1>1, <1>2, <1>6, <1>7, <2>1, QueueConcat
<1> HIDE DEF two
<1> DEFINE three == two \o dec
<1>11. /\ three \in Seq(Interval)
       /\ ToSet(three) = Changed(block, read)
       /\ Queue(block, read, three)
  <2>1. \A i \in ToSet(two), j \in ToSet(dec) : Precedes(block, read, i, j)
    BY <1>3, <1>10, Classes DEF Precedes
  <2>2. /\ three \in Seq(Interval)
        /\ ToSet(three) = ToSet(two) \cup ToSet(dec)
        /\ Queue(block, read, three)
    BY <1>3, <1>8, <1>10, <2>1, QueueConcat
  <2> HIDE DEF three
  <2> QED BY <1>3, <1>10, <2>2, Classes
<1> HIDE DEF three
<1> DEFINE four == three \o car
<1>12. /\ four \in Seq(Interval)
       /\ ToSet(four) = Writes(block, read)
       /\ Queue(block, read, four)
  <2>1. \A i \in ToSet(three), j \in ToSet(car) : Precedes(block, read, i, j)
    BY <1>4, <1>11, Classes DEF Precedes
  <2> QED BY <1>4, <1>9, <1>11, <2>1, QueueConcat DEF Writes
<1>13. BudgetWrites(block, read) = four
  BY <1>5 DEF four, three, two
<1> QED BY <1>12, <1>13

-----------------------------------------------------------------------------
(* The invariant.                                                          *)

Runs == [at : {"idle", "writing", "issuing", "held"},
         read : Workspace \cup {Unread}, left : Seq(Interval), held : BOOLEAN,
         refused : SUBSET Interval, failed : SUBSET Interval,
         disturbed : BOOLEAN, landed : BOOLEAN]

Shapes == /\ want \in Block /\ remote \in Workspace /\ bound \in BOOLEAN
          /\ run \in Runs /\ inFlight \subseteq Requests
          /\ mishaps \in 0..MaxMishaps /\ edits \in 0..MaxEdits

Active == run.at # "idle"
Left == ToSet(run.left)
Sent == Writes(want, run.read) \ Left

(* What is left is the rest of budget_writes, and what was refused or      *)
(* declined was sent.                                                      *)
InOrder == Active =>
  /\ Queue(want, run.read, run.left)
  /\ Left \subseteq Writes(want, run.read)
  /\ \A i \in Sent, j \in Left : Precedes(want, run.read, i, j)
  /\ run.refused \cup run.failed \subseteq Sent

(* The run issues only after its writes, and only when none went wrong;    *)
(* what disturbs a run is a write that did, or one of an earlier run.      *)
Judged == Active =>
  /\ run.at # "writing" => run.left = <<>>
  /\ run.at = "issuing" => Converged
  /\ run.disturbed => run.failed # {} \/ run.landed
  /\ ~run.disturbed => run.failed = {}

(* Between runs nothing of the last one is kept; an unbound workspace is   *)
(* new.                                                                    *)
AtRest == ~Active => run = Idle
Unbound == ~bound => /\ run.at = "idle" /\ inFlight = {}
                     /\ remote = [budgets |-> NoBudgets, byok |-> "off"]

(* Undisturbed, the server holds what was read, but for the writes it took. *)
Took == Sent \ run.refused
Carried == ByokChanged(want, run.read) /\ \E i \in Took : want.budgets[i] # Absent
AsSent == Active /\ ~run.disturbed =>
  /\ \A i \in Interval :
       remote.budgets[i] = IF i \in Took THEN want.budgets[i] ELSE run.read.budgets[i]
  /\ remote.byok = IF Carried THEN want.byok
                   ELSE IF run.read = Unread THEN "off" ELSE run.read.byok

IInv == /\ Shapes /\ InOrder /\ Judged /\ AtRest /\ Unbound /\ AsSent
        /\ RefusedOnlyBesideAddition

LEMMA Amounts ==
  ASSUME NEW t \in Table
  PROVE  /\ t \in [Interval -> 0..MaxAmount] /\ Ordered(t)
         /\ \A i \in Interval : t[i] \in Int
BY BoundsAssumption DEF Table

LEMMA NoBudgetsIsTable == NoBudgets \in Table
BY BoundsAssumption DEF NoBudgets, Table, Ordered, Absent

LEMMA ReadShape ==
  ASSUME NEW read \in Workspace \cup {Unread}
  PROVE  read.budgets \in Table
BY NoBudgetsIsTable DEF Workspace, Unread

(* The first of a queue, and the rest of it.                               *)
LEMMA QueueTail ==
  ASSUME NEW block \in Block, NEW read, NEW s \in Seq(Interval), s # <<>>,
         Queue(block, read, s), ToSet(s) \subseteq Writes(block, read)
  PROVE  /\ Tail(s) \in Seq(Interval) /\ Head(s) \in ToSet(s) /\ Head(s) \in Interval
         /\ ToSet(Tail(s)) = ToSet(s) \ {Head(s)}
         /\ Queue(block, read, Tail(s))
         /\ \A j \in ToSet(Tail(s)) : Precedes(block, read, Head(s), j)
<1>1. /\ Tail(s) \in Seq(Interval) /\ Len(Tail(s)) = Len(s) - 1
      /\ \A i \in 1..Len(Tail(s)) : Tail(s)[i] = s[i + 1]
  BY HeadTailProperties
<1>2. /\ Len(s) \in Nat /\ Len(s) >= 1 /\ DOMAIN s = 1..Len(s)
      /\ DOMAIN Tail(s) = 1..Len(s) - 1 /\ Head(s) = s[1]
      /\ 1 \in DOMAIN s
  BY <1>1, LenProperties, EmptySeq
<1> DEFINE t == Tail(s)
           h == Head(s)
<1> HIDE DEF t, h
<1>3. ASSUME NEW i \in DOMAIN t
      PROVE  i + 1 \in DOMAIN s /\ t[i] = s[i + 1] /\ 1 < i + 1
  BY <1>1, <1>2 DEF t
<1>4. ASSUME NEW i \in DOMAIN s, i # 1
      PROVE  i - 1 \in DOMAIN t /\ t[i - 1] = s[i]
  <2>1. i - 1 \in 1..Len(s) - 1 /\ (i - 1) + 1 = i
    BY <1>2, <1>4
  <2> QED BY <1>1, <1>2, <2>1 DEF t
<1>5. \A j \in ToSet(t) : Precedes(block, read, h, j)
  BY <1>2, <1>3 DEF Queue, ToSet, h
<1>6. h \in ToSet(s) /\ h \in Interval
  BY <1>2, ElementOfSeq DEF ToSet, h
<1>7. h \notin ToSet(t)
  BY <1>5, <1>6, NotTwice
<1>8. ToSet(t) = ToSet(s) \ {h}
  BY <1>2, <1>3, <1>4, <1>7 DEF ToSet, h
<1>9. Queue(block, read, t)
  <2> SUFFICES ASSUME NEW p \in DOMAIN t, NEW q \in DOMAIN t, p < q
               PROVE  Precedes(block, read, t[p], t[q])
    BY DEF Queue
  <2>1. p + 1 < q + 1
    BY <1>2 DEF t
  <2> QED BY <1>3, <2>1 DEF Queue
<1> QED BY <1>1, <1>5, <1>6, <1>8, <1>9 DEF t, h

(* The argument for the order of budget_writes.  Nothing but the run's own *)
(* writes has touched the table, so every interval holds what was read or  *)
(* what is wanted.  Both tables are ordered, so a write the rule refuses   *)
(* meets an interval that is still to be written: as everything is deleted *)
(* first, increases go widest first and decreases come last and narrowest  *)
(* first, that is a decrease, and the write sets an interval that was not  *)
(* set.                                                                    *)
LEMMA OnlyBesideAddition ==
  ASSUME IInv, run.at = "writing", run.left # <<>>, ~run.disturbed,
         ~Accepts(Request(Head(run.left)))
  PROVE  LET h == Head(run.left)
         IN /\ run.read.budgets[h] = Absent
            /\ \E n \in Decreased(want, run.read) :
                  n < h /\ run.read.budgets[n] >= want.budgets[h]
<1> DEFINE h == Head(run.left)
           w == want.budgets
           r == run.read.budgets
           t == remote.budgets
           u == [t EXCEPT ![h] = w[h]]
           D == Decreased(want, run.read)
           I == Increased(want, run.read)
           Ch == Changed(want, run.read)
           C == Carriers(want, run.read)
<1>1. w \in Table /\ r \in Table /\ t \in Table /\ want \in Block
  BY ReadShape DEF IInv, Shapes, Runs, Block, Workspace
<1>2. h \in Interval /\ h \in Left /\ h \notin Sent /\ h \in Ch \cup C
      /\ \A j \in Left : j = h \/ Precedes(want, run.read, h, j)
  <2>1. /\ run.left \in Seq(Interval) /\ Queue(want, run.read, run.left)
        /\ ToSet(run.left) \subseteq Writes(want, run.read)
    BY DEF IInv, Shapes, Runs, InOrder, Active, Left
  <2> QED BY <1>1, <2>1, QueueTail DEF Left, Sent, Writes
<1>3. \A j \in Interval : t[j] = IF j \in Took THEN w[j] ELSE r[j]
  BY DEF IInv, AsSent, Active
<1>4. \A j \in run.refused : r[j] = Absent
  BY DEF IInv, RefusedOnlyBesideAddition
<1>5. ~Ordered(u)
  BY DEF Accepts, TableAfter, Request
<1>6. /\ w \in [Interval -> 0..MaxAmount] /\ Ordered(w)
      /\ r \in [Interval -> 0..MaxAmount] /\ Ordered(r)
      /\ t \in [Interval -> 0..MaxAmount] /\ Ordered(t)
      /\ \A j \in Interval : w[j] \in Int /\ r[j] \in Int /\ t[j] \in Int /\ j \in Int
  BY <1>1, Amounts, IntervalsAreIntegers
<1>7. /\ Ch = {j \in Interval : want.managed /\ w[j] # r[j]}
      /\ D = {j \in Ch : w[j] # Absent /\ w[j] < r[j]}
      /\ \A j \in I : j \in Ch /\ w[j] # Absent /\ ~(w[j] < r[j])
      /\ \A j \in Ch : j \in Deleted(want, run.read) \/ j \in I \/ j \in D
      /\ \A j \in Deleted(want, run.read) : w[j] = Absent
      /\ \A j \in C : j \notin Ch
  BY DEF Changed, Decreased, Increased, Deleted, Carriers
<1>8. \A j \in C \cup Ch : w[j] # Absent => want.managed
  BY <1>1 DEF Block, NoBudgets, Carriers, Changed
<1>9. \A j \in Left : j \in Interval
  BY ElementOfSeq, LenProperties DEF IInv, Shapes, Runs, Left, ToSet
<1>10. ASSUME w[h] # Absent, NEW j \in Ch, Precedes(want, run.read, h, j)
       PROVE  \/ h \in I /\ j \in I /\ h > j
              \/ h \in I /\ j \in D
              \/ h \in D /\ j \in D /\ h < j
  BY <1>7, <1>10 DEF Precedes
<1>11. Sent = (Ch \cup C) \ Left /\ Took = Sent \ run.refused
  BY DEF Sent, Took, Writes
<1> HIDE DEF h, w, r, t, D, I, Ch, C
<1>12. PICK a \in Interval, b \in Interval :
          a < b /\ u[a] # Absent /\ u[b] # Absent /\ ~(u[a] < u[b])
  BY <1>5 DEF Ordered
<1>13. a # b /\ (a = h \/ b = h)
  <2>1. a # b
    BY <1>6, <1>12
  <2>2. ASSUME a # h, b # h PROVE FALSE
    <3>1. u[a] = t[a] /\ u[b] = t[b]
      BY <1>6, <2>2
    <3> QED BY <1>6, <1>12, <3>1 DEF Ordered
  <2> QED BY <2>1, <2>2
<1>14. u[h] = w[h] /\ \A j \in Interval \ {h} : u[j] = t[j]
  BY <1>2, <1>6
<1> HIDE DEF u
<1>15. w[h] # Absent /\ want.managed
  BY <1>2, <1>8, <1>12, <1>13, <1>14
(* The interval the write clashes with is still to be written.             *)
<1>16. ASSUME NEW j \in Interval, j # h, t[j] # Absent,
              ~(j > h /\ w[h] < t[j]), ~(j < h /\ t[j] < w[h])
       PROVE  /\ j \in Left /\ j \in Ch /\ t[j] = r[j] /\ r[j] # w[j]
              /\ Precedes(want, run.read, h, j)
  <2>1. t[j] # w[j]
    BY <1>2, <1>6, <1>15, <1>16 DEF Ordered
  <2>2. t[j] = r[j] /\ j \notin Took /\ j \notin run.refused
    BY <1>3, <1>4, <1>16, <2>1
  <2>3. j \in Ch
    BY <1>7, <1>15, <2>1, <2>2
  <2> QED BY <1>2, <1>11, <1>16, <2>1, <2>2, <2>3
<1>17. CASE a = h
  <2>1. /\ b \in Ch /\ t[b] = r[b] /\ Precedes(want, run.read, h, b)
        /\ b > h /\ ~(w[h] < t[b]) /\ t[b] # Absent
    <3>1. b # h /\ t[b] # Absent /\ ~(b < h) /\ ~(w[h] < t[b]) /\ b > h
      BY <1>2, <1>6, <1>12, <1>13, <1>14, <1>17
    <3> QED BY <1>16, <3>1
  <2>2. b \in D
    BY <1>2, <1>6, <1>15, <1>10, <2>1
  <2>3. w[b] # Absent /\ w[b] < r[b]
    BY <1>7, <2>2
  <2>4. w[h] < w[b]
    BY <1>2, <1>6, <1>15, <2>1, <2>3 DEF Ordered
  <2> QED BY <1>2, <1>6, <2>1, <2>3, <2>4
<1>18. CASE b = h
  <2>1. /\ a \in Ch /\ t[a] = r[a] /\ Precedes(want, run.read, h, a) /\ a \in Interval
        /\ a < h /\ ~(t[a] < w[h]) /\ t[a] # Absent
    <3>1. a # h /\ t[a] # Absent /\ ~(a > h) /\ ~(t[a] < w[h]) /\ a < h
      BY <1>2, <1>6, <1>12, <1>13, <1>14, <1>18
    <3> QED BY <1>16, <3>1
  <2>2. h \in I /\ (a \in I \/ a \in D)
    BY <1>2, <1>6, <1>15, <1>10, <2>1
  <2>3. r[h] = Absent
    <3>1. h \in Ch /\ ~(w[h] < r[h])
      BY <1>7, <2>2
    <3>2. r[h] # Absent => r[a] < r[h]
      BY <1>2, <1>6, <2>1 DEF Ordered
    <3> QED BY <1>2, <1>6, <2>1, <3>1, <3>2
  <2>4. a \in D
    <3> SUFFICES ASSUME a \in I PROVE FALSE
      BY <2>2
    <3>1. w[a] # Absent /\ ~(w[a] < r[a])
      BY <1>7
    <3>2. w[a] < w[h]
      BY <1>2, <1>6, <1>15, <2>1, <3>1 DEF Ordered
    <3> QED BY <1>2, <1>6, <2>1, <3>1, <3>2
  <2>5. r[a] >= w[h] /\ a < h
    BY <1>2, <1>6, <2>1
  <2> QED BY <2>3, <2>4, <2>5 DEF h, r, w, D
<1> QED BY <1>13, <1>17, <1>18

-----------------------------------------------------------------------------
(* Each step keeps the invariant.                                          *)

LEMMA InitInv == Init => IInv
<1> SUFFICES ASSUME Init PROVE IInv
  OBVIOUS
<1>1. /\ NoBudgets \in Table /\ Unread.byok = "absent"
      /\ want \in Block /\ run = Idle /\ inFlight = {} /\ bound \in BOOLEAN
  BY NoBudgetsIsTable DEF Init, Unread
<1>2. remote \in Workspace
  BY <1>1 DEF Init, Workspace
<1>3. Idle \in Runs
  BY EmptySeq DEF Idle, Runs
<1>4. Shapes
  BY <1>1, <1>2, <1>3, BoundsAssumption DEF Init, Shapes
<1>5. run.at = "idle" /\ run.refused = {}
  BY <1>1 DEF Idle
<1>6. Unbound
  BY <1>1, <1>5 DEF Init, Unbound
<1> QED BY <1>1, <1>4, <1>5, <1>6
        DEF IInv, InOrder, Judged, AtRest, AsSent, Active, RefusedOnlyBesideAddition

(* The planner's read, or a workspace just created, starts a run.          *)
LEMMA StartKept ==
  ASSUME IInv, run.at = "idle", NEW read \in Workspace \cup {Unread}, NEW held \in BOOLEAN,
         run' = Started(read, held), bound', UNCHANGED <<want, remote, inFlight, mishaps, edits>>,
         remote.budgets = read.budgets,
         remote.byok = IF read = Unread THEN "off" ELSE read.byok
  PROVE  IInv'
<1>1. want \in Block
  BY DEF IInv, Shapes
<1>2. LET w == BudgetWrites(want, read)
      IN w \in Seq(Interval) /\ ToSet(w) = Writes(want, read) /\ Queue(want, read, w)
  BY <1>1, WritesInOrder
<1>3. run' = [at |-> "writing", read |-> read, left |-> BudgetWrites(want, read), held |-> held,
              refused |-> {}, failed |-> {}, disturbed |-> FALSE, landed |-> FALSE]
  BY DEF Started, Idle
<1>4. run' \in Runs
  BY <1>2, <1>3 DEF Runs
<1>5. Shapes'
  BY <1>4 DEF IInv, Shapes
<1>6. Left' = Writes(want, read) /\ Sent' = {} /\ Took' = {}
  BY <1>2, <1>3 DEF Left, Sent, Took
<1>7. InOrder'
  BY <1>2, <1>3, <1>6 DEF InOrder, Left
<1>8. Judged'
  BY <1>3 DEF Judged
<1>9. AtRest' /\ Unbound'
  BY <1>3 DEF AtRest, Unbound, Active
<1>10. AsSent'
  BY <1>3, <1>6 DEF AsSent, Carried
<1>11. RefusedOnlyBesideAddition'
  BY <1>3 DEF RefusedOnlyBesideAddition
<1> QED BY <1>5, <1>7, <1>8, <1>9, <1>10, <1>11 DEF IInv

LEMMA PlanBoundKept == IInv /\ PlanBound => IInv'
<1> SUFFICES ASSUME IInv, PlanBound PROVE IInv'
  OBVIOUS
<1>1. remote \in Workspace /\ BudgetsDiffer(want, remote) \in BOOLEAN
  BY DEF IInv, Shapes, BudgetsDiffer, ByokChanged
<1>2. remote # Unread
  BY <1>1 DEF Workspace, Unread
<1> QED BY <1>1, <1>2, StartKept DEF PlanBound

LEMMA CreateWorkspaceKept == IInv /\ CreateWorkspace => IInv'
<1> SUFFICES ASSUME IInv, CreateWorkspace PROVE IInv'
  OBVIOUS
<1>1. remote = [budgets |-> NoBudgets, byok |-> "off"]
  BY DEF IInv, Unbound, CreateWorkspace
<1>2. remote.budgets = Unread.budgets /\ remote.byok = "off"
  BY <1>1 DEF Unread
<1> QED BY <1>2, StartKept DEF CreateWorkspace

(* The first write of the queue is sent, whatever its outcome.             *)
LEMMA Sending ==
  ASSUME IInv, run.at = "writing", run.left # <<>>,
         run'.at = "writing", run'.left = Tail(run.left), run'.read = run.read, want' = want,
         run'.refused \cup run'.failed \subseteq run.refused \cup run.failed \cup {Head(run.left)}
  PROVE  LET h == Head(run.left)
         IN /\ InOrder' /\ run'.left \in Seq(Interval)
            /\ h \in Interval /\ h \in Left /\ h \notin Sent /\ Sent' = Sent \cup {h}
<1> DEFINE h == Head(run.left)
<1>1. /\ run.left \in Seq(Interval) /\ want \in Block
      /\ Queue(want, run.read, run.left) /\ Left \subseteq Writes(want, run.read)
      /\ \A i \in Sent, j \in Left : Precedes(want, run.read, i, j)
      /\ run.refused \cup run.failed \subseteq Sent
  BY DEF IInv, Shapes, Runs, InOrder, Active
<1>2. /\ Tail(run.left) \in Seq(Interval) /\ h \in Left /\ h \in Interval
      /\ ToSet(Tail(run.left)) = Left \ {h}
      /\ Queue(want, run.read, Tail(run.left))
      /\ \A j \in ToSet(Tail(run.left)) : Precedes(want, run.read, h, j)
  BY <1>1, QueueTail DEF Left
<1> HIDE DEF h
<1>3. Left' = Left \ {h} /\ Sent' = Sent \cup {h}
  BY <1>1, <1>2 DEF Left, Sent
<1>4. InOrder'
  BY <1>1, <1>2, <1>3 DEF InOrder, Active, Left, h
<1> QED BY <1>2, <1>3, <1>4 DEF h, Sent

LEMMA SettleKept == IInv /\ Settle => IInv'
<1> SUFFICES ASSUME IInv, Settle PROVE IInv'
  OBVIOUS
<1> DEFINE h == Head(run.left)
<1>1. run \in Runs /\ want \in Block /\ remote \in Workspace /\ run.at = "writing" /\ run.left # <<>>
  BY DEF IInv, Shapes, Settle
<1>2. run' = [run EXCEPT !.left = Tail(@)]
  BY DEF Settle, Advanced
<1>3. /\ run'.at = "writing" /\ run'.left = Tail(run.left) /\ run'.read = run.read
      /\ run'.refused = run.refused /\ run'.failed = run.failed /\ run'.held = run.held
      /\ run'.disturbed = run.disturbed /\ run'.landed = run.landed
      /\ want' = want /\ bound' = bound /\ inFlight' = inFlight /\ mishaps' = mishaps /\ edits' = edits
  BY <1>1, <1>2 DEF Runs, Settle
<1>4. /\ InOrder' /\ run'.left \in Seq(Interval)
      /\ h \in Interval /\ h \in Left /\ h \notin Sent /\ Sent' = Sent \cup {h}
  BY <1>1, <1>3, Sending
<1>5. want.budgets \in Table /\ remote.budgets \in Table /\ remote.byok \in {"on", "off"}
      /\ want.byok \in {"on", "off", "unmanaged"}
  BY <1>1 DEF Block, Workspace
<1>6. TableAfter(Request(h)) = [remote.budgets EXCEPT ![h] = want.budgets[h]]
  BY DEF TableAfter, Request
<1>7. /\ remote'.budgets = [remote.budgets EXCEPT ![h] = want.budgets[h]]
      /\ remote'.byok = IF want.budgets[h] # Absent /\ ByokChanged(want, run.read) THEN want.byok
                        ELSE remote.byok
      /\ remote' = [budgets |-> remote'.budgets, byok |-> remote'.byok]
  <2>1. /\ Request(h).amount = want.budgets[h]
        /\ Request(h).byok = IF ByokChanged(want, run.read) THEN want.byok ELSE "unmanaged"
    BY DEF Request
  <2>2. ByokChanged(want, run.read) => want.byok # "unmanaged"
    BY DEF ByokChanged
  <2>3. remote' = Applied(Request(h))
    BY DEF Settle
  <2> QED BY <1>6, <2>1, <2>2, <2>3 DEF Applied
<1>8. remote'.budgets \in Table
  <2>1. Ordered(remote'.budgets)
    BY <1>6, <1>7 DEF Settle, Accepts
  <2>2. want.budgets[h] \in 0..MaxAmount
    BY <1>4, <1>5, Amounts
  <2> QED BY <1>4, <1>5, <1>7, <2>1, <2>2 DEF Table
<1>9. remote'.byok \in {"on", "off"}
  BY <1>5, <1>7 DEF ByokChanged
<1>10. remote' \in Workspace
  BY <1>7, <1>8, <1>9 DEF Workspace
<1>11. run' \in Runs
  BY <1>1, <1>2, <1>3, <1>4 DEF Runs
<1>12. Shapes'
  BY <1>3, <1>10, <1>11 DEF IInv, Shapes
<1>13. run.refused \subseteq Sent
  BY <1>1 DEF IInv, InOrder, Active
<1>14. Took' = Took \cup {h} /\ h \notin Took
  BY <1>3, <1>4, <1>13 DEF Took
<1>15. Judged' /\ AtRest' /\ Unbound' /\ RefusedOnlyBesideAddition'
  BY <1>1, <1>3 DEF IInv, Judged, AtRest, Unbound, Active, RefusedOnlyBesideAddition
<1>16. AsSent'
  <2> SUFFICES ASSUME ~run.disturbed
               PROVE  AsSent'
    BY <1>3 DEF AsSent
  <2>1. /\ \A i \in Interval :
             remote.budgets[i] = IF i \in Took THEN want.budgets[i] ELSE run.read.budgets[i]
        /\ remote.byok = IF Carried THEN want.byok
                         ELSE IF run.read = Unread THEN "off" ELSE run.read.byok
    BY <1>1 DEF IInv, AsSent, Active
  <2>2. remote.budgets \in [Interval -> 0..MaxAmount]
    BY <1>5, Amounts
  <2>3. ASSUME NEW i \in Interval
        PROVE  remote'.budgets[i] = IF i \in Took' THEN want.budgets[i] ELSE run.read.budgets[i]
    <3>1. remote'.budgets[i] = IF i = h THEN want.budgets[h] ELSE remote.budgets[i]
      BY <1>7, <2>2
    <3> QED BY <1>14, <2>1, <3>1
  <2>4. Carried' <=> Carried \/ (want.budgets[h] # Absent /\ ByokChanged(want, run.read))
    BY <1>3, <1>14 DEF Carried
  <2>5. remote'.byok = IF Carried' THEN want.byok
                       ELSE IF run.read = Unread THEN "off" ELSE run.read.byok
    BY <1>7, <2>1, <2>4
  <2> QED BY <1>3, <2>3, <2>5 DEF AsSent
<1> QED BY <1>4, <1>12, <1>15, <1>16 DEF IInv

LEMMA RefuseKept == IInv /\ Refuse => IInv'
<1> SUFFICES ASSUME IInv, Refuse PROVE IInv'
  OBVIOUS
<1> DEFINE h == Head(run.left)
<1>1. run \in Runs /\ want \in Block /\ run.at = "writing" /\ run.left # <<>>
  BY DEF IInv, Shapes, Refuse
<1>2. run' = [run EXCEPT !.left = Tail(@), !.refused = @ \cup {h}]
  BY DEF Refuse, AttemptRest
<1>3. /\ run'.at = "writing" /\ run'.left = Tail(run.left) /\ run'.read = run.read
      /\ run'.refused = run.refused \cup {h} /\ run'.failed = run.failed /\ run'.held = run.held
      /\ run'.disturbed = run.disturbed /\ run'.landed = run.landed
      /\ UNCHANGED <<want, remote, bound, inFlight, mishaps, edits>>
  BY <1>1, <1>2 DEF Runs, Refuse
<1>4. /\ InOrder' /\ run'.left \in Seq(Interval)
      /\ h \in Interval /\ h \in Left /\ h \notin Sent /\ Sent' = Sent \cup {h}
  <2>1. run'.refused \cup run'.failed \subseteq run.refused \cup run.failed \cup {Head(run.left)}
    BY <1>3
  <2> QED BY <1>1, <1>3, <2>1, Sending
<1>5. run' \in Runs
  BY <1>1, <1>2, <1>3, <1>4 DEF Runs
<1>6. Shapes'
  BY <1>3, <1>5 DEF IInv, Shapes
<1>7. Took' = Took
  BY <1>3, <1>4 DEF Took
<1>8. Judged' /\ AtRest' /\ Unbound'
  BY <1>1, <1>3 DEF IInv, Judged, AtRest, Unbound, Active
<1>9. AsSent'
  BY <1>1, <1>3, <1>7 DEF IInv, AsSent, Active, Carried
<1>10. RefusedOnlyBesideAddition'
  <2> SUFFICES ASSUME ~run.disturbed, NEW i \in run.refused \cup {h}
               PROVE  /\ run.read.budgets[i] = Absent
                      /\ \E n \in Decreased(want, run.read) :
                            n < i /\ run.read.budgets[n] >= want.budgets[i]
    BY <1>3 DEF RefusedOnlyBesideAddition
  <2>1. CASE i \in run.refused
    BY <2>1 DEF IInv, RefusedOnlyBesideAddition
  <2>2. CASE i = h
    <3>1. ~Accepts(Request(Head(run.left)))
      BY DEF Refuse
    <3> QED BY <1>1, <2>2, <3>1, OnlyBesideAddition
  <2> QED BY <2>1, <2>2
<1> QED BY <1>4, <1>6, <1>8, <1>9, <1>10 DEF IInv

(* A write that was declined, or got no answer.                            *)
LEMMA GivenUpKept ==
  ASSUME IInv, run.at = "writing", run.left # <<>>, mishaps < MaxMishaps,
         inFlight' \in {inFlight, inFlight \cup {Request(Head(run.left))}},
         run' = [Advanced EXCEPT !.failed = @ \cup {Head(run.left)}, !.disturbed = TRUE],
         mishaps' = mishaps + 1, UNCHANGED <<want, remote, bound, edits>>
  PROVE  IInv'
<1> DEFINE h == Head(run.left)
<1>1. run \in Runs /\ want \in Block
  BY DEF IInv, Shapes
<1>2. /\ run'.at = "writing" /\ run'.left = Tail(run.left) /\ run'.read = run.read
      /\ run'.refused = run.refused /\ run'.failed = run.failed \cup {h} /\ run'.held = run.held
      /\ run'.disturbed = TRUE /\ run'.landed = run.landed
      /\ run' = [run EXCEPT !.left = Tail(@), !.failed = @ \cup {h}, !.disturbed = TRUE]
  BY <1>1 DEF Runs, Advanced
<1>3. /\ InOrder' /\ run'.left \in Seq(Interval)
      /\ h \in Interval /\ h \in Left /\ h \notin Sent /\ Sent' = Sent \cup {h}
  <2>1. run'.refused \cup run'.failed \subseteq run.refused \cup run.failed \cup {Head(run.left)}
    BY <1>2
  <2> QED BY <1>2, <2>1, Sending
<1>4. run' \in Runs
  BY <1>1, <1>2, <1>3 DEF Runs
<1>5. Request(h) \in Requests
  <2>1. want.budgets[h] \in 0..MaxAmount
    BY <1>1, <1>3, Amounts DEF Block
  <2> QED BY <1>1, <1>3, <2>1 DEF Request, Requests, Block
<1>6. mishaps' \in 0..MaxMishaps
  BY BoundsAssumption DEF IInv, Shapes
<1>7. Shapes'
  BY <1>4, <1>5, <1>6 DEF IInv, Shapes
<1>8. Judged' /\ AtRest' /\ Unbound' /\ AsSent' /\ RefusedOnlyBesideAddition'
  BY <1>2 DEF IInv, Judged, AtRest, Unbound, Active, AsSent, RefusedOnlyBesideAddition
<1> QED BY <1>3, <1>7, <1>8 DEF IInv

LEMMA LandKept ==
  ASSUME IInv, NEW r \in inFlight, Land(r)
  PROVE  IInv'
<1>1. run \in Runs /\ bound /\ remote \in Workspace /\ r \in Requests
  BY DEF IInv, Shapes, Unbound
<1>2. remote' \in Workspace
  <2>1. remote.budgets \in Table /\ remote.byok \in {"on", "off"}
    BY <1>1 DEF Workspace
  <2>2. r.interval \in Interval /\ r.amount \in 0..MaxAmount /\ r.byok \in {"on", "off", "unmanaged"}
    BY <1>1 DEF Requests
  <2>3. Accepts(r) => TableAfter(r) \in Table
    BY <2>1, <2>2 DEF Accepts, TableAfter, Table
  <2>4. Accepts(r) => Applied(r) \in Workspace
    BY <2>1, <2>2, <2>3 DEF Applied, Workspace
  <2> QED BY <1>1, <2>4 DEF Land
<1>3. UNCHANGED <<want, bound, mishaps, edits>> /\ inFlight' \subseteq inFlight
  BY DEF Land
<1>4. CASE run.at = "idle"
  <2>1. run' = run
    BY <1>4 DEF Land
  <2>2. Shapes'
    BY <1>2, <1>3, <2>1 DEF IInv, Shapes
  <2> QED BY <1>1, <1>3, <1>4, <2>1, <2>2
          DEF IInv, InOrder, Judged, AtRest, Unbound, AsSent, Active, RefusedOnlyBesideAddition
<1>5. CASE run.at # "idle"
  <2>1. run' = [run EXCEPT !.disturbed = TRUE, !.landed = TRUE]
    BY <1>5 DEF Land
  <2>2. /\ run' \in Runs /\ run'.at = run.at /\ run'.left = run.left /\ run'.read = run.read
        /\ run'.refused = run.refused /\ run'.failed = run.failed
        /\ run'.disturbed = TRUE /\ run'.landed = TRUE
    BY <1>1, <2>1 DEF Runs
  <2>3. Shapes'
    BY <1>2, <1>3, <2>2 DEF IInv, Shapes
  <2>4. Left' = Left /\ Sent' = Sent
    BY <1>3, <2>2 DEF Left, Sent
  <2>5. InOrder'
    BY <1>3, <2>2, <2>4 DEF IInv, InOrder, Active
  <2>6. Judged'
    BY <1>3, <2>2 DEF IInv, Judged, Active, Converged
  <2>7. AtRest' /\ Unbound' /\ AsSent' /\ RefusedOnlyBesideAddition'
    BY <1>1, <1>3, <1>5, <2>2 DEF AtRest, Unbound, AsSent, Active, RefusedOnlyBesideAddition
  <2> QED BY <2>3, <2>5, <2>6, <2>7 DEF IInv
<1> QED BY <1>4, <1>5

LEMMA ProceedKept == IInv /\ Proceed => IInv'
<1> SUFFICES ASSUME IInv, Proceed PROVE IInv'
  OBVIOUS
<1>1. run \in Runs /\ run.at = "writing" /\ run.left = <<>>
      /\ UNCHANGED <<want, remote, bound, inFlight, mishaps, edits>>
  BY DEF IInv, Shapes, Proceed
<1>2. /\ run' \in Runs /\ run'.at \in {"issuing", "held"} /\ run'.left = run.left /\ run'.read = run.read
      /\ run'.refused = run.refused /\ run'.failed = run.failed
      /\ run'.disturbed = run.disturbed /\ run'.landed = run.landed
      /\ run'.at = "issuing" => Converged
  BY <1>1 DEF Runs, Proceed
<1>3. Left' = Left /\ Sent' = Sent /\ Took' = Took
  BY <1>1, <1>2 DEF Left, Sent, Took
<1>4. Shapes' /\ InOrder'
  BY <1>1, <1>2, <1>3 DEF IInv, Shapes, InOrder, Active
<1>5. Judged' /\ AtRest' /\ Unbound' /\ RefusedOnlyBesideAddition'
  BY <1>1, <1>2 DEF IInv, Judged, AtRest, Unbound, Active, RefusedOnlyBesideAddition, Converged
<1>6. AsSent'
  BY <1>1, <1>2, <1>3 DEF IInv, AsSent, Active, Carried
<1> QED BY <1>4, <1>5, <1>6 DEF IInv

(* A run ends, or dies; the workspace stays bound.                         *)
LEMMA EndKept ==
  ASSUME IInv, run.at # "idle", run' = Idle, UNCHANGED <<want, remote, bound, inFlight, edits>>,
         mishaps' \in 0..MaxMishaps
  PROVE  IInv'
<1>1. run'.at = "idle" /\ run'.refused = {}
  BY DEF Idle
<1>2. Idle \in Runs
  BY EmptySeq DEF Idle, Runs
<1>3. Shapes'
  BY <1>2 DEF IInv, Shapes
<1> QED BY <1>1, <1>3
        DEF IInv, InOrder, Judged, AtRest, Unbound, AsSent, Active, RefusedOnlyBesideAddition

LEMMA EditKept == IInv /\ Edit => IInv'
<1> SUFFICES ASSUME IInv, Edit PROVE IInv'
  OBVIOUS
<1>1. run.at = "idle" /\ run = Idle /\ UNCHANGED <<remote, bound, run, inFlight, mishaps>>
  BY DEF IInv, AtRest, Active, Edit
<1>2. run.refused = {}
  BY <1>1 DEF Idle
<1>3. edits' \in 0..MaxEdits
  BY BoundsAssumption DEF IInv, Shapes, Edit
<1>4. Shapes'
  BY <1>1, <1>3 DEF IInv, Shapes, Edit
<1> QED BY <1>1, <1>2, <1>4
        DEF IInv, InOrder, Judged, AtRest, Unbound, AsSent, Active, RefusedOnlyBesideAddition

LEMMA StepInv == IInv /\ [Next]_vars => IInv'
<1> SUFFICES ASSUME IInv, [Next]_vars PROVE IInv'
  OBVIOUS
<1>1. CASE PlanBound
  BY <1>1, PlanBoundKept
<1>2. CASE CreateWorkspace
  BY <1>2, CreateWorkspaceKept
<1>3. CASE Settle
  BY <1>3, SettleKept
<1>4. CASE Refuse
  BY <1>4, RefuseKept
<1>5. CASE Proceed
  BY <1>5, ProceedKept
<1>6. CASE Finish
  BY <1>6, EndKept DEF Finish, IInv, Shapes
<1>7. CASE Decline
  BY <1>7, GivenUpKept DEF Decline
<1>8. CASE LoseAnswer
  BY <1>8, GivenUpKept DEF LoseAnswer
<1>9. CASE \E r \in inFlight : Land(r)
  BY <1>9, LandKept
<1>10. CASE \E r \in inFlight : Vanish(r)
  <2>1. inFlight' \subseteq inFlight /\ UNCHANGED <<want, remote, bound, run, mishaps, edits>>
    BY <1>10 DEF Vanish
  <2>2. Shapes' /\ Unbound'
    BY <2>1 DEF IInv, Shapes, Unbound
  <2>3. InOrder' /\ Judged' /\ AtRest' /\ AsSent' /\ RefusedOnlyBesideAddition'
    BY <2>1 DEF IInv, InOrder, Judged, AtRest, AsSent, Active, Left, Sent, Took, Carried, Converged,
                RefusedOnlyBesideAddition
  <2> QED BY <2>2, <2>3 DEF IInv
<1>11. CASE Stop
  <2>1. mishaps' \in 0..MaxMishaps
    BY <1>11, BoundsAssumption DEF IInv, Shapes, Stop
  <2> QED BY <1>11, <2>1, EndKept DEF Stop
<1>12. CASE Edit
  BY <1>12, EditKept
<1>13. CASE UNCHANGED vars
  BY <1>13 DEF vars, IInv, Shapes, InOrder, Judged, AtRest, Unbound, AsSent, Active, Left, Sent, Took,
               Carried, Converged, RefusedOnlyBesideAddition
<1> QED BY <1>1, <1>2, <1>3, <1>4, <1>5, <1>6, <1>7, <1>8, <1>9, <1>10, <1>11, <1>12, <1>13
        DEF Next, Work, Write

LEMMA Invariant == Spec => []IInv
<1> QED BY InitInv, StepInv, PTL DEF Spec

-----------------------------------------------------------------------------
(* What the runs check.                                                    *)

(* The variables hold what they are meant to, the server's table is        *)
(* ordered, and apply writes no interval twice in one run.                 *)
THEOREM BudgetsTyped == Spec => []TypeOK
<1>1. IInv => TypeOK
  <2> SUFFICES ASSUME IInv PROVE TypeOK
    OBVIOUS
  <2>1. run \in Runs /\ want \in Block
    BY DEF IInv, Shapes
  <2>2. CASE run.at = "idle"
    <3>1. run = Idle
      BY <2>2 DEF IInv, AtRest, Active
    <3>2. run.left = <<>> /\ run.refused = {} /\ run.failed = {}
      BY <3>1 DEF Idle
    <3> QED BY <2>1, <3>2 DEF TypeOK, IInv, Shapes, Runs, IsInjective, ToSet
  <2>3. CASE run.at # "idle"
    <3>1. /\ Queue(want, run.read, run.left) /\ Left \subseteq Writes(want, run.read)
          /\ run.refused \cup run.failed \subseteq Sent
      BY <2>3 DEF IInv, InOrder, Active
    <3>2. run.left \in Seq(Interval) /\ \A p \in DOMAIN run.left : p \in Int /\ run.left[p] \in Interval
      BY <2>1, LenProperties, ElementOfSeq DEF Runs
    <3>3. IsInjective(run.left)
      <4> SUFFICES ASSUME NEW p \in DOMAIN run.left, NEW q \in DOMAIN run.left,
                          run.left[p] = run.left[q], p < q
                   PROVE  FALSE
        BY <3>2 DEF IsInjective
      <4>1. run.left[p] \in Writes(want, run.read)
        BY <3>1 DEF Left, ToSet
      <4> QED BY <2>1, <3>1, <4>1, NotTwice DEF Queue
    <3>4. ToSet(run.left) \subseteq Interval
      BY <3>2 DEF ToSet
    <3>5. ToSet(run.left) \cap (run.refused \cup run.failed) = {}
      BY <3>1 DEF Sent, Left
    <3> QED BY <2>1, <3>3, <3>4, <3>5 DEF TypeOK, IInv, Shapes, Runs
  <2> QED BY <2>2, <2>3
<1> QED BY <1>1, Invariant, PTL

(* ADR-0004 item 4: apply issues and widens nothing in a workspace whose   *)
(* configured budget is not in force, a write given up on that lands after *)
(* the read apart.                                                         *)
THEOREM NothingIssuedUnbudgeted == Spec => []IssuingUnderBudget
<1>1. IInv => IssuingUnderBudget
  <2> SUFFICES ASSUME IInv, run.at = "issuing", ~run.landed
               PROVE  InForce
    BY DEF IssuingUnderBudget
  <2>1. /\ run.left = <<>> /\ run.refused = {} /\ ~run.disturbed
        /\ want \in Block /\ run \in Runs
    BY DEF IInv, Judged, Active, Converged, Shapes
  <2>2. Left = {}
    BY <2>1 DEF Left, ToSet
  <2>3. Took = Changed(want, run.read) \cup Carriers(want, run.read)
    BY <2>1, <2>2 DEF Took, Sent, Writes
  <2>4. /\ \A i \in Interval :
             remote.budgets[i] = IF i \in Took THEN want.budgets[i] ELSE run.read.budgets[i]
        /\ remote.byok = IF Carried THEN want.byok
                         ELSE IF run.read = Unread THEN "off" ELSE run.read.byok
    BY <2>1 DEF IInv, AsSent, Active
  <2>5. Changed(want, remote) = {}
    BY <2>3, <2>4 DEF Changed
  <2>6. ~ByokChanged(want, remote)
    <3>1. CASE ByokChanged(want, run.read)
      <4>1. want.budgets # NoBudgets /\ want.budgets \in Table
        BY <2>1, <3>1 DEF Block, ByokChanged
      <4>2. want.budgets \in [Interval -> 0..MaxAmount]
        BY <4>1, Amounts
      <4>3. PICK i \in Interval : want.budgets[i] # Absent
        BY <4>1, <4>2 DEF NoBudgets
      <4>4. i \in Took
        BY <2>3, <3>1, <4>3 DEF Carriers
      <4>5. Carried
        BY <3>1, <4>3, <4>4 DEF Carried
      <4> QED BY <2>4, <4>5 DEF ByokChanged
    <3>2. CASE ~ByokChanged(want, run.read)
      <4>1. ~Carried
        BY <3>2 DEF Carried
      <4>2. want.byok \in {"on", "off", "unmanaged"}
        BY <2>1 DEF Block
      <4>3. run.read = Unread => want.byok = "unmanaged"
        BY <3>2, <4>2 DEF ByokChanged, Unread
      <4> QED BY <2>4, <3>2, <4>1, <4>3 DEF ByokChanged
    <3> QED BY <3>1, <3>2
  <2> QED BY <2>5, <2>6 DEF InForce, BudgetsDiffer
<1> QED BY <1>1, Invariant, PTL

(* The order of budget_writes meets the server's rule, and write_budgets   *)
(* goes on past a refusal: an undisturbed run is refused only a budget     *)
(* that was not set, beside a narrower one still to be decreased, and      *)
(* leaves every other interval as configured.                              *)
THEOREM RefusalContained == Spec => []RefusalIsContained
<1>1. IInv => RefusalIsContained
  <2> SUFFICES ASSUME IInv PROVE OnlyRefusedMissing
    BY DEF RefusalIsContained, IInv
  <2> SUFFICES ASSUME run.at \in {"issuing", "held"}, ~run.disturbed
               PROVE  Changed(want, remote) \subseteq run.refused
    BY DEF OnlyRefusedMissing
  <2>1. run.left = <<>>
    BY DEF IInv, Judged, Active
  <2>2. Left = {}
    BY <2>1 DEF Left, ToSet
  <2>3. Took = (Changed(want, run.read) \cup Carriers(want, run.read)) \ run.refused
    BY <2>2 DEF Took, Sent, Writes
  <2>4. \A i \in Interval :
           remote.budgets[i] = IF i \in Took THEN want.budgets[i] ELSE run.read.budgets[i]
    BY DEF IInv, AsSent, Active
  <2> QED BY <2>3, <2>4 DEF Changed
<1> QED BY <1>1, Invariant, PTL
=============================================================================
