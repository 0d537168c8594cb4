--------------------------- MODULE Reader_proofs ---------------------------
(* What a snapshot may miss, for collections of any length and content,      *)
(* pages of any size, every policy of repeating requests and any number of   *)
(* changes made by others meanwhile.                                         *)
(*                                                                           *)
(* A page is a window of a collection that moves under the reader.  The      *)
(* invariant follows the records a listing has passed by without collecting  *)
(* them (Missed): they are never more than were deleted since it began,      *)
(* because a deletion moves one record, at most, over the offset, and a      *)
(* creation moves none back that was there before.                           *)
EXTENDS Reader, FiniteSetTheorems, SequenceTheorems, TLAPS

(* What a snapshot reads: the workspaces first, then the rest.               *)
Planned == {ListWorkspaces, Unscoped("assignments")}
             \cup [kind : Scoped, at : Workspace \cup {None}]
             \cup [kind : {"budgets"}, at : Workspace]

(* The collections; one of a workspace that is gone is empty.                *)
Shelved ==
    /\ shelf \in [Collection -> Seq(Record)]
    /\ Range(shelf[<<"workspaces", None>>]) \subseteq Workspace
    /\ \A c \in Collection : c[2] # None /\ ~Listed(c[2]) => shelf[c] = <<>>

(* The changes, and the deletions the listing underway can have felt.        *)
Counted ==
    /\ created \in Nat /\ deleted \in Nat /\ created + deleted =< MaxChanges
    /\ created =< Len(Fresh)
    /\ dropped \in Nat /\ dropped =< deleted

(* What is still to be created is new wherever it is listed.                 *)
Unmade == \A j \in DOMAIN Fresh : j > created =>
    Fresh[j] \notin before /\ (\A c \in Collection : Fresh[j] \notin Range(shelf[c]))

(* The listings left: the workspaces are listed once, and before all others. *)
Queued ==
    /\ todo \in Seq(Planned)
    /\ (pc = "complete") <=> (todo = <<>>)
    /\ todo = <<ListWorkspaces>> \/ ListWorkspaces \notin Range(todo)
    /\ todo = <<ListWorkspaces>> => collected \subseteq Workspace

(* A listing that goes on has a page left.                                   *)
Progressed ==
    /\ ignores \in BOOLEAN
    /\ pc \in {"read", "asleep", "listed", "complete", "failed"}
    /\ offset \in Nat /\ page \in 1..MaxPages + 1 /\ (Reading => page =< MaxPages)
    /\ collected \subseteq Record /\ IsFiniteSet(collected)
    /\ before \subseteq Record /\ IsFiniteSet(before)
    /\ found \in [Kind -> SUBSET Record]

(* Each repetition of a request has cost one wait.                           *)
Waits ==
    /\ attempt \in 1..MaxAttempts /\ waited \in Nat
    /\ IF pc = "asleep" THEN attempt < MaxAttempts /\ waited =< attempt * MaxBackoff
                        ELSE waited =< (attempt - 1) * MaxBackoff

(* What the offset has passed, and what of it the listing did not collect;   *)
(* what a listing at its end has not collected.                              *)
Passed(r) == \E i \in DOMAIN shelf[CollectionOf(Underway)] :
                i =< offset /\ shelf[CollectionOf(Underway)][i] = r
Missed == {r \in before \ collected : Passed(r)}
Omitted == (before \cap Range(shelf[CollectionOf(Underway)])) \ collected

(* One record per deletion.  A server that ignores the offset shows its      *)
(* first page again, so that only a listing at its end says anything of it.  *)
Displaced == Reading /\ Paged(Underway) =>
    IF pc = "listed" THEN Cardinality(Omitted) =< dropped
    ELSE ~ignores => Cardinality(Missed) =< dropped

(* The listing of a collection is still to be finished.                      *)
Ahead(c) == \E l \in Range(todo) : l = ListWorkspaces \/ (Paged(l) /\ CollectionOf(l) = c)

(* While nothing is deleted nothing is lost: what was there at the start     *)
(* still is, has been there since the listing underway began, and is found   *)
(* once its listing is finished.                                             *)
Whole == deleted = 0 =>
    /\ \A c \in Collection : Range(Start[c]) \subseteq Range(shelf[c])
    /\ Reading /\ Paged(Underway) => Range(Start[CollectionOf(Underway)]) \subseteq before
    /\ \A c \in Collection : Ahead(c) \/ Range(Start[c]) \subseteq found[c[1]]

Inv == Shelved /\ Counted /\ Unmade /\ Queued /\ Progressed /\ Waits /\ Displaced /\ Whole

-----------------------------------------------------------------------------
(* What is listed page by page is a collection.                              *)
LEMMA PlannedListing == \A l \in Planned : l \in Listing /\ (Paged(l) => CollectionOf(l) \in Collection)
  <1>1. \A l \in Planned : l \in Listing
    BY Z3 DEF Planned, Listing, ListWorkspaces, Unscoped, Kind, Scoped
  <1>2. ASSUME NEW l \in Planned, Paged(l) PROVE CollectionOf(l) \in Collection
    BY <1>2, ReaderAssumption
       DEF Planned, CollectionOf, Collection, ListWorkspaces, Unscoped, Paged, Scoped
  <1> QED  BY <1>1, <1>2

LEMMA ShelfNames ==
    /\ <<"workspaces", None>> \in Collection
    /\ CollectionOf(ListWorkspaces) = <<"workspaces", None>>
    /\ Paged(ListWorkspaces) /\ ListWorkspaces \in Planned
    /\ \A c \in Collection : c[1] \in Kind
  BY DEF Collection, CollectionOf, ListWorkspaces, Paged, Planned, Scoped, Kind

(* No wait is longer than the policy's longest.                              *)
LEMMA DelayBounded ==
    ASSUME NEW n \in 1..MaxAttempts, NEW wish \in RetryAfter \cup {None}
    PROVE  NextDelay(n, wish) \in Nat /\ NextDelay(n, wish) =< MaxBackoff
  <1> DEFINE doubled == InitialBackoff * 2^Min({n - 1, 31})
             wished == IF wish = None THEN Backoff(n) ELSE wish
  <1>1. 2^Min({n - 1, 31}) \in Nat /\ InitialBackoff \in Nat /\ MaxBackoff \in Nat
    BY PowersAssumption, PolicyAssumption
  <1>2. doubled \in Nat
    BY <1>1
  <1>3. ASSUME NEW a \in Nat PROVE Min({a, MaxBackoff}) \in Nat /\ Min({a, MaxBackoff}) =< MaxBackoff
    BY <1>1 DEF Min
  <1>4. wished \in Nat
    <2> HIDE DEF doubled
    <2>1. Min({doubled, MaxBackoff}) \in Nat
      BY <1>2, <1>3
    <2>2. Backoff(n) = Min({doubled, MaxBackoff})
      BY DEF Backoff, doubled
    <2> QED  BY <2>1, <2>2, PolicyAssumption
  <1> HIDE DEF wished
  <1>5. NextDelay(n, wish) = Min({wished, MaxBackoff})
    BY DEF NextDelay, wished
  <1> QED  BY <1>3, <1>4, <1>5

(* Removing one entry moves those behind it up by one.                       *)
LEMMA WithoutOne ==
    ASSUME NEW S, NEW s \in Seq(S), NEW i \in DOMAIN s
    PROVE  /\ RemoveAt(s, i) \in Seq(S) /\ Len(RemoveAt(s, i)) = Len(s) - 1
           /\ \A j \in 1..Len(s) - 1 :
                 RemoveAt(s, i)[j] = IF j < i THEN s[j] ELSE s[j + 1]
           /\ Range(RemoveAt(s, i)) \subseteq Range(s)
           /\ \A x \in Range(s) : x = s[i] \/ x \in Range(RemoveAt(s, i))
  <1> DEFINE front == SubSeq(s, 1, i - 1)
             back == SubSeq(s, i + 1, Len(s))
  <1>1. Len(s) \in Nat /\ i \in 1..Len(s) /\ DOMAIN s = 1..Len(s) /\ \A j \in 1..Len(s) : s[j] \in S
    BY LenProperties, ElementOfSeq
  <1>2. front \in Seq(S) /\ Len(front) = i - 1 /\ \A j \in 1..i - 1 : front[j] = s[j]
    <2>1. \A j \in 1..i - 1 : s[j] \in S
      BY <1>1
    <2>2. front \in Seq(S) /\ Len(front) = IF 1 =< i - 1 THEN i - 1 - 1 + 1 ELSE 0
      BY <2>1, <1>1, SubSeqProperties
    <2>3. \A j \in 1..(i - 1) - 1 + 1 : front[j] = s[1 + j - 1]
      BY <2>1, <1>1, SubSeqProperties
    <2> QED  BY <2>2, <2>3, <1>1
  <1>3. back \in Seq(S) /\ Len(back) = Len(s) - i /\ \A j \in 1..Len(s) - i : back[j] = s[i + j]
    <2>1. \A j \in i + 1..Len(s) : s[j] \in S
      BY <1>1
    <2>2. back \in Seq(S) /\ Len(back) = IF i + 1 =< Len(s) THEN Len(s) - (i + 1) + 1 ELSE 0
      BY <2>1, <1>1, SubSeqProperties
    <2>3. \A j \in 1..Len(s) - (i + 1) + 1 : back[j] = s[i + 1 + j - 1]
      BY <2>1, <1>1, SubSeqProperties
    <2> QED  BY <2>2, <2>3, <1>1
  <1> HIDE DEF front, back
  <1>4. RemoveAt(s, i) = front \o back
    BY DEF RemoveAt, front, back
  <1>5. /\ front \o back \in Seq(S) /\ Len(front \o back) = Len(s) - 1
        /\ \A j \in 1..Len(s) - 1 :
              (front \o back)[j] = IF j =< i - 1 THEN front[j] ELSE back[j - (i - 1)]
    <2>1. /\ front \o back \in Seq(S) /\ Len(front \o back) = Len(front) + Len(back)
          /\ \A j \in 1..Len(front) + Len(back) :
                (front \o back)[j] = IF j =< Len(front) THEN front[j] ELSE back[j - Len(front)]
      BY <1>2, <1>3, ConcatProperties
    <2>2. Len(front) = i - 1 /\ Len(front) + Len(back) = Len(s) - 1
      BY <1>1, <1>2, <1>3
    <2> QED  BY <2>1, <2>2
  <1>6. \A j \in 1..Len(s) - 1 : RemoveAt(s, i)[j] = IF j < i THEN s[j] ELSE s[j + 1]
    <2> SUFFICES ASSUME NEW j \in 1..Len(s) - 1
                 PROVE  RemoveAt(s, i)[j] = IF j < i THEN s[j] ELSE s[j + 1]
      OBVIOUS
    <2>1. CASE j < i
      BY <2>1, <1>1, <1>2, <1>4, <1>5
    <2>2. CASE ~(j < i)
      <3>1. j - (i - 1) \in 1..Len(s) - i /\ i + (j - (i - 1)) = j + 1
        BY <2>2, <1>1
      <3>2. RemoveAt(s, i)[j] = back[j - (i - 1)]
        BY <2>2, <1>1, <1>4, <1>5
      <3> QED  BY <2>2, <3>1, <3>2, <1>3
    <2> QED  BY <2>1, <2>2
  <1>7. DOMAIN RemoveAt(s, i) = 1..Len(s) - 1
    BY <1>4, <1>5, LenProperties
  <1>8. Range(RemoveAt(s, i)) \subseteq Range(s)
    BY <1>1, <1>6, <1>7 DEF Range
  <1>9. ASSUME NEW x \in Range(s), x # s[i] PROVE x \in Range(RemoveAt(s, i))
    <2>1. PICK j \in 1..Len(s) : s[j] = x
      BY <1>1 DEF Range
    <2>2. CASE j < i
      BY <2>1, <2>2, <1>1, <1>6, <1>7 DEF Range
    <2>3. CASE j > i
      <3>1. j - 1 \in 1..Len(s) - 1 /\ RemoveAt(s, i)[j - 1] = s[j]
        BY <2>3, <1>1, <1>6
      <3> QED  BY <3>1, <2>1, <1>7 DEF Range
    <2> QED  BY <2>1, <2>2, <2>3, <1>1, <1>9
  <1> QED  BY <1>4, <1>5, <1>6, <1>8, <1>9

LEMMA FiniteRange == ASSUME NEW S, NEW s \in Seq(S) PROVE IsFiniteSet(Range(s))
  <1>1. Len(s) \in Nat /\ s \in [1..Len(s) -> S]
    BY LenProperties
  <1>2. s \in Surjection(1..Len(s), Range(s))
    BY <1>1 DEF Surjection, Range
  <1> QED  BY <1>1, <1>2, FS_Interval, FS_Surjection

(* The workspaces, listed in some order, are all of them and no others.      *)
LEMMA KnownOnce ==
    ASSUME NEW S, IsFiniteSet(S)
    PROVE  SetToSeq(S) \in Seq(S) /\ Range(SetToSeq(S)) = S
  <1>1. Cardinality(S) \in Nat /\ ExistsBijection(1..Cardinality(S), S)
    BY FS_CardinalityType
  <1>2. PICK f \in [1..Cardinality(S) -> S] : IsInjective(f)
    BY <1>1 DEF ExistsBijection, Bijection, Injection
  <1>3. SetToSeq(S) \in [1..Cardinality(S) -> S] /\ IsInjective(SetToSeq(S))
    BY <1>2 DEF SetToSeq
  <1>4. SetToSeq(S) \in Injection(1..Cardinality(S), S)
    BY <1>3 DEF Injection
  <1>5. Cardinality(1..Cardinality(S)) = Cardinality(S)
    BY <1>1, FS_Interval
  <1>6. SetToSeq(S) \in Surjection(1..Cardinality(S), S)
    BY <1>4, <1>5, FS_Injection
  <1>7. \A x \in S : \E i \in 1..Cardinality(S) : SetToSeq(S)[i] = x
    BY <1>6 DEF Surjection
  <1> QED  BY <1>1, <1>3, <1>7, SeqDef DEF Range

(* One listing per workspace.                                                *)
LEMMA EachIs ==
    ASSUME NEW kind \in Scoped \cup {"budgets"}, NEW workspaces \in Seq(Workspace)
    PROVE  /\ Each(kind, workspaces) \in Seq(Planned \ {ListWorkspaces})
           /\ \A w \in Range(workspaces) :
                 [kind |-> kind, at |-> w] \in Range(Each(kind, workspaces))
  <1>1. /\ DOMAIN workspaces = 1..Len(workspaces) /\ Len(workspaces) \in Nat
        /\ \A i \in DOMAIN workspaces : workspaces[i] \in Workspace
    BY LenProperties, ElementOfSeq
  <1>2. ASSUME NEW w \in Workspace
        PROVE  [kind |-> kind, at |-> w] \in Planned \ {ListWorkspaces}
    BY DEF Planned, ListWorkspaces, Scoped
  <1>3. Each(kind, workspaces) \in [1..Len(workspaces) -> Planned \ {ListWorkspaces}]
    BY <1>1, <1>2 DEF Each
  <1>4. Each(kind, workspaces) \in Seq(Planned \ {ListWorkspaces})
    BY <1>1, <1>3, SeqDef
  <1>5. \A w \in Range(workspaces) : [kind |-> kind, at |-> w] \in Range(Each(kind, workspaces))
    BY DEF Each, Range
  <1> QED  BY <1>4, <1>5

LEMMA TailWithin ==
    ASSUME NEW S, NEW s \in Seq(S), s # <<>>
    PROVE  /\ Tail(s) \in Seq(S) /\ Range(Tail(s)) \subseteq Range(s)
           /\ \A x \in Range(s) : x = Head(s) \/ x \in Range(Tail(s))
  <1>1. Tail(s) \in Seq(S) /\ Len(Tail(s)) = Len(s) - 1 /\ \A i \in 1..Len(Tail(s)) : Tail(s)[i] = s[i + 1]
    BY HeadTailProperties
  <1>2. Len(s) \in Nat /\ DOMAIN s = 1..Len(s) /\ DOMAIN Tail(s) = 1..Len(s) - 1 /\ Head(s) = s[1]
    BY <1>1, LenProperties
  <1>3. ASSUME NEW x \in Range(s), x # Head(s) PROVE x \in Range(Tail(s))
    <2>1. PICK i \in 1..Len(s) : s[i] = x
      BY <1>2 DEF Range
    <2>2. i - 1 \in 1..Len(s) - 1 /\ Tail(s)[i - 1] = s[i]
      BY <1>1, <1>2, <1>3, <2>1
    <2> QED  BY <1>2, <2>1, <2>2 DEF Range
  <1>4. Range(Tail(s)) \subseteq Range(s)
    BY <1>1, <1>2 DEF Range
  <1> QED  BY <1>1, <1>3, <1>4

(* The rest of a snapshot reads every collection that belongs to no          *)
(* workspace or to one that was found.                                       *)
LEMMA RestIs ==
    ASSUME NEW workspaces \in Seq(Workspace)
    PROVE  /\ Rest(workspaces) \in Seq(Planned \ {ListWorkspaces})
           /\ Rest(workspaces) # <<>>
           /\ \A c \in Collection : c = <<"workspaces", None>>
                \/ (c[2] # None /\ c[2] \notin Range(workspaces))
                \/ \E l \in Range(Rest(workspaces)) : Paged(l) /\ CollectionOf(l) = c
  <1> DEFINE P == Planned \ {ListWorkspaces}
             one(kind) == <<Unscoped(kind)>>
             of(kind) == Each(kind, workspaces)
             r1 == of("budgets") \o one("keys")
             r2 == r1 \o of("keys")
             r3 == r2 \o one("guardrails")
             r4 == r3 \o of("guardrails")
             r5 == r4 \o one("assignments")
             r6 == r5 \o one("destinations")
  <1>1. \A kind \in Scoped \cup {"assignments"} :
          one(kind) \in Seq(P) /\ Unscoped(kind) \in Range(one(kind))
    <2>1. \A kind \in Scoped \cup {"assignments"} : Unscoped(kind) \in P
      BY DEF Unscoped, Planned, ListWorkspaces, Scoped
    <2>2. \A x \in P : <<x>> \in Seq(P) /\ x \in Range(<<x>>)
      BY DEF Range
    <2> QED  BY <2>1, <2>2
  <1>2. \A kind \in Scoped \cup {"budgets"} : of(kind) \in Seq(P)
    BY EachIs
  <1>3. \A kind \in Scoped, w \in Range(workspaces) :
          [kind |-> kind, at |-> w] \in Range(of(kind))
    BY EachIs
  <1> HIDE DEF one, of
  <1>4. \A s, t \in Seq(P) : s \o t \in Seq(P) /\ Range(s \o t) = Range(s) \cup Range(t)
    BY ConcatProperties, RangeConcatenation
  <1>5. Rest(workspaces) = r6 \o of("destinations")
    BY DEF Rest, one, of
  <1>6. /\ Rest(workspaces) \in Seq(P)
        /\ \A kind \in Scoped : Range(of(kind)) \subseteq Range(Rest(workspaces))
        /\ \A kind \in Scoped \cup {"assignments"} : Range(one(kind)) \subseteq Range(Rest(workspaces))
    <2> HIDE DEF P
    <2>1. r1 \in Seq(P) /\ Range(r1) = Range(of("budgets")) \cup Range(one("keys"))
      BY <1>1, <1>2, <1>4 DEF Scoped
    <2> HIDE DEF r1
    <2>2. r2 \in Seq(P) /\ Range(r2) = Range(r1) \cup Range(of("keys"))
      BY <2>1, <1>2, <1>4 DEF Scoped
    <2> HIDE DEF r2
    <2>3. r3 \in Seq(P) /\ Range(r3) = Range(r2) \cup Range(one("guardrails"))
      BY <2>2, <1>1, <1>4 DEF Scoped
    <2> HIDE DEF r3
    <2>4. r4 \in Seq(P) /\ Range(r4) = Range(r3) \cup Range(of("guardrails"))
      BY <2>3, <1>2, <1>4 DEF Scoped
    <2> HIDE DEF r4
    <2>5. r5 \in Seq(P) /\ Range(r5) = Range(r4) \cup Range(one("assignments"))
      BY <2>4, <1>1, <1>4 DEF Scoped
    <2> HIDE DEF r5
    <2>6. r6 \in Seq(P) /\ Range(r6) = Range(r5) \cup Range(one("destinations"))
      BY <2>5, <1>1, <1>4 DEF Scoped
    <2> HIDE DEF r6
    <2>7. /\ Rest(workspaces) \in Seq(P)
          /\ Range(Rest(workspaces)) = Range(r6) \cup Range(of("destinations"))
      BY <2>6, <1>2, <1>4, <1>5 DEF Scoped
    <2> QED  BY <2>1, <2>2, <2>3, <2>4, <2>5, <2>6, <2>7 DEF Scoped
  <1>7. Unscoped("assignments") \in Range(Rest(workspaces))
    BY <1>1, <1>6
  <1>8. Rest(workspaces) # <<>>
    BY <1>7 DEF Range
  <1>9. ASSUME NEW c \in Collection, c # <<"workspaces", None>>,
               c[2] = None \/ c[2] \in Range(workspaces)
        PROVE  \E l \in Range(Rest(workspaces)) : Paged(l) /\ CollectionOf(l) = c
    <2>1. CASE c = <<"assignments", None>>
      BY <2>1, <1>7 DEF Unscoped, Paged, CollectionOf, Scoped
    <2>2. CASE c \in Scoped \X Workspace
      <3> DEFINE l == [kind |-> c[1], at |-> c[2]]
      <3>1. c[1] \in Scoped /\ c[2] \in Range(workspaces) /\ c[2] # None
        BY <2>2, <1>9, ReaderAssumption
      <3>2. l \in Range(Rest(workspaces))
        BY <3>1, <1>3, <1>6
      <3>3. Paged(l) /\ CollectionOf(l) = c
        BY <2>2, <3>1 DEF Paged, CollectionOf, Scoped
      <3> QED  BY <3>2, <3>3
    <2> QED  BY <2>1, <2>2, <1>9 DEF Collection
  <1> QED  BY <1>6, <1>8, <1>9

-----------------------------------------------------------------------------
(* A snapshot begins in the invariant.                                       *)
LEMMA Begun == Init => Inv
  <1> SUFFICES ASSUME Init PROVE Inv
    OBVIOUS
  <1> DEFINE W == <<"workspaces", None>>
  <1>1. /\ MaxAttempts \in Nat \ {0} /\ MaxBackoff \in Nat
        /\ MaxPages \in Nat \ {0} /\ MaxChanges \in Nat
    BY PolicyAssumption, ReaderAssumption
  <1>2. /\ W \in Collection /\ todo \in Seq(Planned) /\ todo = <<ListWorkspaces>>
        /\ Underway = ListWorkspaces /\ Range(todo) = {ListWorkspaces} /\ Paged(Underway)
        /\ CollectionOf(Underway) = W
    BY ShelfNames DEF Init, Underway, Range
  <1>3. Shelved
    <2>1. \A c \in Collection : c[2] # None /\ ~Listed(c[2]) => shelf[c] = <<>>
      BY CollectionsAssumption DEF Init, Listed
    <2> QED  BY <2>1, CollectionsAssumption DEF Init, Shelved
  <1>4. Counted
    BY <1>1, CollectionsAssumption, LenProperties DEF Init, Counted
  <1>5. Unmade
    <2>1. \A j \in DOMAIN Fresh : Fresh[j] \in Range(Fresh)
      BY DEF Range
    <2> QED  BY <1>2, <2>1, CollectionsAssumption DEF Init, Unmade
  <1>6. Queued
    BY <1>2 DEF Init, Queued
  <1>7. Progressed
    <2>1. Start[W] \in Seq(Record)
      BY <1>2, CollectionsAssumption
    <2>2. before \subseteq Record /\ IsFiniteSet(before)
      BY <2>1, RangeOfSeq, FiniteRange DEF Init
    <2> QED  BY <1>1, <2>2, FS_EmptySet DEF Init, Progressed, Reading
  <1>8. Waits
    BY <1>1 DEF Init, Waits
  <1>9. Displaced
    <2>1. \A i \in DOMAIN shelf[W] : ~(i =< offset)
      <3>1. Start[W] \in Seq(Record)
        BY <1>2, CollectionsAssumption
      <3>2. DOMAIN Start[W] = 1..Len(Start[W]) /\ Len(Start[W]) \in Nat
        BY <3>1, LenProperties
      <3> QED  BY <3>2 DEF Init
    <2>2. Missed = {}
      BY <1>2, <2>1 DEF Missed, Passed
    <2> QED  BY <2>2, FS_EmptySet DEF Init, Displaced
  <1>10. Whole
    BY <1>2 DEF Init, Whole, Ahead
  <1> QED  BY <1>3, <1>4, <1>5, <1>6, <1>7, <1>8, <1>9, <1>10 DEF Inv

-----------------------------------------------------------------------------
(* What a creation changes: one collection, by one new record at its end.    *)
LEMMA CreateEffect ==
    ASSUME NEW c \in Collection, Shelved, Create(c), created \in Nat
    PROVE  /\ created + 1 \in DOMAIN Fresh
           /\ shelf'[c] = <<Fresh[created + 1]>> \o shelf[c]
                \/ shelf'[c] = shelf[c] \o <<Fresh[created + 1]>>
           /\ shelf'[c] \in Seq(Record)
           /\ Range(shelf'[c]) = Range(shelf[c]) \cup {Fresh[created + 1]}
           /\ \A d \in Collection : d # c => shelf'[d] = shelf[d]
           /\ shelf' \in [Collection -> Seq(Record)]
  <1> DEFINE new == Fresh[created + 1]
  <1>1. created + 1 \in DOMAIN Fresh /\ new \in Record
    <2>1. Len(Fresh) \in Nat /\ DOMAIN Fresh = 1..Len(Fresh)
      BY CollectionsAssumption, LenProperties
    <2>2. created + 1 \in 1..Len(Fresh)
      BY <2>1 DEF Create
    <2> QED  BY <2>1, <2>2, CollectionsAssumption, ElementOfSeq
  <1> HIDE DEF new
  <1>2. <<new>> \in Seq(Record) /\ Range(<<new>>) = {new} /\ shelf[c] \in Seq(Record)
    BY <1>1 DEF Range, Shelved
  <1>3. /\ <<new>> \o shelf[c] \in Seq(Record) /\ shelf[c] \o <<new>> \in Seq(Record)
        /\ Range(<<new>> \o shelf[c]) = {new} \cup Range(shelf[c])
        /\ Range(shelf[c] \o <<new>>) = Range(shelf[c]) \cup {new}
    <2> DEFINE old == shelf[c]
               fresh == <<new>>
    <2> HIDE DEF old, fresh
    <2>1. fresh \in Seq(Record) /\ old \in Seq(Record) /\ Range(fresh) = {new}
      BY <1>2 DEF fresh, old
    <2>2. fresh \o old \in Seq(Record) /\ old \o fresh \in Seq(Record)
      BY <2>1, ConcatProperties
    <2>3. Range(fresh \o old) = {new} \cup Range(old) /\ Range(old \o fresh) = Range(old) \cup {new}
      BY <2>1, RangeConcatenation
    <2> QED  BY <2>2, <2>3 DEF fresh, old
  <1>4. \/ shelf' = [shelf EXCEPT ![c] = <<new>> \o @]
        \/ shelf' = [shelf EXCEPT ![c] = @ \o <<new>>]
    BY DEF Create, new
  <1>5. /\ shelf'[c] = <<new>> \o shelf[c] \/ shelf'[c] = shelf[c] \o <<new>>
        /\ \A d \in Collection : d # c => shelf'[d] = shelf[d]
        /\ shelf' \in [Collection -> Seq(Record)]
    BY <1>3, <1>4 DEF Shelved
  <1> QED  BY <1>1, <1>3, <1>5 DEF new

(* What a deletion changes: one record goes, and the collections of a        *)
(* workspace with it.                                                        *)
LEMMA DeleteEffect ==
    ASSUME NEW c \in Collection, Shelved, NEW i \in DOMAIN shelf[c], shelf' = Without(c, i)
    PROVE  /\ shelf'[c] = RemoveAt(shelf[c], i)
           /\ \A d \in Collection : d # c /\ d[2] # shelf[c][i] => shelf'[d] = shelf[d]
           /\ \A d \in Collection : d # c /\ d[2] = shelf[c][i] => shelf'[d] = <<>>
           /\ \A d \in Collection : Range(shelf'[d]) \subseteq Range(shelf[d])
           /\ shelf' \in [Collection -> Seq(Record)]
  <1>1. \A d \in Collection : shelf[d] \in Seq(Record)
    BY DEF Shelved
  <1>2. /\ RemoveAt(shelf[c], i) \in Seq(Record)
        /\ Range(RemoveAt(shelf[c], i)) \subseteq Range(shelf[c])
    BY <1>1, WithoutOne
  <1>3. <<>> \in Seq(Record) /\ Range(<<>>) = {}
    BY DEF Range
  <1>4. \A d \in Collection :
          shelf'[d] = IF d = c THEN RemoveAt(shelf[c], i)
                      ELSE IF d[2] = shelf[c][i] THEN <<>> ELSE shelf[d]
    BY DEF Without
  <1>5. \A d \in Collection : shelf'[d] \in Seq(Record) /\ Range(shelf'[d]) \subseteq Range(shelf[d])
    BY <1>1, <1>2, <1>3, <1>4
  <1>6. shelf' = [d \in Collection |-> shelf'[d]]
    BY DEF Without
  <1> QED  BY <1>4, <1>5, <1>6

LEMMA StaysShelved == Inv /\ [Next]_vars => Shelved'
  <1> SUFFICES ASSUME Inv, [Next]_vars PROVE Shelved'
    OBVIOUS
  <1> DEFINE W == <<"workspaces", None>>
  <1>1. Shelved /\ created \in Nat /\ W \in Collection /\ Changing \subseteq Collection
    BY ShelfNames, ReaderAssumption DEF Inv, Counted
  <1>2. CASE UNCHANGED shelf
    BY <1>1, <1>2 DEF Shelved, Listed
  <1>3. ASSUME NEW c \in Changing, Create(c) PROVE Shelved'
    <2>1. c \in Collection /\ c # W /\ (c[2] = None \/ Listed(c[2]))
      BY <1>1, <1>3 DEF Create
    <2>2. /\ shelf' \in [Collection -> Seq(Record)]
          /\ \A d \in Collection : d # c => shelf'[d] = shelf[d]
      BY <1>1, <1>3, <2>1, CreateEffect
    <2>3. shelf'[W] = shelf[W]
      BY <1>1, <2>1, <2>2
    <2>4. \A d \in Collection : d[2] # None /\ d[2] \notin Range(shelf'[W]) => shelf'[d] = <<>>
      BY <1>1, <2>1, <2>2, <2>3 DEF Shelved, Listed
    <2> QED  BY <1>1, <2>2, <2>3, <2>4 DEF Shelved, Listed
  <1>4. ASSUME NEW c \in Changing, Delete(c) PROVE Shelved'
    <2>1. PICK i \in DOMAIN shelf[c] : shelf' = Without(c, i)
      BY <1>4 DEF Delete
    <2>2. /\ shelf'[c] = RemoveAt(shelf[c], i)
          /\ \A d \in Collection : d # c /\ d[2] # shelf[c][i] => shelf'[d] = shelf[d]
          /\ \A d \in Collection : d # c /\ d[2] = shelf[c][i] => shelf'[d] = <<>>
          /\ \A d \in Collection : Range(shelf'[d]) \subseteq Range(shelf[d])
          /\ shelf' \in [Collection -> Seq(Record)]
      BY <1>1, <2>1, DeleteEffect
    <2>3. shelf[c] \in Seq(Record) /\ shelf[c][i] \in Record /\ shelf[c][i] # None
      <3>1. shelf[c] \in Seq(Record)
        BY <1>1 DEF Shelved
      <3>2. DOMAIN shelf[c] = 1..Len(shelf[c])
        BY <3>1, LenProperties
      <3> QED  BY <3>1, <3>2, <2>1, ElementOfSeq, CollectionsAssumption
    <2>4. ASSUME NEW d \in Collection, d[2] # None, d[2] \notin Range(shelf'[W])
          PROVE  shelf'[d] = <<>>
      <3>1. \A e \in Collection : shelf[e] = <<>> => shelf'[e] = <<>>
        <4> SUFFICES ASSUME NEW e \in Collection, shelf[e] = <<>> PROVE shelf'[e] = <<>>
          OBVIOUS
        <4>1. Range(shelf'[e]) = {} /\ shelf'[e] \in Seq(Record)
          BY <2>2 DEF Range
        <4>2. DOMAIN shelf'[e] = 1..Len(shelf'[e]) /\ Len(shelf'[e]) \in Nat
          BY <4>1, LenProperties
        <4>3. \A k \in DOMAIN shelf'[e] : shelf'[e][k] \in Range(shelf'[e])
          BY DEF Range
        <4>4. 1 \notin DOMAIN shelf'[e]
          BY <4>1, <4>3
        <4>5. Len(shelf'[e]) = 0
          BY <4>2, <4>4
        <4> QED  BY <4>1, <4>5, EmptySeq
      <3>2. CASE d[2] \notin Range(shelf[W])
        BY <1>1, <2>4, <3>1, <3>2 DEF Shelved, Listed
      <3>3. CASE d[2] \in Range(shelf[W])
        <4>1. shelf'[W] # shelf[W]
          BY <2>4, <3>3
        <4>2. c = W
          BY <1>1, <2>2, <2>3, <4>1
        <4>3. d[2] = shelf[c][i]
          BY <2>1, <2>2, <2>3, <2>4, <3>3, <4>2, WithoutOne
        <4>4. d # c
          BY <2>4, <4>2
        <4> QED  BY <2>2, <4>3, <4>4
      <3> QED  BY <3>2, <3>3
    <2> QED  BY <1>1, <2>2, <2>4 DEF Shelved, Listed
  <1>5. Read \/ UNCHANGED vars => UNCHANGED shelf
    BY DEF Read, ReadPage, ReadBudgets, Unusable, Repeat, Wake, GiveUp, NextListing, server, vars
  <1> QED  BY <1>2, <1>3, <1>4, <1>5 DEF Next

(* The collection from an offset on.                                         *)
LEMMA WindowIs ==
    ASSUME NEW S, NEW s \in Seq(S), NEW o \in Nat
    PROVE  /\ SubSeq(s, o + 1, Len(s)) \in Seq(S)
           /\ Len(SubSeq(s, o + 1, Len(s))) = (IF o + 1 =< Len(s) THEN Len(s) - o ELSE 0)
           /\ \A j \in 1..Len(s) - o : SubSeq(s, o + 1, Len(s))[j] = s[o + j]
  <1>1. Len(s) \in Nat /\ \A j \in 1..Len(s) : s[j] \in S
    BY LenProperties, ElementOfSeq
  <1>2. \A j \in o + 1..Len(s) : s[j] \in S
    BY <1>1
  <1>3. /\ SubSeq(s, o + 1, Len(s)) \in Seq(S)
        /\ Len(SubSeq(s, o + 1, Len(s))) = IF o + 1 =< Len(s) THEN Len(s) - (o + 1) + 1 ELSE 0
    BY <1>1, <1>2, SubSeqProperties
  <1>4. \A j \in 1..Len(s) - (o + 1) + 1 : SubSeq(s, o + 1, Len(s))[j] = s[o + 1 + j - 1]
    BY <1>1, <1>2, SubSeqProperties
  <1>5. ASSUME NEW j \in 1..Len(s) - o PROVE SubSeq(s, o + 1, Len(s))[j] = s[o + j]
    <2>1. j \in 1..Len(s) - (o + 1) + 1 /\ o + 1 + j - 1 = o + j
      BY <1>1
    <2> QED  BY <2>1, <1>4
  <1> QED  BY <1>1, <1>3, <1>5

(* A page is what stands at the offset, and empty only at the end.           *)
LEMMA PageIs ==
    ASSUME NEW s \in Seq(Record), NEW o \in Nat, NEW l, NEW from,
           s = shelf[CollectionOf(l)], o = (IF ignores THEN 0 ELSE from),
           NEW items \in Pages(l, from)
    PROVE  /\ items \in Seq(Record) /\ Range(items) \subseteq Range(s)
           /\ \A j \in 1..Len(items) : o + j \in DOMAIN s /\ items[j] = s[o + j]
           /\ items = <<>> => Len(s) =< o
  <1> DEFINE rest == SubSeq(s, o + 1, Len(s))
  <1>1. Len(s) \in Nat /\ DOMAIN s = 1..Len(s) /\ \A j \in 1..Len(s) : s[j] \in Record
    BY LenProperties, ElementOfSeq
  <1>2. /\ rest \in Seq(Record) /\ Len(rest) = (IF o + 1 =< Len(s) THEN Len(s) - o ELSE 0)
        /\ \A j \in 1..Len(s) - o : rest[j] = s[o + j]
    BY <1>1, WindowIs
  <1>3. Pages(l, from) =
          {SubSeq(rest, 1, n) : n \in Min({1, Len(rest)})..Min({PageSize, Len(rest)})}
    BY DEF Pages
  <1> HIDE DEF rest
  <1>4. PICK n \in Min({1, Len(rest)})..Min({PageSize, Len(rest)}) : items = SubSeq(rest, 1, n)
    BY <1>3
  <1>5. Len(rest) \in Nat /\ DOMAIN rest = 1..Len(rest) /\ \A j \in 1..Len(rest) : rest[j] \in Record
    BY <1>2, LenProperties, ElementOfSeq
  <1>6. /\ Min({1, Len(rest)}) = (IF Len(rest) = 0 THEN 0 ELSE 1)
        /\ Min({PageSize, Len(rest)}) =< Len(rest) /\ Min({PageSize, Len(rest)}) \in Nat
    BY <1>5, ReaderAssumption DEF Min
  <1>7. n \in 0..Len(rest) /\ (n = 0 => Len(rest) = 0)
    BY <1>4, <1>5, <1>6
  <1>8. items \in Seq(Record) /\ Len(items) = n /\ \A j \in 1..n : items[j] = rest[j]
    <2>1. \A j \in 1..n : rest[j] \in Record
      BY <1>5, <1>7
    <2>2. /\ SubSeq(rest, 1, n) \in Seq(Record)
          /\ Len(SubSeq(rest, 1, n)) = IF 1 =< n THEN n - 1 + 1 ELSE 0
      BY <2>1, <1>7, SubSeqProperties
    <2>3. \A j \in 1..n - 1 + 1 : SubSeq(rest, 1, n)[j] = rest[1 + j - 1]
      BY <2>1, <1>7, SubSeqProperties
    <2> QED  BY <2>2, <2>3, <1>4, <1>7
  <1>9. ASSUME NEW j \in 1..Len(items)
        PROVE  o + j \in DOMAIN s /\ items[j] = s[o + j]
    <2>1. j \in 1..Len(rest) /\ j \in 1..n
      BY <1>7, <1>8
    <2>2. o + 1 =< Len(s)
      BY <2>1, <1>1, <1>2
    <2>3. j \in 1..Len(s) - o
      BY <2>1, <2>2, <1>1, <1>2
    <2>4. o + j \in DOMAIN s
      BY <2>3, <1>1
    <2>5. items[j] = rest[j] /\ rest[j] = s[o + j]
      BY <2>1, <2>3, <1>2, <1>8
    <2> QED  BY <2>4, <2>5
  <1>10. Range(items) \subseteq Range(s)
    <2>1. DOMAIN items = 1..Len(items)
      BY <1>8, LenProperties
    <2> QED  BY <2>1, <1>9 DEF Range
  <1>11. items = <<>> => Len(s) =< o
    <2> SUFFICES ASSUME items = <<>> PROVE Len(s) =< o
      OBVIOUS
    <2>1. Len(rest) = 0
      BY <1>7, <1>8, EmptySeq
    <2> QED  BY <2>1, <1>1, <1>2
  <1> QED  BY <1>8, <1>9, <1>10, <1>11

(* The listing that follows, and the collection it starts from.              *)
LEMMA NextTodo ==
    ASSUME Inv, NextListing
    PROVE  /\ todo' \in Seq(Planned) /\ ListWorkspaces \notin Range(todo')
           /\ pc' = (IF todo' = <<>> THEN "complete" ELSE "read")
           /\ (todo' = <<>> \/ ~Paged(Head(todo'))) => before' = {}
           /\ todo' # <<>> /\ Paged(Head(todo')) =>
                 /\ CollectionOf(Head(todo')) \in Collection
                 /\ before' = Range(shelf[CollectionOf(Head(todo'))])
           /\ todo # <<>> /\ Underway \in Planned /\ Underway \in Range(todo)
           /\ IF Underway.kind = "workspaces" THEN todo = <<ListWorkspaces>> /\ todo' = Rest(Known)
                                              ELSE todo # <<ListWorkspaces>> /\ todo' = Tail(todo)
  <1>1. /\ todo \in Seq(Planned) /\ todo # <<>>
        /\ todo = <<ListWorkspaces>> \/ ListWorkspaces \notin Range(todo)
        /\ todo = <<ListWorkspaces>> => collected \subseteq Workspace
        /\ IsFiniteSet(collected)
    BY DEF Inv, Queued, Progressed, NextListing
  <1>2. Underway \in Planned /\ Underway \in Range(todo)
    <2>1. 1 \in DOMAIN todo /\ Underway = todo[1]
      BY <1>1, LenProperties DEF Underway
    <2> QED  BY <1>1, <2>1, HeadTailProperties DEF Underway, Range
  <1>3. Underway.kind = "workspaces" <=> Underway = ListWorkspaces
    BY <1>2 DEF Planned, ListWorkspaces, Unscoped, Scoped
  <1>4. Underway = ListWorkspaces <=> todo = <<ListWorkspaces>>
    <2>1. todo = <<ListWorkspaces>> => Underway = ListWorkspaces
      BY DEF Underway
    <2> QED  BY <1>1, <1>2, <2>1
  <1>5. todo' = IF Underway.kind = "workspaces" THEN Rest(Known) ELSE Tail(todo)
    BY DEF NextListing
  <1>6. todo' \in Seq(Planned) /\ ListWorkspaces \notin Range(todo')
    <2>1. CASE Underway.kind = "workspaces"
      <3>1. collected \subseteq Workspace
        BY <1>1, <1>3, <1>4, <2>1
      <3>2. Known \in Seq(Workspace)
        BY <1>1, <3>1, KnownOnce, SeqMonotonic DEF Known
      <3>3. Rest(Known) \in Seq(Planned \ {ListWorkspaces})
        BY <3>2, RestIs
      <3>4. Rest(Known) \in Seq(Planned)
        BY <3>3, SeqMonotonic
      <3>5. Range(Rest(Known)) \subseteq Planned \ {ListWorkspaces}
        BY <3>3, RangeOfSeq
      <3> QED  BY <1>5, <2>1, <3>4, <3>5
    <2>2. CASE Underway.kind # "workspaces"
      <3>1. Tail(todo) \in Seq(Planned) /\ Range(Tail(todo)) \subseteq Range(todo)
        BY <1>1, TailWithin
      <3> QED  BY <1>1, <1>3, <1>4, <1>5, <2>2, <3>1
    <2> QED  BY <2>1, <2>2
  <1>7. /\ pc' = (IF todo' = <<>> THEN "complete" ELSE "read")
        /\ before' = IF todo' = <<>> \/ Head(todo').kind = "budgets" THEN {}
                     ELSE Range(shelf[CollectionOf(Head(todo'))])
    BY <1>5 DEF NextListing
  <1>8. ASSUME todo' # <<>>, Paged(Head(todo')) PROVE CollectionOf(Head(todo')) \in Collection
    BY <1>6, <1>8, HeadTailProperties, PlannedListing
  <1> QED  BY <1>1, <1>2, <1>3, <1>4, <1>5, <1>6, <1>7, <1>8 DEF Paged

LEMMA StaysCounted == Inv /\ [Next]_vars => Counted'
  <1> SUFFICES ASSUME Inv, [Next]_vars PROVE Counted'
    OBVIOUS
  <1>1. /\ Counted /\ MaxChanges \in Nat
        /\ Len(Fresh) \in Nat
    BY ReaderAssumption, CollectionsAssumption, LenProperties DEF Inv
  <1>2. CASE UNCHANGED <<created, deleted>> /\ dropped' \in {dropped, 0}
    BY <1>1, <1>2 DEF Counted
  <1>3. ASSUME NEW c \in Changing, Create(c) PROVE Counted'
    BY <1>1, <1>3 DEF Create, Counted, MayChange
  <1>4. ASSUME NEW c \in Changing, Delete(c) PROVE Counted'
    <2>1. deleted' = deleted + 1 /\ created' = created /\ dropped' \in {dropped, dropped + 1}
      BY <1>4 DEF Delete
    <2>2. created + deleted < MaxChanges
      BY <1>4 DEF Delete, MayChange
    <2> QED  BY <1>1, <2>1, <2>2 DEF Counted
  <1>5. Read \/ UNCHANGED vars => UNCHANGED <<created, deleted>> /\ dropped' \in {dropped, 0}
    BY DEF Read, ReadPage, ReadBudgets, Unusable, Repeat, Wake, GiveUp, NextListing, server, vars
  <1> QED  BY <1>2, <1>3, <1>4, <1>5 DEF Next

LEMMA StaysUnmade == Inv /\ [Next]_vars => Unmade'
  <1> SUFFICES ASSUME Inv, [Next]_vars PROVE Unmade'
    OBVIOUS
  <1>1. /\ Unmade /\ Shelved /\ created \in Nat /\ Changing \subseteq Collection
        /\ IsInjective(Fresh) /\ Len(Fresh) \in Nat /\ DOMAIN Fresh = 1..Len(Fresh)
    BY ReaderAssumption, CollectionsAssumption, LenProperties DEF Inv, Counted
  <1>2. CASE UNCHANGED <<created, shelf, before>>
    BY <1>1, <1>2 DEF Unmade
  <1>3. ASSUME NEW c \in Changing, Create(c) PROVE Unmade'
    <2>1. c \in Collection /\ created' = created + 1 /\ before' = before
      BY <1>1, <1>3 DEF Create
    <2>2. /\ created + 1 \in DOMAIN Fresh
          /\ Range(shelf'[c]) = Range(shelf[c]) \cup {Fresh[created + 1]}
          /\ \A d \in Collection : d # c => shelf'[d] = shelf[d]
      BY <1>1, <1>3, <2>1, CreateEffect
    <2>3. ASSUME NEW j \in DOMAIN Fresh, j > created'
          PROVE  Fresh[j] \notin before /\ \A d \in Collection : Fresh[j] \notin Range(shelf'[d])
      <3>1. j \in Nat /\ j > created /\ j # created + 1
        BY <1>1, <2>1, <2>3
      <3>2. Fresh[j] # Fresh[created + 1]
        BY <1>1, <2>2, <3>1 DEF IsInjective
      <3>3. Fresh[j] \notin before /\ \A d \in Collection : Fresh[j] \notin Range(shelf[d])
        BY <1>1, <3>1 DEF Unmade
      <3> QED  BY <2>2, <3>2, <3>3
    <2> QED  BY <2>1, <2>3 DEF Unmade
  <1>4. ASSUME NEW c \in Changing, Delete(c) PROVE Unmade'
    <2>1. c \in Collection /\ created' = created /\ before' = before
      BY <1>1, <1>4 DEF Delete
    <2>2. PICK i \in DOMAIN shelf[c] : shelf' = Without(c, i)
      BY <1>4 DEF Delete
    <2>3. \A d \in Collection : Range(shelf'[d]) \subseteq Range(shelf[d])
      BY <1>1, <2>1, <2>2, DeleteEffect
    <2> QED  BY <1>1, <2>1, <2>3 DEF Unmade
  <1>5. CASE NextListing
    <2>1. UNCHANGED <<created, shelf>>
      BY <1>5 DEF NextListing, server
    <2>2. before' = {} \/ \E c \in Collection : before' = Range(shelf[c])
      BY <1>5, NextTodo DEF Paged
    <2> QED  BY <1>1, <2>1, <2>2 DEF Unmade
  <1>6. Read \/ UNCHANGED vars => UNCHANGED <<created, shelf, before>> \/ NextListing
    BY DEF Read, ReadPage, ReadBudgets, Unusable, Repeat, Wake, GiveUp, server, vars
  <1> QED  BY <1>2, <1>3, <1>4, <1>5, <1>6 DEF Next

(* There is a listing underway while the snapshot is being read.             *)
LEMMA UnderwayIs ==
    ASSUME Inv, Reading
    PROVE  /\ todo # <<>> /\ Underway \in Planned /\ Underway \in Range(todo)
           /\ Paged(Underway) => CollectionOf(Underway) \in Collection
           /\ (Underway = ListWorkspaces) <=> (todo = <<ListWorkspaces>>)
  <1>1. /\ todo \in Seq(Planned) /\ todo # <<>>
        /\ todo = <<ListWorkspaces>> \/ ListWorkspaces \notin Range(todo)
    BY DEF Inv, Queued, Reading
  <1>2. Underway \in Planned /\ Underway \in Range(todo)
    <2>1. 1 \in DOMAIN todo /\ Underway = todo[1]
      BY <1>1, LenProperties DEF Underway
    <2> QED  BY <1>1, <2>1, HeadTailProperties DEF Underway, Range
  <1>3. todo = <<ListWorkspaces>> => Underway = ListWorkspaces
    BY DEF Underway
  <1>4. Paged(Underway) => CollectionOf(Underway) \in Collection
    BY <1>2, PlannedListing
  <1> QED  BY <1>1, <1>2, <1>3, <1>4

(* A page that is not empty, whatever total is claimed.                      *)
FullPage(items) == \E total : Page(items, total)

(* Reading a page takes what the server shows at the offset.                 *)
LEMMA PageRead ==
    ASSUME Inv, ReadPage, NEW s, NEW o, s = shelf[CollectionOf(Underway)],
           o = IF ignores THEN 0 ELSE offset
    PROVE  /\ s \in Seq(Record) /\ o \in Nat
           /\ \E items \in Seq(Record) :
                /\ Range(items) \subseteq Range(s)
                /\ \A j \in 1..Len(items) : o + j \in DOMAIN s /\ items[j] = s[o + j]
                /\ items = <<>> => Len(s) =< o
                /\ EmptyPage(items) \/ FullPage(items)
  <1>1. Reading /\ Paged(Underway)
    BY DEF ReadPage, Reading
  <1>2. CollectionOf(Underway) \in Collection
    BY <1>1, UnderwayIs
  <1>3. s \in Seq(Record) /\ o \in Nat
    BY <1>2 DEF Inv, Shelved, Progressed
  <1>4. PICK items \in Pages(Underway, offset) :
          \E total \in Totals : EmptyPage(items) \/ Page(items, Claim(Underway, total))
    BY DEF ReadPage
  <1>5. EmptyPage(items) \/ FullPage(items)
    BY <1>4 DEF FullPage
  <1>6. /\ items \in Seq(Record) /\ Range(items) \subseteq Range(s)
        /\ \A j \in 1..Len(items) : o + j \in DOMAIN s /\ items[j] = s[o + j]
        /\ items = <<>> => Len(s) =< o
    BY <1>3, <1>4, PageIs
  <1> QED  BY <1>3, <1>5, <1>6

LEMMA StaysQueued == Inv /\ [Next]_vars => Queued'
  <1> SUFFICES ASSUME Inv, [Next]_vars PROVE Queued'
    OBVIOUS
  <1>1. Queued /\ Shelved
    BY DEF Inv
  <1>2. CASE UNCHANGED <<todo, pc, collected>>
    BY <1>1, <1>2 DEF Queued
  <1>3. ASSUME todo' = todo, pc \notin {"complete", "failed"}, pc' # "complete",
               todo = <<ListWorkspaces>> => collected' \subseteq Workspace
        PROVE  Queued'
    BY <1>1, <1>3 DEF Queued
  <1>4. CASE ReadPage
    <2>1. Reading /\ todo' = todo
      BY <1>4 DEF ReadPage, Reading
    <2>2. PICK items : /\ Range(items) \subseteq Range(shelf[CollectionOf(Underway)])
                       /\ EmptyPage(items) \/ FullPage(items)
      BY <1>4, PageRead
    <2>3. pc' # "complete" /\ collected' \subseteq collected \cup Range(items)
      BY <2>2 DEF EmptyPage, FullPage, Page, listing
    <2>4. ASSUME todo = <<ListWorkspaces>> PROVE collected' \subseteq Workspace
      <3>1. CollectionOf(Underway) = <<"workspaces", None>>
        BY <2>4, ShelfNames DEF Underway
      <3> QED  BY <1>1, <2>2, <2>3, <2>4, <3>1 DEF Queued, Shelved
    <2> QED  BY <1>3, <2>1, <2>3, <2>4 DEF Reading
  <1>5. CASE ReadBudgets \/ Unusable \/ Repeat \/ Wake \/ GiveUp
    <2>1. /\ todo' = todo /\ pc \notin {"complete", "failed"} /\ pc' # "complete"
          /\ collected' \in {collected, {}}
      BY <1>5 DEF ReadBudgets, Unusable, Repeat, Wake, GiveUp, listing
    <2> QED  BY <1>1, <1>3, <2>1 DEF Queued
  <1>6. CASE NextListing
    <2>1. /\ todo' \in Seq(Planned) /\ ListWorkspaces \notin Range(todo')
          /\ pc' = (IF todo' = <<>> THEN "complete" ELSE "read")
      BY <1>6, NextTodo
    <2>2. todo' # <<ListWorkspaces>>
      BY <2>1 DEF Range
    <2> QED  BY <2>1, <2>2 DEF Queued
  <1>7. ASSUME NEW c \in Changing, Create(c) \/ Delete(c) PROVE UNCHANGED <<todo, pc, collected>>
    BY <1>7 DEF Create, Delete, listing
  <1> QED  BY <1>2, <1>4, <1>5, <1>6, <1>7 DEF Next, Read, vars, listing

LEMMA StaysProgressed == Inv /\ [Next]_vars => Progressed'
  <1> SUFFICES ASSUME Inv, [Next]_vars PROVE Progressed'
    OBVIOUS
  <1>1. Progressed /\ Shelved /\ MaxPages \in Nat \ {0}
    BY ReaderAssumption DEF Inv
  <1>2. ASSUME UNCHANGED <<ignores, before, found>>, UNCHANGED <<offset, page>>,
               pc' \in {"read", "asleep", "listed", "failed", pc}, collected' \in {collected, {}},
               Reading' => Reading
        PROVE  Progressed'
    <2>1. IsFiniteSet(collected') /\ collected' \subseteq Record
      BY <1>1, <1>2, FS_EmptySet DEF Progressed
    <2> QED  BY <1>1, <1>2, <2>1 DEF Progressed
  <1>3. CASE ReadPage
    <2>1. UNCHANGED <<ignores, before, found>> /\ Reading
      BY <1>3 DEF ReadPage, server, Reading
    <2>2. PICK items \in Seq(Record) : EmptyPage(items) \/ FullPage(items)
      BY <1>3, PageRead
    <2>3. CASE EmptyPage(items)
      BY <1>2, <2>1, <2>3 DEF EmptyPage, listing
    <2>4. CASE FullPage(items)
      <3>1. /\ collected' = collected \cup Range(items) /\ offset' = offset + Len(items)
            /\ page' = page + 1 /\ pc' \in {"failed", "read"}
            /\ page = MaxPages => pc' = "failed"
        BY <2>4 DEF FullPage, Page, NextOffset
      <3>2. IsFiniteSet(Range(items)) /\ Range(items) \subseteq Record /\ Len(items) \in Nat
        BY FiniteRange, RangeOfSeq, LenProperties
      <3>3. IsFiniteSet(collected') /\ collected' \subseteq Record
        BY <1>1, <3>1, <3>2, FS_Union DEF Progressed
      <3>4. offset' \in Nat /\ page' \in 1..MaxPages + 1 /\ (Reading' => page' =< MaxPages)
        BY <1>1, <2>1, <3>1, <3>2 DEF Progressed, Reading
      <3> QED  BY <1>1, <2>1, <3>1, <3>3, <3>4 DEF Progressed
    <2> QED  BY <2>2, <2>3, <2>4
  <1>4. CASE ReadBudgets \/ Unusable \/ Repeat \/ Wake \/ GiveUp
    <2>1. /\ UNCHANGED <<ignores, before, found>> /\ UNCHANGED <<offset, page>> /\ Reading
          /\ pc' \in {"read", "asleep", "listed", "failed"} /\ collected' \in {collected, {}}
      BY <1>4 DEF ReadBudgets, Unusable, Repeat, Wake, GiveUp, listing, server, Reading
    <2> QED  BY <1>2, <2>1
  <1>5. CASE NextListing
    <2>1. /\ pc' \in {"complete", "read"} /\ Underway \in Planned
          /\ before' = {} \/ \E c \in Collection : before' = Range(shelf[c])
      BY <1>5, NextTodo
    <2>2. IsFiniteSet(before') /\ before' \subseteq Record
      <3>1. \A c \in Collection : IsFiniteSet(Range(shelf[c])) /\ Range(shelf[c]) \subseteq Record
        BY <1>1, FiniteRange, RangeOfSeq DEF Shelved
      <3> QED  BY <2>1, <3>1, FS_EmptySet
    <2>3. found' \in [Kind -> SUBSET Record]
      <3>1. found' = IF Paged(Underway) THEN [found EXCEPT ![Underway.kind] = @ \cup collected] ELSE found
        BY <1>5 DEF NextListing
      <3> QED  BY <1>1, <3>1 DEF Progressed
    <2>4. offset' = 0 /\ page' = 1 /\ collected' = {} /\ ignores' = ignores
      BY <1>5 DEF NextListing, server
    <2> QED  BY <1>1, <2>1, <2>2, <2>3, <2>4, FS_EmptySet DEF Progressed
  <1>6. ASSUME NEW c \in Changing, Create(c) \/ Delete(c) PROVE Progressed'
    <2>1. UNCHANGED <<ignores, before, found, offset, page, pc, collected>>
      BY <1>6 DEF Create, Delete, listing
    <2> QED  BY <1>2, <2>1 DEF Reading
  <1>7. CASE UNCHANGED vars
    BY <1>2, <1>7 DEF vars, listing, server, Reading
  <1> QED  BY <1>3, <1>4, <1>5, <1>6, <1>7 DEF Next, Read

(* The waits of a request that is repeated n - 1 times.                      *)
LEMMA Longest ==
    ASSUME NEW n \in 1..MaxAttempts
    PROVE  (n - 1) * MaxBackoff \in Nat /\ n * MaxBackoff = (n - 1) * MaxBackoff + MaxBackoff
           /\ (n - 1) * MaxBackoff =< LongestWait /\ LongestWait \in Nat
  <1>1. MaxAttempts \in Nat /\ MaxBackoff \in Nat
    BY PolicyAssumption
  <1>2. \A a, b \in Nat : a * b \in Nat
    OBVIOUS
  <1>3. \A a, b, d \in Nat : (a + d) * b = a * b + d * b
    OBVIOUS
  <1>4. MaxAttempts - 1 = (n - 1) + (MaxAttempts - n) /\ n = (n - 1) + 1
    BY <1>1
  <1>5. n - 1 \in Nat /\ MaxAttempts - n \in Nat /\ 1 * MaxBackoff = MaxBackoff
    BY <1>1
  <1>6. LongestWait = (n - 1) * MaxBackoff + (MaxAttempts - n) * MaxBackoff
    BY <1>1, <1>3, <1>4, <1>5 DEF LongestWait
  <1>7. n * MaxBackoff = (n - 1) * MaxBackoff + MaxBackoff
    BY <1>1, <1>3, <1>4, <1>5
  <1>8. (n - 1) * MaxBackoff \in Nat /\ (MaxAttempts - n) * MaxBackoff \in Nat
    BY <1>1, <1>2, <1>5
  <1> QED  BY <1>6, <1>7, <1>8

LEMMA WaitsBound == Waits => waited =< LongestWait /\ LongestWait \in Nat
  <1> SUFFICES ASSUME Waits PROVE waited =< LongestWait /\ LongestWait \in Nat
    OBVIOUS
  <1>1. MaxAttempts \in Nat /\ MaxBackoff \in Nat /\ attempt \in 1..MaxAttempts /\ waited \in Nat
    BY PolicyAssumption DEF Waits
  <1>2. /\ (attempt - 1) * MaxBackoff \in Nat /\ LongestWait \in Nat
        /\ (attempt - 1) * MaxBackoff =< LongestWait
    BY <1>1, Longest
  <1>3. CASE pc = "asleep"
    <2>1. attempt + 1 \in 1..MaxAttempts /\ (attempt + 1) - 1 = attempt
      BY <1>1, <1>3 DEF Waits
    <2>2. attempt * MaxBackoff \in Nat /\ attempt * MaxBackoff =< LongestWait
      <3> DEFINE n == attempt + 1
      <3>1. n \in 1..MaxAttempts /\ n - 1 = attempt
        BY <2>1
      <3> HIDE DEF n
      <3>2. (n - 1) * MaxBackoff \in Nat /\ (n - 1) * MaxBackoff =< LongestWait
        BY <3>1, Longest
      <3> QED  BY <3>1, <3>2
    <2>3. waited =< attempt * MaxBackoff
      BY <1>3 DEF Waits
    <2> QED  BY <1>1, <1>2, <2>2, <2>3
  <1>4. CASE pc # "asleep"
    <2>1. waited =< (attempt - 1) * MaxBackoff
      BY <1>4 DEF Waits
    <2> QED  BY <1>1, <1>2, <2>1
  <1> QED  BY <1>3, <1>4

LEMMA StaysWaits == Inv /\ [Next]_vars => Waits'
  <1> SUFFICES ASSUME Inv, [Next]_vars PROVE Waits'
    OBVIOUS
  <1>1. Waits /\ MaxAttempts \in Nat \ {0} /\ MaxBackoff \in Nat
    BY PolicyAssumption DEF Inv
  <1>2. CASE NewRequest /\ pc' # "asleep"
    BY <1>1, <1>2 DEF NewRequest, Waits
  <1>3. CASE UNCHANGED request /\ pc # "asleep" /\ pc' # "asleep"
    BY <1>1, <1>3 DEF Waits, request
  <1>4. CASE UNCHANGED request /\ pc' = pc
    BY <1>1, <1>4 DEF Waits, request
  <1>5. CASE Repeat
    <2>1. PICK x \in Exchange : \E wish \in Wishes(x) :
            AttemptsLeft(attempt) /\ waited' = Waited(NextDelay(attempt, wish))
      BY <1>5 DEF Repeat, Failing
    <2>2. PICK wish \in Wishes(x) : waited' = Waited(NextDelay(attempt, wish))
      BY <2>1
    <2> DEFINE delay == NextDelay(attempt, wish)
    <2>3. delay \in Nat /\ delay =< MaxBackoff
      <3>1. wish \in RetryAfter \cup {None} /\ attempt \in 1..MaxAttempts
        BY <1>1 DEF Wishes, Waits
      <3> QED  BY <3>1, DelayBounded
    <2> HIDE DEF delay
    <2>4. /\ pc = "read" /\ pc' = "asleep" /\ attempt' = attempt /\ attempt < MaxAttempts
          /\ waited' = Waited(delay)
      BY <1>5, <2>1, <2>2 DEF Repeat, AttemptsLeft, delay
    <2>5. /\ waited \in Nat /\ attempt \in 1..MaxAttempts
          /\ waited =< (attempt - 1) * MaxBackoff
      BY <1>1, <2>4 DEF Waits
    <2>6. /\ (attempt - 1) * MaxBackoff \in Nat /\ LongestWait \in Nat
          /\ attempt * MaxBackoff = (attempt - 1) * MaxBackoff + MaxBackoff
      BY <2>5, Longest
    <2>7. waited + delay \in Nat /\ waited + delay =< attempt * MaxBackoff
      BY <1>1, <2>3, <2>5, <2>6
    <2>8. waited' \in Nat /\ waited' =< waited + delay
      <3> DEFINE a == waited + delay
                 b == LongestWait + 1
      <3>1. a \in Nat /\ b \in Nat /\ waited' = Min({a, b})
        BY <2>4, <2>6, <2>7 DEF Waited
      <3> HIDE DEF a, b
      <3>2. Min({a, b}) \in Nat /\ Min({a, b}) =< a
        BY <3>1 DEF Min
      <3> QED  BY <3>1, <3>2 DEF a
    <2>9. waited' =< attempt * MaxBackoff
      BY <1>1, <2>6, <2>7, <2>8
    <2> QED  BY <1>1, <2>4, <2>5, <2>8, <2>9 DEF Waits
  <1>6. CASE Wake
    <2>1. pc = "asleep" /\ pc' = "read" /\ attempt' = attempt + 1 /\ waited' = waited
      BY <1>6 DEF Wake, NextAttempt
    <2>2. /\ attempt \in 1..MaxAttempts /\ attempt < MaxAttempts
          /\ waited \in Nat /\ waited =< attempt * MaxBackoff
      BY <1>1, <2>1 DEF Waits
    <2>3. attempt' \in 1..MaxAttempts /\ attempt' - 1 = attempt
      BY <1>1, <2>1, <2>2
    <2> QED  BY <2>1, <2>2, <2>3 DEF Waits
  <1>7. ReadPage \/ NextListing => NewRequest /\ pc' # "asleep"
    BY DEF ReadPage, NextListing, EmptyPage, Page
  <1>8. ReadBudgets \/ Unusable \/ GiveUp => UNCHANGED request /\ pc # "asleep" /\ pc' # "asleep"
    BY DEF ReadBudgets, Unusable, GiveUp
  <1>9. ASSUME NEW c \in Changing, Create(c) \/ Delete(c) PROVE UNCHANGED request /\ pc' = pc
    BY <1>9 DEF Create, Delete
  <1> QED  BY <1>2, <1>3, <1>4, <1>5, <1>6, <1>7, <1>8, <1>9 DEF Next, Read, vars

(* A creation moves no record towards the front.                             *)
LEMMA CreatedBehind ==
    ASSUME NEW S, NEW s \in Seq(S), NEW x \in S, NEW t,
           t = <<x>> \o s \/ t = s \o <<x>>, NEW i \in DOMAIN t
    PROVE  t[i] = x \/ \E k \in DOMAIN s : k =< i /\ s[k] = t[i]
  <1> DEFINE one == <<x>>
  <1>1. one \in Seq(S) /\ Len(one) = 1 /\ one[1] = x
    OBVIOUS
  <1> HIDE DEF one
  <1>2. Len(s) \in Nat /\ DOMAIN s = 1..Len(s)
    BY LenProperties
  <1>3. CASE t = one \o s
    <2>1. t \in Seq(S) /\ Len(t) = 1 + Len(s)
          /\ \A j \in 1..1 + Len(s) : t[j] = IF j =< 1 THEN one[j] ELSE s[j - 1]
      BY <1>1, <1>3, ConcatProperties
    <2>2. i \in 1..1 + Len(s)
      BY <2>1, LenProperties
    <2>3. CASE i = 1
      BY <1>1, <2>1, <2>2, <2>3
    <2>4. CASE i # 1
      <3>1. i - 1 \in DOMAIN s /\ i - 1 =< i /\ t[i] = s[i - 1]
        BY <1>2, <2>1, <2>2, <2>4
      <3> QED  BY <3>1
    <2> QED  BY <2>3, <2>4
  <1>4. CASE t = s \o one
    <2>1. t \in Seq(S) /\ Len(t) = Len(s) + 1
          /\ \A j \in 1..Len(s) + 1 : t[j] = IF j =< Len(s) THEN s[j] ELSE one[j - Len(s)]
      BY <1>1, <1>4, ConcatProperties
    <2>2. i \in 1..Len(s) + 1
      BY <2>1, LenProperties
    <2>3. CASE i =< Len(s)
      BY <1>2, <2>1, <2>2, <2>3
    <2>4. CASE i = Len(s) + 1
      <3>1. i \in 1..Len(s) + 1 /\ ~(i =< Len(s)) /\ i - Len(s) = 1
        BY <1>2, <2>4
      <3>2. t[i] = one[i - Len(s)]
        BY <2>1, <3>1
      <3> QED  BY <1>1, <3>1, <3>2
    <2> QED  BY <1>2, <2>2, <2>3, <2>4
  <1> QED  BY <1>3, <1>4 DEF one

(* Counting a part, and a part with one more.                                *)
LEMMA Fewer ==
    ASSUME NEW S, IsFiniteSet(S), NEW n \in Nat, Cardinality(S) =< n
    PROVE  /\ \A T \in SUBSET S : Cardinality(T) =< n
           /\ \A x : \A T \in SUBSET (S \cup {x}) : Cardinality(T) =< n + 1
  <1>1. Cardinality(S) \in Nat
    BY FS_CardinalityType
  <1>2. ASSUME NEW T \in SUBSET S PROVE Cardinality(T) =< n
    <2>1. IsFiniteSet(T) /\ Cardinality(T) =< Cardinality(S)
      BY FS_Subset
    <2>2. Cardinality(T) \in Nat
      BY <2>1, FS_CardinalityType
    <2> QED  BY <1>1, <2>1, <2>2
  <1>3. ASSUME NEW x, NEW T \in SUBSET (S \cup {x}) PROVE Cardinality(T) =< n + 1
    <2>1. /\ IsFiniteSet(S \cup {x})
          /\ Cardinality(S \cup {x}) = IF x \in S THEN Cardinality(S) ELSE Cardinality(S) + 1
      BY FS_AddElement
    <2>2. IsFiniteSet(T) /\ Cardinality(T) =< Cardinality(S \cup {x})
      BY <2>1, FS_Subset
    <2>3. Cardinality(T) \in Nat
      BY <2>2, FS_CardinalityType
    <2> QED  BY <1>1, <2>1, <2>2, <2>3
  <1> QED  BY <1>2, <1>3

(* A change that moves no record over the offset, or one and is counted.     *)
LEMMA Displacement ==
    ASSUME Displaced, Progressed, dropped \in Nat, UNCHANGED <<pc, todo, ignores>>,
           Reading, Paged(Underway), NEW x,
           \/ dropped' = dropped /\ Missed' \subseteq Missed /\ Omitted' \subseteq Omitted
           \/ dropped' = dropped + 1 /\ Missed' \subseteq Missed \cup {x} /\ Omitted' \subseteq Omitted
    PROVE  Displaced'
  <1>1. IsFiniteSet(Missed) /\ IsFiniteSet(Omitted)
    <2>1. Missed \in SUBSET before /\ Omitted \in SUBSET before /\ IsFiniteSet(before)
      BY DEF Missed, Omitted, Progressed
    <2> QED  BY <2>1, FS_Subset
  <1>2. CASE pc = "listed"
    <2>1. Cardinality(Omitted) =< dropped
      BY <1>2 DEF Displaced
    <2>2. Cardinality(Omitted') =< dropped
      BY <1>1, <2>1, Fewer
    <2>3. Cardinality(Omitted') \in Nat
      BY <1>1, FS_Subset, FS_CardinalityType
    <2>4. Cardinality(Omitted') =< dropped'
      BY <2>2, <2>3
    <2> QED  BY <1>2, <2>4 DEF Displaced
  <1>3. CASE pc # "listed" /\ ~ignores
    <2>1. Cardinality(Missed) =< dropped
      BY <1>3 DEF Displaced
    <2>2. /\ Missed' \subseteq Missed => Cardinality(Missed') =< dropped
          /\ Missed' \subseteq Missed \cup {x} => Cardinality(Missed') =< dropped + 1
      BY <1>1, <2>1, Fewer
    <2>3. Cardinality(Missed') =< dropped'
      BY <2>2
    <2> QED  BY <1>3, <2>3 DEF Displaced
  <1>4. CASE pc # "listed" /\ ignores
    BY <1>4 DEF Displaced
  <1> QED  BY <1>2, <1>3, <1>4

LEMMA StaysDisplaced == Inv /\ [Next]_vars => Displaced'
  <1> SUFFICES ASSUME Inv, [Next]_vars PROVE Displaced'
    OBVIOUS
  <1> DEFINE C == CollectionOf(Underway)
             s == shelf[C]
  <1>1. /\ Displaced /\ Progressed /\ Shelved /\ Counted /\ Unmade /\ Queued
        /\ dropped \in Nat /\ created \in Nat /\ offset \in Nat /\ Changing \subseteq Collection
    BY ReaderAssumption DEF Inv, Counted, Progressed
  <1>2. ASSUME Cardinality({}) =< dropped' PROVE Missed' = {} /\ Omitted' = {} => Displaced'
    BY <1>2 DEF Displaced
  <1>3. Cardinality({}) = 0
    BY FS_EmptySet
  <1>4. CASE ReadPage
    <2>1. /\ pc = "read" /\ Reading /\ Paged(Underway)
          /\ UNCHANGED <<shelf, ignores, todo, before, dropped>>
      BY <1>4 DEF ReadPage, Reading, server
    <2> DEFINE o == IF ignores THEN 0 ELSE offset
    <2>2. PICK items \in Seq(Record) :
            /\ \A j \in 1..Len(items) : o + j \in DOMAIN s /\ items[j] = s[o + j]
            /\ items = <<>> => Len(s) =< o
            /\ EmptyPage(items) \/ FullPage(items)
      BY <1>4, PageRead
    <2>3. /\ s \in Seq(Record) /\ DOMAIN s = 1..Len(s) /\ Len(s) \in Nat
      <3>1. C \in Collection
        BY <2>1, UnderwayIs
      <3>2. s \in Seq(Record)
        BY <1>1, <3>1 DEF Shelved
      <3> QED  BY <3>2, LenProperties
    <2>4. CASE EmptyPage(items)
      <3>1. pc' = "listed" /\ offset' = offset /\ collected' = collected /\ Len(s) =< o
        BY <2>2, <2>4 DEF EmptyPage, listing
      <3>2. Omitted' = Omitted
        BY <2>1, <3>1 DEF Omitted, Underway
      <3>3. CASE ignores
        <4>1. DOMAIN s = {}
          BY <2>3, <3>1, <3>3
        <4>2. Omitted = {}
          BY <4>1 DEF Omitted, Range
        <4> QED  BY <1>1, <1>3, <2>1, <3>1, <3>2, <4>2 DEF Displaced
      <3>4. CASE ~ignores
        <4>1. Omitted \subseteq Missed
          <5> SUFFICES ASSUME NEW r \in Omitted PROVE r \in Missed
            OBVIOUS
          <5>1. PICK i \in DOMAIN s : s[i] = r
            BY DEF Omitted, Range
          <5>2. i =< offset
            BY <1>1, <2>3, <3>1, <3>4
          <5> QED  BY <5>1, <5>2 DEF Omitted, Missed, Passed
        <4>2. Cardinality(Missed) =< dropped
          BY <1>1, <2>1, <3>4 DEF Displaced
        <4>3. IsFiniteSet(Missed)
          BY <1>1, FS_Subset DEF Missed, Progressed
        <4>4. Cardinality(Omitted) =< dropped
          BY <1>1, <4>1, <4>2, <4>3, Fewer
        <4> QED  BY <2>1, <3>1, <3>2, <4>4 DEF Displaced
      <3> QED  BY <3>3, <3>4
    <2>5. CASE FullPage(items)
      <3>1. /\ collected' = collected \cup Range(items) /\ offset' = offset + Len(items)
            /\ pc' \in {"failed", "read"}
        BY <2>5 DEF FullPage, Page, NextOffset
      <3>2. CASE ignores \/ pc' = "failed"
        BY <2>1, <3>1, <3>2 DEF Displaced, Reading
      <3>3. CASE ~ignores
        <4>1. Missed' \subseteq Missed
          <5> SUFFICES ASSUME NEW r \in Missed' PROVE r \in Missed
            OBVIOUS
          <5>1. r \in before /\ r \notin collected /\ r \notin Range(items)
            BY <2>1, <3>1 DEF Missed
          <5>2. PICK i \in DOMAIN s : i =< offset + Len(items) /\ s[i] = r
            BY <2>1, <3>1 DEF Missed, Passed, Underway
          <5>3. CASE i =< offset
            BY <5>1, <5>2, <5>3 DEF Missed, Passed
          <5>4. CASE ~(i =< offset)
            <6>1. Len(items) \in Nat /\ DOMAIN items = 1..Len(items)
              BY LenProperties
            <6>2. i - offset \in 1..Len(items) /\ o + (i - offset) = i
              BY <1>1, <2>3, <3>3, <5>2, <5>4, <6>1
            <6>3. items[i - offset] = r
              BY <2>2, <5>2, <6>2
            <6>4. r \in Range(items)
              BY <6>1, <6>2, <6>3 DEF Range
            <6> QED  BY <5>1, <6>4
          <5> QED  BY <5>3, <5>4
        <4>2. Cardinality(Missed) =< dropped /\ IsFiniteSet(Missed)
          BY <1>1, <2>1, <3>3, FS_Subset DEF Displaced, Missed, Progressed
        <4>3. Cardinality(Missed') =< dropped'
          BY <1>1, <2>1, <4>1, <4>2, Fewer
        <4> QED  BY <3>1, <4>3 DEF Displaced
      <3> QED  BY <3>2, <3>3
    <2> QED  BY <2>2, <2>4, <2>5
  <1>5. CASE ReadBudgets \/ Unusable
    BY <1>5 DEF ReadBudgets, Unusable, Displaced, Reading, Underway
  <1>6. CASE Repeat \/ Wake
    <2>1. /\ Reading /\ pc # "listed" /\ pc' # "listed"
          /\ UNCHANGED <<shelf, ignores, todo, before, dropped, offset, collected>>
      BY <1>6 DEF Repeat, Wake, Reading, server, listing
    <2>2. Missed' = Missed /\ Underway' = Underway
      BY <2>1 DEF Missed, Passed, Underway
    <2> QED  BY <1>1, <2>1, <2>2 DEF Displaced
  <1>7. CASE GiveUp
    <2>1. pc = "read" /\ Reading /\ UNCHANGED <<shelf, todo, before, dropped>>
      BY <1>7 DEF GiveUp, Reading, server
    <2>2. PICK x \in Failing(Underway) :
            \/ Nothing(Underway, StatusOf(x)) /\ pc' = "listed" /\ collected' = {}
            \/ pc' = "failed"
      BY <1>7 DEF GiveUp
    <2>3. CASE ~Paged(Underway) \/ pc' = "failed"
      BY <2>1, <2>3 DEF Displaced, Reading, Underway
    <2>4. CASE Paged(Underway) /\ Nothing(Underway, StatusOf(x)) /\ pc' = "listed"
      <3>1. StatusOf(x) = 404 /\ Underway.at # None /\ Underway.kind \in Scoped
        BY <2>4 DEF Nothing, Paged, Scoped
      <3>2. x.status = 404
        BY <3>1 DEF StatusOf, NoAnswer
      <3>3. ~Listed(Underway.at)
        BY <2>4, <3>2 DEF Failing, Exists, Paged
      <3>4. C \in Collection /\ C[2] = Underway.at
        BY <2>1, <2>4, <3>1, UnderwayIs DEF CollectionOf
      <3>5. s = <<>>
        BY <1>1, <3>1, <3>3, <3>4 DEF Shelved
      <3>6. Omitted' = {}
        BY <2>1, <3>5 DEF Omitted, Range, Underway
      <3> QED  BY <1>1, <1>3, <2>1, <2>4, <3>6 DEF Displaced
    <2> QED  BY <2>2, <2>3, <2>4
  <1>8. CASE NextListing
    <2>1. /\ pc' \in {"complete", "read"} /\ offset' = 0 /\ dropped' = 0 /\ shelf' = shelf
          /\ pc' = "read" => todo' # <<>>
          /\ todo' # <<>> /\ Paged(Head(todo')) => CollectionOf(Head(todo')) \in Collection
      BY <1>8, NextTodo DEF NextListing, server
    <2>2. CASE ~(Reading' /\ Paged(Underway'))
      BY <2>2 DEF Displaced
    <2>3. CASE Reading' /\ Paged(Underway')
      <3>1. pc' = "read" /\ CollectionOf(Underway') \in Collection
        BY <2>1, <2>3 DEF Reading, Underway
      <3>2. shelf[CollectionOf(Underway')] \in Seq(Record)
        BY <1>1, <3>1 DEF Shelved
      <3>3. \A i \in DOMAIN shelf[CollectionOf(Underway')] : ~(i =< 0)
        BY <3>2, LenProperties
      <3>4. Missed' = {}
        BY <2>1, <3>3 DEF Missed, Passed
      <3> QED  BY <1>3, <2>1, <3>1, <3>4 DEF Displaced
    <2> QED  BY <2>2, <2>3
  <1>9. ASSUME NEW c \in Changing, Create(c), Paged(Underway) PROVE Displaced'
    <2>1. /\ c \in Collection /\ Reading /\ C \in Collection
          /\ UNCHANGED <<pc, todo, offset, collected, before, dropped, ignores>>
      BY <1>1, <1>9, UnderwayIs DEF Create, MayChange, listing
    <2> DEFINE new == Fresh[created + 1]
    <2>2. /\ created + 1 \in DOMAIN Fresh
          /\ shelf'[c] = <<new>> \o shelf[c] \/ shelf'[c] = shelf[c] \o <<new>>
          /\ Range(shelf'[c]) = Range(shelf[c]) \cup {new}
          /\ \A d \in Collection : d # c => shelf'[d] = shelf[d]
      BY <1>1, <1>9, <2>1, CreateEffect
    <2>3. new \notin before /\ new \in Record
      <3>1. new \notin before
        BY <1>1, <2>2 DEF Unmade
      <3>2. DOMAIN Fresh = 1..Len(Fresh) /\ Fresh \in Seq(Record)
        BY CollectionsAssumption, LenProperties
      <3> QED  BY <2>2, <3>1, <3>2, ElementOfSeq
    <2> HIDE DEF new
    <2>4. Omitted' \subseteq Omitted
      BY <2>1, <2>2, <2>3 DEF Omitted, Underway
    <2>5. ASSUME NEW r \in Missed' PROVE r \in Missed
      <3>1. r \in before \ collected
        BY <2>1 DEF Missed
      <3>2. PICK i \in DOMAIN shelf'[C] : i =< offset /\ shelf'[C][i] = r
        BY <2>1 DEF Missed, Passed, Underway
      <3>3. s \in Seq(Record)
        BY <1>1, <2>1 DEF Shelved
      <3>4. CASE c = C
        <4>1. PICK k \in DOMAIN s : k =< i /\ s[k] = r
          <5> DEFINE t == shelf'[C]
          <5>1. (t = <<new>> \o s \/ t = s \o <<new>>) /\ s \in Seq(Record) /\ i \in DOMAIN t
            BY <2>2, <3>2, <3>3, <3>4
          <5>2. t[i] = r
            BY <3>2
          <5> HIDE DEF t, s
          <5>3. t[i] = new \/ \E k \in DOMAIN s : k =< i /\ s[k] = t[i]
            BY <2>3, <5>1, CreatedBehind
          <5> QED  BY <2>3, <3>1, <5>2, <5>3
        <4>2. i \in Nat /\ k \in Nat
          <5>1. shelf'[C] \in Seq(Record)
            BY <1>1, <1>9, <2>1, <3>4, CreateEffect
          <5>2. DOMAIN shelf'[C] = 1..Len(shelf'[C]) /\ DOMAIN s = 1..Len(s)
            BY <3>3, <5>1, LenProperties
          <5> QED  BY <5>2
        <4>3. k =< offset
          BY <1>1, <3>2, <4>1, <4>2
        <4> QED  BY <3>1, <4>1, <4>3 DEF Missed, Passed
      <3>5. CASE c # C
        BY <2>1, <2>2, <3>1, <3>2, <3>5 DEF Missed, Passed
      <3> QED  BY <3>4, <3>5
    <2>6. Missed' \subseteq Missed
      BY <2>5
    <2> QED  BY <1>1, <1>9, <2>1, <2>4, <2>6, Displacement
  <1>10. ASSUME NEW c \in Changing, Delete(c), Paged(Underway) PROVE Displaced'
    <2>1. /\ c \in Collection /\ Reading /\ C \in Collection
          /\ UNCHANGED <<pc, todo, offset, collected, before, ignores>>
          /\ dropped' = IF C = c THEN dropped + 1 ELSE dropped
      BY <1>1, <1>10, UnderwayIs DEF Delete, MayChange, listing
    <2>2. PICK i \in DOMAIN shelf[c] : shelf' = Without(c, i)
      BY <1>10 DEF Delete
    <2>3. /\ shelf'[c] = RemoveAt(shelf[c], i)
          /\ \A d \in Collection : d # c /\ d[2] # shelf[c][i] => shelf'[d] = shelf[d]
          /\ \A d \in Collection : d # c /\ d[2] = shelf[c][i] => shelf'[d] = <<>>
          /\ \A d \in Collection : Range(shelf'[d]) \subseteq Range(shelf[d])
      BY <1>1, <2>1, <2>2, DeleteEffect
    <2>4. Omitted' \subseteq Omitted
      BY <2>1, <2>3 DEF Omitted, Underway
    <2>5. CASE c # C
      <3>1. shelf'[C] = s \/ shelf'[C] = <<>>
        BY <2>1, <2>3, <2>5
      <3>2. Missed' \subseteq Missed
        BY <2>1, <3>1 DEF Missed, Passed, Underway
      <3> QED  BY <1>1, <1>10, <2>1, <2>4, <2>5, <3>2, Displacement
    <2>6. CASE c = C
      <3>1. /\ s \in Seq(Record) /\ RemoveAt(s, i) \in Seq(Record)
            /\ Len(RemoveAt(s, i)) = Len(s) - 1
            /\ \A j \in 1..Len(s) - 1 : RemoveAt(s, i)[j] = IF j < i THEN s[j] ELSE s[j + 1]
        BY <1>1, <2>1, <2>2, <2>6, WithoutOne DEF Shelved
      <3>2. /\ DOMAIN s = 1..Len(s) /\ Len(s) \in Nat
            /\ DOMAIN RemoveAt(s, i) = 1..Len(s) - 1
        BY <3>1, LenProperties
      <3>3. ASSUME NEW r \in Missed', r # s[offset + 1] PROVE r \in Missed
        <4>1. r \in before \ collected
          BY <2>1 DEF Missed
        <4>2. PICK j \in 1..Len(s) - 1 : j =< offset /\ RemoveAt(s, i)[j] = r
          BY <2>1, <2>3, <2>6, <3>2 DEF Missed, Passed, Underway
        <4>3. CASE j < i
          BY <3>1, <3>2, <4>1, <4>2, <4>3 DEF Missed, Passed
        <4>4. CASE ~(j < i)
          <5>1. s[j + 1] = r /\ j + 1 \in DOMAIN s
            BY <3>1, <3>2, <4>2, <4>4
          <5>2. j + 1 # offset + 1
            BY <3>3, <5>1
          <5>3. j + 1 =< offset
            BY <1>1, <4>2, <5>2
          <5> QED  BY <4>1, <5>1, <5>3 DEF Missed, Passed
        <4> QED  BY <4>3, <4>4
      <3>4. Missed' \subseteq Missed \cup {s[offset + 1]}
        BY <3>3
      <3>5. dropped' = dropped + 1
        BY <2>1, <2>6
      <3> HIDE DEF s
      <3> QED  BY <1>1, <1>10, <2>1, <2>4, <3>4, <3>5, Displacement
    <2> QED  BY <2>5, <2>6
  <1>11. ASSUME NEW c \in Changing, Create(c) \/ Delete(c), ~Paged(Underway) PROVE Displaced'
    <2>1. todo' = todo
      BY <1>11 DEF Create, Delete
    <2> QED  BY <1>11, <2>1 DEF Displaced, Underway
  <1>12. CASE UNCHANGED vars
    <2>1. UNCHANGED <<shelf, ignores, todo, before, dropped, offset, collected, pc>>
      BY <1>12 DEF vars, server, listing
    <2>2. Missed' = Missed /\ Underway' = Underway /\ Omitted' = Omitted
      BY <2>1 DEF Missed, Passed, Underway, Omitted
    <2> QED  BY <1>1, <2>1, <2>2 DEF Displaced, Reading
  <1> QED  BY <1>4, <1>5, <1>6, <1>7, <1>8, <1>9, <1>10, <1>11, <1>12 DEF Next, Read

LEMMA StaysWhole == Inv /\ [Next]_vars => Whole'
  <1> SUFFICES ASSUME Inv, [Next]_vars, deleted' = 0
               PROVE  /\ \A c \in Collection : Range(Start[c]) \subseteq Range(shelf'[c])
                      /\ Reading' /\ Paged(Underway') =>
                            Range(Start[CollectionOf(Underway')]) \subseteq before'
                      /\ \A c \in Collection : Ahead(c)' \/ Range(Start[c]) \subseteq found'[c[1]]
    BY DEF Whole
  <1>1. /\ Whole /\ Shelved /\ Queued /\ Progressed /\ Displaced /\ Changing \subseteq Collection
        /\ created \in Nat /\ deleted \in Nat /\ dropped \in Nat /\ dropped =< deleted
    BY ReaderAssumption DEF Inv, Counted
  <1>2. ASSUME NEW c \in Changing PROVE ~Delete(c)
    BY <1>1 DEF Delete
  <1>3. deleted = 0
    <2>1. Read \/ UNCHANGED vars => deleted' = deleted
      BY DEF Read, ReadPage, ReadBudgets, Unusable, Repeat, Wake, GiveUp, NextListing, server, vars
    <2>2. \A c \in Changing : Create(c) => deleted' = deleted
      BY DEF Create
    <2> QED  BY <1>2, <2>1, <2>2 DEF Next
  <1>4. /\ \A c \in Collection : Range(Start[c]) \subseteq Range(shelf[c])
        /\ Reading /\ Paged(Underway) => Range(Start[CollectionOf(Underway)]) \subseteq before
        /\ \A c \in Collection : Ahead(c) \/ Range(Start[c]) \subseteq found[c[1]]
    BY <1>1, <1>3 DEF Whole
  <1>5. \A c \in Collection : Range(Start[c]) \subseteq Range(shelf'[c])
    <2>1. Read \/ UNCHANGED vars => shelf' = shelf
      BY DEF Read, ReadPage, ReadBudgets, Unusable, Repeat, Wake, GiveUp, NextListing, server, vars
    <2>2. ASSUME NEW d \in Changing, Create(d)
          PROVE  \A c \in Collection : Range(shelf[c]) \subseteq Range(shelf'[c])
      <3>1. /\ Range(shelf'[d]) = Range(shelf[d]) \cup {Fresh[created + 1]}
            /\ \A c \in Collection : c # d => shelf'[c] = shelf[c]
        BY <1>1, <2>2, CreateEffect
      <3> QED  BY <3>1
    <2> QED  BY <1>2, <1>4, <2>1, <2>2 DEF Next
  <1>6. CASE UNCHANGED <<todo, before, found>> /\ (Reading' => Reading)
    BY <1>4, <1>5, <1>6 DEF Underway, Ahead
  <1>7. CASE NextListing
    <2>1. /\ ListWorkspaces \notin Range(todo') /\ pc' = (IF todo' = <<>> THEN "complete" ELSE "read")
          /\ todo' # <<>> /\ Paged(Head(todo')) =>
                /\ CollectionOf(Head(todo')) \in Collection
                /\ before' = Range(shelf[CollectionOf(Head(todo'))])
          /\ todo # <<>> /\ Underway \in Planned
          /\ IF Underway.kind = "workspaces" THEN todo = <<ListWorkspaces>> /\ todo' = Rest(Known)
                                             ELSE todo # <<ListWorkspaces>> /\ todo' = Tail(todo)
      BY <1>7, NextTodo
    <2>2. /\ pc = "listed" /\ Reading
          /\ found' = IF Paged(Underway) THEN [found EXCEPT ![Underway.kind] = @ \cup collected]
                      ELSE found
      BY <1>7 DEF NextListing, Reading
    <2>3. Reading' /\ Paged(Underway') => Range(Start[CollectionOf(Underway')]) \subseteq before'
      BY <1>4, <2>1 DEF Reading, Underway
    <2>4. \A k \in Kind : found[k] \subseteq found'[k]
      BY <1>1, <2>2 DEF Progressed
    <2>5. ASSUME Paged(Underway)
          PROVE  /\ Range(Start[CollectionOf(Underway)]) \subseteq collected
                 /\ collected \subseteq found'[CollectionOf(Underway)[1]]
      <3> DEFINE C == CollectionOf(Underway)
      <3>1. C \in Collection
        BY <2>2, <2>5, UnderwayIs
      <3>2. Cardinality(Omitted) =< dropped /\ dropped = 0
        BY <1>1, <1>3, <2>2, <2>5 DEF Displaced
      <3>3. IsFiniteSet(Omitted)
        BY <1>1, FS_Subset DEF Omitted, Progressed
      <3>4. Omitted = {}
        BY <3>2, <3>3, FS_EmptySet, FS_CardinalityType
      <3>5. Range(Start[C]) \subseteq before /\ Range(Start[C]) \subseteq Range(shelf[C])
        BY <1>4, <2>2, <2>5, <3>1
      <3>6. C[1] = Underway.kind /\ C[1] \in Kind
        BY <3>1, ShelfNames DEF CollectionOf
      <3> QED  BY <1>1, <2>2, <2>5, <3>4, <3>5, <3>6 DEF Omitted, Progressed
    <2>6. ASSUME NEW c \in Collection PROVE Ahead(c)' \/ Range(Start[c]) \subseteq found'[c[1]]
      <3>1. c[1] \in Kind
        BY ShelfNames
      <3>2. CASE Underway.kind = "workspaces"
        <4>1. /\ Underway = ListWorkspaces /\ Paged(Underway)
              /\ CollectionOf(Underway) = <<"workspaces", None>>
          BY <2>1, <3>2, ShelfNames DEF Underway
        <4>2. collected \subseteq Workspace /\ IsFiniteSet(collected)
          BY <1>1, <2>1, <3>2 DEF Queued, Progressed
        <4>3. Known \in Seq(Workspace) /\ Range(Known) = collected
          BY <4>2, KnownOnce, SeqMonotonic DEF Known
        <4>4. CASE c = <<"workspaces", None>>
          BY <2>5, <4>1, <4>4
        <4>5. CASE c[2] # None /\ c[2] \notin Range(Known)
          <5>1. Start[c] = <<>>
            BY <2>5, <4>1, <4>3, <4>5, CollectionsAssumption
          <5> QED  BY <5>1 DEF Range
        <4>6. CASE \E l \in Range(Rest(Known)) : Paged(l) /\ CollectionOf(l) = c
          BY <2>1, <3>2, <4>6 DEF Ahead
        <4> QED  BY <4>3, <4>4, <4>5, <4>6, RestIs
      <3>3. CASE Underway.kind # "workspaces"
        <4>1. todo \in Seq(Planned) /\ ListWorkspaces \notin Range(todo) /\ todo' = Tail(todo)
          BY <1>1, <2>1, <3>3 DEF Queued
        <4>2. CASE Range(Start[c]) \subseteq found[c[1]]
          BY <2>4, <3>1, <4>2
        <4>3. CASE Ahead(c)
          <5>1. PICK l \in Range(todo) : Paged(l) /\ CollectionOf(l) = c
            BY <4>1, <4>3 DEF Ahead
          <5>2. l = Underway \/ l \in Range(todo')
            BY <2>1, <4>1, TailWithin DEF Underway
          <5>3. CASE l \in Range(todo')
            BY <5>1, <5>3 DEF Ahead
          <5>4. CASE l = Underway
            BY <2>5, <5>1, <5>4
          <5> QED  BY <5>2, <5>3, <5>4
        <4> QED  BY <1>4, <4>2, <4>3
      <3> QED  BY <3>2, <3>3
    <2> QED  BY <1>5, <2>3, <2>6
  <1>8. Read \/ UNCHANGED vars =>
          NextListing \/ (UNCHANGED <<todo, before, found>> /\ (Reading' => Reading))
    BY DEF Read, ReadPage, ReadBudgets, Unusable, Repeat, Wake, GiveUp, Reading, vars
  <1>9. \A c \in Changing : Create(c) => UNCHANGED <<todo, before, found>> /\ (Reading' => Reading)
    BY DEF Create, Reading
  <1> QED  BY <1>2, <1>6, <1>7, <1>8, <1>9 DEF Next

-----------------------------------------------------------------------------
(* The invariant holds of every reachable state.                             *)
THEOREM Inductive == Spec => []Inv
  <1>1. Inv /\ [Next]_vars => Inv'
    BY StaysShelved, StaysCounted, StaysUnmade, StaysQueued, StaysProgressed, StaysWaits,
       StaysDisplaced, StaysWhole DEF Inv
  <1> QED  BY <1>1, Begun, PTL DEF Spec

(* Every reachable state is well typed: pages, attempts and waits stay in    *)
(* their bounds (pagination::collect, read_with_retry).                      *)
THEOREM ReaderTyped == Spec => []TypeOK
  <1>1. Inv => TypeOK
    <2> SUFFICES ASSUME Inv PROVE TypeOK
      OBVIOUS
    <2>1. Shelved /\ Counted /\ Queued /\ Progressed /\ Waits /\ MaxAttempts \in Nat /\ MaxBackoff \in Nat
      BY PolicyAssumption DEF Inv
    <2>2. \A c \in Collection : Range(shelf[c]) \subseteq Record
      BY <2>1, RangeOfSeq DEF Shelved
    <2>3. Range(todo) \subseteq Listing
      BY <2>1, RangeOfSeq, PlannedListing DEF Queued
    <2>4. waited =< LongestWait /\ LongestWait \in Nat
      BY <2>1, WaitsBound
    <2>5. attempt \in 1..MaxAttempts /\ waited \in 0..LongestWait + 1
      BY <2>1, <2>4 DEF Waits
    <2>6. created + deleted \in 0..MaxChanges /\ dropped \in Nat
      BY <2>1, ReaderAssumption DEF Counted
    <2> QED  BY <2>1, <2>2, <2>3, <2>5, <2>6 DEF TypeOK, Progressed
  <1> QED  BY <1>1, Inductive, PTL

(* A listing that ended has omitted no more of what was there throughout     *)
(* than was deleted while it ran (pagination::collect).                      *)
THEOREM DisplacedOnly == Spec => []OmitsOnlyDisplaced
  <1>1. Inv => OmitsOnlyDisplaced
    BY DEF Inv, Displaced, OmitsOnlyDisplaced, Omitted, Reading
  <1> QED  BY <1>1, Inductive, PTL

(* A snapshot that is handed on while nothing was deleted holds everything   *)
(* that was there when it began (ops::snapshot).                             *)
THEOREM SnapshotsAreWhole == Spec => []SnapshotIsWhole
  <1>1. Inv => SnapshotIsWhole
    BY DEF Inv, Whole, Queued, SnapshotIsWhole, Ahead, Range
  <1> QED  BY <1>1, Inductive, PTL

(* The waits of a request stay within what its policy allows, whatever the   *)
(* server asks for (retry::next_delay).                                      *)
THEOREM WaitsAreBounded == Spec => []WaitBounded
  <1>1. Inv => WaitBounded
    BY WaitsBound DEF Inv, WaitBounded
  <1> QED  BY <1>1, Inductive, PTL
=============================================================================
