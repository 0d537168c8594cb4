------------------------- MODULE Convergence_proofs -------------------------
(***************************************************************************)
(* What a run of apply does to OpenRouter's objects, for every number of   *)
(* blocks, identities, mishaps and edits: it changes what an address owns  *)
(* and nothing else, it creates no second object for a block, and it puts  *)
(* no key into service but under its guardrail; and what its report says   *)
(* of them is so.                                                          *)
(*                                                                         *)
(* A plan is made from one read and carried out later.  The invariant says *)
(* what of the plan still holds when an action's turn comes (Scheduled):   *)
(* the identity a write is addressed to is still the block's own, and a    *)
(* block whose object is to be created has none yet.                       *)
(*                                                                         *)
(* The report rests on two more (Progress, Truthful): what is not to be    *)
(* done any more is in its place or an operator's turn, and a destination  *)
(* holds the configuration whose digest is recorded, unless a write's      *)
(* answer was lost.                                                        *)
(***************************************************************************)
EXTENDS Convergence, TLAPS

Placeable == Blocks \cup {Assignment(k) : k \in Keys}
Actions == [on : Placeable, kind : Kinds, id : Ids \cup GuardrailIds \cup {None},
            needs : SUBSET Blocks, config : BOOLEAN, blocked : BOOLEAN]

At == {"idle", "executing", "recording", "verifying", "reported", "deleting"}
Outcomes == {"blocked", "failed", "incomplete", "held_back", "applied", "converged"}
RunState == [at : At, todo : SUBSET Actions, record : Records \cup {None},
             held : SUBSET Placeable, attempted : SUBSET Placeable, issued : SUBSET Keys,
             waiting : BOOLEAN, left : BOOLEAN, failed : BOOLEAN, skipped : BOOLEAN,
             outcome : Outcomes \cup {None}, disturbed : BOOLEAN]

-----------------------------------------------------------------------------
(* A document every section of which is of its kind, with no identity at   *)
(* two addresses, that of a standing operation included.                   *)
Kinded(d) == \A b \in Blocks : d.id[b] \in IdsFor(b) \cup {None}
DefaultsFit(d) == \A w \in Workspaces : d.default[w] # None =>
                     d.id[w] # None /\ d.default[w] = DefaultGuardrail(d.id[w])
PendingApart(d) == d.pending # None => \A b \in Blocks : d.id[b] # d.pending.hash
Sound(d) == /\ d \in Documents /\ Kinded(d)
            /\ OneAddressEach(d) /\ DefaultsFit(d) /\ PendingApart(d)

Seen(seen) == seen \in [DOMAIN seen -> Objects] /\ DOMAIN seen \subseteq Ids

(* The identity of a default guardrail that is its workspace's to give.    *)
Dispensed(d, g) == \/ DefaultingTo(g) # None
                   \/ d.id[g] # None /\ \E w \in Workspaces : d.default[w] = d.id[g]
Vacant(d, seen, b) == d.id[b] \notin DOMAIN seen /\ UnownedNamed(d, seen, b) = {}
MayCreate(d, seen, b) == \/ Vacant(d, seen, b)
                         \/ b \in Keys /\ d.id[b] \in DOMAIN seen
                         \/ b \in Guardrails /\ Dispensed(d, b)

(* What a write is addressed to.                                           *)
OwnIdentity(d, b) == {d.id[b]} \cup (IF b \in Guardrails THEN {NamedDefault(d, b)} ELSE {})

Due(d, seen, disturbed, a) ==
  /\ a.kind \in {"assign", "unassign"} => a.on \notin Blocks
  /\ a.kind = "assign" => RailOf[BlockOf(a.on)] # None
  /\ a.on \in Blocks =>
       /\ a.kind = "update" => a.id \in OwnIdentity(d, a.on) \ {None}
       /\ ~disturbed /\ CreatesItsResource(a) => MayCreate(d, seen, a.on)

(* What is left of the plan is still due, an action to a place, none at    *)
(* the block that is being recorded.                                       *)
Scheduled(d, seen, r) ==
  /\ \A a \in r.todo : Due(d, seen, r.disturbed, a)
  /\ \A a, b \in r.todo : a.on = b.on => a = b
  /\ r.todo # {} => r.at \in {"executing", "recording"}
  /\ r.record # None => \A a \in r.todo : a.on # r.record.on

(* The binding to be recorded is of its kind; a guardrail's replaces one   *)
(* that is gone.                                                           *)
Recordings(d, seen, r) ==
  /\ (r.at \in {"recording", "deleting"}) = (r.record # None)
  /\ r.record # None =>
       /\ r.record.on \notin Keys /\ r.record.id \in IdsFor(r.record.on)
       /\ r.record.on \in Workspaces =>
            r.record.default \in {None, DefaultGuardrail(r.record.id)}
       /\ r.at = "recording" /\ ~r.disturbed /\ r.record.on \in Guardrails =>
            d.id[r.record.on] = r.record.id \/ d.id[r.record.on] \notin DOMAIN seen

(* What a delete found in the workspace is all there is.                   *)
Emptied(seen, r) == r.at = "deleting" /\ ~r.disturbed =>
  \A i \in DOMAIN seen : seen[i].within = r.record.id => i = DefaultGuardrail(r.record.id)

Inv ==
  /\ Sound(doc) /\ Seen(remote) /\ want \in [Destinations -> Configs]
  /\ run \in RunState
  /\ Scheduled(doc, remote, run) /\ Recordings(doc, remote, run) /\ Emptied(remote, run)
  /\ mishaps \in 0 .. MaxMishaps /\ edits \in 0 .. MaxEdits

-----------------------------------------------------------------------------
(* Identities, and whose they are.                                         *)

LEMMA Sections ==
  /\ \A b \in Workspaces : b \notin Guardrails /\ b \notin Destinations /\ b \notin Keys
  /\ \A b \in Guardrails : b \notin Destinations /\ b \notin Keys /\ b \notin Workspaces
  /\ \A b \in Destinations : b \notin Keys /\ b \notin Workspaces /\ b \notin Guardrails
  /\ \A b \in Keys : b \notin Workspaces /\ b \notin Guardrails /\ b \notin Destinations
  /\ \A b \in Blocks : b # None /\ None \notin Named[b] /\ None \notin IdsFor(b)
  /\ None \notin Ids /\ None \notin Defaults /\ None \notin Configs
<1>1. None \notin Ids /\ None \notin Defaults /\ None \notin Configs /\ None \notin Blocks
  BY SectionsAssumption
<1>2. ASSUME NEW b \in Blocks
      PROVE  b # None /\ None \notin Named[b] /\ None \notin IdsFor(b)
  <2>1. IdsFor(b) \subseteq Ids
    BY DEF Ids
  <2>2. Named[b] \subseteq IdsFor(b)
    BY DEF IdsFor, Blocks, WorkspaceIds, GuardrailIds, KeyIds, DestinationIds
  <2> QED BY <1>1, <2>1, <2>2
<1> QED BY <1>1, <1>2, SectionsAssumption DEF Apart, Blocks

LEMMA NamedIsOwn ==
  ASSUME NEW b \in Blocks, NEW i \in Named[b]
  PROVE  /\ i \in IdsFor(b) /\ i \in Ids /\ i \notin Defaults
         /\ \A c \in Blocks \ {b} : i \notin Named[c]
<1>1. Named[b] \subseteq IdsFor(b)
  BY DEF IdsFor, Blocks, WorkspaceIds, GuardrailIds, KeyIds, DestinationIds
<1>2. IdsFor(b) \subseteq Ids
  BY DEF Ids
<1> QED BY <1>1, <1>2, SectionsAssumption DEF Apart

LEMMA IdsApart ==
  /\ \A i \in WorkspaceIds : i \notin GuardrailIds /\ i \notin KeyIds /\ i \notin DestinationIds
  /\ \A i \in DestinationIds : i \notin GuardrailIds /\ i \notin KeyIds /\ i \notin WorkspaceIds
  /\ \A i \in KeyIds : i \notin GuardrailIds /\ i \notin WorkspaceIds /\ i \notin DestinationIds
  /\ \A i \in Defaults : i \notin WorkspaceIds /\ i \notin KeyIds /\ i \notin DestinationIds
<1>1. \A i \in Defaults : i \notin WorkspaceIds /\ i \notin KeyIds /\ i \notin DestinationIds
  BY SectionsAssumption DEF Apart, WorkspaceIds, KeyIds, DestinationIds, Blocks
<1>2. ASSUME NEW b \in Blocks, NEW c \in Blocks, b # c, NEW i \in Named[b]
      PROVE  i \notin Named[c]
  BY <1>2, SectionsAssumption DEF Apart
<1> QED BY <1>1, <1>2, Sections
        DEF WorkspaceIds, KeyIds, DestinationIds, GuardrailIds, Blocks

LEMMA KindOfIds ==
  /\ \A b \in Workspaces : IdsFor(b) = WorkspaceIds /\ WorkspaceIds \subseteq Ids
  /\ \A b \in Guardrails : IdsFor(b) = GuardrailIds /\ GuardrailIds \subseteq Ids
  /\ \A b \in Destinations : IdsFor(b) = DestinationIds /\ DestinationIds \subseteq Ids
  /\ \A b \in Keys : IdsFor(b) = KeyIds /\ KeyIds \subseteq Ids
  /\ \A i \in WorkspaceIds : DefaultGuardrail(i) \in Defaults
  /\ Defaults \subseteq GuardrailIds
  /\ None \notin WorkspaceIds /\ None \notin GuardrailIds
  /\ None \notin DestinationIds /\ None \notin KeyIds
<1>1. \A b \in Blocks : IdsFor(b) \subseteq Ids
  BY DEF Ids
<1>2. /\ \A b \in Workspaces : IdsFor(b) = WorkspaceIds
      /\ \A b \in Guardrails : IdsFor(b) = GuardrailIds
      /\ \A b \in Destinations : IdsFor(b) = DestinationIds
      /\ \A b \in Keys : IdsFor(b) = KeyIds
  BY Sections DEF IdsFor
<1>3. /\ None \notin WorkspaceIds /\ None \notin GuardrailIds
      /\ None \notin DestinationIds /\ None \notin KeyIds
  BY Sections DEF WorkspaceIds, GuardrailIds, KeyIds, DestinationIds, Blocks
<1> QED BY <1>1, <1>2, <1>3 DEF Blocks, Defaults, GuardrailIds

LEMMA DefaultingToBlock ==
  ASSUME NEW g
  PROVE  /\ DefaultingTo(g) # None => DefaultingTo(g) \in Workspaces /\ DefaultOf[DefaultingTo(g)] = g
         /\ \A w \in Workspaces : DefaultOf[w] = g => DefaultingTo(g) # None
<1>1. CASE \E w \in Workspaces : DefaultOf[w] = g
  <2>1. DefaultingTo(g) \in Workspaces /\ DefaultOf[DefaultingTo(g)] = g
    BY <1>1 DEF DefaultingTo
  <2>2. DefaultingTo(g) # None
    BY <2>1, Sections DEF Blocks
  <2> QED BY <2>1, <2>2
<1>2. CASE ~\E w \in Workspaces : DefaultOf[w] = g
  BY <1>2 DEF DefaultingTo
<1> QED BY <1>1, <1>2

LEMMA HomeIsWorkspace ==
  ASSUME NEW b \in Blocks
  PROVE  /\ Home(b) \in Workspaces \cup {None}
         /\ WorkspaceNeed(b) \subseteq Workspaces
<1>1. Placement[b] \in Workspaces \cup {None}
  BY SectionsAssumption
<1>2. Home(b) \in Workspaces \cup {None}
  BY <1>1, DefaultingToBlock DEF Home
<1> QED BY <1>2 DEF WorkspaceNeed

LEMMA BlockOfAssignment ==
  ASSUME NEW k \in Keys
  PROVE  Assignment(k) \notin Blocks /\ BlockOf(Assignment(k)) = k
<1>1. Assignment(k) \notin Blocks
  BY AssignmentsAssumption
<1>2. \A c \in Keys : Assignment(k) = Assignment(c) => c = k
  BY DEF Assignment
<1>3. BlockOf(Assignment(k)) = CHOOSE c \in Keys : Assignment(k) = Assignment(c)
  BY <1>1 DEF BlockOf
<1>4. \E c \in Keys : Assignment(k) = Assignment(c)
  OBVIOUS
<1>5. (CHOOSE c \in Keys : Assignment(k) = Assignment(c)) \in Keys
      /\ Assignment(k) = Assignment(CHOOSE c \in Keys : Assignment(k) = Assignment(c))
  BY <1>4
<1> QED BY <1>1, <1>2, <1>3, <1>5

-----------------------------------------------------------------------------
(* What a change of the document leaves as it was: bindings of other       *)
(* blocks (but for a default guardrail's, which its workspace brings),     *)
(* every default identity, and whatever is owned beside this block's own.  *)
Grown(d, e, on) ==
  /\ \A b \in Blocks \ {on} :
       \/ e.id[b] = d.id[b]
       \/ d.id[b] = None /\ b \in Guardrails /\ DefaultingTo(b) # None
  /\ \A w \in Workspaces : d.default[w] # None => e.default[w] = d.default[w]
  /\ Owned(d) \ {d.id[on]} \subseteq Owned(e)

LEMMA BindSound ==
  ASSUME NEW d, Sound(d), NEW b \in Blocks, NEW id \in IdsFor(b),
         id \notin Owned(d) \ {d.id[b]},
         b \in Workspaces => d.id[b] \in {None, id}
  PROVE  LET e == Bind(d, b, id)
         IN  /\ Sound(e) /\ Grown(d, e, b) /\ e.id[b] = id
             /\ e.default = d.default
             /\ \A c \in Blocks \ {b} : e.id[c] = d.id[c]
             /\ Owned(e) \subseteq Owned(d) \cup {id}
<1> DEFINE e == Bind(d, b, id)
<1>1. id \in Ids /\ id # None
  BY Sections DEF Ids
<1>2. d \in Documents /\ d.id \in [Blocks -> Ids \cup {None}]
  BY DEF Sound, Documents
<1>3. /\ e.id = [d.id EXCEPT ![b] = id]
      /\ e.default = d.default /\ e.digest = d.digest
      /\ e.retained = d.retained /\ e.pending = d.pending
  BY <1>2 DEF Bind, Documents
<1>4. e.id[b] = id /\ \A c \in Blocks \ {b} : e.id[c] = d.id[c]
  BY <1>2, <1>3
<1>5. e \in Documents
  BY <1>1, <1>2 DEF Bind, Documents
<1>6. \A c \in Blocks \ {b} : d.id[c] # id
  <2> SUFFICES ASSUME NEW c \in Blocks \ {b}, d.id[c] = id
               PROVE  FALSE
    OBVIOUS
  <2>1. id \in Owned(d)
    BY <1>1 DEF Owned
  <2>2. d.id[b] = id
    BY <2>1
  <2> QED BY <1>1, <2>2 DEF Sound, OneAddressEach
<1>7. d.pending # None => d.pending.hash # id
  <2> SUFFICES ASSUME d.pending # None, d.pending.hash = id
               PROVE  FALSE
    OBVIOUS
  <2>1. id \in Owned(d)
    BY DEF Owned
  <2> QED BY <2>1 DEF Sound, PendingApart
<1>8. Kinded(e)
  BY <1>4 DEF Sound, Kinded
<1>9. OneAddressEach(e)
  BY <1>4, <1>6 DEF Sound, OneAddressEach
<1>10. DefaultsFit(e)
  <2> SUFFICES ASSUME NEW w \in Workspaces, e.default[w] # None
               PROVE  e.id[w] # None /\ e.default[w] = DefaultGuardrail(e.id[w])
    BY DEF DefaultsFit
  <2>1. d.id[w] # None /\ d.default[w] = DefaultGuardrail(d.id[w])
    BY <1>3 DEF Sound, DefaultsFit
  <2> QED BY <1>3, <1>4, <2>1 DEF Blocks
<1>11. PendingApart(e)
  BY <1>3, <1>4, <1>7 DEF Sound, PendingApart
<1>12. Owned(d) \ {d.id[b]} \subseteq Owned(e) /\ Owned(e) \subseteq Owned(d) \cup {id}
  BY <1>3, <1>4 DEF Owned
<1>13. Grown(d, e, b)
  BY <1>3, <1>4, <1>12 DEF Grown
<1> HIDE DEF e
<1>14. Sound(e)
  BY <1>5, <1>8, <1>9, <1>10, <1>11 DEF Sound
<1>15. e.default = d.default
  BY <1>3
<1> QED BY <1>4, <1>12, <1>13, <1>14, <1>15 DEF e

LEMMA CanBindOwn ==
  ASSUME NEW d, NEW b, NEW id, CanBind(d, b, id)
  PROVE  id \notin Owned(d) \ {d.id[b]} /\ d.id[b] \in {None, id}
BY DEF CanBind

LEMMA DefaultSetSound ==
  ASSUME NEW d, Sound(d), NEW w \in Workspaces,
         NEW default, default = None \/ (d.id[w] # None /\ default = DefaultGuardrail(d.id[w]))
  PROVE  LET e == [d EXCEPT !.default[w] = IF @ = None THEN default ELSE @]
         IN  /\ Sound(e) /\ e.id = d.id /\ Owned(e) = Owned(d)
             /\ \A v \in Workspaces : d.default[v] # None => e.default[v] = d.default[v]
<1> DEFINE e == [d EXCEPT !.default[w] = IF @ = None THEN default ELSE @]
<1>1. d \in Documents
  BY DEF Sound
<1>2. /\ e.id = d.id /\ e.digest = d.digest /\ e.retained = d.retained /\ e.pending = d.pending
      /\ e.default = [d.default EXCEPT ![w] = IF @ = None THEN default ELSE @]
  BY <1>1 DEF Documents
<1>3. default \in Defaults \cup {None}
  BY KindOfIds DEF Sound, Kinded, Blocks
<1>4. e \in Documents
  BY <1>1, <1>3 DEF Documents
<1>5. /\ e.default[w] = IF d.default[w] = None THEN default ELSE d.default[w]
      /\ \A v \in Workspaces \ {w} : e.default[v] = d.default[v]
  BY <1>1, <1>2 DEF Documents
<1>6. DefaultsFit(e)
  BY <1>2, <1>5 DEF Sound, DefaultsFit
<1>7. Sound(e)
  BY <1>2, <1>4, <1>6 DEF Sound, Kinded, OneAddressEach, PendingApart
<1>8. Owned(e) = Owned(d)
  BY <1>2 DEF Owned
<1> HIDE DEF e
<1> QED BY <1>2, <1>5, <1>7, <1>8 DEF e

LEMMA DigestSetSound ==
  ASSUME NEW d, Sound(d), NEW b \in Destinations, NEW digest \in Configs \cup {None}
  PROVE  LET e == [d EXCEPT !.digest[b] = IF digest = None THEN @ ELSE digest]
         IN  /\ Sound(e) /\ e.id = d.id /\ e.default = d.default /\ Owned(e) = Owned(d)
<1> DEFINE e == [d EXCEPT !.digest[b] = IF digest = None THEN @ ELSE digest]
<1>1. d \in Documents
  BY DEF Sound
<1>2. /\ e.id = d.id /\ e.default = d.default /\ e.retained = d.retained
      /\ e.pending = d.pending
  BY <1>1 DEF Documents
<1>3. e \in Documents
  BY <1>1 DEF Documents
<1>4. Sound(e)
  BY <1>2, <1>3 DEF Sound, Kinded, OneAddressEach, DefaultsFit, PendingApart
<1>5. Owned(e) = Owned(d)
  BY <1>2 DEF Owned
<1> HIDE DEF e
<1> QED BY <1>2, <1>4, <1>5 DEF e

LEMMA WorkspaceRecordSound ==
  ASSUME NEW d, Sound(d), NEW w \in Workspaces, NEW id \in WorkspaceIds,
         NEW default \in {None, DefaultGuardrail(id)},
         CanBind(d, w, id), CanBindDefault(d, w, default)
  PROVE  LET e == BindDefault(BindWorkspace(d, w, id, default), w, default)
         IN  /\ Sound(e) /\ Grown(d, e, w) /\ e.id[w] = id
             /\ d.id[w] \in {None, id}
<1> DEFINE f == Bind(d, w, id)
           g == BindWorkspace(d, w, id, default)
           e == BindDefault(g, w, default)
<1>1. w \in Blocks /\ id \in IdsFor(w) /\ id # None
  BY KindOfIds DEF Blocks
<1>2. d.id[w] \in {None, id} /\ id \notin Owned(d) \ {d.id[w]}
  BY CanBindOwn
<1>3. /\ Sound(f) /\ Grown(d, f, w) /\ f.id[w] = id /\ f.default = d.default
      /\ \A c \in Blocks \ {w} : f.id[c] = d.id[c]
      /\ Owned(f) \subseteq Owned(d) \cup {id}
  BY <1>1, <1>2, BindSound
<1>4. /\ Sound(g) /\ g.id = f.id /\ Owned(g) = Owned(f)
      /\ \A v \in Workspaces : f.default[v] # None => g.default[v] = f.default[v]
  <2> HIDE DEF f
  <2> QED BY <1>1, <1>3, DefaultSetSound DEF BindWorkspace, f
<1> HIDE DEF f, g
<1>5. Grown(d, g, w)
  BY <1>3, <1>4 DEF Grown
<1>6. ASSUME DefaultOf[w] = None \/ default = None
      PROVE  Sound(e) /\ Grown(d, e, w) /\ e.id[w] = id
  <2>1. e = g
    BY <1>6 DEF BindDefault
  <2> QED BY <1>2, <1>3, <1>4, <1>5, <2>1
<1>7. ASSUME DefaultOf[w] # None, default # None
      PROVE  Sound(e) /\ Grown(d, e, w) /\ e.id[w] = id
  <2> DEFINE r == DefaultOf[w]
  <2>1. r \in Guardrails /\ r \in Blocks /\ r # w
    BY <1>7, SectionsAssumption, Sections DEF Blocks
  <2>2. CanBind(d, r, default)
    BY <1>7, <2>1 DEF CanBindDefault
  <2>3. default \in Defaults /\ default \in IdsFor(r) /\ default # id
    BY <1>7, <2>1, KindOfIds, IdsApart
  <2>4. g.id[r] = d.id[r]
    BY <1>3, <1>4, <2>1
  <2>5. d.id[r] \in {None, default} /\ default \notin Owned(d) \ {d.id[r]}
    BY <2>2, CanBindOwn
  <2>6. default \notin Owned(g) \ {g.id[r]}
    BY <1>3, <1>4, <2>3, <2>4, <2>5
  <2>7. r \notin Workspaces
    BY <2>1, Sections
  <2>8. /\ Sound(e) /\ Grown(g, e, r) /\ e.id[r] = default
        /\ \A c \in Blocks \ {r} : e.id[c] = g.id[c]
    BY <1>4, <1>7, <2>1, <2>3, <2>6, <2>7, BindSound DEF BindDefault
  <2> HIDE DEF e
  <2>9. e.id[w] = id
    BY <1>1, <1>3, <1>4, <2>1, <2>8
  <2>10. DefaultingTo(r) # None
    BY DefaultingToBlock
  <2>11. Owned(d) \ {d.id[w]} \subseteq Owned(e)
    <3> SUFFICES ASSUME NEW i \in Owned(d) \ {d.id[w]}
                 PROVE  i \in Owned(e)
      OBVIOUS
    <3>1. i \in Owned(g)
      BY <1>5 DEF Grown
    <3>3. default \in Owned(e)
      BY <1>7, <2>1, <2>8 DEF Owned
    <3>5. CASE i = g.id[r]
      <4>1. i = default \/ i = None
        BY <2>4, <2>5, <3>5
      <4>2. i # None
        <5>1. d \in Documents /\ None \notin KeyIds
          BY KindOfIds DEF Sound
        <5> QED BY <5>1 DEF Owned, Documents, Pending
      <4> QED BY <3>3, <4>1, <4>2
    <3>6. CASE i # g.id[r]
      BY <2>8, <3>1, <3>6 DEF Grown
    <3> QED BY <3>5, <3>6
  <2>12. Grown(d, e, w)
    <3>1. \A v \in Workspaces : d.default[v] # None => e.default[v] = d.default[v]
      BY <1>5, <2>8 DEF Grown
    <3>2. \A b \in Blocks \ {w} : \/ e.id[b] = d.id[b]
                                  \/ d.id[b] = None /\ b \in Guardrails /\ DefaultingTo(b) # None
      <4> SUFFICES ASSUME NEW b \in Blocks \ {w}
                   PROVE  \/ e.id[b] = d.id[b]
                          \/ d.id[b] = None /\ b \in Guardrails /\ DefaultingTo(b) # None
        OBVIOUS
      <4>1. g.id[b] = d.id[b]
        BY <1>3, <1>4
      <4>2. CASE b = r
        BY <2>1, <2>5, <2>8, <2>10, <4>2
      <4>3. CASE b # r
        BY <2>8, <4>1, <4>3
      <4> QED BY <4>2, <4>3
    <3> QED BY <2>11, <3>1, <3>2 DEF Grown
  <2> QED BY <2>8, <2>9, <2>12
<1> QED BY <1>2, <1>6, <1>7 DEF g

LEMMA DestinationRecordSound ==
  ASSUME NEW d, Sound(d), NEW b \in Destinations, NEW id \in DestinationIds,
         NEW digest \in Configs \cup {None}, CanBind(d, b, id)
  PROVE  LET e == BindDestination(d, b, id, digest)
         IN  /\ Sound(e) /\ Grown(d, e, b) /\ e.id[b] = id /\ d.id[b] \in {None, id}
<1> DEFINE f == Bind(d, b, id)
           e == BindDestination(d, b, id, digest)
<1>1. b \in Blocks /\ id \in IdsFor(b) /\ b \notin Workspaces
  BY KindOfIds, Sections DEF Blocks
<1>2. d.id[b] \in {None, id} /\ id \notin Owned(d) \ {d.id[b]}
  BY CanBindOwn
<1>3. Sound(f) /\ Grown(d, f, b) /\ f.id[b] = id
  BY <1>1, <1>2, BindSound
<1>4. Sound(e) /\ e.id = f.id /\ e.default = f.default /\ Owned(e) = Owned(f)
  <2> HIDE DEF f
  <2> QED BY <1>3, DigestSetSound DEF BindDestination, f
<1> HIDE DEF f, e
<1>5. Grown(d, e, b)
  BY <1>3, <1>4 DEF Grown
<1> QED BY <1>2, <1>3, <1>4, <1>5 DEF e

LEMMA OtherRecordSound ==
  ASSUME NEW d, Sound(d), NEW b \in Blocks \ Workspaces, NEW id \in IdsFor(b),
         CanBind(d, b, id) \/ CanReplaceGuardrail(d, b, id)
  PROVE  LET e == Bind(d, b, id) IN Sound(e) /\ Grown(d, e, b) /\ e.id[b] = id
<1>1. id \notin Owned(d) \ {d.id[b]}
  BY CanBindOwn DEF CanReplaceGuardrail
<1> QED BY <1>1, BindSound

(* Nothing is bound that was not. *)
LEMMA ReleasedSound ==
  ASSUME NEW d, Sound(d), NEW e \in Documents,
         \A b \in Blocks : e.id[b] \in {None, d.id[b]},
         \A w \in Workspaces : \/ e.default[w] = None
                               \/ e.default[w] = d.default[w] /\ e.id[w] = d.id[w],
         e.pending = None \/ e.pending = d.pending
  PROVE  Sound(e)
<1>1. Kinded(e)
  BY DEF Sound, Kinded
<1>2. OneAddressEach(e)
  BY DEF Sound, OneAddressEach
<1>3. DefaultsFit(e)
  BY DEF Sound, DefaultsFit
<1>4. PendingApart(e)
  <2> SUFFICES ASSUME e.pending # None, NEW b \in Blocks, e.id[b] = e.pending.hash
               PROVE  FALSE
    BY DEF PendingApart
  <2>1. d.pending = e.pending /\ d.id[b] # d.pending.hash
    BY DEF Sound, PendingApart
  <2>2. e.pending.hash \in KeyIds
    BY DEF Documents, Pending
  <2> QED BY <2>1, <2>2, KindOfIds
<1> QED BY <1>1, <1>2, <1>3, <1>4 DEF Sound

LEMMA ForgetSound ==
  ASSUME NEW d, Sound(d), NEW b \in Blocks
  PROVE  Sound(Forget(d, b))
<1>1. d \in Documents
  BY DEF Sound
<1>2. CASE b \in Workspaces
  <2> DEFINE e == [d EXCEPT !.id = [c \in Blocks |-> IF c \in ReleasedWith(d, b) THEN None ELSE @[c]],
                            !.default[b] = None]
  <2>1. Forget(d, b) = e
    BY <1>2, Sections DEF Forget
  <2>2. /\ e.id = [c \in Blocks |-> IF c \in ReleasedWith(d, b) THEN None ELSE d.id[c]]
        /\ e.default = [d.default EXCEPT ![b] = None]
        /\ e.pending = d.pending /\ e.digest = d.digest /\ e.retained = d.retained
    BY <1>1 DEF Documents
  <2>3. e \in Documents
    BY <1>1, <2>2 DEF Documents
  <2>4. \A w \in Workspaces \ {b} : w \notin ReleasedWith(d, b)
    BY Sections DEF ReleasedWith
  <2> HIDE DEF e
  <2>5. \A w \in Workspaces : \/ e.default[w] = None
                              \/ e.default[w] = d.default[w] /\ e.id[w] = d.id[w]
    BY <1>1, <1>2, <2>2, <2>4 DEF Documents, Blocks
  <2>6. \A c \in Blocks : e.id[c] \in {None, d.id[c]}
    BY <2>2
  <2> QED BY <2>1, <2>2, <2>3, <2>5, <2>6, ReleasedSound DEF e
<1>3. CASE b \notin Workspaces
  <2> DEFINE e == Forget(d, b)
  <2>1. /\ e.id = [d.id EXCEPT ![b] = None] /\ e.default = d.default
        /\ e.pending = d.pending /\ e \in Documents
    BY <1>1, <1>3, Sections DEF Forget, Documents, Blocks
  <2>2. /\ \A c \in Blocks : e.id[c] \in {None, d.id[c]}
        /\ \A w \in Workspaces : e.default[w] = d.default[w] /\ e.id[w] = d.id[w]
    BY <1>1, <1>3, <2>1 DEF Documents, Blocks
  <2> HIDE DEF e
  <2>3. Sound(e)
    BY <2>1, <2>2, ReleasedSound
  <2> QED BY <2>3 DEF e
<1> QED BY <1>2, <1>3

LEMMA PromoteSound ==
  ASSUME NEW d, Sound(d), NEW k \in Keys, NEW h \in KeyIds,
         \A b \in Blocks : d.id[b] # h
  PROVE  LET e == Promote(d, k, h)
         IN  /\ Sound(e) /\ e.default = d.default /\ e.id[k] = h
             /\ \A b \in Blocks \ {k} : e.id[b] = d.id[b]
             /\ d.pending = None \/ d.pending.hash = h => Owned(d) \subseteq Owned(e)
             /\ e.pending = None
<1> DEFINE e == Promote(d, k, h)
<1>1. d \in Documents /\ k \in Blocks /\ k \notin Workspaces /\ h \in Ids /\ h \in IdsFor(k)
  BY Sections, KindOfIds DEF Sound, Blocks
<1>2. /\ e.id = [d.id EXCEPT ![k] = h] /\ e.default = d.default /\ e.digest = d.digest
      /\ e.retained = [d.retained EXCEPT ![k] = @ \cup ({d.id[k]} \ {None})]
      /\ e.pending = None
  BY <1>1 DEF Promote, Documents
<1>3. d.id[k] \in KeyIds \cup {None}
  BY <1>1, KindOfIds DEF Sound, Kinded
<1>4. e \in Documents
  BY <1>1, <1>3 DEF Promote, Documents
<1>5. /\ e.id[k] = h /\ \A b \in Blocks \ {k} : e.id[b] = d.id[b]
      /\ e.retained[k] = d.retained[k] \cup ({d.id[k]} \ {None})
      /\ \A c \in Keys \ {k} : e.retained[c] = d.retained[c]
  BY <1>1, <1>2 DEF Documents
<1>6. Kinded(e)
  BY <1>1, <1>5 DEF Sound, Kinded
<1>7. OneAddressEach(e)
  BY <1>5 DEF Sound, OneAddressEach
<1>8. DefaultsFit(e)
  BY <1>1, <1>2, <1>5 DEF Sound, DefaultsFit, Blocks
<1>9. PendingApart(e)
  BY <1>2 DEF PendingApart
<1>10. ASSUME d.pending = None \/ d.pending.hash = h
       PROVE  Owned(d) \subseteq Owned(e)
  <2> SUFFICES ASSUME NEW i \in Owned(d)
               PROVE  i \in Owned(e)
    OBVIOUS
  <2>1. h \in Owned(e)
    BY <1>1, <1>5, KindOfIds DEF Owned
  <2>2. CASE \E b \in Blocks : i = d.id[b] /\ i # None
    <3>1. PICK b \in Blocks : i = d.id[b] /\ i # None
      BY <2>2
    <3>2. b = k => i \in e.retained[k]
      BY <1>5, <3>1
    <3> QED BY <1>5, <3>1, <3>2 DEF Owned
  <2>3. CASE \E c \in Keys : i \in d.retained[c]
    <3>1. PICK c \in Keys : i \in d.retained[c]
      BY <2>3
    <3>2. i \in e.retained[c]
      BY <1>5, <3>1
    <3> QED BY <3>2 DEF Owned
  <2>4. CASE d.pending # None /\ i = d.pending.hash
    BY <1>10, <2>1, <2>4
  <2> QED BY <2>2, <2>3, <2>4 DEF Owned
<1> HIDE DEF e
<1>11. Sound(e)
  BY <1>4, <1>6, <1>7, <1>8, <1>9 DEF Sound
<1> QED BY <1>2, <1>5, <1>10, <1>11 DEF e

(* The document with an operation that has not ended. *)
Standing(d, k, h, phase) == [d EXCEPT !.pending = [key |-> k, hash |-> h, phase |-> phase]]

LEMMA StandingSound ==
  ASSUME NEW d, Sound(d), NEW k \in Keys, NEW h \in KeyIds, d.pending = None,
         \A b \in Blocks : d.id[b] # h,
         NEW phase \in {"unknown", "dead", "delivered"}
  PROVE  LET e == Standing(d, k, h, phase)
         IN  /\ Sound(e) /\ e.id = d.id /\ e.default = d.default
             /\ Owned(d) \subseteq Owned(e)
<1> DEFINE e == Standing(d, k, h, phase)
<1>1. d \in Documents
  BY DEF Sound
<1>2. /\ e \in Documents /\ e.id = d.id /\ e.default = d.default
      /\ e.retained = d.retained /\ e.pending.hash = h
  BY <1>1 DEF Documents, Pending, Standing
<1>3. Owned(d) \subseteq Owned(e)
  BY <1>2 DEF Owned
<1> HIDE DEF e
<1>4. Sound(e)
  BY <1>2 DEF Sound, Kinded, OneAddressEach, DefaultsFit, PendingApart
<1> QED BY <1>2, <1>3, <1>4 DEF e

LEMMA RecoverSound ==
  ASSUME NEW d, Sound(d), d.pending # None
  PROVE  Sound([d EXCEPT !.pending = None,
                         !.retained[d.pending.key] = @ \cup {d.pending.hash}])
<1> DEFINE e == [d EXCEPT !.pending = None,
                          !.retained[d.pending.key] = @ \cup {d.pending.hash}]
<1>1. d \in Documents /\ d.pending \in Pending
  BY DEF Sound, Documents
<1>2. /\ e.id = d.id /\ e.default = d.default /\ e.pending = None /\ e.digest = d.digest
      /\ e.retained = [d.retained EXCEPT ![d.pending.key] = @ \cup {d.pending.hash}]
  BY <1>1 DEF Documents
<1>3. e \in Documents
  BY <1>1 DEF Documents, Pending
<1> HIDE DEF e
<1>4. Sound(e)
  BY <1>2, <1>3 DEF Sound, Kinded, OneAddressEach, DefaultsFit, PendingApart
<1> QED BY <1>4 DEF e

(* What a run starts from. *)
LEMMA PreparedSound ==
  ASSUME Sound(doc), Seen(remote)
  PROVE  Sound(Prepared)
<1> DEFINE p == Promoted(doc)
<1>1. Sound(p)
  <2>1. CASE doc.pending # None /\ doc.pending.phase = "delivered"
    <3>1. doc.pending.key \in Keys /\ doc.pending.hash \in KeyIds
      BY <2>1 DEF Sound, Documents, Pending
    <3>2. \A b \in Blocks : doc.id[b] # doc.pending.hash
      BY <2>1 DEF Sound, PendingApart
    <3> QED BY <2>1, <3>1, <3>2, PromoteSound DEF Promoted
  <2>2. CASE ~(doc.pending # None /\ doc.pending.phase = "delivered")
    BY <2>2 DEF Promoted
  <2> QED BY <2>1, <2>2
<1> HIDE DEF p
<1> DEFINE e == Backfilled(p, remote)
<1>2. p \in Documents
  BY <1>1 DEF Sound
<1>3. /\ e.id = p.id /\ e.digest = p.digest /\ e.retained = p.retained /\ e.pending = p.pending
      /\ e.default = [w \in Workspaces |->
           IF p.default[w] = None /\ p.id[w] \in DOMAIN remote THEN DefaultGuardrail(p.id[w])
                                                              ELSE p.default[w]]
  BY <1>2 DEF Backfilled, Documents
<1>4. \A w \in Workspaces : p.id[w] \in WorkspaceIds \cup {None}
  BY <1>1, KindOfIds DEF Sound, Kinded, Blocks
<1>5. None \notin DOMAIN remote
  BY Sections DEF Seen
<1>6. e.default \in [Workspaces -> Defaults \cup {None}]
  BY <1>2, <1>3, <1>4, <1>5, KindOfIds DEF Documents
<1>7. e \in Documents
  BY <1>2, <1>6 DEF Documents, Backfilled
<1> HIDE DEF e
<1>8. DefaultsFit(e)
  BY <1>1, <1>3, <1>5 DEF Sound, DefaultsFit
<1>9. Sound(e)
  BY <1>1, <1>3, <1>7, <1>8 DEF Sound, Kinded, OneAddressEach, PendingApart
<1> QED BY <1>9 DEF e, p, Prepared

-----------------------------------------------------------------------------
(* What a plan proposes.                                                   *)

LEMMA WorkspaceProposal ==
  ASSUME NEW d, Sound(d), NEW seen, Seen(seen), NEW w \in Workspaces
  PROVE  LET a == WorkspaceAction(d, seen, w)
         IN  /\ a \in Actions /\ a.on = w /\ a.kind \notin {"assign", "unassign"}
             /\ a.kind = "update" => a.id = d.id[w] /\ a.id # None
             /\ CreatesItsResource(a) => Vacant(d, seen, w)
<1>1. d.id[w] \in Ids \cup {None} /\ w \in Placeable /\ None \notin DOMAIN seen
  BY Sections DEF Sound, Documents, Blocks, Placeable, Seen
<1>2. AdoptOrCreate(d, seen, w) \in {"create", "adoption_required"}
      /\ (AdoptOrCreate(d, seen, w) = "create" => UnownedNamed(d, seen, w) = {})
  BY DEF AdoptOrCreate
<1>3. AsConfigured(seen, d.id[w]) \in {"no_op", "update"}
  BY DEF AsConfigured
<1> DEFINE a == WorkspaceAction(d, seen, w)
<1>4. /\ a.on = w /\ a.id = d.id[w] /\ a.needs = {} /\ a.config = FALSE /\ a.blocked = FALSE
      /\ a = [on |-> a.on, kind |-> a.kind, id |-> a.id, needs |-> a.needs,
              config |-> a.config, blocked |-> a.blocked]
  BY DEF WorkspaceAction, Action
<1>5. \/ ~Bound(d, w) /\ a.kind = AdoptOrCreate(d, seen, w)
      \/ Bound(d, w) /\ d.id[w] \notin DOMAIN seen /\ a.kind = "missing"
      \/ Bound(d, w) /\ a.kind = AsConfigured(seen, d.id[w])
  BY DEF WorkspaceAction, Action
<1> HIDE DEF a
<1>6. a.kind \in Kinds
  BY <1>2, <1>3, <1>5 DEF Kinds
<1>7. a \in Actions
  BY <1>1, <1>4, <1>6 DEF Actions
<1>8. /\ a.kind = "update" => Bound(d, w)
      /\ a.kind \in {"create", "replace"} => ~Bound(d, w) /\ UnownedNamed(d, seen, w) = {}
      /\ a.kind \notin {"assign", "unassign"}
  BY <1>2, <1>3, <1>5
<1> QED BY <1>1, <1>4, <1>7, <1>8 DEF Bound, Vacant, CreatesItsResource, a

LEMMA DestinationProposal ==
  ASSUME NEW d, Sound(d), NEW seen, Seen(seen), NEW asked, NEW b \in Destinations
  PROVE  LET a == DestinationAction(d, seen, asked, b)
         IN  /\ a \in Actions /\ a.on = b /\ a.kind \notin {"assign", "unassign"}
             /\ a.kind = "update" => a.id = d.id[b] /\ a.id # None
             /\ CreatesItsResource(a) => Vacant(d, seen, b)
<1>1. /\ d.id[b] \in Ids \cup {None} /\ b \in Placeable /\ None \notin DOMAIN seen
      /\ b \in Blocks /\ WorkspaceNeed(b) \subseteq Blocks
  BY Sections, HomeIsWorkspace DEF Sound, Documents, Blocks, Placeable, Seen
<1>2. AdoptOrCreate(d, seen, b) \in {"create", "adoption_required"}
      /\ (AdoptOrCreate(d, seen, b) = "create" => UnownedNamed(d, seen, b) = {})
  BY DEF AdoptOrCreate
<1>3. AsConfigured(seen, d.id[b]) \in {"no_op", "update"}
  BY DEF AsConfigured
<1> DEFINE a == DestinationAction(d, seen, asked, b)
<1>4. /\ a.on = b /\ a.id = d.id[b] /\ a.needs = WorkspaceNeed(b)
      /\ a.config \in BOOLEAN /\ a.blocked \in BOOLEAN
      /\ a = [on |-> a.on, kind |-> a.kind, id |-> a.id, needs |-> a.needs,
              config |-> a.config, blocked |-> a.blocked]
  BY DEF DestinationAction, Action, Blocked
<1>5. \/ ~Bound(d, b) /\ a.kind = AdoptOrCreate(d, seen, b)
      \/ Bound(d, b) /\ a.kind \in {"missing", "update", AsConfigured(seen, d.id[b])}
      \/ a.kind = "no_op"
  BY DEF DestinationAction, Action, Blocked
<1> HIDE DEF a
<1>6. a.kind \in Kinds
  BY <1>2, <1>3, <1>5 DEF Kinds
<1>7. a \in Actions
  BY <1>1, <1>4, <1>6 DEF Actions
<1>8. /\ a.kind = "update" => Bound(d, b)
      /\ a.kind \in {"create", "replace"} => ~Bound(d, b) /\ UnownedNamed(d, seen, b) = {}
      /\ a.kind \notin {"assign", "unassign"}
  BY <1>2, <1>3, <1>5
<1> QED BY <1>1, <1>4, <1>7, <1>8 DEF Bound, Vacant, CreatesItsResource, a

LEMMA NamedDefaultTyped ==
  ASSUME NEW d, d \in Documents, NEW g
  PROVE  /\ NamedDefault(d, g) \in Defaults \cup {None}
         /\ NamedDefault(d, g) # None => \E w \in Workspaces : d.default[w] = NamedDefault(d, g)
         /\ NamedDefault(d, g) # None => DefaultingTo(g) # None
BY DefaultingToBlock DEF NamedDefault, Documents

LEMMA GuardrailProposal ==
  ASSUME NEW d, Sound(d), NEW seen, Seen(seen), NEW g \in Guardrails
  PROVE  LET a == GuardrailAction(d, seen, g)
         IN  /\ a \in Actions /\ a.on = g /\ a.kind \notin {"assign", "unassign"}
             /\ a.kind = "update" => a.id \in OwnIdentity(d, g) /\ a.id # None
             /\ CreatesItsResource(a) => Vacant(d, seen, g) \/ Dispensed(d, g)
<1> DEFINE id == GuardrailIdentity(d, g)
<1>1. /\ d.id[g] \in Ids \cup {None} /\ g \in Placeable /\ None \notin DOMAIN seen
      /\ g \in Blocks /\ WorkspaceNeed(g) \subseteq Blocks /\ d \in Documents
  BY Sections, HomeIsWorkspace DEF Sound, Documents, Blocks, Placeable, Seen
<1>2. id \in Ids \cup GuardrailIds \cup {None} /\ id \in OwnIdentity(d, g)
  BY <1>1, NamedDefaultTyped, KindOfIds DEF GuardrailIdentity, OwnIdentity
<1>3. AdoptOrCreate(d, seen, g) \in {"create", "adoption_required"}
      /\ (AdoptOrCreate(d, seen, g) = "create" => UnownedNamed(d, seen, g) = {})
  BY DEF AdoptOrCreate
<1>4. AsConfigured(seen, id) \in {"no_op", "update"}
  BY DEF AsConfigured
<1>5. id = None => d.id[g] = None
  BY DEF GuardrailIdentity, Bound
<1> HIDE DEF id
<1> DEFINE kind == GuardrailKind(d, seen, g)
<1>6. \/ id = None /\ DefaultingTo(g) # None /\ kind = "create"
      \/ id = None /\ DefaultingTo(g) = None /\ kind = AdoptOrCreate(d, seen, g)
      \/ id \in DOMAIN seen /\ kind = AsConfigured(seen, id)
      \/ /\ id # None /\ id \notin DOMAIN seen
         /\ kind = IF Defaulting(d, seen, id) # {} \/ MayRecreate(d, seen, g)
                     THEN "create" ELSE "missing"
  BY <1>1 DEF GuardrailKind, id
<1> HIDE DEF kind
<1>7. kind \in Kinds /\ kind \notin {"assign", "unassign"}
  BY <1>3, <1>4, <1>6 DEF Kinds
<1>8. kind = "update" => id # None
  BY <1>1, <1>3, <1>4, <1>6
<1>9. ASSUME kind \in {"create", "replace"}
      PROVE  Vacant(d, seen, g) \/ Dispensed(d, g)
  <2>1. CASE DefaultingTo(g) # None
    BY <2>1 DEF Dispensed
  <2>2. CASE DefaultingTo(g) = None /\ id = None
    BY <1>1, <1>3, <1>5, <1>6, <1>9, <2>2 DEF Vacant
  <2>3. CASE DefaultingTo(g) = None /\ id # None
    <3>1. id = d.id[g]
      BY <1>1, <2>3, NamedDefaultTyped DEF GuardrailIdentity, id
    <3>2. /\ id \notin DOMAIN seen
          /\ Defaulting(d, seen, id) # {} \/ MayRecreate(d, seen, g)
      BY <1>4, <1>6, <1>9, <2>3
    <3>3. CASE Defaulting(d, seen, id) # {}
      BY <2>3, <3>1, <3>3 DEF Defaulting, Dispensed
    <3>4. CASE MayRecreate(d, seen, g)
      BY <3>1, <3>2, <3>4 DEF MayRecreate, Vacant, UnownedNamed
    <3> QED BY <3>2, <3>3, <3>4
  <2> QED BY <2>1, <2>2, <2>3
<1> DEFINE a == GuardrailAction(d, seen, g)
<1>10. /\ a.on = g /\ a.id = id /\ a.needs = WorkspaceNeed(g)
       /\ a.config \in BOOLEAN /\ a.blocked \in BOOLEAN /\ a.kind \in {"no_op", kind}
       /\ a = [on |-> a.on, kind |-> a.kind, id |-> a.id, needs |-> a.needs,
               config |-> a.config, blocked |-> a.blocked]
  BY DEF GuardrailAction, Action, Blocked, id, kind
<1> HIDE DEF a
<1>11. a.kind \in Kinds
  BY <1>7, <1>10 DEF Kinds
<1>12. a \in Actions
  BY <1>1, <1>2, <1>10, <1>11 DEF Actions
<1>13. /\ a.kind = "update" => a.id \in OwnIdentity(d, g) /\ a.id # None
       /\ CreatesItsResource(a) => Vacant(d, seen, g) \/ Dispensed(d, g)
       /\ a.kind \notin {"assign", "unassign"}
  BY <1>2, <1>7, <1>8, <1>9, <1>10 DEF CreatesItsResource
<1> QED BY <1>10, <1>12, <1>13 DEF a

LEMMA KeyProposal ==
  ASSUME NEW d, Sound(d), NEW seen, Seen(seen), NEW k \in Keys
  PROVE  LET a == KeyAction(d, seen, k)
         IN  /\ a \in Actions /\ a.on = k /\ a.kind \notin {"assign", "unassign"}
             /\ a.kind = "update" => a.id = d.id[k] /\ a.id # None
             /\ CreatesItsResource(a) /\ ~a.blocked =>
                  Vacant(d, seen, k) \/ d.id[k] \in DOMAIN seen
<1>1. /\ d.id[k] \in Ids \cup {None} /\ k \in Placeable /\ None \notin DOMAIN seen
      /\ k \in Blocks /\ d \in Documents
  BY Sections DEF Sound, Documents, Blocks, Placeable, Seen
<1>2. AdoptOrCreate(d, seen, k) \in {"create", "adoption_required"}
      /\ (AdoptOrCreate(d, seen, k) = "create" => UnownedNamed(d, seen, k) = {})
  BY DEF AdoptOrCreate
<1>3. AsConfigured(seen, d.id[k]) \in {"no_op", "update"}
  BY DEF AsConfigured
<1>4. KeyNeeds(k) \subseteq Blocks
  BY <1>1, SectionsAssumption DEF KeyNeeds, Blocks
<1> DEFINE kind == KeyKind(d, seen, k)
<1>5. \/ /\ PendingAt(d, k) /\ kind \in {"recovery_required", "replace", "no_op"}
         /\ kind = "replace" => d.pending.phase = "dead"
      \/ ~PendingAt(d, k) /\ ~Bound(d, k) /\ kind = AdoptOrCreate(d, seen, k)
      \/ ~PendingAt(d, k) /\ Bound(d, k) /\ d.id[k] \notin DOMAIN seen /\ kind = "missing"
      \/ /\ ~PendingAt(d, k) /\ Bound(d, k) /\ d.id[k] \in DOMAIN seen
         /\ kind \in {"replace", AsConfigured(seen, d.id[k])}
  BY DEF KeyKind
<1> DEFINE a == KeyAction(d, seen, k)
<1>6. /\ a.on = k /\ a.id = d.id[k] /\ a.kind = kind
      /\ a.needs \in {{}, KeyNeeds(k)} /\ a.config \in BOOLEAN
      /\ a.blocked = (PendingAt(d, k) /\ d.pending.phase # "delivered")
      /\ a = [on |-> a.on, kind |-> a.kind, id |-> a.id, needs |-> a.needs,
              config |-> a.config, blocked |-> a.blocked]
  BY DEF KeyAction, Action, Blocked
<1> HIDE DEF a, kind
<1>7. kind \in Kinds /\ kind \notin {"assign", "unassign"}
  BY <1>2, <1>3, <1>5 DEF Kinds
<1>8. a.blocked \in BOOLEAN
  BY <1>6
<1>9. a \in Actions
  BY <1>1, <1>4, <1>6, <1>7, <1>8 DEF Actions
<1>10. kind = "update" => Bound(d, k)
  BY <1>2, <1>3, <1>5
<1>11. ASSUME kind \in {"create", "replace"}, ~a.blocked
       PROVE  Vacant(d, seen, k) \/ d.id[k] \in DOMAIN seen
  <2>1. CASE PendingAt(d, k)
    BY <1>2, <1>5, <1>6, <1>11, <2>1
  <2>2. CASE ~PendingAt(d, k) /\ ~Bound(d, k)
    BY <1>1, <1>2, <1>5, <1>11, <2>2 DEF Vacant, Bound
  <2>3. CASE ~PendingAt(d, k) /\ Bound(d, k)
    BY <1>3, <1>5, <1>11, <2>3
  <2> QED BY <2>1, <2>2, <2>3
<1> QED BY <1>6, <1>7, <1>9, <1>10, <1>11 DEF Bound, CreatesItsResource, a

LEMMA AssignmentProposal ==
  ASSUME NEW d, Sound(d), NEW seen, Seen(seen), NEW k \in Keys,
         NEW a \in AssignmentAction(d, seen, k)
  PROVE  /\ a \in Actions /\ a.on = Assignment(k)
         /\ a.kind \in {"assign", "unassign", "no_op"}
         /\ a.kind = "assign" => RailOf[k] # None
         /\ \A b \in AssignmentAction(d, seen, k) : b = a
<1>1. /\ Assignment(k) \in Placeable /\ RailOf[k] \in Guardrails \cup {None}
      /\ k \in Blocks /\ Guardrails \subseteq Blocks
  BY SectionsAssumption DEF Placeable, Blocks
<1> DEFINE held == seen[d.id[k]].under
           C == KeyKind(d, seen, k) \in {"create", "replace"}
           gone == d.id[k] \notin DOMAIN seen
<1>2. ~gone => held \in GuardrailIds \cup {None}
  BY DEF Seen, Objects
<1>3. \/ /\ RailOf[k] # None
         /\ AssignmentAction(d, seen, k) = {Action(Assignment(k), "assign", None, {k, RailOf[k]})}
      \/ /\ ~gone /\ RailOf[k] = None
         /\ AssignmentAction(d, seen, k) =
              {Action(Assignment(k), IF held = None THEN "no_op" ELSE "unassign", held, {})}
      \/ /\ ~gone /\ RailOf[k] # None
         /\ AssignmentAction(d, seen, k) = {Action(Assignment(k), "no_op", held, {})}
      \/ /\ RailOf[k] # None
         /\ AssignmentAction(d, seen, k) = {Action(Assignment(k), "assign", None, {RailOf[k]})}
  <2>1. CASE C
    BY <2>1 DEF AssignmentAction
  <2>2. CASE ~C /\ gone
    BY <2>2 DEF AssignmentAction
  <2>3. CASE ~C /\ ~gone
    BY <2>3 DEF AssignmentAction
  <2> QED BY <2>1, <2>2, <2>3
<1> HIDE DEF held, gone
<1>4. ASSUME NEW kind \in {"assign", "unassign", "no_op"},
             NEW id \in GuardrailIds \cup {None}, NEW needs \in SUBSET Blocks,
             kind = "assign" => RailOf[k] # None,
             AssignmentAction(d, seen, k) = {Action(Assignment(k), kind, id, needs)}
      PROVE  /\ a \in Actions /\ a.on = Assignment(k)
             /\ a.kind \in {"assign", "unassign", "no_op"}
             /\ a.kind = "assign" => RailOf[k] # None
             /\ \A b \in AssignmentAction(d, seen, k) : b = a
  <2>1. a = Action(Assignment(k), kind, id, needs)
    BY <1>4
  <2>2. a.kind = kind /\ a.on = Assignment(k)
    BY <2>1 DEF Action
  <2>3. a \in Actions
    BY <1>1, <2>1 DEF Action, Actions, Kinds
  <2> QED BY <1>4, <2>1, <2>2, <2>3
<1>5. {k, RailOf[k]} \in SUBSET Blocks \/ RailOf[k] = None
  BY <1>1
<1>6. {RailOf[k]} \in SUBSET Blocks \/ RailOf[k] = None
  BY <1>1
<1>7. CASE RailOf[k] # None /\ AssignmentAction(d, seen, k) =
             {Action(Assignment(k), "assign", None, {k, RailOf[k]})}
  BY <1>4, <1>5, <1>7
<1>8. CASE ~gone /\ RailOf[k] = None /\ AssignmentAction(d, seen, k) =
             {Action(Assignment(k), IF held = None THEN "no_op" ELSE "unassign", held, {})}
  <2>1. (IF held = None THEN "no_op" ELSE "unassign") \in {"unassign", "no_op"}
    OBVIOUS
  <2> QED BY <1>2, <1>4, <1>8, <2>1
<1>9. CASE ~gone /\ RailOf[k] # None /\ AssignmentAction(d, seen, k) =
             {Action(Assignment(k), "no_op", held, {})}
  BY <1>2, <1>4, <1>9
<1>10. CASE RailOf[k] # None /\ AssignmentAction(d, seen, k) =
             {Action(Assignment(k), "assign", None, {RailOf[k]})}
  BY <1>4, <1>6, <1>10
<1> QED BY <1>3, <1>7, <1>8, <1>9, <1>10

LEMMA ProposalShape ==
  ASSUME NEW d, NEW seen, NEW asked, NEW a \in Proposals(d, seen, asked)
  PROVE  \/ \E w \in Workspaces : a = WorkspaceAction(d, seen, w)
         \/ \E b \in Destinations : a = DestinationAction(d, seen, asked, b)
         \/ \E g \in Guardrails : a = GuardrailAction(d, seen, g)
         \/ \E k \in Keys : a = KeyAction(d, seen, k)
         \/ \E k \in Keys : a \in AssignmentAction(d, seen, k)
BY DEF Proposals

LEMMA ProposalDue ==
  ASSUME NEW d, Sound(d), NEW seen, Seen(seen), NEW asked,
         NEW a \in Proposals(d, seen, asked)
  PROVE  /\ a \in Actions
         /\ ~a.blocked => Due(d, seen, FALSE, a)
<1>1. CASE \E w \in Workspaces : a = WorkspaceAction(d, seen, w)
  <2>1. PICK w \in Workspaces : a = WorkspaceAction(d, seen, w)
    BY <1>1
  <2>2. w \in Blocks /\ w \notin Guardrails
    BY Sections DEF Blocks
  <2> QED BY <2>1, <2>2, WorkspaceProposal DEF Due, OwnIdentity, MayCreate
<1>2. CASE \E b \in Destinations : a = DestinationAction(d, seen, asked, b)
  <2>1. PICK b \in Destinations : a = DestinationAction(d, seen, asked, b)
    BY <1>2
  <2>2. b \in Blocks /\ b \notin Guardrails
    BY Sections DEF Blocks
  <2> QED BY <2>1, <2>2, DestinationProposal DEF Due, OwnIdentity, MayCreate
<1>3. CASE \E g \in Guardrails : a = GuardrailAction(d, seen, g)
  <2>1. PICK g \in Guardrails : a = GuardrailAction(d, seen, g)
    BY <1>3
  <2>2. g \in Blocks
    BY DEF Blocks
  <2> QED BY <2>1, <2>2, GuardrailProposal DEF Due, MayCreate
<1>4. CASE \E k \in Keys : a = KeyAction(d, seen, k)
  <2>1. PICK k \in Keys : a = KeyAction(d, seen, k)
    BY <1>4
  <2>2. k \in Blocks /\ k \notin Guardrails
    BY Sections DEF Blocks
  <2> QED BY <2>1, <2>2, KeyProposal DEF Due, OwnIdentity, MayCreate
<1>5. CASE \E k \in Keys : a \in AssignmentAction(d, seen, k)
  <2>1. PICK k \in Keys : a \in AssignmentAction(d, seen, k)
    BY <1>5
  <2>2. a.on \notin Blocks /\ BlockOf(a.on) = k
    BY <2>1, AssignmentProposal, BlockOfAssignment
  <2> QED BY <2>1, <2>2, AssignmentProposal DEF Due
<1> QED BY <1>1, <1>2, <1>3, <1>4, <1>5, ProposalShape

(* A place has one action. *)
LEMMA ProposalsApart ==
  ASSUME NEW d, Sound(d), NEW seen, Seen(seen), NEW asked,
         NEW a \in Proposals(d, seen, asked), NEW b \in Proposals(d, seen, asked),
         a.on = b.on
  PROVE  a = b
<1>1. ASSUME NEW x \in Proposals(d, seen, asked)
      PROVE  \/ x.on \in Workspaces /\ x = WorkspaceAction(d, seen, x.on)
             \/ x.on \in Destinations /\ x = DestinationAction(d, seen, asked, x.on)
             \/ x.on \in Guardrails /\ x = GuardrailAction(d, seen, x.on)
             \/ x.on \in Keys /\ x = KeyAction(d, seen, x.on)
             \/ /\ x.on \notin Blocks
                /\ \E k \in Keys : x.on = Assignment(k) /\ x \in AssignmentAction(d, seen, k)
  <2>1. CASE \E w \in Workspaces : x = WorkspaceAction(d, seen, w)
    BY <2>1, WorkspaceProposal
  <2>2. CASE \E c \in Destinations : x = DestinationAction(d, seen, asked, c)
    BY <2>2, DestinationProposal
  <2>3. CASE \E g \in Guardrails : x = GuardrailAction(d, seen, g)
    BY <2>3, GuardrailProposal
  <2>4. CASE \E k \in Keys : x = KeyAction(d, seen, k)
    BY <2>4, KeyProposal
  <2>5. CASE \E k \in Keys : x \in AssignmentAction(d, seen, k)
    BY <2>5, AssignmentProposal, BlockOfAssignment
  <2> QED BY <2>1, <2>2, <2>3, <2>4, <2>5, ProposalShape
<1>2. CASE a.on \in Blocks
  <2>1. a.on \in Workspaces \/ a.on \in Destinations \/ a.on \in Guardrails \/ a.on \in Keys
    BY <1>2 DEF Blocks
  <2> QED BY <1>1, <1>2, <2>1, Sections
<1>3. CASE a.on \notin Blocks
  <2>1. PICK k \in Keys : a.on = Assignment(k) /\ a \in AssignmentAction(d, seen, k)
    BY <1>1, <1>3 DEF Blocks
  <2>2. PICK j \in Keys : b.on = Assignment(j) /\ b \in AssignmentAction(d, seen, j)
    BY <1>1, <1>3 DEF Blocks
  <2>3. j = k
    BY <2>1, <2>2, BlockOfAssignment
  <2> QED BY <2>1, <2>2, <2>3, AssignmentProposal
<1> QED BY <1>2, <1>3

LEMMA PlanShape ==
  ASSUME NEW d, Sound(d), NEW seen, Seen(seen), NEW asked,
         NEW a \in Plan(d, seen, asked)
  PROVE  a \in Actions /\ (~a.blocked => a \in Proposals(d, seen, asked))
<1>1. PICK p \in Proposals(d, seen, asked) :
        a \in {p, Blocked(p), Blocked(Blocked(p))}
  BY DEF Plan
<1>2. p \in Actions
  BY ProposalDue
<1>3. /\ Blocked(p) \in Actions /\ Blocked(p).blocked
      /\ Blocked(Blocked(p)) \in Actions /\ Blocked(Blocked(p)).blocked
  BY <1>2 DEF Blocked, Actions
<1> QED BY <1>1, <1>2, <1>3

(* What a run starts with: all of it is due. *)
LEMMA BegunScheduled ==
  ASSUME NEW d, Sound(d), NEW seen, Seen(seen), NEW asked
  PROVE  LET r == Begun(Plan(d, seen, asked))
         IN  /\ r \in RunState /\ Scheduled(d, seen, r) /\ Recordings(d, seen, r)
             /\ Emptied(seen, r) /\ r.at = "executing" /\ r.record = None
<1> DEFINE plan == Plan(d, seen, asked)
           r == Begun(plan)
<1>1. plan \subseteq Actions /\ \A a \in plan : ~a.blocked => a \in Proposals(d, seen, asked)
  BY PlanShape
<1> HIDE DEF plan
<1>2. /\ r.todo = {a \in plan : Executable(a)} /\ r.disturbed = FALSE
      /\ r.at = "executing" /\ r.record = None
      /\ r \in RunState
  <2> DEFINE todo == {a \in plan : Executable(a)}
             waiting == \E a \in plan : Writes(a) /\ a.blocked
             left == \E a \in plan : HoldsBack(a)
  <2>1. r = [Idle EXCEPT !.at = "executing", !.todo = todo, !.waiting = waiting, !.left = left]
    BY DEF Begun
  <2>2. todo \in SUBSET Actions /\ waiting \in BOOLEAN /\ left \in BOOLEAN
    BY <1>1
  <2> HIDE DEF r, waiting, left
  <2>3. r.todo = todo
    BY <2>1 DEF Idle
  <2> HIDE DEF todo
  <2> QED BY <2>1, <2>2, <2>3 DEF RunState, At, Idle, todo
<1>3. ASSUME NEW a \in r.todo
      PROVE  a \in Proposals(d, seen, asked) /\ Due(d, seen, FALSE, a)
  BY <1>1, <1>2, ProposalDue DEF Executable
<1> HIDE DEF r
<1>4. Scheduled(d, seen, r)
  BY <1>2, <1>3, ProposalsApart DEF Scheduled
<1>5. Recordings(d, seen, r) /\ Emptied(seen, r)
  BY <1>2 DEF Recordings, Emptied
<1> QED BY <1>2, <1>4, <1>5 DEF r, plan

-----------------------------------------------------------------------------
(* What a step of a run leaves due.                                        *)

LEMMA OwnIdentityKept ==
  ASSUME NEW d, NEW e, NEW on, Grown(d, e, on), NEW b \in Blocks, b # on,
         NEW id \in OwnIdentity(d, b) \ {None}
  PROVE  id \in OwnIdentity(e, b)
<1>1. CASE id = d.id[b]
  BY <1>1 DEF Grown, OwnIdentity
<1>2. CASE b \in Guardrails /\ id = NamedDefault(d, b)
  <2>1. DefaultingTo(b) # None /\ id = d.default[DefaultingTo(b)]
    BY <1>2 DEF NamedDefault
  <2>2. e.default[DefaultingTo(b)] = id
    BY <2>1, DefaultingToBlock DEF Grown
  <2> QED BY <1>2, <2>1, <2>2 DEF OwnIdentity, NamedDefault
<1> QED BY <1>1, <1>2 DEF OwnIdentity

LEMMA DispensedKept ==
  ASSUME NEW d, NEW e, NEW on, Grown(d, e, on), NEW b \in Blocks, b # on, Dispensed(d, b)
  PROVE  Dispensed(e, b)
BY DEF Grown, Dispensed

(* Nothing but the object of the block just seen to, or a workspace's      *)
(* default guardrail, has come into being.                                 *)
Appeared(d, seen, after, on) ==
  /\ DOMAIN seen \subseteq DOMAIN after
  /\ \A i \in DOMAIN after \ DOMAIN seen :
       \/ on \in Blocks /\ i \in Named[on] /\ i \notin Owned(d)
       \/ i \in Defaults /\ \E w \in Workspaces : d.default[w] = i

LEMMA MayCreateKept ==
  ASSUME NEW d, Sound(d), NEW e, NEW on, Grown(d, e, on), NEW seen, Seen(seen),
         NEW after, Appeared(d, seen, after, on),
         on \in Blocks /\ d.id[on] \in DOMAIN seen => d.id[on] \in Owned(e),
         on \in Blocks \/ Owned(d) \subseteq Owned(e),
         NEW b \in Blocks, b # on, MayCreate(d, seen, b)
  PROVE  MayCreate(e, after, b)
<1>1. ASSUME NEW i \in DOMAIN seen, i \in Owned(d)
      PROVE  i \in Owned(e)
  BY <1>1 DEF Grown
<1>2. CASE b \in Guardrails /\ Dispensed(d, b)
  BY <1>2, DispensedKept DEF MayCreate
<1>3. CASE b \in Keys /\ d.id[b] \in DOMAIN seen
  BY <1>3, Sections DEF Grown, MayCreate, Appeared
<1>4. CASE Vacant(d, seen, b) /\ e.id[b] = d.id[b]
  <2>1. \A i \in DOMAIN after \ DOMAIN seen : i \notin Named[b]
    BY NamedIsOwn DEF Appeared
  <2>2. UnownedNamed(e, after, b) \subseteq UnownedNamed(d, seen, b)
    BY <1>1, <2>1 DEF UnownedNamed
  <2>3. UnownedNamed(e, after, b) = {}
    BY <1>4, <2>2 DEF Vacant
  <2>4. CASE d.id[b] \notin DOMAIN after
    BY <1>4, <2>3, <2>4 DEF Vacant, MayCreate
  <2>5. CASE d.id[b] \in DOMAIN after
    <3>1. d.id[b] \in DOMAIN after \ DOMAIN seen
      BY <1>4, <2>5 DEF Vacant
    <3>2. CASE d.id[b] \notin Owned(d)
      <4>1. d.id[b] = None
        BY <3>2 DEF Owned
      <4>2. on \in Blocks => None \notin Named[on]
        BY Sections
      <4> QED BY <3>1, <4>1, <4>2, Sections DEF Appeared
    <3>3. CASE d.id[b] \in Owned(d)
      <4>1. d.id[b] \in Defaults /\ \E w \in Workspaces : d.default[w] = d.id[b]
        BY <3>1, <3>3 DEF Appeared
      <4>2. d.id[b] # None
        BY <4>1, Sections
      <4>3. b \in Guardrails
        BY <4>1, <4>2, KindOfIds, IdsApart DEF Sound, Kinded, Blocks
      <4>4. Dispensed(d, b)
        BY <4>1, <4>2 DEF Dispensed
      <4> QED BY <4>3, <4>4, DispensedKept DEF MayCreate
    <3> QED BY <3>2, <3>3
  <2> QED BY <2>4, <2>5
<1>5. CASE Vacant(d, seen, b) /\ e.id[b] # d.id[b]
  BY <1>5 DEF Grown, MayCreate, Dispensed
<1> QED BY <1>2, <1>3, <1>4, <1>5 DEF MayCreate

LEMMA ScheduleKept ==
  ASSUME NEW d, Sound(d), NEW e, NEW on, Grown(d, e, on), NEW seen, Seen(seen),
         NEW r, Scheduled(d, seen, r), NEW after, NEW s,
         s.todo \subseteq r.todo, s.disturbed = r.disturbed,
         s.todo # {} => s.at \in {"executing", "recording"},
         s.record # None => s.record.on = on,
         \A a \in s.todo : a.on # on,
         ~r.disturbed => /\ Appeared(d, seen, after, on)
                         /\ on \in Blocks /\ d.id[on] \in DOMAIN seen => d.id[on] \in Owned(e)
                         /\ on \in Blocks \/ Owned(d) \subseteq Owned(e)
  PROVE  Scheduled(e, after, s)
<1>1. ASSUME NEW a \in s.todo
      PROVE  Due(e, after, s.disturbed, a)
  <2>1. Due(d, seen, r.disturbed, a) /\ a.on # on
    BY DEF Scheduled
  <2>2. CASE a.on \notin Blocks
    BY <2>1, <2>2 DEF Due
  <2>3. CASE a.on \in Blocks
    <3>1. a.kind = "update" => a.id \in OwnIdentity(e, a.on) \ {None}
      BY <2>1, <2>3, OwnIdentityKept DEF Due
    <3>2. ~s.disturbed /\ CreatesItsResource(a) => MayCreate(e, after, a.on)
      BY <2>1, <2>3, MayCreateKept DEF Due
    <3> QED BY <2>1, <3>1, <3>2 DEF Due
  <2> QED BY <2>2, <2>3
<1> QED BY <1>1 DEF Scheduled

LEMMA GrownItself ==
  ASSUME NEW d, NEW on
  PROVE  Grown(d, d, on)
BY DEF Grown

(* The runs an action leads to.                                            *)
Skipped(a) == [run EXCEPT !.todo = @ \ {a}, !.skipped = TRUE]
Onward(a, s) == s \in RunState /\ s.todo \subseteq run.todo \ {a} /\ s.disturbed = run.disturbed

LEMMA NextRuns ==
  ASSUME Inv, NEW a \in run.todo
  PROVE  /\ run.todo \in SUBSET Actions /\ a \in Actions /\ a.on \in Placeable
         /\ Onward(a, Done(a)) /\ Done(a).at = run.at /\ Done(a).record = run.record
         /\ Onward(a, Unmade(a)) /\ Unmade(a).at = run.at /\ Unmade(a).record = run.record
         /\ Onward(a, Skipped(a)) /\ Skipped(a).at = run.at /\ Skipped(a).record = run.record
         /\ Onward(a, Failed(a)) /\ Failed(a).at = "verifying"
         /\ Failed(a).record = None /\ Failed(a).todo = {}
         /\ \A record \in Records :
              /\ Onward(a, Recording(a, record)) /\ Recording(a, record).at = "recording"
              /\ Recording(a, record).record = record
<1>1. run \in RunState
  BY DEF Inv
<1>2. run.todo \in SUBSET Actions /\ a \in Actions /\ a.on \in Placeable
  BY <1>1 DEF RunState, Actions
<1>3. Onward(a, Done(a)) /\ Done(a).at = run.at /\ Done(a).record = run.record
  BY <1>1, <1>2 DEF RunState, Done, Onward
<1>4. /\ Onward(a, Failed(a)) /\ Failed(a).at = "verifying"
      /\ Failed(a).record = None /\ Failed(a).todo = {}
  BY <1>1, <1>2 DEF RunState, Failed, At, Onward
<1>5. Onward(a, Unmade(a)) /\ Unmade(a).at = run.at /\ Unmade(a).record = run.record
  BY <1>1, <1>2 DEF RunState, Unmade, Onward
<1>6. Onward(a, Skipped(a)) /\ Skipped(a).at = run.at /\ Skipped(a).record = run.record
  BY <1>1, <1>2 DEF RunState, Skipped, Onward
<1>7. ASSUME NEW record \in Records
      PROVE  /\ Onward(a, Recording(a, record)) /\ Recording(a, record).at = "recording"
             /\ Recording(a, record).record = record
  <2>1. Done(a) \in RunState
    BY <1>3 DEF Onward
  <2> QED BY <1>1, <1>2, <1>3, <2>1 DEF RunState, Recording, At, Onward
<1> QED BY <1>2, <1>3, <1>4, <1>5, <1>6, <1>7

-----------------------------------------------------------------------------
(* What a step may do to OpenRouter's objects.                             *)

Spares == \A i \in DOMAIN remote :
            \/ i \in Touchable
            \/ i \in DOMAIN remote' /\ remote'[i] = remote[i]
            \/ run.at = "deleting" /\ Unassigned(i)
Lacks(b) == IF doc.id[b] \in DOMAIN remote THEN b \in Keys ELSE UnownedNamed(doc, remote, b) = {}
MakesOnce == \A b \in Blocks : \A i \in Named[b] \cap (DOMAIN remote' \ DOMAIN remote) : Lacks(b)
Behaves == Inv' /\ Spares /\ (~run.disturbed => MakesOnce)

(* The binding that an action leaves to be recorded.                       *)
Leaves(a, record) ==
  /\ record \in Records /\ record.on = a.on /\ a.on \in Blocks \ Keys
  /\ record.id \in IdsFor(record.on)
  /\ record.on \in Workspaces => record.default \in {None, DefaultGuardrail(record.id)}

LEMMA RunKept ==
  ASSUME Inv, run.at = "executing", NEW a \in run.todo,
         want' = want, edits' = edits, mishaps' \in 0 .. MaxMishaps,
         Sound(doc'), Grown(doc, doc', a.on),
         a.on \in Blocks /\ doc.id[a.on] \in DOMAIN remote => doc.id[a.on] \in Owned(doc'),
         a.on \in Blocks \/ Owned(doc) \subseteq Owned(doc'),
         Seen(remote'), Appeared(doc, remote, remote', a.on),
         Onward(a, run'),
         \/ run'.at = "executing" /\ run'.record = None
         \/ run'.at = "verifying" /\ run'.record = None /\ run'.todo = {}
         \/ /\ run'.at = "recording" /\ Leaves(a, run'.record)
            /\ ~run.disturbed /\ a.on \in Guardrails =>
                 doc'.id[a.on] = run'.record.id \/ doc'.id[a.on] \notin DOMAIN remote'
  PROVE  Inv'
<1> USE DEF Onward
<1>1. /\ Sound(doc) /\ Seen(remote) /\ Scheduled(doc, remote, run)
      /\ \A b \in run.todo \ {a} : b.on # a.on
  BY DEF Inv, Scheduled
<1>2. run'.at = "recording" => run'.record # None /\ run'.record.on = a.on
  BY NoRecordAssumption DEF Leaves
<1>3. Scheduled(doc', remote', run')
  <2>1. \A b \in run'.todo : b.on # a.on
    BY <1>1
  <2>2. run'.todo # {} => run'.at \in {"executing", "recording"}
    OBVIOUS
  <2>3. run'.record # None => run'.record.on = a.on
    BY <1>2
  <2>4. run'.todo \subseteq run.todo
    OBVIOUS
  <2> QED BY <1>1, <2>1, <2>2, <2>3, <2>4, ScheduleKept
<1>4. Recordings(doc', remote', run')
  BY <1>2 DEF Recordings, Leaves
<1>5. Emptied(remote', run')
  BY DEF Emptied
<1> QED BY <1>3, <1>4, <1>5 DEF Inv

LEMMA WithSeen ==
  ASSUME Seen(remote), NEW id \in Ids, NEW object \in Objects
  PROVE  /\ Seen(With(id, object))
         /\ DOMAIN With(id, object) = DOMAIN remote \cup {id}
         /\ \A i \in DOMAIN remote \ {id} : With(id, object)[i] = remote[i]
BY DEF Seen, With

LEMMA PatchedSeen ==
  ASSUME Seen(remote), NEW id \in DOMAIN remote
  PROVE  /\ Seen(Patched(id)) /\ DOMAIN Patched(id) = DOMAIN remote
         /\ \A i \in DOMAIN remote \ {id} : Patched(id)[i] = remote[i]
<1>1. remote[id] \in Objects
  BY DEF Seen
<1>2. [remote[id] EXCEPT !.matches = TRUE] \in Objects
  BY <1>1 DEF Objects
<1> QED BY <1>2 DEF Seen, Patched

LEMMA AppearedNone ==
  ASSUME NEW d, NEW seen, NEW after, DOMAIN after = DOMAIN seen, NEW on
  PROVE  Appeared(d, seen, after, on)
BY DEF Appeared

(* A write to an object that is the run's to write.                        *)
LEMMA PatchBehaves ==
  ASSUME Inv, run.at = "executing", NEW a \in run.todo,
         NEW after, Seen(after), NEW next, Patch(a, after, next), NEW id \in Bindable,
         DOMAIN remote \subseteq DOMAIN after,
         \A i \in DOMAIN after \ DOMAIN remote :
           i \in Defaults /\ \E w \in Workspaces : doc.default[w] = i,
         \A i \in DOMAIN remote \ {id} : after[i] = remote[i],
         \/ next = Done(a)
         \/ \E record : /\ next = Recording(a, record) /\ Leaves(a, record)
                        /\ a.on \in Guardrails => doc.id[a.on] = None
  PROVE  Behaves
<1>1. /\ Sound(doc) /\ Seen(remote) /\ run.record = None /\ mishaps \in 0 .. MaxMishaps
      /\ None \notin DOMAIN after
  BY Sections DEF Inv, Recordings, Seen
<1>2. doc' = doc /\ want' = want /\ edits' = edits /\ remote' \in {after, remote}
      /\ run' \in {next, Failed(a)}
  BY DEF Patch
<1>3. mishaps' \in 0 .. MaxMishaps
  BY <1>1, ConvergenceBounds DEF Patch, Mishap, Smooth
<1>4. Appeared(doc, remote, remote', a.on) /\ Seen(remote') /\ None \notin DOMAIN remote'
  BY <1>1, <1>2, Sections DEF Appeared, Seen
<1>5. Grown(doc, doc', a.on) /\ Owned(doc) \subseteq Owned(doc')
  BY <1>2, GrownItself
<1>6. a.on \in Blocks /\ doc.id[a.on] \in DOMAIN remote => doc.id[a.on] \in Owned(doc')
  BY <1>1, <1>2, Sections DEF Owned, Seen
<1>7. ASSUME run' \in {Done(a), Failed(a)}
      PROVE  Inv'
  <2>1. /\ Onward(a, run') /\ run'.record = None
        /\ \/ run'.at = "executing"
           \/ run'.at = "verifying" /\ run'.todo = {}
    BY <1>1, <1>7, NextRuns
  <2> QED BY <1>1, <1>2, <1>3, <1>4, <1>5, <1>6, <2>1, RunKept
<1>8. ASSUME NEW record, run' = Recording(a, record), Leaves(a, record),
             a.on \in Guardrails => doc.id[a.on] = None
      PROVE  Inv'
  <2>2. /\ Onward(a, run') /\ run'.record = record /\ run'.at = "recording"
    BY <1>8, NextRuns DEF Leaves
  <2> QED BY <1>1, <1>2, <1>3, <1>4, <1>5, <1>6, <1>8, <2>2, RunKept
<1>9. Inv'
  BY <1>2, <1>7, <1>8
<1>10. Spares
  BY <1>2 DEF Spares, Touchable
<1>11. MakesOnce
  BY <1>2, NamedIsOwn DEF MakesOnce
<1> QED BY <1>9, <1>10, <1>11 DEF Behaves

LEMMA GoneBehaves ==
  ASSUME Inv, run.at = "executing", NEW a \in run.todo,
         run' \in {Failed(a), Unmade(a), Done(a), Skipped(a)},
         UNCHANGED <<doc, remote, want, mishaps, edits>>
  PROVE  Behaves
<1>1. /\ Sound(doc) /\ Seen(remote) /\ run.record = None /\ mishaps' \in 0 .. MaxMishaps
  BY DEF Inv, Recordings
<1>2. /\ Onward(a, run') /\ run'.record = None
      /\ \/ run'.at = "executing"
         \/ run'.at = "verifying" /\ run'.todo = {}
  BY <1>1, NextRuns
<1>3. Grown(doc, doc', a.on) /\ Owned(doc) \subseteq Owned(doc')
      /\ Appeared(doc, remote, remote', a.on)
  BY GrownItself, AppearedNone
<1>4. a.on \in Blocks /\ doc.id[a.on] \in DOMAIN remote => doc.id[a.on] \in Owned(doc')
  BY Sections DEF Owned, Seen, Inv
<1>5. Inv'
  BY <1>1, <1>2, <1>3, <1>4, RunKept
<1> QED BY <1>5 DEF Behaves, Spares, MakesOnce

(* A create, for a block that lacks its object.                            *)
LEMMA LacksObject ==
  ASSUME Inv, NEW a \in run.todo, a.on \in Blocks, CreatesItsResource(a), ~run.disturbed,
         a.on \in Guardrails => CreateOrdinary(a.on)
  PROVE  Lacks(a.on)
<1>1. MayCreate(doc, remote, a.on)
  BY DEF Inv, Scheduled, Due
<1>2. a.on \in Guardrails => ~Dispensed(doc, a.on)
  BY NamedDefaultTyped DEF Dispensed, CreateOrdinary, WorkspaceDefault, Bound
<1> QED BY <1>1, <1>2 DEF MayCreate, Vacant, Lacks

LEMMA FreshIsNew ==
  ASSUME NEW b \in Blocks, NEW i \in Fresh(b)
  PROVE  /\ i \in Named[b] /\ i \in Ids /\ i \in IdsFor(b) /\ i \notin DOMAIN remote
         /\ i \notin Owned(doc) /\ i \notin Defaults
         /\ \A c \in Blocks : doc.id[c] # i
<1>1. i \in Named[b] /\ i \notin DOMAIN remote /\ i \notin Owned(doc)
  BY DEF Fresh, Mentioned
<1>2. i # None
  BY <1>1, Sections
<1> QED BY <1>1, <1>2, NamedIsOwn DEF Owned

LEMMA PostBehaves ==
  ASSUME Inv, run.at = "executing", NEW a \in run.todo, a.on \in Blocks,
         CreatesItsResource(a), a.on \in Guardrails => CreateOrdinary(a.on),
         NEW i \in Fresh(a.on), NEW object \in Objects,
         NEW record, Leaves(a, record), Post(a, i, object, record)
  PROVE  Behaves
<1>1. /\ Sound(doc) /\ Seen(remote) /\ run.record = None /\ mishaps \in 0 .. MaxMishaps
  BY DEF Inv, Recordings
<1>2. /\ i \in Named[a.on] /\ i \in Ids /\ i \notin DOMAIN remote /\ i \notin Owned(doc)
      /\ \A c \in Blocks : doc.id[c] # i
  BY FreshIsNew
<1>3. /\ Seen(With(i, object)) /\ DOMAIN With(i, object) = DOMAIN remote \cup {i}
      /\ \A j \in DOMAIN remote : With(i, object)[j] = remote[j]
  BY <1>1, <1>2, WithSeen
<1>4. doc' = doc /\ want' = want /\ edits' = edits /\ remote' \in {With(i, object), remote}
      /\ run' \in {Recording(a, record), Failed(a)}
  BY DEF Post
<1>5. mishaps' \in 0 .. MaxMishaps
  BY <1>1, ConvergenceBounds DEF Post, Mishap, Smooth
<1>6. Seen(remote') /\ Appeared(doc, remote, remote', a.on)
  BY <1>1, <1>2, <1>3, <1>4 DEF Appeared
<1>7. Grown(doc, doc', a.on) /\ Owned(doc) \subseteq Owned(doc')
  BY <1>4, GrownItself
<1>8. doc.id[a.on] \in DOMAIN remote => doc.id[a.on] \in Owned(doc')
  BY <1>1, <1>4, Sections DEF Owned, Seen
<1>9. ASSUME run' = Failed(a)
      PROVE  Inv'
  <2>1. /\ Onward(a, run') /\ run'.record = None
        /\ run'.at = "verifying" /\ run'.todo = {}
    BY <1>9, NextRuns
  <2> QED BY <1>1, <1>4, <1>5, <1>6, <1>7, <1>8, <2>1, RunKept
<1>10. ASSUME run' = Recording(a, record)
       PROVE  Inv'
  <2>1. /\ Onward(a, run') /\ run'.record = record /\ run'.at = "recording"
    BY <1>10, NextRuns DEF Leaves
  <2>2. ASSUME ~run.disturbed, a.on \in Guardrails
        PROVE  doc'.id[a.on] \notin DOMAIN remote'
    <3>1. Lacks(a.on)
      BY <2>2, LacksObject
    <3>2. doc.id[a.on] \notin DOMAIN remote
      BY <2>2, <3>1, Sections DEF Lacks
    <3> QED BY <1>2, <1>3, <1>4, <3>2
  <2> QED BY <1>1, <1>4, <1>5, <1>6, <1>7, <1>8, <2>1, <2>2, RunKept
<1>11. Inv'
  BY <1>4, <1>9, <1>10
<1>12. Spares
  BY <1>3, <1>4 DEF Spares
<1>13. ASSUME ~run.disturbed
       PROVE  MakesOnce
  <2>1. Lacks(a.on)
    BY <1>13, LacksObject
  <2>2. DOMAIN remote' \ DOMAIN remote \subseteq {i}
    BY <1>3, <1>4
  <2>3. \A b \in Blocks : i \in Named[b] => b = a.on
    BY <1>2, NamedIsOwn
  <2> QED BY <2>1, <2>2, <2>3 DEF MakesOnce
<1> QED BY <1>11, <1>12, <1>13 DEF Behaves


-----------------------------------------------------------------------------
(* Each action of a plan, in its turn.                                     *)

LEMMA InTurn ==
  ASSUME Inv, NEW a \in run.todo
  PROVE  /\ a \in Actions /\ a.on \in Placeable /\ Due(doc, remote, run.disturbed, a)
         /\ doc \in Documents /\ Sound(doc) /\ Seen(remote) /\ Kinded(doc)
BY NextRuns DEF Inv, Scheduled, Sound

LEMMA OwnIsBindable ==
  ASSUME Inv, NEW b \in Blocks, NEW id \in OwnIdentity(doc, b) \ {None}
  PROVE  id \in Bindable
<1>1. CASE id = doc.id[b]
  BY <1>1 DEF Bindable, Owned
<1>2. CASE id = NamedDefault(doc, b)
  BY <1>2, NamedDefaultTyped DEF Bindable, Inv, Sound
<1> QED BY <1>1, <1>2 DEF OwnIdentity

LEMMA PlacedTyped ==
  ASSUME Inv, NEW b \in Blocks
  PROVE  PlacedIn(doc, b) \in WorkspaceIds \cup {None}
<1>1. ASSUME Home(b) # None
      PROVE  doc.id[Home(b)] \in WorkspaceIds \cup {None}
  BY <1>1, HomeIsWorkspace, KindOfIds DEF Inv, Sound, Kinded, Blocks
<1> QED BY <1>1 DEF PlacedIn

LEMMA UpdateBehaves ==
  ASSUME Inv, run.at = "executing", NEW a \in run.todo, a.on \in Blocks, a.kind = "update",
         UpdateWorkspace(a) \/ UpdateKey(a)
  PROVE  Behaves
<1>1. a.id \in Bindable /\ Seen(remote)
  BY InTurn, OwnIsBindable DEF Due
<1>2. CASE a.id \in DOMAIN remote
  <2>1. Patch(a, Patched(a.id), Done(a))
    BY <1>2 DEF UpdateWorkspace, UpdateKey
  <2>2. /\ Seen(Patched(a.id)) /\ DOMAIN Patched(a.id) = DOMAIN remote
        /\ \A i \in DOMAIN remote \ {a.id} : Patched(a.id)[i] = remote[i]
    BY <1>1, <1>2, PatchedSeen
  <2> QED BY <1>1, <2>1, <2>2, PatchBehaves
<1>3. CASE a.id \notin DOMAIN remote
  BY <1>3, GoneBehaves DEF UpdateWorkspace, UpdateKey, Gone
<1> QED BY <1>2, <1>3

LEMMA CreateWorkspaceBehaves ==
  ASSUME Inv, run.at = "executing", NEW a \in run.todo, a.on \in Workspaces,
         a.kind = "create", CreateWorkspace(a.on, a)
  PROVE  Behaves
<1> PICK i \in Fresh(a.on) : \E default \in {DefaultGuardrail(i), None} :
         Post(a, i, Object(None, None, None),
              [on |-> a.on, id |-> i, default |-> default, digest |-> None])
  BY DEF CreateWorkspace
<1> PICK default \in {DefaultGuardrail(i), None} :
         Post(a, i, Object(None, None, None),
              [on |-> a.on, id |-> i, default |-> default, digest |-> None])
  OBVIOUS
<1> DEFINE record == [on |-> a.on, id |-> i, default |-> default, digest |-> None]
<1>1. a.on \in Blocks /\ a.on \notin Keys /\ a.on \notin Guardrails
  BY Sections DEF Blocks
<1>2. i \in Ids /\ i \in IdsFor(a.on) /\ i \in WorkspaceIds
  BY <1>1, FreshIsNew, KindOfIds
<1>3. default \in Defaults \cup {None}
  BY <1>2, KindOfIds
<1>4. Leaves(a, record)
  BY <1>1, <1>2, <1>3 DEF Leaves, Records
<1>5. Object(None, None, None) \in Objects
  BY DEF Object, Objects
<1>6. CreatesItsResource(a)
  BY DEF CreatesItsResource
<1> HIDE DEF record
<1> QED BY <1>1, <1>4, <1>5, <1>6, PostBehaves DEF record

LEMMA CreateDestinationBehaves ==
  ASSUME Inv, run.at = "executing", NEW a \in run.todo, a.on \in Destinations,
         a.kind = "create", CreateDestination(a.on, a)
  PROVE  Behaves
<1> DEFINE record(i) == [on |-> a.on, id |-> i, default |-> None, digest |-> want[a.on]]
           object == Object(PlacedIn(doc, a.on), None, want[a.on])
<1> PICK i \in Fresh(a.on) : Post(a, i, object, record(i))
  BY DEF CreateDestination
<1>1. a.on \in Blocks /\ a.on \notin Keys /\ a.on \notin Guardrails /\ a.on \notin Workspaces
  BY Sections DEF Blocks
<1>2. i \in Ids /\ i \in IdsFor(a.on)
  BY <1>1, FreshIsNew
<1>3. want[a.on] \in Configs
  BY DEF Inv
<1>4. Leaves(a, record(i))
  BY <1>1, <1>2, <1>3 DEF Leaves, Records
<1>5. object \in Objects
  BY <1>1, <1>3, PlacedTyped DEF Object, Objects
<1>6. CreatesItsResource(a)
  BY DEF CreatesItsResource
<1> HIDE DEF record, object
<1> QED BY <1>1, <1>4, <1>5, <1>6, PostBehaves

LEMMA UpdateDestinationBehaves ==
  ASSUME Inv, run.at = "executing", NEW a \in run.todo, a.on \in Destinations,
         a.kind = "update", UpdateDestination(a.on, a)
  PROVE  Behaves
<1>1. a.on \in Blocks /\ a.on \notin Keys /\ a.on \notin Guardrails /\ a.on \notin Workspaces
  BY Sections DEF Blocks
<1>2. a.id \in Bindable /\ Seen(remote) /\ a.id = doc.id[a.on] /\ a.id # None
  BY <1>1, InTurn, OwnIsBindable DEF Due, OwnIdentity
<1>3. CASE a.id \notin DOMAIN remote
  BY <1>3, GoneBehaves DEF UpdateDestination, Gone
<1>4. CASE a.id \in DOMAIN remote
  <2> DEFINE after == [remote EXCEPT ![a.id].matches = TRUE,
                                     ![a.id].config = IF a.config THEN want[a.on] ELSE @]
             record == [on |-> a.on, id |-> a.id, default |-> None, digest |-> want[a.on]]
             next == IF a.config THEN Recording(a, record) ELSE Done(a)
  <2>1. Patch(a, after, next)
    BY <1>4 DEF UpdateDestination
  <2>2. want[a.on] \in Configs /\ remote[a.id] \in Objects
    BY <1>2, <1>4 DEF Inv, Seen
  <2>3. [remote[a.id] EXCEPT !.matches = TRUE,
                             !.config = IF a.config THEN want[a.on] ELSE @] \in Objects
    BY <2>2 DEF Objects
  <2>4. after = [remote EXCEPT ![a.id] = [remote[a.id] EXCEPT !.matches = TRUE,
                                            !.config = IF a.config THEN want[a.on] ELSE @]]
    BY <1>4, <1>2, <2>2 DEF Seen, Objects
  <2>5. /\ Seen(after) /\ DOMAIN after = DOMAIN remote
        /\ \A i \in DOMAIN remote \ {a.id} : after[i] = remote[i]
    BY <1>2, <1>4, <2>3, <2>4 DEF Seen
  <2>6. a.id \in Ids /\ a.id \in IdsFor(a.on)
    BY <1>1, <1>2, InTurn, KindOfIds DEF Kinded
  <2>7. Leaves(a, record)
    BY <1>1, <2>2, <2>6 DEF Leaves, Records
  <2> HIDE DEF after, record
  <2> QED BY <1>1, <1>2, <2>1, <2>5, <2>7, PatchBehaves
<1> QED BY <1>3, <1>4

LEMMA UpdateGuardrailBehaves ==
  ASSUME Inv, run.at = "executing", NEW a \in run.todo, a.on \in Guardrails,
         a.kind = "update", UpdateGuardrail(a.on, a)
  PROVE  Behaves
<1>1. a.on \in Blocks /\ a.on \notin Keys /\ a.on \notin Workspaces
  BY Sections DEF Blocks
<1>2. a.id \in Bindable /\ Seen(remote) /\ a.id \in OwnIdentity(doc, a.on) \ {None}
  BY <1>1, InTurn, OwnIsBindable DEF Due
<1>3. CASE a.id \notin DOMAIN remote
  BY <1>3, GoneBehaves DEF UpdateGuardrail, Gone
<1>4. CASE a.id \in DOMAIN remote
  <2> DEFINE record == DefaultRecord(a.on, a.id)
             next == IF WorkspaceDefault(a.on) = a.id /\ ~Bound(doc, a.on)
                       THEN Recording(a, record) ELSE Done(a)
  <2>1. Patch(a, Patched(a.id), next)
    BY <1>4 DEF UpdateGuardrail
  <2>2. /\ Seen(Patched(a.id)) /\ DOMAIN Patched(a.id) = DOMAIN remote
        /\ \A i \in DOMAIN remote \ {a.id} : Patched(a.id)[i] = remote[i]
    BY <1>2, <1>4, PatchedSeen
  <2>3. a.id \in GuardrailIds /\ a.id \in Ids /\ a.id \in IdsFor(a.on)
    <3>1. doc.id[a.on] \in GuardrailIds \cup {None}
      BY <1>1, InTurn, KindOfIds DEF Kinded
    <3>2. NamedDefault(doc, a.on) \in GuardrailIds \cup {None}
      BY InTurn, NamedDefaultTyped, KindOfIds
    <3> QED BY <1>2, <3>1, <3>2, KindOfIds DEF OwnIdentity
  <2>4. Leaves(a, record)
    BY <1>1, <2>3 DEF Leaves, Records, DefaultRecord
  <2>5. ~Bound(doc, a.on) => doc.id[a.on] = None
    BY DEF Bound
  <2> HIDE DEF record
  <2> QED BY <1>1, <1>2, <2>1, <2>2, <2>4, <2>5, PatchBehaves
<1> QED BY <1>3, <1>4

LEMMA MaterializeBehaves ==
  ASSUME Inv, run.at = "executing", NEW a \in run.todo, a.on \in Guardrails,
         a.kind = "create", WorkspaceDefault(a.on) # None,
         Materialize(a.on, a, WorkspaceDefault(a.on))
  PROVE  Behaves
<1> DEFINE g == a.on
           id == WorkspaceDefault(g)
           home == CHOOSE i \in WorkspaceIds : DefaultGuardrail(i) = id
           after == With(id, Object(home, None, None))
           record == DefaultRecord(g, id)
           next == IF Bound(doc, g) THEN Done(a) ELSE Recording(a, record)
<1>1. g \in Blocks /\ g \notin Keys /\ g \notin Workspaces
  BY Sections DEF Blocks
<1>2. /\ id \in OwnIdentity(doc, g) \ {None}
      /\ \E w \in Workspaces : doc.default[w] = id
  <2>1. CASE Bound(doc, g)
    BY <2>1 DEF WorkspaceDefault, OwnIdentity, Bound
  <2>2. CASE ~Bound(doc, g)
    <3>1. id = NamedDefault(doc, g)
      BY <2>2 DEF WorkspaceDefault
    <3> QED BY <3>1, InTurn, NamedDefaultTyped DEF OwnIdentity
  <2> QED BY <2>1, <2>2
<1>3. id \in Bindable /\ id \in Defaults /\ Seen(remote)
  BY <1>1, <1>2, OwnIsBindable, InTurn DEF Documents
<1>4. id \in GuardrailIds /\ id \in Ids /\ id \in IdsFor(g)
  BY <1>3, KindOfIds
<1>5. home \in WorkspaceIds
  BY <1>3 DEF Defaults
<1>6. CASE home \notin DOMAIN remote
  <2>1. Gone(a)
    BY <1>6 DEF Materialize
  <2> QED BY <2>1, GoneBehaves DEF Gone
<1>7. CASE home \in DOMAIN remote
  <2>1. Patch(a, after, next)
    BY <1>7 DEF Materialize
  <2>2. Object(home, None, None) \in Objects
    BY <1>5 DEF Object, Objects
  <2>3. /\ Seen(after) /\ DOMAIN after = DOMAIN remote \cup {id}
        /\ \A i \in DOMAIN remote \ {id} : after[i] = remote[i]
    BY <1>3, <1>4, <2>2, WithSeen
  <2>4. Leaves(a, record)
    BY <1>1, <1>4 DEF Leaves, Records, DefaultRecord
  <2>5. ~Bound(doc, g) => doc.id[g] = None
    BY DEF Bound
  <2> HIDE DEF after, record, home, id
  <2> QED BY <1>2, <1>3, <2>1, <2>3, <2>4, <2>5, PatchBehaves
<1> QED BY <1>6, <1>7

LEMMA CreateGuardrailBehaves ==
  ASSUME Inv, run.at = "executing", NEW a \in run.todo, a.on \in Guardrails,
         a.kind = "create", CreateGuardrail(a.on, a)
  PROVE  Behaves
<1>1. CASE WorkspaceDefault(a.on) # None /\ Materialize(a.on, a, WorkspaceDefault(a.on))
  BY <1>1, MaterializeBehaves
<1>2. CASE run' = Unmade(a) /\ UNCHANGED <<doc, remote, want, mishaps, edits>>
  BY <1>2, GoneBehaves
<1>3. ASSUME CreateOrdinary(a.on), NEW i \in Fresh(a.on),
             Post(a, i, Object(PlacedIn(doc, a.on), None, None), DefaultRecord(a.on, i))
      PROVE  Behaves
  <2>1. a.on \in Blocks /\ a.on \notin Keys /\ a.on \notin Workspaces
    BY Sections DEF Blocks
  <2>2. i \in Ids /\ i \in IdsFor(a.on)
    BY <2>1, FreshIsNew
  <2>3. Leaves(a, DefaultRecord(a.on, i))
    BY <2>1, <2>2 DEF Leaves, Records, DefaultRecord
  <2>4. Object(PlacedIn(doc, a.on), None, None) \in Objects
    BY <2>1, PlacedTyped DEF Object, Objects
  <2>5. CreatesItsResource(a)
    BY DEF CreatesItsResource
  <2> QED BY <1>3, <2>1, <2>3, <2>4, <2>5, PostBehaves
<1> QED BY <1>1, <1>2, <1>3 DEF CreateGuardrail

(* Issuance: the key is made, and the document says so or what became of   *)
(* it; or nothing is.                                                      *)
Underway(k) == IF RailOf[k] = None THEN None ELSE doc.id[RailOf[k]]
Made(k, i) == With(i, Object(PlacedIn(doc, k), Underway(k), None))

LEMMA IssueShape ==
  ASSUME NEW k, NEW a, Issue(k, a)
  PROVE  \/ Gone(a)
         \/ \E i \in Fresh(k) :
              /\ doc.pending = None /\ RailConverged(k)
              /\ want' = want /\ edits' = edits
              /\ Smooth \/ Mishap
              /\ remote' \in {Made(k, i), remote}
              /\ \/ remote' = Made(k, i) /\ doc' = Promote(doc, k, i)
                 \/ \E phase \in {"unknown", "dead", "delivered"} : doc' = Standing(doc, k, i, phase)
                 \/ doc' = doc
              /\ \/ run' = [Done(a) EXCEPT !.issued = @ \cup {k}]
                 \/ run' = Failed(a)
BY DEF Issue, Standing, Made, Underway

LEMMA UnderwayTyped ==
  ASSUME Inv, NEW k \in Keys
  PROVE  Underway(k) \in GuardrailIds \cup {None}
<1>1. RailOf[k] # None => RailOf[k] \in Guardrails
  BY SectionsAssumption
<1> QED BY <1>1, KindOfIds DEF Underway, Inv, Sound, Kinded, Blocks

LEMMA IssueBehaves ==
  ASSUME Inv, run.at = "executing", NEW a \in run.todo, a.on \in Keys,
         CreatesItsResource(a), Issue(a.on, a)
  PROVE  Behaves
<1>1. CASE Gone(a)
  BY <1>1, GoneBehaves DEF Gone
<1>2. CASE ~Gone(a)
  <2> DEFINE k == a.on
             issued == [Done(a) EXCEPT !.issued = @ \cup {k}]
  <2> PICK i \in Fresh(k) :
              /\ doc.pending = None /\ RailConverged(k)
              /\ want' = want /\ edits' = edits
              /\ Smooth \/ Mishap
              /\ remote' \in {Made(k, i), remote}
              /\ \/ remote' = Made(k, i) /\ doc' = Promote(doc, k, i)
                 \/ \E phase \in {"unknown", "dead", "delivered"} : doc' = Standing(doc, k, i, phase)
                 \/ doc' = doc
              /\ \/ run' = issued
                 \/ run' = Failed(a)
    BY <1>2, IssueShape
  <2>1. /\ k \in Blocks /\ k \notin Guardrails /\ Sound(doc) /\ Seen(remote)
        /\ run.record = None /\ mishaps \in 0 .. MaxMishaps
    BY Sections DEF Blocks, Inv, Recordings
  <2>2. /\ i \in Named[k] /\ i \in Ids /\ i \in KeyIds /\ i \notin DOMAIN remote
        /\ i \notin Owned(doc) /\ \A c \in Blocks : doc.id[c] # i
    BY <2>1, FreshIsNew, KindOfIds
  <2>3. Object(PlacedIn(doc, k), Underway(k), None) \in Objects
    BY <2>1, PlacedTyped, UnderwayTyped DEF Object, Objects
  <2>4. /\ Seen(Made(k, i)) /\ DOMAIN Made(k, i) = DOMAIN remote \cup {i}
        /\ \A j \in DOMAIN remote : Made(k, i)[j] = remote[j]
    BY <2>1, <2>2, <2>3, WithSeen DEF Made
  <2>5. mishaps' \in 0 .. MaxMishaps
    BY <2>1, ConvergenceBounds DEF Mishap, Smooth
  <2>6. Seen(remote') /\ Appeared(doc, remote, remote', k)
    BY <2>1, <2>2, <2>4 DEF Appeared
  <2>7. /\ Sound(doc') /\ Owned(doc) \subseteq Owned(doc') /\ doc'.default = doc.default
        /\ \A b \in Blocks \ {k} : doc'.id[b] = doc.id[b]
    <3>1. CASE doc' = Promote(doc, k, i)
      BY <2>1, <2>2, <3>1, PromoteSound
    <3>2. ASSUME NEW phase \in {"unknown", "dead", "delivered"}, doc' = Standing(doc, k, i, phase)
          PROVE  /\ Sound(doc') /\ Owned(doc) \subseteq Owned(doc') /\ doc'.default = doc.default
                 /\ \A b \in Blocks \ {k} : doc'.id[b] = doc.id[b]
      BY <2>1, <2>2, <3>2, StandingSound
    <3>3. CASE doc' = doc
      BY <2>1, <3>3
    <3> QED BY <3>1, <3>2, <3>3
  <2>8. Grown(doc, doc', k)
    BY <2>7 DEF Grown
  <2>9. doc.id[k] \in DOMAIN remote => doc.id[k] \in Owned(doc')
    BY <2>1, <2>7, Sections DEF Owned, Seen
  <2>10. Onward(a, issued) /\ issued.at = "executing" /\ issued.record = None
    <3>1. Onward(a, Done(a)) /\ Done(a).at = "executing" /\ Done(a).record = None
      BY <2>1, NextRuns
    <3> QED BY <3>1 DEF Onward, RunState
  <2>11. Onward(a, Failed(a)) /\ Failed(a).at = "verifying" /\ Failed(a).record = None
         /\ Failed(a).todo = {}
    BY NextRuns
  <2> HIDE DEF issued
  <2>12. Inv'
    BY <2>1, <2>5, <2>6, <2>7, <2>8, <2>9, <2>10, <2>11, RunKept
  <2>13. Spares
    BY <2>4 DEF Spares
  <2>14. ASSUME ~run.disturbed
         PROVE  MakesOnce
    <3>1. Lacks(k)
      BY <2>1, <2>14, LacksObject
    <3>2. DOMAIN remote' \ DOMAIN remote \subseteq {i}
      BY <2>4
    <3>3. \A b \in Blocks : i \in Named[b] => b = k
      BY <2>1, <2>2, NamedIsOwn
    <3> QED BY <3>1, <3>2, <3>3 DEF MakesOnce
  <2> QED BY <2>12, <2>13, <2>14 DEF Behaves
<1> QED BY <1>1, <1>2

LEMMA AssignedBlock ==
  ASSUME Inv, NEW a \in run.todo, a.kind \in {"assign", "unassign"}
  PROVE  /\ BlockOf(a.on) \in Keys /\ BlockOf(a.on) \in Blocks
         /\ doc.id[BlockOf(a.on)] \in DOMAIN remote => doc.id[BlockOf(a.on)] \in Bindable
         /\ a.kind = "assign" => RailOf[BlockOf(a.on)] \in Guardrails
<1>1. a.on \notin Blocks /\ a.on \in Placeable /\ Seen(remote)
  BY InTurn DEF Due
<1>2. PICK k \in Keys : a.on = Assignment(k)
  BY <1>1 DEF Placeable
<1>3. BlockOf(a.on) = k /\ k \in Blocks
  BY <1>2, BlockOfAssignment DEF Blocks
<1>4. a.kind = "assign" => RailOf[k] \in Guardrails
  <2>1. a.kind = "assign" => RailOf[BlockOf(a.on)] # None
    BY InTurn DEF Due
  <2> QED BY <1>3, <2>1, SectionsAssumption
<1>5. doc.id[k] \in DOMAIN remote => doc.id[k] \in Bindable
  BY <1>1, <1>3, Sections DEF Bindable, Owned, Seen
<1> QED BY <1>3, <1>4, <1>5

LEMMA UnderSeen ==
  ASSUME Seen(remote), NEW i \in DOMAIN remote, NEW under \in GuardrailIds \cup {None}
  PROVE  LET after == [remote EXCEPT ![i].under = under]
         IN  /\ Seen(after) /\ DOMAIN after = DOMAIN remote
             /\ \A j \in DOMAIN remote \ {i} : after[j] = remote[j]
<1>1. remote[i] \in Objects
  BY DEF Seen
<1>2. [remote[i] EXCEPT !.under = under] \in Objects
  BY <1>1 DEF Objects
<1> QED BY <1>2 DEF Seen

LEMMA AssignBehaves ==
  ASSUME Inv, run.at = "executing", NEW a \in run.todo, a.kind = "assign",
         Assign(BlockOf(a.on), a)
  PROVE  Behaves
<1> DEFINE k == BlockOf(a.on)
           hash == doc.id[k]
           rail == doc.id[RailOf[k]]
           after == [remote EXCEPT ![hash].under = rail]
<1>1. CASE /\ run' \in {Done(a), Skipped(a)}
           /\ UNCHANGED <<doc, remote, want, mishaps, edits>>
  BY <1>1, GoneBehaves
<1>2. CASE Gone(a)
  BY <1>2, GoneBehaves DEF Gone
<1>3. CASE rail # None /\ {rail, hash} \subseteq DOMAIN remote /\ Patch(a, after, Done(a))
  <2>1. hash \in DOMAIN remote /\ hash \in Bindable /\ RailOf[k] \in Guardrails
    BY <1>3, AssignedBlock
  <2>2. rail \in GuardrailIds \cup {None}
    BY <2>1, InTurn, KindOfIds DEF Kinded, Blocks
  <2>3. /\ Seen(after) /\ DOMAIN after = DOMAIN remote
        /\ \A j \in DOMAIN remote \ {hash} : after[j] = remote[j]
    BY <2>1, <2>2, InTurn, UnderSeen
  <2> HIDE DEF after, hash
  <2> QED BY <1>3, <2>1, <2>3, PatchBehaves
<1> QED BY <1>1, <1>2, <1>3 DEF Assign, Skipped

LEMMA UnassignBehaves ==
  ASSUME Inv, run.at = "executing", NEW a \in run.todo, a.kind = "unassign",
         Unassign(BlockOf(a.on), a)
  PROVE  Behaves
<1> DEFINE hash == doc.id[BlockOf(a.on)]
           after == [remote EXCEPT ![hash].under = None]
<1>1. CASE Gone(a)
  BY <1>1, GoneBehaves DEF Gone
<1>2. CASE hash \in DOMAIN remote /\ Patch(a, after, Done(a))
  <2>1. hash \in Bindable
    BY <1>2, AssignedBlock
  <2>2. /\ Seen(after) /\ DOMAIN after = DOMAIN remote
        /\ \A j \in DOMAIN remote \ {hash} : after[j] = remote[j]
    BY <1>2, InTurn, UnderSeen
  <2> HIDE DEF after, hash
  <2> QED BY <1>2, <2>1, <2>2, PatchBehaves
<1> QED BY <1>1, <1>2 DEF Unassign

LEMMA ExecuteBehaves ==
  ASSUME Inv, NEW a \in run.todo, Execute(a)
  PROVE  Behaves
<1>1. run.at = "executing"
  BY DEF Execute, Turn
<1>2. /\ \A b \in Workspaces : b \in Blocks
      /\ \A b \in Keys : b \in Blocks
  BY DEF Blocks
<1>3. CASE a.on \in Workspaces /\ a.kind = "create" /\ CreateWorkspace(a.on, a)
  BY <1>1, <1>3, CreateWorkspaceBehaves
<1>4. CASE a.on \in Workspaces /\ a.kind = "update" /\ UpdateWorkspace(a)
  BY <1>1, <1>2, <1>4, UpdateBehaves
<1>5. CASE a.on \in Destinations /\ a.kind = "create" /\ CreateDestination(a.on, a)
  BY <1>1, <1>5, CreateDestinationBehaves
<1>6. CASE a.on \in Destinations /\ a.kind = "update" /\ UpdateDestination(a.on, a)
  BY <1>1, <1>6, UpdateDestinationBehaves
<1>7. CASE a.on \in Guardrails /\ a.kind = "create" /\ CreateGuardrail(a.on, a)
  BY <1>1, <1>7, CreateGuardrailBehaves
<1>8. CASE a.on \in Guardrails /\ a.kind = "update" /\ UpdateGuardrail(a.on, a)
  BY <1>1, <1>8, UpdateGuardrailBehaves
<1>9. CASE a.on \in Keys /\ CreatesItsResource(a) /\ Issue(a.on, a)
  BY <1>1, <1>9, IssueBehaves
<1>10. CASE a.on \in Keys /\ a.kind = "update" /\ UpdateKey(a)
  BY <1>1, <1>2, <1>10, UpdateBehaves
<1>11. CASE a.kind = "assign" /\ Assign(BlockOf(a.on), a)
  BY <1>1, <1>11, AssignBehaves
<1>12. CASE a.kind = "unassign" /\ Unassign(BlockOf(a.on), a)
  BY <1>1, <1>12, UnassignBehaves
<1> QED BY <1>3, <1>4, <1>5, <1>6, <1>7, <1>8, <1>9, <1>10, <1>11, <1>12 DEF Execute

LEMMA HoldBackBehaves ==
  ASSUME Inv, HoldBack
  PROVE  Behaves
<1> PICK a \in run.todo : /\ run.at = "executing" /\ run' = Unmade(a)
                          /\ UNCHANGED <<doc, remote, want, mishaps, edits>>
  BY DEF HoldBack
<1> QED BY GoneBehaves

-----------------------------------------------------------------------------
(* Recording, verifying and ending.                                        *)

LEMMA StillBehaves ==
  ASSUME Inv', remote' = remote
  PROVE  Behaves
BY DEF Behaves, Spares, MakesOnce

LEMMA RecordOfRun ==
  ASSUME Inv, run.at \in {"recording", "deleting"}
  PROVE  /\ run.record \in Records /\ run.record.on \in Blocks /\ run.record.on \notin Keys
         /\ run.record.id \in IdsFor(run.record.on) /\ run.record.digest \in Configs \cup {None}
         /\ run.record.on \in Workspaces =>
              run.record.default \in {None, DefaultGuardrail(run.record.id)}
<1>1. run.record # None /\ run.record \in Records
  BY DEF Inv, Recordings, RunState
<1> QED BY <1>1 DEF Inv, Recordings, Records

LEMMA RecordedSound ==
  ASSUME Inv, run.at = "recording", Recordable(run.record)
  PROVE  LET r == run.record
             e == Recorded(r)
         IN  /\ Sound(e) /\ Grown(doc, e, r.on) /\ e.id[r.on] = r.id
             /\ ~run.disturbed /\ doc.id[r.on] \in DOMAIN remote => doc.id[r.on] = r.id
<1> DEFINE r == run.record
           e == Recorded(r)
<1>1. /\ Sound(doc) /\ Seen(remote) /\ None \notin DOMAIN remote
      /\ r \in Records /\ r.on \in Blocks /\ r.on \notin Keys /\ r.id \in IdsFor(r.on)
      /\ r.digest \in Configs \cup {None}
      /\ r.on \in Workspaces => r.default \in {None, DefaultGuardrail(r.id)}
  BY RecordOfRun, Sections DEF Inv, Seen
<1>2. CASE r.on \in Workspaces
  <2>1. /\ e = BindDefault(BindWorkspace(doc, r.on, r.id, r.default), r.on, r.default)
        /\ CanBind(doc, r.on, r.id) /\ CanBindDefault(doc, r.on, r.default)
    BY <1>2, Sections DEF Recorded, Recordable
  <2>2. r.id \in WorkspaceIds
    BY <1>1, <1>2, KindOfIds
  <2> HIDE DEF e, r
  <2>3. Sound(e) /\ Grown(doc, e, r.on) /\ e.id[r.on] = r.id /\ doc.id[r.on] \in {None, r.id}
    BY <1>1, <1>2, <2>1, <2>2, WorkspaceRecordSound
  <2> QED BY <1>1, <2>3 DEF e, r
<1>3. CASE r.on \in Destinations
  <2>1. /\ e = BindDestination(doc, r.on, r.id, r.digest) /\ CanBind(doc, r.on, r.id)
    BY <1>3, Sections DEF Recorded, Recordable
  <2>2. r.id \in DestinationIds
    BY <1>1, <1>3, KindOfIds
  <2> HIDE DEF e, r
  <2>3. Sound(e) /\ Grown(doc, e, r.on) /\ e.id[r.on] = r.id /\ doc.id[r.on] \in {None, r.id}
    BY <1>1, <1>3, <2>1, <2>2, DestinationRecordSound
  <2> QED BY <1>1, <2>3 DEF e, r
<1>4. CASE r.on \in Guardrails
  <2>1. /\ e = Bind(doc, r.on, r.id)
        /\ CanBind(doc, r.on, r.id) \/ CanReplaceGuardrail(doc, r.on, r.id)
    BY <1>4, Sections DEF Recorded, Recordable
  <2>2. ~run.disturbed => doc.id[r.on] = r.id \/ doc.id[r.on] \notin DOMAIN remote
    BY <1>1, <1>4 DEF Inv, Recordings
  <2>3. r.on \in Blocks \ Workspaces
    BY <1>1, <1>4, Sections
  <2> HIDE DEF e, r
  <2>4. Sound(e) /\ Grown(doc, e, r.on) /\ e.id[r.on] = r.id
    BY <1>1, <2>1, <2>3, OtherRecordSound
  <2> QED BY <2>2, <2>4 DEF e, r
<1> QED BY <1>1, <1>2, <1>3, <1>4 DEF Blocks

LEMMA RecordBehaves ==
  ASSUME Inv, Record
  PROVE  Behaves
<1>1. /\ run.at = "recording" /\ remote' = remote /\ want' = want /\ edits' = edits
  BY DEF Record
<1>2. /\ Sound(doc) /\ Seen(remote) /\ Scheduled(doc, remote, run) /\ run \in RunState
      /\ mishaps \in 0 .. MaxMishaps
  BY DEF Inv
<1>3. mishaps' \in 0 .. MaxMishaps
  BY <1>2, ConvergenceBounds DEF Record, Mishap, Smooth
<1>4. run.record # None /\ run.record.on \in Blocks
  BY <1>1, RecordOfRun, NoRecordAssumption
<1>5. \/ doc' = doc
      \/ Recordable(run.record) /\ doc' = Recorded(run.record)
  BY DEF Record
<1>6. /\ Sound(doc') /\ Grown(doc, doc', run.record.on)
      /\ ~run.disturbed /\ doc.id[run.record.on] \in DOMAIN remote =>
           doc.id[run.record.on] \in Owned(doc')
  <2>1. CASE doc' = doc
    BY <1>2, <1>4, <2>1, GrownItself, Sections DEF Owned, Seen
  <2>2. CASE Recordable(run.record) /\ doc' = Recorded(run.record)
    <3>1. /\ Sound(doc') /\ Grown(doc, doc', run.record.on)
          /\ doc'.id[run.record.on] = run.record.id
          /\ ~run.disturbed /\ doc.id[run.record.on] \in DOMAIN remote =>
               doc.id[run.record.on] = run.record.id
      BY <1>1, <2>2, RecordedSound
    <3> QED BY <1>2, <1>4, <3>1, Sections DEF Owned, Seen
  <2> QED BY <1>5, <2>1, <2>2
<1>7. /\ run' \in RunState /\ run'.todo \subseteq run.todo /\ run'.disturbed = run.disturbed
      /\ run'.record = None
      /\ \/ run'.at = "executing"
         \/ run'.at = "verifying" /\ run'.todo = {}
  BY <1>2 DEF Record, GiveUp, RunState, At
<1>8. \A a \in run'.todo : a.on # run.record.on
  BY <1>2, <1>4, <1>7 DEF Scheduled
<1>9. Appeared(doc, remote, remote', run.record.on)
  BY <1>1 DEF Appeared
<1>10. Scheduled(doc', remote', run')
  BY <1>2, <1>4, <1>6, <1>7, <1>8, <1>9, ScheduleKept
<1>11. Recordings(doc', remote', run') /\ Emptied(remote', run')
  BY <1>7 DEF Recordings, Emptied
<1>12. Inv'
  BY <1>1, <1>2, <1>3, <1>6, <1>7, <1>10, <1>11 DEF Inv
<1> QED BY <1>1, <1>12, StillBehaves

(* A run that is not under way leaves nothing due.                         *)
LEMMA QuietKept ==
  ASSUME NEW d, NEW seen, NEW r, r.todo = {}, r.record = None,
         r.at \notin {"recording", "deleting"}
  PROVE  Scheduled(d, seen, r) /\ Recordings(d, seen, r) /\ Emptied(seen, r)
BY DEF Scheduled, Recordings, Emptied

LEMMA IdleTyped ==
  Idle \in RunState /\ Idle.todo = {} /\ Idle.record = None /\ Idle.at = "idle"
BY DEF Idle, RunState, At

LEMMA QuietRun ==
  ASSUME Inv, run.at \in {"idle", "verifying", "reported"}
  PROVE  run.todo = {} /\ run.record = None
<1>1. run.todo = {}
  BY DEF Inv, Scheduled
<1>2. run.record = None
  BY DEF Inv, Recordings
<1> QED BY <1>1, <1>2

LEMMA VerifyBehaves ==
  ASSUME Inv, Verify
  PROVE  Behaves
<1>1. /\ doc' = doc /\ remote' = remote /\ want' = want /\ edits' = edits
  BY DEF Verify
<1>2. run.todo = {} /\ run.record = None /\ run \in RunState /\ mishaps \in 0 .. MaxMishaps
  <2>1. run.at = "executing" \/ run.at = "verifying"
    BY DEF Verify
  <2>2. CASE run.at = "executing"
    BY <2>2 DEF Verify, Inv, Recordings
  <2>3. CASE run.at = "verifying"
    BY <2>3, QuietRun DEF Inv
  <2> QED BY <2>1, <2>2, <2>3
<1>3. mishaps' \in 0 .. MaxMishaps
  <2>1. Smooth \/ Mishap
    BY DEF Verify
  <2> QED BY <1>2, <2>1, ConvergenceBounds DEF Mishap, Smooth
<1>4. WritesConfirm \in BOOLEAN /\ FALSE \in BOOLEAN
  BY DEF WritesConfirm
<1>5. \E confirmed \in BOOLEAN : run' = Reported(confirmed)
  BY <1>4, Zenon DEF Verify
<1> PICK confirmed \in BOOLEAN : run' = Reported(confirmed)
  BY <1>5
<1>8. Outcome(confirmed) \in Outcomes
  BY DEF Outcome, Outcomes
<1>6. run' \in RunState /\ run'.todo = {} /\ run'.record = None /\ run'.at = "reported"
  BY <1>2, <1>8 DEF Reported, RunState, At
<1>7. Inv'
  BY <1>1, <1>3, <1>6, QuietKept DEF Inv
<1> QED BY <1>1, <1>7, StillBehaves

LEMMA EndBehaves ==
  ASSUME Inv, End \/ Kill
  PROVE  Behaves
<1>1. doc' = doc /\ remote' = remote /\ want' = want /\ edits' = edits /\ run' = Idle
  BY DEF End, Kill
<1>2. mishaps' \in 0 .. MaxMishaps
  BY ConvergenceBounds DEF Inv, End, Kill, Mishap
<1>3. Inv'
  BY <1>1, <1>2, IdleTyped, QuietKept DEF Inv
<1> QED BY <1>1, <1>3, StillBehaves

-----------------------------------------------------------------------------
(* Deleting an object, with what goes with it.                             *)

LEMMA WithoutSeen ==
  ASSUME Seen(remote), NEW id
  PROVE  /\ Seen(Without(id))
         /\ DOMAIN Without(id) = DOMAIN remote \ ({id} \cup Contents(id))
         /\ \A i \in DOMAIN Without(id) :
              Without(id)[i] = IF remote[i].under \in {id} \cup Contents(id)
                                 THEN [remote[i] EXCEPT !.under = None] ELSE remote[i]
<1> DEFINE gone == {id} \cup Contents(id)
           after == [i \in DOMAIN remote \ gone |->
                       IF remote[i].under \in gone THEN [remote[i] EXCEPT !.under = None]
                                                   ELSE remote[i]]
<1>1. Without(id) = after
  BY DEF Without
<1>2. ASSUME NEW i \in DOMAIN remote \ gone
      PROVE  after[i] \in Objects
  <2>1. remote[i] \in Objects
    BY DEF Seen
  <2>2. [remote[i] EXCEPT !.under = None] \in Objects
    BY <2>1 DEF Objects
  <2> QED BY <2>1, <2>2
<1>3. Seen(after)
  BY <1>2 DEF Seen
<1> QED BY <1>1, <1>3

LEMMA DeleteBehaves ==
  ASSUME Inv, Delete
  PROVE  Behaves
<1> DEFINE b == run.record.on
           id == run.record.id
<1>1. /\ run.at = "deleting" /\ run' = Idle /\ want' = want /\ edits' = edits
      /\ doc' \in {doc, Forget(doc, b)} /\ remote' \in {remote, Without(id)}
  BY DEF Delete
<1>2. mishaps' \in 0 .. MaxMishaps
  BY ConvergenceBounds DEF Inv, Delete, Mishap, Smooth
<1>3. Sound(doc')
  BY <1>1, RecordOfRun, ForgetSound DEF Inv
<1>4. /\ Seen(remote) /\ Seen(Without(id))
      /\ DOMAIN Without(id) = DOMAIN remote \ ({id} \cup Contents(id))
      /\ \A i \in DOMAIN Without(id) :
           Without(id)[i] = IF remote[i].under \in {id} \cup Contents(id)
                              THEN [remote[i] EXCEPT !.under = None] ELSE remote[i]
  BY WithoutSeen DEF Inv
<1>5. Inv'
  BY <1>1, <1>2, <1>3, <1>4, IdleTyped, QuietKept DEF Inv
<1>6. ASSUME NEW i \in DOMAIN remote, i \notin Touchable
      PROVE  \/ i \in DOMAIN remote' /\ remote'[i] = remote[i]
             \/ Unassigned(i)
  <2>1. Touchable = Taken(id) /\ id \in Taken(id)
    BY <1>1 DEF Touchable, Taken
  <2>2. Contents(id) \subseteq Taken(id)
    <3>1. CASE run.disturbed
      BY <3>1 DEF Taken
    <3>2. CASE ~run.disturbed
      <4>1. Contents(id) \subseteq {DefaultGuardrail(id)}
        BY <1>1, <3>2 DEF Inv, Emptied, Contents
      <4> QED BY <4>1 DEF Taken
    <3> QED BY <3>1, <3>2
  <2>3. CASE remote' = remote
    BY <2>3
  <2>4. CASE remote' = Without(id)
    <3>1. i \in DOMAIN Without(id)
      BY <1>4, <1>6, <2>1, <2>2
    <3>2. CASE remote[i].under \in {id} \cup Contents(id)
      <4>1. remote[i].under \in Touchable
        BY <2>1, <2>2, <3>2
      <4>2. remote'[i] = [remote[i] EXCEPT !.under = None]
        BY <1>4, <2>4, <3>1, <3>2
      <4> QED BY <2>4, <3>1, <4>1, <4>2 DEF Unassigned
    <3>3. CASE remote[i].under \notin {id} \cup Contents(id)
      BY <1>4, <2>4, <3>1, <3>3
    <3> QED BY <3>2, <3>3
  <2> QED BY <1>1, <2>3, <2>4
<1>7. Spares
  BY <1>1, <1>6 DEF Spares
<1>8. MakesOnce
  BY <1>1, <1>4 DEF MakesOnce
<1> QED BY <1>5, <1>7, <1>8 DEF Behaves

-----------------------------------------------------------------------------
(* Starting a run.                                                         *)

LEMMA StartBehaves ==
  ASSUME Inv, Start
  PROVE  Behaves
<1> DEFINE plan == Plan(Prepared, remote, want)
<1>1. /\ doc' = Prepared /\ remote' = remote /\ want' = want
      /\ mishaps' = mishaps /\ edits' = edits
      /\ \/ run' = [Idle EXCEPT !.at = "reported", !.outcome = "blocked"]
         \/ run' = Begun(plan)
  BY DEF Start
<1>2. Sound(Prepared) /\ Seen(remote)
  BY PreparedSound DEF Inv
<1>3. /\ run' \in RunState /\ Scheduled(Prepared, remote, run')
      /\ Recordings(Prepared, remote, run') /\ Emptied(remote, run')
  <2>1. CASE run' = Begun(plan)
    BY <1>2, <2>1, BegunScheduled
  <2>2. CASE run' = [Idle EXCEPT !.at = "reported", !.outcome = "blocked"]
    <3>1. run' \in RunState /\ run'.todo = {} /\ run'.record = None /\ run'.at = "reported"
      BY <2>2, IdleTyped DEF RunState, At, Outcomes
    <3> QED BY <3>1, QuietKept
  <2> QED BY <1>1, <2>1, <2>2
<1>4. Inv'
  <2> HIDE DEF plan
  <2> QED BY <1>1, <1>2, <1>3 DEF Inv
<1> QED BY <1>1, <1>4, StillBehaves

-----------------------------------------------------------------------------
(* The commands beside apply, and the console.                             *)

LEMMA IdleKept ==
  ASSUME Inv, run.at = "idle", run' = run, Sound(doc'), Seen(remote'),
         want' \in [Destinations -> Configs],
         mishaps' \in 0 .. MaxMishaps, edits' \in 0 .. MaxEdits
  PROVE  Inv'
<1>1. run.todo = {} /\ run.record = None /\ run \in RunState
  BY QuietRun DEF Inv
<1>2. Scheduled(doc', remote', run') /\ Recordings(doc', remote', run') /\ Emptied(remote', run')
  BY <1>1, QuietKept
<1> QED BY <1>1, <1>2 DEF Inv

LEMMA ImportedSound ==
  ASSUME Inv, NEW b \in Blocks, NEW i, CanImport(b, i)
  PROVE  Sound(Imported(b, i))
<1>1. Sound(doc) /\ i \in IdsFor(b) /\ CanBind(doc, b, i)
  BY DEF Inv, CanImport
<1>2. CASE b \in Workspaces
  <2>1. i \in WorkspaceIds /\ CanBindDefault(doc, b, DefaultGuardrail(i))
    BY <1>1, <1>2, KindOfIds DEF CanImport
  <2>2. Imported(b, i) = BindDefault(BindWorkspace(doc, b, i, DefaultGuardrail(i)), b,
                                     DefaultGuardrail(i))
    BY <1>2, Sections DEF Imported
  <2> QED BY <1>1, <1>2, <2>1, <2>2, WorkspaceRecordSound
<1>3. CASE b \in Destinations
  <2>1. i \in DestinationIds /\ Imported(b, i) = BindDestination(doc, b, i, None)
    BY <1>1, <1>3, KindOfIds, Sections DEF Imported
  <2> QED BY <1>1, <1>3, <2>1, DestinationRecordSound
<1>4. CASE b \notin Workspaces /\ b \notin Destinations
  <2>1. Imported(b, i) = Bind(doc, b, i)
    BY <1>4 DEF Imported
  <2> QED BY <1>1, <1>4, <2>1, OtherRecordSound
<1> QED BY <1>2, <1>3, <1>4

LEMMA BeginDeleteKept ==
  ASSUME Inv, NEW b, BeginDelete(b), want' = want, mishaps' = mishaps,
         edits' \in 0 .. MaxEdits
  PROVE  Inv'
<1> DEFINE id == doc.id[b]
<1>1. /\ doc' = doc /\ remote' = remote /\ Sound(doc) /\ Seen(remote) /\ Kinded(doc)
      /\ run' = [Idle EXCEPT !.at = "deleting", !.record = DefaultRecord(b, id)]
  BY DEF BeginDelete, Inv, Sound
<1>2. b \in Blocks /\ b \notin Keys /\ id \in IdsFor(b) /\ id \in Ids
  <2>1. b \in Workspaces \cup Destinations /\ id # None
    BY DEF BeginDelete, Bound
  <2>2. b \in Blocks /\ b \notin Keys
    BY <2>1, Sections DEF Blocks
  <2> QED BY <1>1, <2>1, <2>2 DEF Kinded, Ids
<1>3. DefaultRecord(b, id) \in Records
  BY <1>2 DEF DefaultRecord, Records
<1>4. /\ run' \in RunState /\ run'.todo = {} /\ run'.at = "deleting" /\ ~run'.disturbed
      /\ run'.record = DefaultRecord(b, id)
  BY <1>1, <1>3, IdleTyped DEF RunState, At, Idle
<1>5. Scheduled(doc', remote', run')
  BY <1>4 DEF Scheduled
<1>6. Recordings(doc', remote', run')
  BY <1>2, <1>3, <1>4, NoRecordAssumption DEF Recordings, DefaultRecord
<1>7. ASSUME NEW i \in DOMAIN remote, remote[i].within = id
      PROVE  i = DefaultGuardrail(id)
  <2>1. CASE b \in Workspaces
    <3>1. Contents(id) \ {doc.default[b]} = {}
      BY <2>1 DEF BeginDelete, ObservedChildren
    <3>2. i = doc.default[b]
      BY <1>7, <3>1 DEF Contents
    <3>3. i # None
      BY Sections, <1>1 DEF Seen
    <3> QED BY <1>1, <2>1, <3>2, <3>3 DEF Sound, DefaultsFit
  <2>2. CASE b \in Destinations
    <3>1. id \in DestinationIds
      BY <1>2, <2>2, KindOfIds
    <3>2. remote[i].within \in WorkspaceIds \cup {None}
      BY <1>1 DEF Seen, Objects
    <3> QED BY <1>7, <3>1, <3>2, IdsApart, KindOfIds
  <2> QED BY <2>1, <2>2 DEF BeginDelete
<1>8. Emptied(remote', run')
  BY <1>1, <1>4, <1>7 DEF Emptied, DefaultRecord
<1> QED BY <1>1, <1>4, <1>5, <1>6, <1>8 DEF Inv

(* OpenRouter's console changes objects under a run: the plan's reading of *)
(* what is there no longer counts, the addresses of its writes still do.   *)
LEMMA DisturbedKept ==
  ASSUME Inv, Disturbed, doc' = doc, want' = want, Seen(remote'), mishaps' = mishaps,
         edits' \in 0 .. MaxEdits
  PROVE  Inv'
<1>1. Sound(doc) /\ run \in RunState /\ want \in [Destinations -> Configs]
      /\ mishaps \in 0 .. MaxMishaps
  BY DEF Inv
<1>2. CASE run.at = "idle"
  <2>1. run' = run
    BY <1>2 DEF Disturbed
  <2> QED BY <1>1, <1>2, <2>1, IdleKept
<1>3. CASE run.at # "idle"
  <2>1. run' = [run EXCEPT !.disturbed = TRUE]
    BY <1>3 DEF Disturbed
  <2>2. /\ run' \in RunState /\ run'.disturbed /\ run'.todo = run.todo
        /\ run'.at = run.at /\ run'.record = run.record
    BY <1>1, <2>1 DEF RunState
  <2>3. Scheduled(doc', remote', run')
    BY <2>2 DEF Inv, Scheduled, Due
  <2>4. Recordings(doc', remote', run')
    BY <2>2 DEF Inv, Recordings
  <2>5. Emptied(remote', run')
    BY <2>2 DEF Emptied
  <2> QED BY <1>1, <2>2, <2>3, <2>4, <2>5 DEF Inv
<1> QED BY <1>2, <1>3

LEMMA ConsoleDeleteKept ==
  ASSUME Inv, NEW i, ConsoleDelete(i), want' = want, mishaps' = mishaps,
         edits' \in 0 .. MaxEdits
  PROVE  Inv'
<1>1. Seen(remote')
  BY WithoutSeen DEF ConsoleDelete, Inv
<1> QED BY <1>1, DisturbedKept DEF ConsoleDelete

LEMMA ConsoleEditKept ==
  ASSUME Inv, NEW i, ConsoleEdit(i), want' = want, mishaps' = mishaps,
         edits' \in 0 .. MaxEdits
  PROVE  Inv'
<1>1. Seen(remote) /\ i \in DOMAIN remote /\ remote[i] \in Objects
  BY DEF ConsoleEdit, Inv, Seen
<1>2. CASE remote' = [remote EXCEPT ![i].matches = FALSE]
  <2>1. [remote[i] EXCEPT !.matches = FALSE] \in Objects
    BY <1>1 DEF Objects
  <2>2. Seen(remote')
    BY <1>1, <1>2, <2>1 DEF Seen
  <2> QED BY <2>2, DisturbedKept DEF ConsoleEdit
<1>3. ASSUME NEW g \in {None} \cup (GuardrailIds \cap DOMAIN remote),
             remote' = [remote EXCEPT ![i].under = g]
      PROVE  Inv'
  <2>1. Seen(remote')
    BY <1>1, <1>3, UnderSeen
  <2> QED BY <2>1, DisturbedKept DEF ConsoleEdit
<1> QED BY <1>2, <1>3 DEF ConsoleEdit

LEMMA ConsoleCreateKept ==
  ASSUME Inv, NEW b \in Blocks, ConsoleCreate(b), want' = want, mishaps' = mishaps,
         edits' \in 0 .. MaxEdits
  PROVE  Inv'
<1> PICK i \in Fresh(b) : \E within \in {None} \cup (WorkspaceIds \cap DOMAIN remote) :
           /\ remote' = With(i, Object(within, None, None)) /\ Disturbed /\ UNCHANGED doc
  BY DEF ConsoleCreate
<1> PICK within \in {None} \cup (WorkspaceIds \cap DOMAIN remote) :
           /\ remote' = With(i, Object(within, None, None)) /\ Disturbed /\ UNCHANGED doc
  OBVIOUS
<1>1. Object(within, None, None) \in Objects /\ i \in Ids
  BY FreshIsNew DEF Object, Objects
<1>2. Seen(remote')
  BY <1>1, WithSeen DEF Inv
<1> QED BY <1>2, DisturbedKept

LEMMA ReleaseKept ==
  ASSUME Inv, run.at = "idle", NEW b \in Blocks, ForgetBinding(b),
         want' = want, mishaps' = mishaps, edits' \in 0 .. MaxEdits
  PROVE  Inv'
<1>1. Sound(doc') /\ remote' = remote /\ run' = run
  BY ForgetSound DEF ForgetBinding, Inv
<1> QED BY <1>1, IdleKept DEF Inv

LEMMA ImportKept ==
  ASSUME Inv, run.at = "idle", NEW b \in Blocks, NEW i, Import(b, i),
         want' = want, mishaps' = mishaps, edits' \in 0 .. MaxEdits
  PROVE  Inv'
<1>1. Sound(doc') /\ remote' = remote /\ run' = run
  BY ImportedSound DEF Import
<1> QED BY <1>1, IdleKept DEF Inv

LEMMA EditKept ==
  ASSUME Inv, Edit
  PROVE  Inv'
<1>1. edits' \in 0 .. MaxEdits
  BY ConvergenceBounds DEF Inv, Edit
<1>2. CASE Reconfigure /\ UNCHANGED mishaps
  <2>1. /\ run.at = "idle" /\ doc' = doc /\ remote' = remote /\ run' = run
        /\ want' \in [Destinations -> Configs]
    BY <1>2 DEF Reconfigure, Inv
  <2> QED BY <1>1, <1>2, <2>1, IdleKept DEF Inv
<1>3. ASSUME NEW i \in DOMAIN remote, ConsoleDelete(i) \/ ConsoleEdit(i), want' = want,
             mishaps' = mishaps
      PROVE  Inv'
  BY <1>1, <1>3, ConsoleDeleteKept, ConsoleEditKept
<1>4. ASSUME NEW b \in Blocks, ConsoleCreate(b), want' = want, mishaps' = mishaps
      PROVE  Inv'
  BY <1>1, <1>4, ConsoleCreateKept
<1>5. ASSUME run.at = "idle", NEW b \in Blocks, want' = want, mishaps' = mishaps,
             \/ \E i \in Ids : Import(b, i)
             \/ ForgetBinding(b)
             \/ BeginDelete(b)
      PROVE  Inv'
  BY <1>1, <1>5, ImportKept, ReleaseKept, BeginDeleteKept
<1> QED BY <1>2, <1>3, <1>4, <1>5 DEF Edit

(* What a report asks of the operator is asked about a block.              *)
LEMMA AskedOfBlock ==
  ASSUME Inv, NEW a \in Proposals(doc, remote, want), a.kind \in {"missing", "adoption_required"}
  PROVE  a.on \in Blocks
<1>1. Sound(doc) /\ Seen(remote)
  BY DEF Inv
<1>2. ASSUME NEW k \in Keys, a \in AssignmentAction(doc, remote, k)
      PROVE  FALSE
  BY <1>1, <1>2, AssignmentProposal
<1> QED BY <1>1, <1>2, ProposalShape, WorkspaceProposal, DestinationProposal,
           GuardrailProposal, KeyProposal DEF Blocks

LEMMA FollowKept ==
  ASSUME Inv, Follow
  PROVE  Inv'
<1>1. /\ run.at = "idle" /\ want' = want /\ mishaps' = mishaps /\ edits' = edits
      /\ edits' \in 0 .. MaxEdits /\ mishaps' \in 0 .. MaxMishaps
      /\ Guardrails \subseteq Blocks
  BY DEF Follow, Inv, Blocks
<1>2. CASE Recover
  <2>1. Sound(doc') /\ remote' = remote /\ run' = run
    BY <1>2, RecoverSound DEF Recover, Inv
  <2> QED BY <1>1, <2>1, IdleKept DEF Inv
<1>3. ASSUME NEW a \in Proposals(doc, remote, want), Heed(a)
      PROVE  Inv'
  <2>1. CASE a.kind = "adoption_required" /\ \E i \in UnownedNamed(doc, remote, a.on) : Adopt(a.on, i)
    <3>1. a.on \in Blocks
      BY <1>3, <2>1, AskedOfBlock
    <3>2. PICK i \in UnownedNamed(doc, remote, a.on) : Adopt(a.on, i)
      BY <2>1
    <3>3. CASE Import(a.on, i)
      BY <1>1, <3>1, <3>3, ImportKept
    <3>4. CASE \E g \in InTheWay(a.on, i) : ForgetBinding(g)
      <4>1. PICK g \in Guardrails : ForgetBinding(g)
        BY <3>4 DEF InTheWay
      <4> QED BY <1>1, <4>1, ReleaseKept
    <3>5. CASE ConsoleDelete(i)
      BY <1>1, <3>5, ConsoleDeleteKept
    <3> QED BY <3>2, <3>3, <3>4, <3>5 DEF Adopt
  <2>2. CASE a.kind = "missing" /\ ForgetBinding(a.on)
    <3>1. a.on \in Blocks
      BY <1>3, <2>2, AskedOfBlock
    <3> QED BY <1>1, <2>2, <3>1, ReleaseKept
  <2>3. CASE BeginDelete(a.on)
    BY <1>1, <2>3, BeginDeleteKept
  <2>4. CASE \E g \in Guardrails : ForgetBinding(g)
    BY <1>1, <2>4, ReleaseKept
  <2>5. CASE a.on \in Guardrails /\ Import(a.on, a.id)
    BY <1>1, <2>5, ImportKept
  <2> QED BY <1>3, <2>1, <2>2, <2>3, <2>4, <2>5 DEF Heed
<1> QED BY <1>2, <1>3 DEF Follow

-----------------------------------------------------------------------------
(* The invariant.                                                          *)

LEMMA InitInv == Init => Inv
<1> SUFFICES ASSUME Init PROVE Inv
  OBVIOUS
<1>1. doc = Empty /\ DOMAIN remote = {} /\ run = Idle /\ mishaps = 0 /\ edits = 0
      /\ want \in [Destinations -> Configs]
  BY DEF Init
<1>2. Sound(Empty)
  BY DEF Empty, Sound, Documents, Kinded, OneAddressEach, DefaultsFit, PendingApart
<1>3. Seen(remote)
  BY DEF Init, Seen
<1>4. mishaps \in 0 .. MaxMishaps /\ edits \in 0 .. MaxEdits
  BY <1>1, ConvergenceBounds
<1> QED BY <1>1, <1>2, <1>3, <1>4, IdleTyped, QuietKept DEF Inv

LEMMA RunBehaves ==
  ASSUME Inv, Start \/ Run \/ Kill
  PROVE  Behaves
BY StartBehaves, ExecuteBehaves, HoldBackBehaves, RecordBehaves, VerifyBehaves,
   EndBehaves, DeleteBehaves DEF Run

LEMMA NextInv == Inv /\ [Next]_vars => Inv'
<1> SUFFICES ASSUME Inv, [Next]_vars PROVE Inv'
  OBVIOUS
<1>1. CASE Start \/ Run \/ Kill
  BY <1>1, RunBehaves DEF Behaves
<1>2. CASE Edit
  BY <1>2, EditKept
<1>3. CASE Follow
  BY <1>3, FollowKept
<1>4. CASE UNCHANGED vars
  <2>1. /\ doc' = doc /\ remote' = remote /\ want' = want /\ run' = run
        /\ mishaps' = mishaps /\ edits' = edits
    BY <1>4 DEF vars
  <2> QED BY <2>1 DEF Inv
<1> QED BY <1>1, <1>2, <1>3, <1>4 DEF Next

LEMMA Invariant == Spec => []Inv
<1>1. Init => Inv
  BY InitInv
<1>2. Inv /\ [Next]_vars => Inv'
  BY NextInv
<1> QED BY <1>1, <1>2, PTL DEF Spec

(* The steps of a run, an edit of the operator's or the console's aside.   *)
LEMMA OwnSteps ==
  ASSUME Inv, [Next]_vars, OwnStep
  PROVE  Behaves
<1>1. ~Edit
  <2>1. Edit => edits' = edits + 1 /\ edits \in Nat
    BY ConvergenceBounds DEF Edit, Inv
  <2> QED BY <2>1 DEF OwnStep
<1>2. ~Follow
  BY DEF Follow, OwnStep
<1>3. CASE UNCHANGED vars
  <2>1. /\ doc' = doc /\ remote' = remote /\ want' = want /\ run' = run
        /\ mishaps' = mishaps /\ edits' = edits
    BY <1>3 DEF vars
  <2>2. Inv'
    BY <2>1 DEF Inv
  <2> QED BY <2>1, <2>2, StillBehaves
<1> QED BY <1>1, <1>2, <1>3, RunBehaves DEF Next

-----------------------------------------------------------------------------
(* The variables hold what they are meant to, whatever is refused, lost or *)
(* killed, and no object of OpenRouter's is bound at two addresses: not by *)
(* a run's records, by an import, nor by what a workspace brings with it.  *)
THEOREM ConvergenceTyped == Spec => []TypeOK
<1>1. Inv => TypeOK
  <2> SUFFICES ASSUME Inv PROVE TypeOK
    OBVIOUS
  <2>1. doc \in Documents /\ OneAddressEach(doc)
    BY DEF Inv, Sound
  <2>2. DOMAIN remote \subseteq Ids /\ \A i \in DOMAIN remote : remote[i] \in Objects
    BY DEF Inv, Seen
  <2>3. /\ run.at \in {"idle", "executing", "recording", "verifying", "reported", "deleting"}
        /\ run.record \in Records \cup {None}
        /\ (run.at \in {"recording", "deleting"}) = (run.record # None)
    BY DEF Inv, RunState, At, Recordings
  <2>4. /\ want \in [Destinations -> Configs]
        /\ mishaps \in 0 .. MaxMishaps /\ edits \in 0 .. MaxEdits
    BY DEF Inv
  <2> QED BY <2>1, <2>2, <2>3, <2>4 DEF TypeOK
<1> QED BY <1>1, Invariant, PTL

(* A run writes to what an address owns and to a workspace's own default   *)
(* guardrail, and to nothing else, whatever the console did between its    *)
(* read and its write, with one exception: a delete takes the object it    *)
(* names, what it saw go with it, and what the console put there since it  *)
(* looked.                                                                 *)
THEOREM OnlyOwnedIsTouched == Spec => OnlyOwnedTouched
<1>1. Inv /\ [Next]_vars =>
        [OwnStep => \A i \in DOMAIN remote :
           \/ i \in Touchable
           \/ i \in DOMAIN remote' /\ remote'[i] = remote[i]
           \/ run.at = "deleting" /\ Unassigned(i)]_vars
  BY OwnSteps DEF Behaves, Spares
<1> QED BY <1>1, Invariant, PTL DEF Spec, OnlyOwnedTouched

(* No create is for a block that has its object, a key's successor apart,  *)
(* or for one whose name an object that no address owns answers to: what   *)
(* the plan saw holds until the action's turn comes, whichever actions,    *)
(* lost answers and failed records lie between.                            *)
THEOREM NoSecondIsCreated == Spec => CreatesNoSecond
<1>1. Inv /\ [Next]_vars =>
        [OwnStep /\ ~run.disturbed =>
           \A b \in Blocks : \A i \in Named[b] \cap (DOMAIN remote' \ DOMAIN remote) :
             IF doc.id[b] \in DOMAIN remote THEN b \in Keys
                                            ELSE UnownedNamed(doc, remote, b) = {}]_vars
  BY OwnSteps DEF Behaves, MakesOnce, Lacks
<1> QED BY <1>1, Invariant, PTL DEF Spec, CreatesNoSecond

LEMMA IssuingStep ==
  ASSUME Inv, [Next]_vars, run.at = "executing",
         NEW k \in Keys, doc'.id[k] # doc.id[k]
  PROVE  LET key == remote'[doc'.id[k]]
         IN  /\ ~Elsewhere(doc, k, key.within)
             /\ IF RailOf[k] = None THEN key.under = None
                ELSE /\ key.under = doc.id[RailOf[k]]
                     /\ key.under \in DOMAIN remote /\ remote[key.under].matches
<1>1. PICK a \in run.todo : a.on \in Keys /\ CreatesItsResource(a) /\ Issue(a.on, a)
  <2>1. ~UNCHANGED doc
    OBVIOUS
  <2>2. PICK a \in run.todo : Execute(a)
    <3>1. Edit => UNCHANGED doc
      BY DEF Edit, ConsoleDelete, ConsoleEdit, ConsoleCreate, Reconfigure
    <3> QED BY <2>1, <3>1
            DEF Next, vars, Start, Run, HoldBack, Record, Verify, End, Delete, Kill, Follow
  <2>3. a.on \in Keys /\ CreatesItsResource(a) /\ Issue(a.on, a)
    BY <2>1, <2>2 DEF Execute, CreateWorkspace, UpdateWorkspace, CreateDestination,
       UpdateDestination, CreateGuardrail, Materialize, UpdateGuardrail, UpdateKey,
       Assign, Unassign, Post, Patch, Gone
  <2> QED BY <2>3
<1> DEFINE j == a.on
<1>2. ~Gone(a)
  BY DEF Gone
<1>3. PICK i \in Fresh(j) :
              /\ RailConverged(j)
              /\ \/ remote' = Made(j, i) /\ doc' = Promote(doc, j, i)
                 \/ \E phase \in {"unknown", "dead", "delivered"} : doc' = Standing(doc, j, i, phase)
                 \/ doc' = doc
  BY <1>1, <1>2, IssueShape
<1>4. doc \in Documents /\ Seen(remote) /\ j \in Keys /\ j \in Blocks /\ k \in Blocks
  BY <1>1 DEF Inv, Sound, Blocks
<1>5. remote' = Made(j, i) /\ doc' = Promote(doc, j, i)
  <2>1. \A phase \in {"unknown", "dead", "delivered"} : Standing(doc, j, i, phase).id = doc.id
    BY <1>4 DEF Standing, Documents
  <2> QED BY <1>3, <2>1
<1>6. j = k /\ doc'.id[k] = i
  BY <1>4, <1>5 DEF Promote, Documents
<1>7. remote'[i] = Object(PlacedIn(doc, k), Underway(k), None)
  BY <1>5, <1>6 DEF Made, With
<1>8. remote'[i].within = PlacedIn(doc, k) /\ remote'[i].under = Underway(k)
  BY <1>7 DEF Object
<1> QED BY <1>3, <1>6, <1>8 DEF Elsewhere, Underway, RailConverged

(* Apply puts no key into service but in its workspace and under its       *)
(* guardrail, which is there and as configured when the key is made,       *)
(* however old the plan is by then.                                        *)
THEOREM IssuedKeysAreRestricted == Spec => IssuedUnderGuardrail
<1>1. Inv /\ [Next]_vars =>
        [\A k \in Keys : run.at = "executing" /\ doc'.id[k] # doc.id[k] =>
          LET key == remote'[doc'.id[k]]
          IN  /\ ~Elsewhere(doc, k, key.within)
              /\ IF RailOf[k] = None THEN key.under = None
                 ELSE /\ key.under = doc.id[RailOf[k]]
                      /\ key.under \in DOMAIN remote /\ remote[key.under].matches]_vars
  BY IssuingStep
<1> QED BY <1>1, Invariant, PTL DEF Spec, IssuedUnderGuardrail

-----------------------------------------------------------------------------
(* What a report says.  `Quiet` is what `applied` claims of a block: its   *)
(* object is as configured and in its place, or an operator's to see to.   *)

IdentityIn(d, b) == IF b \in Guardrails THEN GuardrailIdentity(d, b) ELSE d.id[b]
Quiet(d, seen, b) ==
  LET id == IdentityIn(d, b)
  IN  \/ id = None /\ Named[b] \cap DOMAIN seen # {}
      \/ id # None /\ id \notin DOMAIN seen
      \/ id \in DOMAIN seen /\ (seen[id].matches \/ Elsewhere(d, b, seen[id].within))
      \/ b \in Guardrails /\ DefaultConflict(d, b)

Mine(d, seen, b) == d.id[b] \in DOMAIN seen /\ ~Elsewhere(d, b, seen[d.id[b]].within)
UnderIts(d, seen, k) ==
  Mine(d, seen, k) =>
    /\ seen[d.id[k]].under = IF RailOf[k] = None THEN None ELSE d.id[RailOf[k]]
    /\ RailOf[k] # None => d.id[RailOf[k]] \in DOMAIN seen
AsWanted(d, seen, asked, x) == Mine(d, seen, x) => d.digest[x] = asked[x]

Delivered(d) == d.pending # None /\ d.pending.phase = "delivered"
Unpromoted(d, seen) == d.pending # None =>
  LET k == d.pending.key
  IN  Delivered(d) /\ d.pending.hash \in Named[k] \cap DOMAIN seen /\ ~Mine(d, seen, k)

-----------------------------------------------------------------------------
(* What it means that a plan proposes no write.                            *)

LEMMA QuietIsReported ==
  ASSUME NEW b \in Blocks, Quiet(doc, remote, b)
  PROVE  InPlace(b) \/ OperatorsTurn(b)
BY DEF Quiet, IdentityIn, InPlace, OperatorsTurn, IdentityOf

LEMMA NoneIsUnseen ==
  ASSUME NEW seen, Seen(seen)
  PROVE  None \notin DOMAIN seen
BY Sections DEF Seen

LEMMA AdoptableQuiet ==
  ASSUME NEW d, NEW seen, NEW b \in Blocks, IdentityIn(d, b) = None,
         AdoptOrCreate(d, seen, b) # "create"
  PROVE  Quiet(d, seen, b)
BY DEF AdoptOrCreate, UnownedNamed, Quiet

LEMMA WorkspaceMeans ==
  ASSUME NEW d, Sound(d), NEW seen, Seen(seen), NEW w \in Workspaces
  PROVE  LET a == WorkspaceAction(d, seen, w)
         IN  /\ ~Writes(a) => Quiet(d, seen, w)
             /\ a.kind = "no_op" => d.id[w] \in DOMAIN seen /\ seen[d.id[w]].matches
<1>1. /\ w \in Blocks /\ w \notin Guardrails /\ None \notin DOMAIN seen
      /\ IdentityIn(d, w) = d.id[w]
  BY Sections, NoneIsUnseen DEF Blocks, IdentityIn
<1> DEFINE a == WorkspaceAction(d, seen, w)
<1>2. \/ d.id[w] = None /\ a.kind = AdoptOrCreate(d, seen, w)
      \/ d.id[w] # None /\ d.id[w] \notin DOMAIN seen /\ a.kind = "missing"
      \/ d.id[w] \in DOMAIN seen /\ a.kind = AsConfigured(seen, d.id[w])
  BY <1>1 DEF WorkspaceAction, Action, Bound
<1> HIDE DEF a
<1>3. AdoptOrCreate(d, seen, w) \in {"create", "adoption_required"}
  BY DEF AdoptOrCreate
<1>4. CASE d.id[w] = None /\ a.kind = AdoptOrCreate(d, seen, w)
  <2>1. ~Writes(a) => AdoptOrCreate(d, seen, w) # "create"
    BY <1>4 DEF Writes
  <2> QED BY <1>1, <1>3, <1>4, <2>1, AdoptableQuiet DEF a
<1>5. CASE d.id[w] # None /\ d.id[w] \notin DOMAIN seen /\ a.kind = "missing"
  BY <1>1, <1>5 DEF Quiet, a
<1>6. CASE d.id[w] \in DOMAIN seen /\ a.kind = AsConfigured(seen, d.id[w])
  <2>1. ~Writes(a) => seen[d.id[w]].matches
    BY <1>6 DEF Writes, AsConfigured
  <2>2. a.kind = "no_op" => seen[d.id[w]].matches
    BY <1>6 DEF AsConfigured
  <2> QED BY <1>1, <1>6, <2>1, <2>2 DEF Quiet, a
<1> QED BY <1>2, <1>4, <1>5, <1>6

LEMMA DestinationMeans ==
  ASSUME NEW d, Sound(d), NEW seen, Seen(seen), NEW asked, NEW b \in Destinations
  PROVE  LET a == DestinationAction(d, seen, asked, b)
         IN  /\ ~Writes(a) => Quiet(d, seen, b) /\ AsWanted(d, seen, asked, b)
             /\ a.kind = "no_op" /\ ~a.blocked =>
                  Mine(d, seen, b) /\ seen[d.id[b]].matches
<1>1. /\ b \in Blocks /\ b \notin Guardrails /\ None \notin DOMAIN seen
      /\ IdentityIn(d, b) = d.id[b]
  BY Sections, NoneIsUnseen DEF Blocks, IdentityIn
<1> DEFINE a == DestinationAction(d, seen, asked, b)
           id == d.id[b]
<1>2. \/ id = None /\ a.kind = AdoptOrCreate(d, seen, b)
      \/ id # None /\ id \notin DOMAIN seen /\ a.kind = "missing"
      \/ /\ id \in DOMAIN seen /\ ~Elsewhere(d, b, seen[id].within)
         /\ a.kind = IF d.digest[b] # asked[b] THEN "update" ELSE AsConfigured(seen, id)
      \/ id \in DOMAIN seen /\ Elsewhere(d, b, seen[id].within) /\ a.kind = "no_op" /\ a.blocked
  BY <1>1 DEF DestinationAction, Action, Bound, Blocked
<1> HIDE DEF a
<1>3. AdoptOrCreate(d, seen, b) \in {"create", "adoption_required"}
  BY DEF AdoptOrCreate
<1>4. CASE id = None /\ a.kind = AdoptOrCreate(d, seen, b)
  <2>1. ~Writes(a) => AdoptOrCreate(d, seen, b) # "create"
    BY <1>4 DEF Writes
  <2> QED BY <1>1, <1>3, <1>4, <2>1, AdoptableQuiet DEF a, AsWanted, Mine
<1>5. CASE id # None /\ id \notin DOMAIN seen /\ a.kind = "missing"
  BY <1>1, <1>5 DEF Quiet, AsWanted, Mine, a
<1>6. CASE /\ id \in DOMAIN seen /\ ~Elsewhere(d, b, seen[id].within)
           /\ a.kind = IF d.digest[b] # asked[b] THEN "update" ELSE AsConfigured(seen, id)
  <2>1. ~Writes(a) => d.digest[b] = asked[b] /\ seen[id].matches
    BY <1>6 DEF Writes, AsConfigured
  <2>2. a.kind = "no_op" => ~Writes(a)
    BY DEF Writes
  <2> QED BY <1>1, <1>6, <2>1, <2>2 DEF Quiet, AsWanted, Mine, a
<1>7. CASE id \in DOMAIN seen /\ Elsewhere(d, b, seen[id].within) /\ a.kind = "no_op" /\ a.blocked
  BY <1>1, <1>7 DEF Quiet, AsWanted, Mine, a
<1> QED BY <1>2, <1>4, <1>5, <1>6, <1>7

LEMMA GuardrailMeans ==
  ASSUME NEW d, Sound(d), NEW seen, Seen(seen), NEW g \in Guardrails
  PROVE  LET a == GuardrailAction(d, seen, g)
             id == GuardrailIdentity(d, g)
         IN  /\ ~Writes(a) => Quiet(d, seen, g)
             /\ a.kind = "no_op" /\ ~a.blocked =>
                  id \in DOMAIN seen /\ seen[id].matches /\ ~Elsewhere(d, g, seen[id].within)
<1>1. /\ g \in Blocks /\ None \notin DOMAIN seen
      /\ IdentityIn(d, g) = GuardrailIdentity(d, g)
  BY Sections, NoneIsUnseen DEF Blocks, IdentityIn
<1> DEFINE a == GuardrailAction(d, seen, g)
           id == GuardrailIdentity(d, g)
           wrong == DefaultConflict(d, g) \/ FixedElsewhere(d, seen, g)
<1>2. CASE wrong
  <2>1. a.kind = "no_op" /\ a.blocked
    BY <1>2 DEF GuardrailAction, Action, Blocked
  <2>2. Quiet(d, seen, g)
    <3>1. CASE DefaultConflict(d, g)
      BY <3>1 DEF Quiet
    <3>2. CASE FixedElsewhere(d, seen, g)
      BY <1>1, <3>2 DEF Quiet, FixedElsewhere
    <3> QED BY <1>2, <3>1, <3>2
  <2> QED BY <2>1, <2>2
<1>3. CASE ~wrong
  <2>1. a.kind = GuardrailKind(d, seen, g) /\ (id \in DOMAIN seen => ~Elsewhere(d, g, seen[id].within))
    BY <1>3 DEF GuardrailAction, Action, FixedElsewhere
  <2> HIDE DEF a
  <2>2. \/ id = None /\ a.kind = "create"
        \/ id = None /\ a.kind = AdoptOrCreate(d, seen, g)
        \/ id \in DOMAIN seen /\ a.kind = AsConfigured(seen, id)
        \/ id # None /\ id \notin DOMAIN seen /\ a.kind \in {"create", "missing"}
    BY <1>1, <2>1 DEF GuardrailKind
  <2>3. AdoptOrCreate(d, seen, g) \in {"create", "adoption_required"}
    BY DEF AdoptOrCreate
  <2>4. CASE id = None /\ a.kind = "create"
    BY <2>4 DEF Writes, a
  <2>5. CASE id = None /\ a.kind = AdoptOrCreate(d, seen, g)
    <3>1. ~Writes(a) => AdoptOrCreate(d, seen, g) # "create"
      BY <2>5 DEF Writes
    <3> QED BY <1>1, <2>3, <2>5, <3>1, AdoptableQuiet DEF a
  <2>6. CASE id \in DOMAIN seen /\ a.kind = AsConfigured(seen, id)
    <3>1. ~Writes(a) => seen[id].matches
      BY <2>6 DEF Writes, AsConfigured
    <3>2. a.kind = "no_op" => ~Writes(a)
      BY DEF Writes
    <3> QED BY <1>1, <2>1, <2>6, <3>1, <3>2 DEF Quiet, a
  <2>7. CASE id # None /\ id \notin DOMAIN seen /\ a.kind \in {"create", "missing"}
    BY <1>1, <2>7 DEF Quiet, a
  <2> QED BY <2>2, <2>4, <2>5, <2>6, <2>7
<1> QED BY <1>2, <1>3

LEMMA KeyMeans ==
  ASSUME NEW d, Sound(d), NEW seen, Seen(seen), NEW k \in Keys
  PROVE  LET a == KeyAction(d, seen, k)
         IN  /\ ~PendingAt(d, k) =>
                  /\ ~Writes(a) => Quiet(d, seen, k)
                  /\ a.kind = "no_op" => Mine(d, seen, k) /\ seen[d.id[k]].matches
                  /\ CreatesItsResource(a) => ~Mine(d, seen, k)
             /\ PendingAt(d, k) =>
                  \/ a.kind = "recovery_required"
                  \/ Writes(a) /\ a.blocked
                  \/ Delivered(d)
<1>1. /\ k \in Blocks /\ k \notin Guardrails /\ None \notin DOMAIN seen
      /\ IdentityIn(d, k) = d.id[k]
  BY Sections, NoneIsUnseen DEF Blocks, IdentityIn
<1> DEFINE a == KeyAction(d, seen, k)
           id == d.id[k]
<1>2. /\ a.kind = KeyKind(d, seen, k)
      /\ a.blocked = (PendingAt(d, k) /\ d.pending.phase # "delivered")
  BY DEF KeyAction, Action, Blocked
<1>3. CASE PendingAt(d, k)
  <2>1. d.pending \in Pending
    BY <1>3 DEF PendingAt, Sound, Documents
  <2>2. d.pending.phase \in {"unknown", "dead", "delivered"}
    BY <2>1 DEF Pending
  <2>3. /\ d.pending.phase = "unknown" => a.kind = "recovery_required"
        /\ d.pending.phase = "dead" => a.kind = "replace" /\ a.blocked
    BY <1>2, <1>3 DEF KeyKind
  <2> HIDE DEF a
  <2> QED BY <1>3, <2>2, <2>3 DEF Writes, Delivered, PendingAt, a
<1>4. CASE ~PendingAt(d, k)
  <2>1. \/ id = None /\ a.kind = AdoptOrCreate(d, seen, k)
        \/ id # None /\ id \notin DOMAIN seen /\ a.kind = "missing"
        \/ id \in DOMAIN seen /\ Elsewhere(d, k, seen[id].within) /\ a.kind = "replace"
        \/ id \in DOMAIN seen /\ ~Elsewhere(d, k, seen[id].within) /\ a.kind = AsConfigured(seen, id)
    BY <1>1, <1>2, <1>4 DEF KeyKind, Bound
  <2> HIDE DEF a
  <2>2. AdoptOrCreate(d, seen, k) \in {"create", "adoption_required"}
    BY DEF AdoptOrCreate
  <2>3. AsConfigured(seen, id) \in {"no_op", "update"}
    BY DEF AsConfigured
  <2>4. CASE id = None /\ a.kind = AdoptOrCreate(d, seen, k)
    <3>1. ~Writes(a) => AdoptOrCreate(d, seen, k) # "create"
      BY <2>4 DEF Writes
    <3> QED BY <1>1, <1>4, <2>2, <2>4, <3>1, AdoptableQuiet DEF a, Mine
  <2>5. CASE id # None /\ id \notin DOMAIN seen /\ a.kind = "missing"
    BY <1>1, <1>4, <2>5 DEF Quiet, Mine, a
  <2>6. CASE id \in DOMAIN seen /\ Elsewhere(d, k, seen[id].within) /\ a.kind = "replace"
    BY <1>1, <1>4, <2>6 DEF Quiet, Mine, Writes, a
  <2>7. CASE id \in DOMAIN seen /\ ~Elsewhere(d, k, seen[id].within) /\ a.kind = AsConfigured(seen, id)
    <3>1. ~Writes(a) => seen[id].matches
      BY <2>7 DEF Writes, AsConfigured
    <3>2. a.kind = "no_op" => ~Writes(a)
      BY DEF Writes
    <3>3. ~CreatesItsResource(a)
      BY <2>3, <2>7 DEF CreatesItsResource
    <3> QED BY <1>1, <1>4, <2>7, <3>1, <3>2, <3>3 DEF Quiet, Mine, a
  <2> QED BY <2>1, <2>4, <2>5, <2>6, <2>7
<1> QED BY <1>3, <1>4

LEMMA AssignmentMeans ==
  ASSUME NEW d, Sound(d), NEW seen, Seen(seen), NEW k \in Keys, ~PendingAt(d, k)
  PROVE  /\ AssignmentAction(d, seen, k) = {} => UnderIts(d, seen, k)
         /\ Mine(d, seen, k) => AssignmentAction(d, seen, k) # {}
         /\ \A a \in AssignmentAction(d, seen, k) : a.kind = "no_op" => UnderIts(d, seen, k)
<1> DEFINE C == KeyKind(d, seen, k) \in {"create", "replace"}
           held == seen[d.id[k]].under
<1>1. C => ~Mine(d, seen, k)
  <2>1. KeyAction(d, seen, k).kind = KeyKind(d, seen, k)
    BY DEF KeyAction, Action, Blocked
  <2> QED BY <2>1, KeyMeans DEF CreatesItsResource
<1>2. CASE C
  <2>1. \A a \in AssignmentAction(d, seen, k) : a.kind = "assign"
    BY <1>2 DEF AssignmentAction, Action
  <2> QED BY <1>1, <1>2, <2>1 DEF UnderIts
<1>3. CASE ~C /\ d.id[k] \notin DOMAIN seen
  <2>1. AssignmentAction(d, seen, k) = {}
    BY <1>3 DEF AssignmentAction
  <2> QED BY <1>3, <2>1 DEF UnderIts, Mine
<1>4. CASE ~C /\ d.id[k] \in DOMAIN seen
  <2>1. CASE RailOf[k] = None
    <3>1. AssignmentAction(d, seen, k) =
            {Action(Assignment(k), IF held = None THEN "no_op" ELSE "unassign", held, {})}
      BY <1>4, <2>1 DEF AssignmentAction
    <3>2. \A a \in AssignmentAction(d, seen, k) : a.kind = "no_op" => held = None
      BY <3>1 DEF Action
    <3> QED BY <2>1, <3>1, <3>2 DEF UnderIts
  <2>2. CASE RailOf[k] # None /\ d.id[RailOf[k]] \in DOMAIN seen /\ held = d.id[RailOf[k]]
    <3>1. AssignmentAction(d, seen, k) # {}
      BY <1>4, <2>2 DEF AssignmentAction
    <3> QED BY <2>2, <3>1 DEF UnderIts
  <2>3. CASE RailOf[k] # None /\ ~(d.id[RailOf[k]] \in DOMAIN seen /\ held = d.id[RailOf[k]])
    <3>1. AssignmentAction(d, seen, k) = {Action(Assignment(k), "assign", None, {RailOf[k]})}
      BY <1>4, <2>3 DEF AssignmentAction
    <3>2. \A a \in AssignmentAction(d, seen, k) : a.kind # "no_op"
      BY <3>1 DEF Action
    <3> QED BY <3>1, <3>2
  <2> QED BY <2>1, <2>2, <2>3
<1> QED BY <1>2, <1>3, <1>4

(* Every proposal is in the plan, held back or as it was.                  *)
LEMMA PlanHas ==
  ASSUME NEW d, Sound(d), NEW seen, Seen(seen), NEW asked,
         NEW p \in Proposals(d, seen, asked)
  PROVE  \E a \in Plan(d, seen, asked) :
           /\ a.on = p.on /\ a.kind = p.kind /\ (p.blocked => a.blocked)
           /\ ~a.blocked => a = p
<1>1. PICK a \in Plan(d, seen, asked) : a \in {p, Blocked(p), Blocked(Blocked(p))}
  BY DEF Plan
<1>2. p \in Actions
  BY ProposalDue
<1>3. /\ Blocked(p).on = p.on /\ Blocked(p).kind = p.kind /\ Blocked(p).blocked
      /\ Blocked(Blocked(p)).on = p.on /\ Blocked(Blocked(p)).kind = p.kind
      /\ Blocked(Blocked(p)).blocked
  BY <1>2 DEF Blocked, Actions
<1> QED BY <1>1, <1>3

LEMMA PlanSource ==
  ASSUME NEW d, Sound(d), NEW seen, Seen(seen), NEW asked,
         NEW a \in Plan(d, seen, asked)
  PROVE  \E p \in Proposals(d, seen, asked) :
           a.on = p.on /\ a.kind = p.kind /\ (~a.blocked => a = p)
<1>1. PICK p \in Proposals(d, seen, asked) : a \in {p, Blocked(p), Blocked(Blocked(p))}
  BY DEF Plan
<1>2. p \in Actions
  BY ProposalDue
<1>3. /\ Blocked(p).on = p.on /\ Blocked(p).kind = p.kind /\ Blocked(p).blocked
      /\ Blocked(Blocked(p)).on = p.on /\ Blocked(Blocked(p)).kind = p.kind
      /\ Blocked(Blocked(p)).blocked
  BY <1>2 DEF Blocked, Actions
<1> QED BY <1>1, <1>3

(* A block is proposed something, and where nothing is written it is quiet *)
(* or waits for an operation to be settled.                                *)
LEMMA BlockMeans ==
  ASSUME NEW d, Sound(d), NEW seen, Seen(seen), NEW asked, NEW b \in Blocks
  PROVE  \E p \in Proposals(d, seen, asked) :
           /\ p.on = b
           /\ ~Writes(p) => \/ Quiet(d, seen, b)
                            \/ PendingAt(d, b) /\ (Delivered(d) \/ p.kind = "recovery_required")
           /\ ~Writes(p) /\ b \in Destinations => AsWanted(d, seen, asked, b)
           /\ b \in Keys /\ PendingAt(d, b) =>
                p.kind = "recovery_required" \/ (Writes(p) /\ p.blocked) \/ Delivered(d)
           /\ b \in Keys /\ ~PendingAt(d, b) /\ CreatesItsResource(p) => ~Mine(d, seen, b)
<1>1. b \in Workspaces \/ b \in Destinations \/ b \in Guardrails \/ b \in Keys
  BY DEF Blocks
<1>2. CASE b \in Workspaces
  <2>1. WorkspaceAction(d, seen, b) \in Proposals(d, seen, asked)
    BY <1>2 DEF Proposals
  <2> QED BY <1>2, <2>1, WorkspaceProposal, WorkspaceMeans, Sections
<1>3. CASE b \in Destinations
  <2>1. DestinationAction(d, seen, asked, b) \in Proposals(d, seen, asked)
    BY <1>3 DEF Proposals
  <2> QED BY <1>3, <2>1, DestinationProposal, DestinationMeans, Sections
<1>4. CASE b \in Guardrails
  <2>1. GuardrailAction(d, seen, b) \in Proposals(d, seen, asked)
    BY <1>4 DEF Proposals
  <2> QED BY <1>4, <2>1, GuardrailProposal, GuardrailMeans, Sections
<1>5. CASE b \in Keys
  <2>1. KeyAction(d, seen, b) \in Proposals(d, seen, asked)
    BY <1>5 DEF Proposals
  <2>2. b \notin Destinations
    BY <1>5, Sections
  <2> QED BY <1>5, <2>1, <2>2, KeyProposal, KeyMeans
<1> QED BY <1>1, <1>2, <1>3, <1>4, <1>5
-----------------------------------------------------------------------------
(* What a run that held nothing back may yet report `applied` of: every    *)
(* place has been written, is to be written, or is as the report says.     *)

Reached(r, on) == on \in r.attempted \/ \E a \in r.todo : a.on = on
Accounts(d, seen, asked, r) ==
  /\ \A b \in Blocks : Reached(r, b) \/ Quiet(d, seen, b)
  /\ \A k \in Keys : Reached(r, Assignment(k)) \/ UnderIts(d, seen, k)
  /\ \A x \in Destinations : Reached(r, x) \/ AsWanted(d, seen, asked, x)
  /\ Unpromoted(d, seen)
  /\ \A a \in r.todo : a.on \in Keys /\ CreatesItsResource(a) => ~Mine(d, seen, a.on)
Through(r) == ~r.disturbed /\ ~r.waiting /\ r.held = {} /\ ~r.skipped

LEMMA BegunAccounts ==
  ASSUME NEW d, Sound(d), NEW seen, Seen(seen), NEW asked, ~Delivered(d),
         ~StopsRun(Plan(d, seen, asked)), ~Begun(Plan(d, seen, asked)).waiting
  PROVE  Accounts(d, seen, asked, Begun(Plan(d, seen, asked)))
<1> DEFINE plan == Plan(d, seen, asked)
           r == Begun(plan)
<1>1. /\ r.todo = {a \in plan : Executable(a)}
      /\ r.waiting = (\E a \in plan : Writes(a) /\ a.blocked)
  BY DEF Begun, Idle
<1>2. \A a \in plan : a.kind # "recovery_required" /\ ~(Writes(a) /\ a.blocked)
  BY <1>1 DEF StopsRun
<1>3. \A p \in Proposals(d, seen, asked) : \E a \in plan :
        /\ a.on = p.on /\ a.kind = p.kind /\ (p.blocked => a.blocked)
        /\ ~a.blocked => a = p
  BY PlanHas
<1>4. \A a \in plan : \E p \in Proposals(d, seen, asked) :
        a.on = p.on /\ a.kind = p.kind /\ (~a.blocked => a = p)
  BY PlanSource
<1> HIDE DEF r, plan
<1>5. ASSUME NEW p \in Proposals(d, seen, asked)
      PROVE  /\ p.kind # "recovery_required" /\ ~(Writes(p) /\ p.blocked)
             /\ Writes(p) => Reached(r, p.on)
  <2>1. PICK a \in plan : /\ a.on = p.on /\ a.kind = p.kind /\ (p.blocked => a.blocked)
                          /\ ~a.blocked => a = p
    BY <1>3
  <2>2. Writes(a) = Writes(p)
    BY <2>1 DEF Writes
  <2> QED BY <1>1, <1>2, <2>1, <2>2 DEF Reached, Executable
<1>6. ASSUME NEW b \in Blocks
      PROVE  /\ Reached(r, b) \/ Quiet(d, seen, b)
             /\ b \in Destinations => Reached(r, b) \/ AsWanted(d, seen, asked, b)
             /\ b \in Keys => ~PendingAt(d, b)
  <2>1. PICK p \in Proposals(d, seen, asked) :
           /\ p.on = b
           /\ ~Writes(p) => \/ Quiet(d, seen, b)
                            \/ PendingAt(d, b) /\ (Delivered(d) \/ p.kind = "recovery_required")
           /\ ~Writes(p) /\ b \in Destinations => AsWanted(d, seen, asked, b)
           /\ b \in Keys /\ PendingAt(d, b) =>
                p.kind = "recovery_required" \/ (Writes(p) /\ p.blocked) \/ Delivered(d)
    BY BlockMeans
  <2> QED BY <1>5, <2>1
<1>7. ASSUME NEW k \in Keys
      PROVE  Reached(r, Assignment(k)) \/ UnderIts(d, seen, k)
  <2>1. ~PendingAt(d, k)
    BY <1>6 DEF Blocks
  <2>2. CASE AssignmentAction(d, seen, k) = {}
    BY <2>1, <2>2, AssignmentMeans
  <2>3. CASE AssignmentAction(d, seen, k) # {}
    <3>1. PICK a \in AssignmentAction(d, seen, k) : TRUE
      BY <2>3
    <3>2. a \in Proposals(d, seen, asked)
      BY <2>1, <3>1 DEF Proposals
    <3>3. a.on = Assignment(k) /\ a.kind \in {"assign", "unassign", "no_op"}
      BY <3>1, AssignmentProposal
    <3>4. a.kind = "no_op" => UnderIts(d, seen, k)
      BY <2>1, <3>1, AssignmentMeans
    <3>5. a.kind # "no_op" => Writes(a)
      BY <3>3 DEF Writes
    <3> QED BY <1>5, <3>2, <3>3, <3>4, <3>5
  <2> QED BY <2>2, <2>3
<1>8. Unpromoted(d, seen)
  <2>1. d.pending # None => d.pending.key \in Keys
    BY DEF Sound, Documents, Pending
  <2> QED BY <1>6, <2>1 DEF Unpromoted, PendingAt, Blocks
<1>9. ASSUME NEW a \in r.todo, a.on \in Keys, CreatesItsResource(a)
      PROVE  ~Mine(d, seen, a.on)
  <2>1. a \in plan /\ ~a.blocked
    BY <1>1, <1>9 DEF Executable
  <2>2. a \in Proposals(d, seen, asked)
    BY <1>4, <2>1
  <2>3. a.on \in Blocks
    BY <1>9 DEF Blocks
  <2>4. PICK p \in Proposals(d, seen, asked) :
           /\ p.on = a.on
           /\ ~PendingAt(d, a.on) /\ CreatesItsResource(p) => ~Mine(d, seen, a.on)
    BY <1>9, <2>3, BlockMeans
  <2>5. p = a
    BY <2>2, <2>4, ProposalsApart
  <2> QED BY <1>6, <1>9, <2>3, <2>4, <2>5
<1> QED BY <1>6, <1>7, <1>8, <1>9 DEF Accounts, r, plan, Blocks

(* The last read, once every place the run wrote to is at rest.            *)
LEMMA SettledAccounts ==
  ASSUME NEW d, Sound(d), NEW seen, Seen(seen), NEW asked, NEW r,
         Accounts(d, seen, asked, r), r.todo = {},
         r.attempted \subseteq Settled(Plan(d, seen, asked))
  PROVE  /\ \A b \in Blocks : Quiet(d, seen, b)
         /\ \A k \in Keys : UnderIts(d, seen, k)
         /\ \A x \in Destinations : AsWanted(d, seen, asked, x)
<1> DEFINE plan == Plan(d, seen, asked)
<1>1. \A on : Reached(r, on) => on \in Settled(plan)
  BY DEF Reached
<1>2. \A p \in Proposals(d, seen, asked) : \E a \in plan : a.on = p.on /\ a.kind = p.kind
  BY PlanHas
<1>3. \A a \in plan : \E p \in Proposals(d, seen, asked) : a.on = p.on /\ a.kind = p.kind
  BY PlanSource
<1> HIDE DEF plan
<1>4. ASSUME NEW p \in Proposals(d, seen, asked), Reached(r, p.on)
      PROVE  p.kind = "no_op" /\ ~Writes(p)
  <2>1. PICK a \in plan : a.on = p.on /\ a.kind = p.kind
    BY <1>2
  <2>2. a.kind = "no_op"
    BY <1>1, <1>4, <2>1 DEF Settled
  <2> QED BY <2>1, <2>2 DEF Writes
<1>5. ASSUME NEW b \in Blocks
      PROVE  /\ Quiet(d, seen, b)
             /\ b \in Destinations => AsWanted(d, seen, asked, b)
  <2>1. PICK p \in Proposals(d, seen, asked) :
           /\ p.on = b
           /\ ~Writes(p) => \/ Quiet(d, seen, b)
                            \/ PendingAt(d, b) /\ (Delivered(d) \/ p.kind = "recovery_required")
           /\ ~Writes(p) /\ b \in Destinations => AsWanted(d, seen, asked, b)
    BY BlockMeans
  <2>2. ASSUME PendingAt(d, b)
        PROVE  Quiet(d, seen, b)
    <3>1. ~Mine(d, seen, b) /\ Named[b] \cap DOMAIN seen # {}
      BY <2>2 DEF Accounts, Unpromoted, PendingAt
    <3>2. b \in Keys
      BY <2>2 DEF PendingAt, Sound, Documents, Pending
    <3>3. IdentityIn(d, b) = d.id[b]
      BY <3>2, Sections DEF IdentityIn
    <3> QED BY <3>1, <3>3 DEF Quiet, Mine
  <2>3. CASE Reached(r, b)
    BY <1>4, <2>1, <2>2, <2>3
  <2>4. CASE ~Reached(r, b)
    BY <2>4 DEF Accounts
  <2> QED BY <2>3, <2>4
<1>6. ASSUME NEW k \in Keys
      PROVE  UnderIts(d, seen, k)
  <2>1. CASE PendingAt(d, k)
    BY <2>1 DEF Accounts, Unpromoted, PendingAt, UnderIts
  <2>2. CASE ~PendingAt(d, k) /\ Reached(r, Assignment(k))
    <3>1. Assignment(k) \in Settled(plan)
      BY <1>1, <2>2
    <3>2. PICK a \in plan : a.on = Assignment(k)
      BY <3>1 DEF Settled
    <3>3. PICK p \in Proposals(d, seen, asked) : p.on = Assignment(k)
      BY <1>3, <3>2
    <3>4. p.kind = "no_op"
      BY <1>4, <2>2, <3>3
    <3>5. p \in AssignmentAction(d, seen, k)
      <4>1. Assignment(k) \notin Blocks
        BY BlockOfAssignment
      <4>2. ~(\E b \in Blocks : p.on = b)
        BY <3>3, <4>1
      <4>3. PICK j \in Keys : p \in AssignmentAction(d, seen, j)
        BY <4>2, ProposalShape, WorkspaceProposal, DestinationProposal, GuardrailProposal,
           KeyProposal DEF Blocks
      <4>4. p.on = Assignment(j)
        BY <4>3, AssignmentProposal
      <4>5. j = k
        BY <3>3, <4>4, BlockOfAssignment
      <4> QED BY <4>3, <4>5
    <3> QED BY <2>2, <3>4, <3>5, AssignmentMeans
  <2>3. CASE ~Reached(r, Assignment(k))
    BY <2>3 DEF Accounts
  <2> QED BY <2>1, <2>2, <2>3
<1> QED BY <1>5, <1>6 DEF Blocks
-----------------------------------------------------------------------------
(* What leaves a report's claims as they were.  OpenRouter: whatever a run *)
(* writes is as configured from then on, objects stay where they are, and  *)
(* nothing bound comes back.  The document: a block that is placed stays   *)
(* placed.                                                                 *)

Steady(d, seen, after) ==
  /\ DOMAIN seen \subseteq DOMAIN after
  /\ \A i \in DOMAIN after :
       \/ after[i].matches
       \/ /\ i \in DOMAIN seen /\ after[i].matches = seen[i].matches
          /\ after[i].within = seen[i].within
  /\ \A i \in DOMAIN after \ Defaults :
       \/ i \in DOMAIN seen /\ after[i].within = seen[i].within
       \/ \A b \in Blocks : d.id[b] # i
Placed(d, e) == \A b \in Blocks : PlacedIn(d, b) # None => PlacedIn(e, b) = PlacedIn(d, b)

LEMMA SteadyItself ==
  ASSUME NEW d, NEW seen
  PROVE  Steady(d, seen, seen) /\ Placed(d, d)
BY DEF Steady, Placed

LEMMA ElsewhereStays ==
  ASSUME NEW d, NEW e, Placed(d, e), NEW b \in Blocks, NEW within, Elsewhere(d, b, within)
  PROVE  Elsewhere(e, b, within)
BY DEF Placed, Elsewhere

LEMMA MineStays ==
  ASSUME NEW d, Sound(d), NEW seen, NEW after, Steady(d, seen, after), NEW e, Placed(d, e),
         NEW b \in Blocks \ Guardrails, e.id[b] = d.id[b], Mine(e, after, b)
  PROVE  Mine(d, seen, b) /\ d.id[b] \in DOMAIN after
<1>1. d.id[b] \in DOMAIN after /\ ~Elsewhere(e, b, after[d.id[b]].within)
  BY DEF Mine
<1>2. d.id[b] \notin Defaults
  <2>1. d.id[b] \in IdsFor(b) \cup {None}
    BY DEF Sound, Kinded
  <2> QED BY <2>1, IdsApart, Sections, KindOfIds DEF Blocks
<1>3. d.id[b] \in DOMAIN seen /\ after[d.id[b]].within = seen[d.id[b]].within
  BY <1>1, <1>2 DEF Steady
<1> QED BY <1>1, <1>3, ElsewhereStays DEF Mine

LEMMA QuietStays ==
  ASSUME NEW d, NEW seen, NEW after, Steady(d, seen, after), NEW e, Placed(d, e),
         NEW b \in Blocks, Quiet(d, seen, b), IdentityIn(e, b) = IdentityIn(d, b),
         b \in Guardrails /\ DefaultConflict(d, b) => DefaultConflict(e, b)
  PROVE  Quiet(e, after, b)
<1> DEFINE id == IdentityIn(d, b)
<1> HIDE DEF id
<1>1. IdentityIn(e, b) = id
  BY DEF id
<1>2. CASE id = None /\ Named[b] \cap DOMAIN seen # {}
  <2>1. Named[b] \cap DOMAIN after # {}
    BY <1>2 DEF Steady
  <2> QED BY <1>1, <1>2, <2>1 DEF Quiet
<1>3. CASE id # None /\ id \notin DOMAIN seen
  <2>1. id \in DOMAIN after => after[id].matches
    BY <1>3 DEF Steady
  <2> QED BY <1>1, <1>3, <2>1 DEF Quiet
<1>4. CASE id \in DOMAIN seen /\ (seen[id].matches \/ Elsewhere(d, b, seen[id].within))
  <2>1. id \in DOMAIN after
    BY <1>4 DEF Steady
  <2>2. after[id].matches \/ (after[id].matches = seen[id].matches /\ after[id].within = seen[id].within)
    BY <2>1 DEF Steady
  <2>3. after[id].matches \/ Elsewhere(e, b, after[id].within)
    BY <1>4, <2>2, ElsewhereStays
  <2> QED BY <1>1, <2>1, <2>3 DEF Quiet
<1>5. CASE b \in Guardrails /\ DefaultConflict(d, b)
  BY <1>5 DEF Quiet
<1> QED BY <1>2, <1>3, <1>4, <1>5 DEF Quiet, id

LEMMA UnderStays ==
  ASSUME NEW d, Sound(d), NEW seen, NEW after, Steady(d, seen, after), NEW e, Placed(d, e),
         NEW k \in Keys, UnderIts(d, seen, k), e.id[k] = d.id[k],
         RailOf[k] # None /\ d.id[RailOf[k]] \in DOMAIN seen => e.id[RailOf[k]] = d.id[RailOf[k]],
         d.id[k] \in DOMAIN seen => after[d.id[k]].under = seen[d.id[k]].under
  PROVE  UnderIts(e, after, k)
<1> SUFFICES ASSUME Mine(e, after, k)
             PROVE  /\ after[e.id[k]].under = IF RailOf[k] = None THEN None ELSE e.id[RailOf[k]]
                    /\ RailOf[k] # None => e.id[RailOf[k]] \in DOMAIN after
  BY DEF UnderIts
<1>1. k \in Blocks \ Guardrails
  BY Sections DEF Blocks
<1>2. Mine(d, seen, k) /\ d.id[k] \in DOMAIN seen
  BY <1>1, MineStays DEF Mine
<1>3. /\ seen[d.id[k]].under = IF RailOf[k] = None THEN None ELSE d.id[RailOf[k]]
      /\ RailOf[k] # None => d.id[RailOf[k]] \in DOMAIN seen
  BY <1>2 DEF UnderIts
<1>4. DOMAIN seen \subseteq DOMAIN after
  BY DEF Steady
<1> QED BY <1>2, <1>3, <1>4

LEMMA UnpromotedStays ==
  ASSUME NEW d, Sound(d), NEW seen, NEW after, Steady(d, seen, after), NEW e, Placed(d, e),
         Unpromoted(d, seen), e.pending = d.pending, \A k \in Keys : e.id[k] = d.id[k]
  PROVE  Unpromoted(e, after)
<1> SUFFICES ASSUME d.pending # None
             PROVE  LET k == d.pending.key
                    IN  /\ Delivered(e) /\ d.pending.hash \in Named[k] \cap DOMAIN after
                        /\ ~Mine(e, after, k)
  BY DEF Unpromoted
<1> DEFINE k == d.pending.key
<1>1. k \in Keys /\ k \in Blocks \ Guardrails
  BY Sections DEF Sound, Documents, Pending, Blocks
<1>2. Delivered(d) /\ d.pending.hash \in Named[k] \cap DOMAIN seen /\ ~Mine(d, seen, k)
  BY DEF Unpromoted
<1>3. ~Mine(e, after, k)
  BY <1>1, <1>2, MineStays
<1> QED BY <1>2, <1>3 DEF Delivered, Steady

LEMMA AccountsKept ==
  ASSUME NEW d, Sound(d), NEW seen, NEW after, Steady(d, seen, after), NEW e, Placed(d, e),
         NEW asked, NEW r, Accounts(d, seen, asked, r), NEW s, NEW on,
         r.attempted \subseteq s.attempted, on \in s.attempted, s.todo \subseteq r.todo,
         \A a \in r.todo : a.on = on \/ a \in s.todo,
         \A a \in s.todo : a.on # on,
         \A b \in Blocks \ Guardrails : b # on => e.id[b] = d.id[b],
         \A x \in Destinations : x # on => e.digest[x] = d.digest[x],
         \A b \in Blocks : b # on /\ Quiet(d, seen, b) => Quiet(e, after, b),
         \A k \in Keys : Assignment(k) # on /\ UnderIts(d, seen, k) => UnderIts(e, after, k),
         Unpromoted(e, after)
  PROVE  Accounts(e, after, asked, s)
<1>1. \A place : Reached(r, place) => Reached(s, place)
  BY DEF Reached
<1>2. Reached(s, on)
  BY DEF Reached
<1>3. \A b \in Blocks : Reached(s, b) \/ Quiet(e, after, b)
  BY <1>1, <1>2 DEF Accounts
<1>4. \A k \in Keys : Reached(s, Assignment(k)) \/ UnderIts(e, after, k)
  BY <1>1, <1>2 DEF Accounts
<1>5. ASSUME NEW x \in Destinations
      PROVE  Reached(s, x) \/ AsWanted(e, after, asked, x)
  <2>1. x \in Blocks \ Guardrails
    BY Sections DEF Blocks
  <2>2. Reached(r, x) \/ AsWanted(d, seen, asked, x)
    BY DEF Accounts
  <2>3. x # on /\ Mine(e, after, x) => Mine(d, seen, x)
    BY <2>1, MineStays
  <2> QED BY <1>1, <1>2, <2>1, <2>2, <2>3 DEF AsWanted
<1>6. ASSUME NEW a \in s.todo, a.on \in Keys, CreatesItsResource(a)
      PROVE  ~Mine(e, after, a.on)
  <2>1. a.on \in Blocks \ Guardrails /\ a.on # on
    BY <1>6, Sections DEF Blocks
  <2>2. ~Mine(d, seen, a.on)
    BY <1>6 DEF Accounts
  <2> QED BY <2>1, <2>2, MineStays
<1> QED BY <1>3, <1>4, <1>5, <1>6 DEF Accounts

(* A write that leaves the document alone.                                 *)
LEMMA WrittenAccounts ==
  ASSUME NEW d, Sound(d), NEW seen, NEW after, Steady(d, seen, after),
         NEW asked, NEW r, Accounts(d, seen, asked, r), NEW s, NEW on,
         r.attempted \subseteq s.attempted, on \in s.attempted, s.todo \subseteq r.todo,
         \A a \in r.todo : a.on = on \/ a \in s.todo,
         \A a \in s.todo : a.on # on,
         \A k \in Keys : Assignment(k) # on /\ d.id[k] \in DOMAIN seen =>
                           after[d.id[k]].under = seen[d.id[k]].under
  PROVE  Accounts(d, after, asked, s)
<1>1. Placed(d, d)
  BY SteadyItself
<1>2. \A b \in Blocks : Quiet(d, seen, b) => Quiet(d, after, b)
  BY <1>1, QuietStays
<1>3. \A k \in Keys : Assignment(k) # on /\ UnderIts(d, seen, k) => UnderIts(d, after, k)
  BY <1>1, UnderStays
<1>4. Unpromoted(d, after)
  BY <1>1, UnpromotedStays DEF Accounts
<1> QED BY <1>1, <1>2, <1>3, <1>4, AccountsKept
-----------------------------------------------------------------------------
(* Recording a binding: beside the block's own, only that of a workspace's *)
(* default guardrail, whose object is not there yet.                       *)

LEMMA RecordedBrings ==
  ASSUME Inv, run.at = "recording", Recordable(run.record)
  PROVE  LET r == run.record
             e == Recorded(r)
         IN  /\ \A b \in Blocks \ {r.on} :
                  \/ e.id[b] = doc.id[b]
                  \/ /\ b \in Guardrails /\ r.on \in Workspaces
                     /\ e.id[b] = r.default /\ r.default # None /\ doc.id[b] \in {None, r.default}
             /\ \A w \in Workspaces :
                  \/ e.default[w] = doc.default[w]
                  \/ /\ r.on \in Workspaces /\ doc.default[w] = None
                     /\ e.default[w] = r.default /\ r.default # None
             /\ \A w \in Workspaces : doc.id[w] # None => e.id[w] = doc.id[w]
             /\ \A x \in Destinations \ {r.on} : e.digest[x] = doc.digest[x]
             /\ e.pending = doc.pending
<1> DEFINE r == run.record
           e == Recorded(r)
<1>1. doc \in Documents /\ r.on \in Blocks /\ r.on \notin Keys
  BY RecordOfRun DEF Inv, Sound
<1>2. CASE r.on \in Workspaces
  <2> DEFINE f == BindWorkspace(doc, r.on, r.id, r.default)
             g == DefaultOf[r.on]
  <2>1. /\ e = BindDefault(f, r.on, r.default)
        /\ CanBind(doc, r.on, r.id) /\ CanBindDefault(doc, r.on, r.default)
    BY <1>2, Sections DEF Recorded, Recordable
  <2> HIDE DEF e, r
  <2>2. /\ f.id = [doc.id EXCEPT ![r.on] = r.id] /\ f.digest = doc.digest /\ f.pending = doc.pending
        /\ f.default = [doc.default EXCEPT ![r.on] = IF @ = None THEN r.default ELSE @]
    BY <1>1 DEF BindWorkspace, Bind, Documents
  <2>3. doc.id[r.on] \in {r.id, None}
    BY <2>1 DEF CanBind
  <2>4. CASE g = None \/ r.default = None
    <3>1. e = f
      BY <2>1, <2>4 DEF BindDefault
    <3> HIDE DEF f
    <3>2. \A b \in Blocks : e.id[b] = IF b = r.on THEN r.id ELSE doc.id[b]
      BY <1>1, <2>2, <3>1 DEF Documents
    <3>3. \A w \in Workspaces : w \in Blocks /\ e.default[w] =
             IF w = r.on /\ doc.default[w] = None THEN r.default ELSE doc.default[w]
      BY <1>1, <1>2, <2>2, <3>1 DEF Documents, Blocks
    <3>4. e.digest = doc.digest /\ e.pending = doc.pending
      BY <2>2, <3>1
    <3> QED BY <1>2, <2>3, <3>2, <3>3, <3>4 DEF r, e
  <2>5. CASE g # None /\ r.default # None
    <3>1. g \in Guardrails /\ CanBind(doc, g, r.default)
      BY <1>2, <2>1, <2>5, SectionsAssumption DEF CanBindDefault
    <3>2. doc.id[g] \in {None, r.default} /\ g \in Blocks /\ g # r.on
      BY <1>2, <3>1, Sections DEF CanBind, Blocks
    <3>3. e = [f EXCEPT !.id[g] = r.default]
      BY <2>1, <2>5 DEF BindDefault, Bind
    <3>4. /\ e.id = [f.id EXCEPT ![g] = r.default] /\ e.digest = f.digest
          /\ e.pending = f.pending /\ e.default = f.default
      BY <1>1, <3>3 DEF BindWorkspace, Bind, Documents
    <3> HIDE DEF f, g
    <3>5. /\ e.id = [[doc.id EXCEPT ![r.on] = r.id] EXCEPT ![g] = r.default]
          /\ e.digest = doc.digest /\ e.pending = doc.pending
          /\ e.default = [doc.default EXCEPT ![r.on] = IF @ = None THEN r.default ELSE @]
      BY <2>2, <3>4
    <3>6. \A w \in Workspaces : w \in Blocks /\ w # g
      BY <3>1, Sections DEF Blocks
    <3>7. \A b \in Blocks : e.id[b] = IF b = g THEN r.default ELSE IF b = r.on THEN r.id ELSE doc.id[b]
      BY <1>1, <3>2, <3>5 DEF Documents
    <3>8. \A w \in Workspaces : e.default[w] =
             IF w = r.on /\ doc.default[w] = None THEN r.default ELSE doc.default[w]
      BY <1>1, <1>2, <3>5 DEF Documents
    <3> QED BY <1>2, <2>3, <2>5, <3>1, <3>2, <3>5, <3>6, <3>7, <3>8 DEF r, e
  <2> QED BY <2>4, <2>5
<1>3. CASE r.on \in Destinations
  <2>1. e = BindDestination(doc, r.on, r.id, r.digest)
    BY <1>3, Sections DEF Recorded
  <2> HIDE DEF e, r
  <2>2. /\ e.id = [doc.id EXCEPT ![r.on] = r.id] /\ e.default = doc.default
        /\ e.pending = doc.pending
        /\ \A x \in Destinations \ {r.on} : e.digest[x] = doc.digest[x]
    BY <1>1, <2>1 DEF BindDestination, Bind, Documents
  <2>3. \A w \in Workspaces : w # r.on /\ w \in Blocks
    BY <1>3, Sections DEF Blocks
  <2> QED BY <1>1, <2>2, <2>3 DEF Documents, r, e
<1>4. CASE r.on \in Guardrails
  <2>1. e = Bind(doc, r.on, r.id)
    BY <1>4, Sections DEF Recorded
  <2> HIDE DEF e, r
  <2>2. /\ e.id = [doc.id EXCEPT ![r.on] = r.id] /\ e.default = doc.default
        /\ e.pending = doc.pending /\ e.digest = doc.digest
    BY <1>1, <2>1 DEF Bind, Documents
  <2>3. \A w \in Workspaces : w # r.on /\ w \in Blocks
    BY <1>4, Sections DEF Blocks
  <2> QED BY <1>1, <2>2, <2>3 DEF Documents, r, e
<1> QED BY <1>1, <1>2, <1>3, <1>4 DEF Blocks

LEMMA RecordedPlaced ==
  ASSUME Inv, run.at = "recording", Recordable(run.record)
  PROVE  Placed(doc, Recorded(run.record))
<1> DEFINE e == Recorded(run.record)
<1>1. \A w \in Workspaces : doc.id[w] # None => e.id[w] = doc.id[w]
  BY RecordedBrings
<1> HIDE DEF e
<1> SUFFICES ASSUME NEW b \in Blocks, PlacedIn(doc, b) # None
             PROVE  PlacedIn(e, b) = PlacedIn(doc, b)
  BY DEF Placed, e
<1> QED BY <1>1, HomeIsWorkspace DEF PlacedIn

(* A guardrail that the record is not about stays quiet: what it newly     *)
(* answers to is not there yet.                                            *)
LEMMA RecordedGuardrail ==
  ASSUME Inv, run.at = "recording", Recordable(run.record), ~run.disturbed,
         run.record.on \in Workspaces => DefaultGuardrail(run.record.id) \notin DOMAIN remote,
         NEW g \in Guardrails, g # run.record.on, Quiet(doc, remote, g)
  PROVE  Quiet(Recorded(run.record), remote, g)
<1> DEFINE r == run.record
           e == Recorded(r)
<1>1. /\ g \in Blocks /\ IdentityIn(doc, g) = GuardrailIdentity(doc, g)
      /\ IdentityIn(e, g) = GuardrailIdentity(e, g)
  BY DEF Blocks, IdentityIn
<1>2. /\ \A b \in Blocks \ {r.on} :
           \/ e.id[b] = doc.id[b]
           \/ /\ b \in Guardrails /\ r.on \in Workspaces
              /\ e.id[b] = r.default /\ r.default # None /\ doc.id[b] \in {None, r.default}
      /\ \A w \in Workspaces :
           \/ e.default[w] = doc.default[w]
           \/ /\ r.on \in Workspaces /\ doc.default[w] = None
              /\ e.default[w] = r.default /\ r.default # None
  BY RecordedBrings
<1>3. /\ r.on \in Workspaces /\ r.default # None => r.default \notin DOMAIN remote
      /\ Placed(doc, e) /\ Steady(doc, remote, remote)
  BY RecordOfRun, RecordedPlaced, SteadyItself
<1>4. /\ e.id[r.on] = r.id
      /\ doc.id[r.on] \in DOMAIN remote => doc.id[r.on] = r.id
  BY RecordedSound
<1> HIDE DEF r, e
<1>5. NamedDefault(e, g) # NamedDefault(doc, g) =>
        /\ r.on \in Workspaces /\ NamedDefault(doc, g) = None
        /\ NamedDefault(e, g) = r.default /\ r.default # None
  BY <1>2, DefaultingToBlock DEF NamedDefault
<1>6. ASSUME IdentityIn(e, g) = r.default, r.default # None, r.on \in Workspaces
      PROVE  Quiet(e, remote, g)
  BY <1>3, <1>6 DEF Quiet
<1>7. CASE e.id[g] # doc.id[g]
  <2>1. r.on \in Workspaces /\ e.id[g] = r.default /\ r.default # None
    BY <1>1, <1>2, <1>7 DEF r
  <2> QED BY <1>1, <1>6, <2>1 DEF GuardrailIdentity, Bound, r, e
<1>8. CASE e.id[g] = doc.id[g] /\ IdentityIn(e, g) # IdentityIn(doc, g)
  <2>1. ~Bound(e, g) /\ ~Bound(doc, g) /\ NamedDefault(e, g) # NamedDefault(doc, g)
    BY <1>1, <1>8 DEF GuardrailIdentity, Bound
  <2>2. IdentityIn(e, g) = NamedDefault(e, g)
    BY <1>1, <2>1 DEF GuardrailIdentity
  <2> QED BY <1>5, <1>6, <2>1, <2>2 DEF e, r
<1>9. CASE e.id[g] = doc.id[g] /\ IdentityIn(e, g) = IdentityIn(doc, g)
  <2>1. CASE DefaultConflict(doc, g) => DefaultConflict(e, g)
    BY <1>1, <1>3, <1>9, <2>1, QuietStays DEF e, r
  <2>2. CASE DefaultConflict(doc, g) /\ ~DefaultConflict(e, g)
    <3>1. NamedDefault(doc, g) # None /\ NamedDefault(e, g) = NamedDefault(doc, g)
      BY <1>5, <2>2 DEF DefaultConflict
    <3>2. ~Bound(doc, g) /\ ~Bound(e, g)
      BY <1>9, <2>2, <3>1 DEF DefaultConflict, Bound
    <3>3. PICK h \in Guardrails : doc.id[h] = NamedDefault(doc, g)
      BY <2>2, <3>2 DEF DefaultConflict
    <3>4. e.id[h] # doc.id[h]
      BY <2>2, <3>1, <3>2, <3>3 DEF DefaultConflict
    <3>5. h = r.on
      <4>1. h # r.on => e.id[h] = r.default /\ doc.id[h] \in {None, r.default}
        BY <1>2, <3>4 DEF Blocks
      <4> QED BY <3>1, <3>3, <3>4, <4>1
    <3>6. doc.id[h] \notin DOMAIN remote
      BY <1>4, <3>4, <3>5
    <3>7. IdentityIn(e, g) = NamedDefault(doc, g)
      BY <1>1, <3>1, <3>2 DEF GuardrailIdentity
    <3> QED BY <3>1, <3>3, <3>6, <3>7 DEF Quiet, e, r
  <2> QED BY <2>1, <2>2
<1> QED BY <1>7, <1>8, <1>9

LEMMA RecordedQuiet ==
  ASSUME Inv, run.at = "recording", Recordable(run.record), ~run.disturbed,
         run.record.on \in Workspaces => DefaultGuardrail(run.record.id) \notin DOMAIN remote,
         NEW b \in Blocks, b # run.record.on, Quiet(doc, remote, b)
  PROVE  Quiet(Recorded(run.record), remote, b)
<1>1. CASE b \in Guardrails
  BY <1>1, RecordedGuardrail
<1>2. CASE b \notin Guardrails
  <2> DEFINE e == Recorded(run.record)
  <2>1. e.id[b] = doc.id[b] /\ Placed(doc, e) /\ Steady(doc, remote, remote)
    BY <1>2, RecordedBrings, RecordedPlaced, SteadyItself
  <2> HIDE DEF e
  <2>2. IdentityIn(e, b) = IdentityIn(doc, b)
    BY <1>2, <2>1 DEF IdentityIn
  <2> QED BY <1>2, <2>1, <2>2, QuietStays DEF e
<1> QED BY <1>1, <1>2

LEMMA RecordedUnder ==
  ASSUME Inv, run.at = "recording", Recordable(run.record), ~run.disturbed,
         NEW k \in Keys, UnderIts(doc, remote, k)
  PROVE  UnderIts(Recorded(run.record), remote, k)
<1> DEFINE r == run.record
           e == Recorded(r)
           rail == RailOf[k]
<1>1. k \in Blocks \ Guardrails /\ k # r.on
  BY RecordOfRun, Sections DEF Blocks
<1>2. Placed(doc, e) /\ Steady(doc, remote, remote) /\ Sound(doc) /\ None \notin DOMAIN remote
  BY RecordedPlaced, SteadyItself, NoneIsUnseen DEF Inv
<1>3. e.id[k] = doc.id[k]
  BY <1>1, RecordedBrings
<1>4. ASSUME rail # None, doc.id[rail] \in DOMAIN remote
      PROVE  e.id[rail] = doc.id[rail]
  <2>1. rail \in Blocks
    BY <1>4, SectionsAssumption DEF Blocks
  <2>2. CASE rail = r.on
    BY <1>4, <2>2, RecordedSound
  <2>3. CASE rail # r.on
    <3>1. \/ e.id[rail] = doc.id[rail]
          \/ e.id[rail] = r.default /\ doc.id[rail] \in {None, r.default}
      BY <2>1, <2>3, RecordedBrings
    <3> QED BY <1>2, <1>4, <3>1
  <2> QED BY <2>2, <2>3
<1> HIDE DEF e, r
<1> QED BY <1>2, <1>3, <1>4, UnderStays DEF e, r

LEMMA RecordedAccounts ==
  ASSUME Inv, run.at = "recording", Recordable(run.record), ~run.disturbed,
         run.record.on \in Workspaces => DefaultGuardrail(run.record.id) \notin DOMAIN remote,
         run.record.on \in run.attempted, Accounts(doc, remote, want, run),
         NEW s, s.attempted = run.attempted, s.todo = run.todo
  PROVE  Accounts(Recorded(run.record), remote, want, s)
<1> DEFINE r == run.record
           e == Recorded(r)
<1>1. /\ Sound(doc) /\ Placed(doc, e) /\ Steady(doc, remote, remote)
      /\ r # None /\ r.on \in Blocks /\ r.on \notin Keys
  BY RecordOfRun, RecordedPlaced, SteadyItself, NoRecordAssumption DEF Inv
<1>2. /\ \A b \in Blocks \ Guardrails : b # r.on => e.id[b] = doc.id[b]
      /\ \A x \in Destinations : x # r.on => e.digest[x] = doc.digest[x]
      /\ e.pending = doc.pending
  BY RecordedBrings
<1>3. \A b \in Blocks : b # r.on /\ Quiet(doc, remote, b) => Quiet(e, remote, b)
  BY RecordedQuiet
<1>4. \A k \in Keys : UnderIts(doc, remote, k) => UnderIts(e, remote, k)
  BY RecordedUnder
<1>5. \A a \in s.todo : a.on # r.on
  BY <1>1 DEF Inv, Scheduled
<1> HIDE DEF e, r
<1>6. \A k \in Keys : e.id[k] = doc.id[k]
  <2>1. \A k \in Keys : k \in Blocks \ Guardrails /\ k # r.on
    BY <1>1, Sections DEF Blocks
  <2> QED BY <1>2, <2>1
<1>7. Unpromoted(e, remote)
  BY <1>1, <1>2, <1>6, UnpromotedStays DEF Accounts
<1> QED BY <1>1, <1>2, <1>3, <1>4, <1>5, <1>7, AccountsKept DEF e, r
-----------------------------------------------------------------------------
(* The run, as far as its report depends on it.                            *)

Clear(d, seen, asked) == ~Delivered(d) /\ \A a \in Plan(d, seen, asked) : ~HoldsBack(a)

Progress ==
  /\ run.at \in {"executing", "recording"} /\ Through(run) => Accounts(doc, remote, want, run)
  /\ run.todo # {} \/ run.at = "recording" => run.left
  /\ run.at = "executing" /\ ~run.disturbed /\ ~run.left => Clear(doc, remote, want)
  /\ run.at = "verifying" => run.failed
  /\ run.at = "recording" =>
       /\ run.record.on \in run.attempted
       /\ run.record.on \in Workspaces /\ ~run.disturbed =>
            DefaultGuardrail(run.record.id) \notin DOMAIN remote

(* A run with nothing under way has nothing to account for.                *)
LEMMA StillProgress ==
  ASSUME run'.todo = {},
         \/ run'.at \in {"idle", "deleting", "reported"}
         \/ run'.at = "verifying" /\ run'.failed
  PROVE  Progress'
BY DEF Progress

(* One more place has been seen to.                                        *)
Advances(a) ==
  /\ run'.attempted = run.attempted \cup {a.on} /\ run'.todo = run.todo \ {a}
  /\ run'.held = run.held /\ run'.waiting = run.waiting /\ run'.skipped = run.skipped
  /\ run'.left = run.left /\ run'.disturbed = run.disturbed

LEMMA NextFields ==
  ASSUME Inv, NEW a \in run.todo
  PROVE  /\ run' = Done(a) => Advances(a) /\ run'.at = run.at
         /\ \A record \in Records : run' = Recording(a, record) =>
              Advances(a) /\ run'.at = "recording" /\ run'.record = record
         /\ \A k : run' = [Done(a) EXCEPT !.issued = @ \cup {k}] => Advances(a) /\ run'.at = run.at
         /\ run' = Failed(a) => run'.todo = {} /\ run'.at = "verifying" /\ run'.failed
         /\ run' = Unmade(a) => run'.at = run.at /\ run'.left = run.left /\ run'.held # {}
         /\ run' = Skipped(a) => run'.at = run.at /\ run'.left = run.left /\ run'.skipped
<1>1. run \in RunState
  BY DEF Inv
<1>2. run' = Done(a) => Advances(a) /\ run'.at = run.at
  BY <1>1 DEF RunState, Done, Advances
<1>3. Done(a) \in [at : At, todo : SUBSET Actions, record : Records \cup {None},
             held : SUBSET Placeable, attempted : SUBSET Placeable, issued : SUBSET Keys,
             waiting : BOOLEAN, left : BOOLEAN, failed : BOOLEAN, skipped : BOOLEAN,
             outcome : Outcomes \cup {None}, disturbed : BOOLEAN]
  BY NextRuns DEF Onward, RunState
<1>4. /\ Done(a).attempted = run.attempted \cup {a.on} /\ Done(a).todo = run.todo \ {a}
      /\ Done(a).held = run.held /\ Done(a).waiting = run.waiting
      /\ Done(a).skipped = run.skipped /\ Done(a).left = run.left
      /\ Done(a).disturbed = run.disturbed /\ Done(a).at = run.at
  BY <1>1 DEF RunState, Done
<1>5. \A record \in Records : run' = Recording(a, record) =>
        Advances(a) /\ run'.at = "recording" /\ run'.record = record
  BY <1>3, <1>4 DEF Recording, Advances
<1>6. \A k : run' = [Done(a) EXCEPT !.issued = @ \cup {k}] => Advances(a) /\ run'.at = run.at
  BY <1>3, <1>4 DEF Advances
<1>7. run' = Failed(a) => run'.todo = {} /\ run'.at = "verifying" /\ run'.failed
  BY <1>1 DEF RunState, Failed
<1>8. run' = Unmade(a) => run'.at = run.at /\ run'.left = run.left /\ run'.held # {}
  BY <1>1 DEF RunState, Unmade
<1>9. run' = Skipped(a) => run'.at = run.at /\ run'.left = run.left /\ run'.skipped
  BY <1>1 DEF RunState, Skipped
<1> QED BY <1>2, <1>5, <1>6, <1>7, <1>8, <1>9

LEMMA AdvanceProgress ==
  ASSUME Inv, Progress, run.at = "executing", NEW a \in run.todo, want' = want, Advances(a),
         \/ run'.at = "executing"
         \/ /\ run'.at = "recording" /\ run'.record.on = a.on
            /\ a.on \in Workspaces => DefaultGuardrail(run'.record.id) \notin DOMAIN remote',
         Accounts(doc, remote, want, run) => Accounts(doc', remote', want, run')
  PROVE  Progress'
<1>1. run.left /\ run'.left
  BY DEF Progress, Advances
<1>2. Through(run') => Accounts(doc', remote', want', run')
  BY DEF Progress, Through, Advances
<1>3. a.on \in run'.attempted
  BY DEF Advances
<1> QED BY <1>1, <1>2, <1>3 DEF Progress

LEMMA GoneProgress ==
  ASSUME Inv, Progress, run.at = "executing", NEW a \in run.todo,
         run' \in {Failed(a), Unmade(a), Skipped(a)}
  PROVE  Progress'
<1>1. CASE run' = Failed(a)
  BY <1>1, NextFields, StillProgress
<1>2. CASE run' \in {Unmade(a), Skipped(a)}
  <2>1. run'.at = "executing" /\ run'.left /\ ~Through(run')
    BY <1>2, NextFields DEF Progress, Through
  <2> QED BY <2>1 DEF Progress
<1> QED BY <1>1, <1>2

(* A write which leaves the document alone and the objects steady.         *)
LEMMA WriteAdvances ==
  ASSUME Inv, Progress, run.at = "executing", NEW a \in run.todo, want' = want, Advances(a),
         doc' = doc, Steady(doc, remote, remote'),
         \A k \in Keys : Assignment(k) # a.on /\ doc.id[k] \in DOMAIN remote =>
                           remote'[doc.id[k]].under = remote[doc.id[k]].under,
         \/ run'.at = "executing"
         \/ /\ run'.at = "recording" /\ run'.record.on = a.on
            /\ a.on \in Workspaces => DefaultGuardrail(run'.record.id) \notin DOMAIN remote'
  PROVE  Progress'
<1>1. \A b \in run.todo \ {a} : b.on # a.on
  BY DEF Inv, Scheduled
<1>2. /\ run.attempted \subseteq run'.attempted /\ a.on \in run'.attempted
      /\ run'.todo \subseteq run.todo
      /\ \A b \in run.todo : b.on = a.on \/ b \in run'.todo
      /\ \A b \in run'.todo : b.on # a.on
  BY <1>1 DEF Advances
<1>3. Accounts(doc, remote, want, run) => Accounts(doc', remote', want, run')
  BY <1>2, WrittenAccounts DEF Inv
<1> QED BY <1>3, AdvanceProgress

LEMMA PatchProgress ==
  ASSUME Inv, Progress, run.at = "executing", NEW a \in run.todo,
         NEW after, NEW next, Patch(a, after, next), Steady(doc, remote, after),
         \A k \in Keys : Assignment(k) # a.on /\ doc.id[k] \in DOMAIN remote =>
                           after[doc.id[k]].under = remote[doc.id[k]].under,
         \/ next = Done(a)
         \/ \E record \in Records : /\ next = Recording(a, record) /\ record.on = a.on
                                    /\ a.on \notin Workspaces
  PROVE  Progress'
<1>1. doc' = doc /\ want' = want /\ remote' \in {after, remote} /\ run' \in {next, Failed(a)}
  BY DEF Patch
<1>2. CASE run' = Failed(a)
  BY <1>2, GoneProgress
<1>3. CASE run' = next
  <2>1. Steady(doc, remote, remote')
    BY <1>1, SteadyItself
  <2>2. \A k \in Keys : Assignment(k) # a.on /\ doc.id[k] \in DOMAIN remote =>
                          remote'[doc.id[k]].under = remote[doc.id[k]].under
    BY <1>1
  <2>3. /\ Advances(a)
        /\ \/ run'.at = "executing"
           \/ run'.at = "recording" /\ run'.record.on = a.on /\ a.on \notin Workspaces
    BY <1>3, NextFields
  <2> QED BY <1>1, <2>1, <2>2, <2>3, WriteAdvances
<1> QED BY <1>1, <1>2, <1>3

LEMMA WithSteady ==
  ASSUME Inv, NEW id, NEW object, object.matches,
         id \notin Defaults => id \notin DOMAIN remote /\ \A b \in Blocks : doc.id[b] # id
  PROVE  /\ Steady(doc, remote, With(id, object))
         /\ \A k \in Keys : doc.id[k] \in DOMAIN remote =>
              With(id, object)[doc.id[k]].under = remote[doc.id[k]].under
<1>1. /\ DOMAIN With(id, object) = DOMAIN remote \cup {id}
      /\ \A i \in DOMAIN With(id, object) :
           With(id, object)[i] = IF i = id THEN object ELSE remote[i]
  BY DEF With
<1>2. Steady(doc, remote, With(id, object))
  BY <1>1 DEF Steady
<1>3. \A k \in Keys : doc.id[k] # id \/ id \notin DOMAIN remote
  <2>1. \A k \in Keys : doc.id[k] \in KeyIds \cup {None}
    BY KindOfIds DEF Inv, Sound, Kinded, Blocks
  <2> QED BY <2>1, IdsApart, Sections DEF Blocks
<1> QED BY <1>1, <1>2, <1>3

LEMMA PostProgress ==
  ASSUME Inv, Progress, run.at = "executing", NEW a \in run.todo, a.on \in Blocks,
         NEW i \in Fresh(a.on), NEW object, object.matches,
         NEW record \in Records, record.on = a.on, record.id = i, Post(a, i, object, record)
  PROVE  Progress'
<1>1. /\ doc' = doc /\ want' = want
      /\ run' = Failed(a) \/ (run' = Recording(a, record) /\ remote' = With(i, object))
  BY DEF Post
<1>2. CASE run' = Failed(a)
  BY <1>2, GoneProgress
<1>3. CASE run' = Recording(a, record) /\ remote' = With(i, object)
  <2>1. i \notin DOMAIN remote /\ \A b \in Blocks : doc.id[b] # i
    BY FreshIsNew
  <2>2. /\ Steady(doc, remote, remote')
        /\ \A k \in Keys : doc.id[k] \in DOMAIN remote =>
             remote'[doc.id[k]].under = remote[doc.id[k]].under
    BY <1>3, <2>1, WithSteady
  <2>3. Advances(a) /\ run'.at = "recording" /\ run'.record = record
    BY <1>3, NextFields
  <2>4. ASSUME a.on \in Workspaces
        PROVE  DefaultGuardrail(i) \notin DOMAIN remote'
    <3>1. DefaultGuardrail(i) \notin DOMAIN remote
      BY DEF Fresh
    <3>2. i \in WorkspaceIds /\ i \notin Defaults
      BY <2>4, FreshIsNew, KindOfIds
    <3>3. DefaultGuardrail(i) # i
      BY <3>2, KindOfIds
    <3> QED BY <1>3, <3>1, <3>3 DEF With
  <2> QED BY <1>1, <2>2, <2>3, <2>4, WriteAdvances
<1> QED BY <1>1, <1>2, <1>3

LEMMA PatchedSteady ==
  ASSUME Inv, NEW id \in DOMAIN remote
  PROVE  /\ Steady(doc, remote, Patched(id))
         /\ \A k \in Keys : doc.id[k] \in DOMAIN remote =>
              Patched(id)[doc.id[k]].under = remote[doc.id[k]].under
<1>1. DOMAIN Patched(id) = DOMAIN remote
  BY DEF Patched
<1>2. ASSUME NEW i \in DOMAIN remote
      PROVE  /\ Patched(id)[i].under = remote[i].under /\ Patched(id)[i].within = remote[i].within
             /\ Patched(id)[i].matches \/ Patched(id)[i].matches = remote[i].matches
  <2>1. remote[i] \in Objects
    BY DEF Inv, Seen
  <2> QED BY <2>1 DEF Patched, Objects
<1> QED BY <1>1, <1>2 DEF Steady

LEMMA UpdateProgress ==
  ASSUME Inv, Progress, run.at = "executing", NEW a \in run.todo,
         UpdateWorkspace(a) \/ UpdateKey(a)
  PROVE  Progress'
<1>1. CASE a.id \in DOMAIN remote
  <2>1. Patch(a, Patched(a.id), Done(a))
    BY <1>1 DEF UpdateWorkspace, UpdateKey
  <2> QED BY <1>1, <2>1, PatchedSteady, PatchProgress
<1>2. CASE a.id \notin DOMAIN remote
  BY <1>2, GoneProgress DEF UpdateWorkspace, UpdateKey, Gone
<1> QED BY <1>1, <1>2

LEMMA CreateWorkspaceProgress ==
  ASSUME Inv, Progress, run.at = "executing", NEW a \in run.todo, a.on \in Workspaces,
         CreateWorkspace(a.on, a)
  PROVE  Progress'
<1> PICK i \in Fresh(a.on) : \E default \in {DefaultGuardrail(i), None} :
         Post(a, i, Object(None, None, None),
              [on |-> a.on, id |-> i, default |-> default, digest |-> None])
  BY DEF CreateWorkspace
<1> PICK default \in {DefaultGuardrail(i), None} :
         Post(a, i, Object(None, None, None),
              [on |-> a.on, id |-> i, default |-> default, digest |-> None])
  OBVIOUS
<1> DEFINE record == [on |-> a.on, id |-> i, default |-> default, digest |-> None]
<1>1. a.on \in Blocks
  BY DEF Blocks
<1>2. i \in Ids /\ i \in WorkspaceIds
  BY <1>1, FreshIsNew, KindOfIds
<1>3. default \in Defaults \cup {None}
  BY <1>2, KindOfIds
<1>4. record \in Records /\ record.on = a.on /\ record.id = i
  BY <1>1, <1>2, <1>3 DEF Records
<1>5. Object(None, None, None).matches
  BY DEF Object
<1> HIDE DEF record
<1> QED BY <1>1, <1>4, <1>5, PostProgress DEF record

LEMMA CreateDestinationProgress ==
  ASSUME Inv, Progress, run.at = "executing", NEW a \in run.todo, a.on \in Destinations,
         CreateDestination(a.on, a)
  PROVE  Progress'
<1> DEFINE record(i) == [on |-> a.on, id |-> i, default |-> None, digest |-> want[a.on]]
           object == Object(PlacedIn(doc, a.on), None, want[a.on])
<1> PICK i \in Fresh(a.on) : Post(a, i, object, record(i))
  BY DEF CreateDestination
<1>1. a.on \in Blocks
  BY DEF Blocks
<1>2. i \in Ids
  BY <1>1, FreshIsNew
<1>3. record(i) \in Records /\ record(i).on = a.on /\ record(i).id = i
  BY <1>1, <1>2 DEF Records, Inv
<1>4. object.matches
  BY DEF Object
<1> HIDE DEF record, object
<1> QED BY <1>1, <1>3, <1>4, PostProgress

LEMMA UpdateDestinationProgress ==
  ASSUME Inv, Progress, run.at = "executing", NEW a \in run.todo, a.on \in Destinations,
         a.kind = "update", UpdateDestination(a.on, a)
  PROVE  Progress'
<1>1. a.on \in Blocks /\ a.on \notin Guardrails /\ a.on \notin Workspaces
  BY Sections DEF Blocks
<1>2. Seen(remote) /\ a.id = doc.id[a.on] /\ a.id # None
  BY <1>1, InTurn DEF Due, OwnIdentity
<1>3. CASE a.id \notin DOMAIN remote
  BY <1>3, GoneProgress DEF UpdateDestination, Gone
<1>4. CASE a.id \in DOMAIN remote
  <2> DEFINE after == [remote EXCEPT ![a.id].matches = TRUE,
                                     ![a.id].config = IF a.config THEN want[a.on] ELSE @]
             record == [on |-> a.on, id |-> a.id, default |-> None, digest |-> want[a.on]]
             next == IF a.config THEN Recording(a, record) ELSE Done(a)
  <2>1. Patch(a, after, next)
    BY <1>4 DEF UpdateDestination
  <2>2. record \in Records /\ record.on = a.on
    BY <1>1, <1>2, InTurn DEF Records, Inv, Documents
  <2>3. DOMAIN after = DOMAIN remote
    OBVIOUS
  <2>4. ASSUME NEW i \in DOMAIN remote
        PROVE  /\ after[i].under = remote[i].under /\ after[i].within = remote[i].within
               /\ after[i].matches \/ after[i].matches = remote[i].matches
    <3>1. remote[i] \in Objects
      BY <1>2 DEF Seen
    <3> QED BY <3>1 DEF Objects
  <2> HIDE DEF after, record
  <2>5. Steady(doc, remote, after)
    BY <2>3, <2>4 DEF Steady
  <2> QED BY <1>1, <2>1, <2>2, <2>4, <2>5, PatchProgress
<1> QED BY <1>3, <1>4

LEMMA UpdateGuardrailProgress ==
  ASSUME Inv, Progress, run.at = "executing", NEW a \in run.todo, a.on \in Guardrails,
         UpdateGuardrail(a.on, a)
  PROVE  Progress'
<1>1. a.on \in Blocks /\ a.on \notin Workspaces
  BY Sections DEF Blocks
<1>2. CASE a.id \notin DOMAIN remote
  BY <1>2, GoneProgress DEF UpdateGuardrail, Gone
<1>3. CASE a.id \in DOMAIN remote
  <2> DEFINE record == DefaultRecord(a.on, a.id)
             next == IF WorkspaceDefault(a.on) = a.id /\ ~Bound(doc, a.on)
                       THEN Recording(a, record) ELSE Done(a)
  <2>1. Patch(a, Patched(a.id), next)
    BY <1>3 DEF UpdateGuardrail
  <2>2. record \in Records /\ record.on = a.on
    BY <1>1, <1>3 DEF Records, DefaultRecord, Inv, Seen
  <2> HIDE DEF record
  <2> QED BY <1>1, <1>3, <2>1, <2>2, PatchedSteady, PatchProgress
<1> QED BY <1>2, <1>3

LEMMA MaterializeProgress ==
  ASSUME Inv, Progress, run.at = "executing", NEW a \in run.todo, a.on \in Guardrails,
         WorkspaceDefault(a.on) # None, Materialize(a.on, a, WorkspaceDefault(a.on))
  PROVE  Progress'
<1> DEFINE g == a.on
           id == WorkspaceDefault(g)
           home == CHOOSE i \in WorkspaceIds : DefaultGuardrail(i) = id
           after == With(id, Object(home, None, None))
           record == DefaultRecord(g, id)
           next == IF Bound(doc, g) THEN Done(a) ELSE Recording(a, record)
<1>1. g \in Blocks /\ g \notin Workspaces
  BY Sections DEF Blocks
<1>2. id \in Defaults /\ id \in Ids
  <2>1. \E w \in Workspaces : doc.default[w] = id
    BY InTurn, NamedDefaultTyped DEF WorkspaceDefault
  <2>2. id \in Defaults
    BY <2>1, InTurn DEF Documents
  <2> QED BY <1>1, <2>2, KindOfIds
<1>3. CASE home \notin DOMAIN remote
  BY <1>3, GoneProgress DEF Materialize, Gone
<1>4. CASE home \in DOMAIN remote
  <2>1. Patch(a, after, next)
    BY <1>4 DEF Materialize
  <2>2. record \in Records /\ record.on = a.on
    BY <1>1, <1>2 DEF Records, DefaultRecord
  <2>3. Object(home, None, None).matches
    BY DEF Object
  <2>4. /\ Steady(doc, remote, after)
        /\ \A k \in Keys : doc.id[k] \in DOMAIN remote =>
             after[doc.id[k]].under = remote[doc.id[k]].under
    <3> HIDE DEF home, id
    <3> QED BY <1>2, <2>3, WithSteady
  <2> HIDE DEF after, record, home, id
  <2> QED BY <1>1, <2>1, <2>2, <2>4, PatchProgress
<1> QED BY <1>3, <1>4

LEMMA CreateGuardrailProgress ==
  ASSUME Inv, Progress, run.at = "executing", NEW a \in run.todo, a.on \in Guardrails,
         CreateGuardrail(a.on, a)
  PROVE  Progress'
<1>1. CASE WorkspaceDefault(a.on) # None /\ Materialize(a.on, a, WorkspaceDefault(a.on))
  BY <1>1, MaterializeProgress
<1>2. CASE run' = Unmade(a)
  BY <1>2, GoneProgress
<1>3. ASSUME NEW i \in Fresh(a.on),
             Post(a, i, Object(PlacedIn(doc, a.on), None, None), DefaultRecord(a.on, i))
      PROVE  Progress'
  <2>1. a.on \in Blocks
    BY DEF Blocks
  <2>2. /\ DefaultRecord(a.on, i) \in Records /\ DefaultRecord(a.on, i).on = a.on
        /\ DefaultRecord(a.on, i).id = i
    BY <2>1, FreshIsNew DEF Records, DefaultRecord
  <2>3. Object(PlacedIn(doc, a.on), None, None).matches
    BY DEF Object
  <2> QED BY <1>3, <2>1, <2>2, <2>3, PostProgress
<1> QED BY <1>1, <1>2, <1>3 DEF CreateGuardrail

LEMMA UnderSteady ==
  ASSUME Inv, NEW k \in Keys, NEW under, doc.id[k] \in DOMAIN remote
  PROVE  LET after == [remote EXCEPT ![doc.id[k]].under = under]
         IN  /\ Steady(doc, remote, after)
             /\ \A j \in Keys : j # k /\ doc.id[j] \in DOMAIN remote =>
                  after[doc.id[j]].under = remote[doc.id[j]].under
<1> DEFINE after == [remote EXCEPT ![doc.id[k]].under = under]
<1>1. DOMAIN after = DOMAIN remote
  OBVIOUS
<1>2. ASSUME NEW i \in DOMAIN remote
      PROVE  /\ after[i].within = remote[i].within /\ after[i].matches = remote[i].matches
             /\ i # doc.id[k] => after[i] = remote[i]
  <2>1. remote[i] \in Objects
    BY DEF Inv, Seen
  <2> QED BY <2>1 DEF Objects
<1> HIDE DEF after
<1>3. Steady(doc, remote, after)
  BY <1>1, <1>2 DEF Steady
<1>4. \A j \in Keys : j # k /\ doc.id[j] \in DOMAIN remote => doc.id[j] # doc.id[k]
  BY NoneIsUnseen DEF Inv, Sound, OneAddressEach, Blocks
<1> QED BY <1>2, <1>3, <1>4 DEF after

LEMMA AssignProgress ==
  ASSUME Inv, Progress, run.at = "executing", NEW a \in run.todo,
         \/ a.kind = "assign" /\ Assign(BlockOf(a.on), a)
         \/ a.kind = "unassign" /\ Unassign(BlockOf(a.on), a)
  PROVE  Progress'
<1> DEFINE k == BlockOf(a.on)
<1>1. k \in Keys /\ \A j \in Keys : Assignment(j) # a.on => j # k
  <2>1. a.on \notin Blocks /\ a.on \in Placeable
    BY InTurn DEF Due
  <2>2. PICK j \in Keys : a.on = Assignment(j)
    BY <2>1 DEF Placeable
  <2> QED BY <2>2, BlockOfAssignment
<1>2. CASE run' = Done(a) /\ UNCHANGED <<doc, remote, want, mishaps, edits>>
  <2>1. Advances(a) /\ run'.at = "executing"
    BY <1>2, NextFields
  <2>2. Steady(doc, remote, remote') /\ remote' = remote /\ doc' = doc /\ want' = want
    BY <1>2, SteadyItself
  <2> QED BY <2>1, <2>2, WriteAdvances
<1>3. CASE run' = Skipped(a) \/ Gone(a)
  BY <1>3, GoneProgress DEF Gone
<1>4. ASSUME NEW under, doc.id[k] \in DOMAIN remote,
             Patch(a, [remote EXCEPT ![doc.id[k]].under = under], Done(a))
      PROVE  Progress'
  <2> DEFINE after == [remote EXCEPT ![doc.id[k]].under = under]
  <2>1. /\ Steady(doc, remote, after)
        /\ \A j \in Keys : j # k /\ doc.id[j] \in DOMAIN remote =>
             after[doc.id[j]].under = remote[doc.id[j]].under
    BY <1>1, <1>4, UnderSteady
  <2>2. Patch(a, after, Done(a))
    BY <1>4
  <2> HIDE DEF after, k
  <2> QED BY <1>1, <2>1, <2>2, PatchProgress
<1>5. CASE Assign(k, a)
  BY <1>2, <1>3, <1>4, <1>5 DEF Assign, Skipped
<1>6. CASE Unassign(k, a)
  BY <1>3, <1>4, <1>6 DEF Unassign
<1> QED BY <1>5, <1>6

(* A key made, and made current or still to be promoted.                   *)
LEMMA IssueDone ==
  ASSUME NEW k, NEW a, Issue(k, a)
  PROVE  \/ run' = Failed(a)
         \/ \E i \in Fresh(k) :
              /\ doc.pending = None /\ RailConverged(k) /\ want' = want
              /\ remote' = Made(k, i)
              /\ doc' \in {Promote(doc, k, i), Standing(doc, k, i, "delivered")}
              /\ run' = [Done(a) EXCEPT !.issued = @ \cup {k}]
BY DEF Issue, Gone, Standing, Made, Underway

LEMMA IssuedFields ==
  ASSUME NEW d, d \in Documents, NEW k \in Keys, NEW i \in Ids,
         NEW e \in {Promote(d, k, i), Standing(d, k, i, "delivered")}
  PROVE  /\ \A b \in Blocks : e.id[b] = IF b = k /\ e = Promote(d, k, i) THEN i ELSE d.id[b]
         /\ e.default = d.default /\ e.digest = d.digest
         /\ \/ e = Promote(d, k, i) /\ e.pending = None
            \/ /\ e = Standing(d, k, i, "delivered") /\ e.id = d.id
               /\ e.pending = [key |-> k, hash |-> i, phase |-> "delivered"]
<1>1. k \in Blocks
  BY DEF Blocks
<1>2. CASE e = Promote(d, k, i)
  BY <1>1, <1>2 DEF Promote, Documents
<1>3. CASE e # Promote(d, k, i)
  BY <1>1, <1>3 DEF Standing, Documents
<1> QED BY <1>2, <1>3

LEMMA IssuedAccounts ==
  ASSUME Inv, Accounts(doc, remote, want, run), NEW k \in Keys, NEW i \in Fresh(k),
         doc.pending = None, RailConverged(k),
         NEW e \in {Promote(doc, k, i), Standing(doc, k, i, "delivered")},
         NEW a \in run.todo, a.on = k, CreatesItsResource(a),
         NEW s, s.attempted = run.attempted \cup {k}, s.todo = run.todo \ {a}
  PROVE  Accounts(e, Made(k, i), want, s)
<1> DEFINE after == Made(k, i)
<1>1. /\ k \in Blocks /\ k \notin Guardrails /\ Sound(doc) /\ doc \in Documents
      /\ \A j \in Keys : j \in Blocks \ Guardrails
  BY Sections DEF Blocks, Inv, Sound
<1>2. i \in Named[k] /\ i \in Ids /\ i \notin DOMAIN remote /\ \A b \in Blocks : doc.id[b] # i
  BY <1>1, FreshIsNew
<1>3. /\ \A b \in Blocks : e.id[b] = IF b = k /\ e = Promote(doc, k, i) THEN i ELSE doc.id[b]
      /\ e.default = doc.default /\ e.digest = doc.digest
      /\ \/ e = Promote(doc, k, i) /\ e.pending = None
         \/ /\ e = Standing(doc, k, i, "delivered") /\ e.id = doc.id
            /\ e.pending = [key |-> k, hash |-> i, phase |-> "delivered"]
  BY <1>1, <1>2, IssuedFields
<1>4. Object(PlacedIn(doc, k), Underway(k), None).matches
  BY DEF Object
<1>5. /\ Steady(doc, remote, after)
      /\ \A j \in Keys : doc.id[j] \in DOMAIN remote => after[doc.id[j]].under = remote[doc.id[j]].under
  BY <1>2, <1>4, WithSteady DEF Made
<1>6. i \in DOMAIN after /\ after[i].under = Underway(k) /\ DOMAIN remote \subseteq DOMAIN after
  BY DEF Made, With, Object
<1> HIDE DEF after
<1>7. \A b \in Blocks : b # k => e.id[b] = doc.id[b]
  BY <1>3
<1>8. Placed(doc, e)
  <2>1. \A b \in Blocks : Home(b) # None => Home(b) \in Blocks /\ Home(b) # k
    BY HomeIsWorkspace, Sections DEF Blocks
  <2> QED BY <1>7, <2>1 DEF Placed, PlacedIn
<1>9. ASSUME NEW b \in Blocks, b # k, Quiet(doc, remote, b)
      PROVE  Quiet(e, after, b)
  <2>1. \A g \in Guardrails : g \in Blocks /\ g # k
    BY <1>1 DEF Blocks
  <2>2. \A g \in Guardrails : e.id[g] = doc.id[g] /\ NamedDefault(e, g) = NamedDefault(doc, g)
    BY <1>3, <1>7, <2>1 DEF NamedDefault
  <2>3. IdentityIn(e, b) = IdentityIn(doc, b)
    BY <1>7, <1>9, <2>2 DEF IdentityIn, GuardrailIdentity, Bound
  <2>4. b \in Guardrails /\ DefaultConflict(doc, b) => DefaultConflict(e, b)
    BY <2>2 DEF DefaultConflict, Bound
  <2> QED BY <1>5, <1>8, <1>9, <2>3, <2>4, QuietStays
<1>10. ASSUME NEW j \in Keys, UnderIts(doc, remote, j)
       PROVE  UnderIts(e, after, j)
  <2>1. RailOf[j] # None => RailOf[j] \in Blocks /\ RailOf[j] # k
    BY <1>1, SectionsAssumption DEF Blocks
  <2>2. RailOf[j] # None => e.id[RailOf[j]] = doc.id[RailOf[j]]
    BY <1>7, <2>1
  <2>3. CASE e.id[j] = doc.id[j]
    BY <1>1, <1>5, <1>8, <1>10, <2>2, <2>3, UnderStays
  <2>4. CASE e.id[j] # doc.id[j]
    <3>1. j = k /\ e.id[j] = i
      BY <1>1, <1>3, <2>4
    <3>2. RailOf[k] # None => doc.id[RailOf[k]] \in DOMAIN remote
      BY DEF RailConverged
    <3> QED BY <1>6, <2>2, <3>1, <3>2 DEF UnderIts, Underway
  <2> QED BY <2>3, <2>4
<1>11. Unpromoted(e, after)
  <2>1. CASE e.pending = None
    BY <2>1 DEF Unpromoted
  <2>2. CASE e.id = doc.id /\ e.pending = [key |-> k, hash |-> i, phase |-> "delivered"]
    <3>1. ~Mine(doc, remote, k)
      BY DEF Accounts
    <3>2. ~Mine(e, after, k)
      BY <1>1, <1>5, <1>8, <2>2, <3>1, MineStays
    <3> QED BY <1>2, <1>6, <2>2, <3>2 DEF Unpromoted, Delivered
  <2> QED BY <1>3, <2>1, <2>2
<1>12. /\ run.attempted \subseteq s.attempted /\ k \in s.attempted /\ s.todo \subseteq run.todo
       /\ \A b \in run.todo : b.on = k \/ b \in s.todo
       /\ \A b \in s.todo : b.on # k
  BY DEF Inv, Scheduled
<1>13. Assignment(k) # k /\ \A b \in Blocks \ Guardrails : b # k => e.id[b] = doc.id[b]
  BY <1>1, <1>7, BlockOfAssignment
<1>14. \A x \in Destinations : x # k => e.digest[x] = doc.digest[x]
  BY <1>3
<1> QED BY <1>1, <1>5, <1>8, <1>9, <1>10, <1>11, <1>12, <1>13, <1>14, AccountsKept DEF after

LEMMA IssueProgress ==
  ASSUME Inv, Progress, run.at = "executing", NEW a \in run.todo, a.on \in Keys,
         CreatesItsResource(a), Issue(a.on, a)
  PROVE  Progress'
<1> DEFINE k == a.on
<1>1. CASE run' = Failed(a)
  BY <1>1, GoneProgress
<1>2. ASSUME NEW i \in Fresh(k),
             /\ doc.pending = None /\ RailConverged(k) /\ want' = want
             /\ remote' = Made(k, i)
             /\ doc' \in {Promote(doc, k, i), Standing(doc, k, i, "delivered")}
             /\ run' = [Done(a) EXCEPT !.issued = @ \cup {k}]
      PROVE  Progress'
  <2>1. Advances(a) /\ run'.at = "executing"
    BY <1>2, NextFields
  <2>2. Accounts(doc, remote, want, run) => Accounts(doc', remote', want, run')
    BY <1>2, <2>1, IssuedAccounts DEF Advances
  <2> QED BY <1>2, <2>1, <2>2, AdvanceProgress
<1> QED BY <1>1, <1>2, IssueDone

LEMMA ExecuteProgress ==
  ASSUME Inv, Progress, NEW a \in run.todo, Execute(a)
  PROVE  Progress'
<1>1. run.at = "executing"
  BY DEF Execute, Turn
<1>2. CASE a.on \in Workspaces /\ a.kind = "create" /\ CreateWorkspace(a.on, a)
  BY <1>1, <1>2, CreateWorkspaceProgress
<1>3. CASE UpdateWorkspace(a) \/ UpdateKey(a)
  BY <1>1, <1>3, UpdateProgress
<1>4. CASE a.on \in Destinations /\ a.kind = "create" /\ CreateDestination(a.on, a)
  BY <1>1, <1>4, CreateDestinationProgress
<1>5. CASE a.on \in Destinations /\ a.kind = "update" /\ UpdateDestination(a.on, a)
  BY <1>1, <1>5, UpdateDestinationProgress
<1>6. CASE a.on \in Guardrails /\ CreateGuardrail(a.on, a)
  BY <1>1, <1>6, CreateGuardrailProgress
<1>7. CASE a.on \in Guardrails /\ UpdateGuardrail(a.on, a)
  BY <1>1, <1>7, UpdateGuardrailProgress
<1>8. CASE a.on \in Keys /\ CreatesItsResource(a) /\ Issue(a.on, a)
  BY <1>1, <1>8, IssueProgress
<1>9. CASE \/ a.kind = "assign" /\ Assign(BlockOf(a.on), a)
           \/ a.kind = "unassign" /\ Unassign(BlockOf(a.on), a)
  BY <1>1, <1>9, AssignProgress
<1> QED BY <1>2, <1>3, <1>4, <1>5, <1>6, <1>7, <1>8, <1>9 DEF Execute

LEMMA RecordProgress ==
  ASSUME Inv, Progress, Record
  PROVE  Progress'
<1>1. /\ run.at = "recording" /\ remote' = remote /\ want' = want /\ run \in RunState
      /\ run.left
  BY DEF Record, Inv, Progress
<1>2. CASE run' = GiveUp
  <2>1. run'.todo = {} /\ run'.at = "verifying" /\ run'.failed
    BY <1>1, <1>2 DEF GiveUp, RunState
  <2> QED BY <2>1, StillProgress
<1>3. CASE /\ Recordable(run.record) /\ doc' = Recorded(run.record)
           /\ run' = [run EXCEPT !.at = "executing", !.record = None]
  <2>1. /\ run'.at = "executing" /\ run'.todo = run.todo /\ run'.attempted = run.attempted
        /\ run'.left /\ Through(run') = Through(run)
    BY <1>1, <1>3 DEF RunState, Through
  <2>2. Through(run) => Accounts(doc', remote', want', run')
    <3>1. /\ run.record.on \in run.attempted
          /\ run.record.on \in Workspaces /\ ~run.disturbed =>
               DefaultGuardrail(run.record.id) \notin DOMAIN remote
          /\ Through(run) => Accounts(doc, remote, want, run) /\ ~run.disturbed
      BY <1>1 DEF Progress, Through
    <3> QED BY <1>1, <1>3, <2>1, <3>1, RecordedAccounts
  <2> QED BY <2>1, <2>2 DEF Progress
<1> QED BY <1>2, <1>3 DEF Record

LEMMA StartProgress ==
  ASSUME Inv, Inv', Start
  PROVE  Progress'
<1> DEFINE plan == Plan(Prepared, remote, want)
<1>1. doc' = Prepared /\ remote' = remote /\ want' = want
  BY DEF Start
<1>2. CASE ~StopsRun(plan)
  <2>1. run' = Begun(plan)
    BY <1>2 DEF Start
  <2>2. /\ run'.at = "executing" /\ run'.todo = {a \in plan : Executable(a)}
        /\ run'.left = (\E a \in plan : HoldsBack(a)) /\ run'.waiting = Begun(plan).waiting
    BY <2>1 DEF Begun, Idle
  <2>3. ~Delivered(Prepared)
    <3>1. Prepared.pending = Promoted(doc).pending
      BY PreparedSound DEF Prepared, Backfilled, Inv, Sound, Documents, Promoted, Promote
    <3>2. ~Delivered(Promoted(doc))
      BY DEF Promoted, Delivered, Promote, Inv, Sound, Documents
    <3> QED BY <3>1, <3>2 DEF Delivered
  <2>4. Through(run') => Accounts(Prepared, remote, want, run')
    <3>1. Sound(Prepared) /\ Seen(remote)
      BY PreparedSound DEF Inv
    <3> HIDE DEF plan
    <3> QED BY <1>2, <2>1, <2>2, <2>3, <3>1, BegunAccounts DEF Through, plan
  <2>5. run'.todo # {} => run'.left
    BY <2>2 DEF Executable, HoldsBack
  <2>6. ~run'.left => Clear(Prepared, remote, want)
    BY <2>2, <2>3 DEF Clear
  <2> QED BY <1>1, <2>2, <2>4, <2>5, <2>6 DEF Progress
<1>3. CASE StopsRun(plan)
  <2>1. run' = [Idle EXCEPT !.at = "reported", !.outcome = "blocked"]
    BY <1>3 DEF Start
  <2>2. run'.at = "reported" /\ run'.todo = {}
    BY <2>1 DEF Idle
  <2> QED BY <2>2, StillProgress
<1> QED BY <1>2, <1>3

(* What happened beside a run is beyond what its report speaks of.         *)
LEMMA DisturbedProgress ==
  ASSUME Inv, Progress, Disturbed
  PROVE  Progress'
<1>1. run \in RunState
  BY DEF Inv
<1>2. CASE run.at = "idle"
  BY <1>2, QuietRun, StillProgress DEF Disturbed
<1>3. CASE run.at # "idle"
  <2>1. /\ run'.disturbed /\ run'.at = run.at /\ run'.todo = run.todo /\ run'.left = run.left
        /\ run'.failed = run.failed /\ run'.record = run.record /\ run'.attempted = run.attempted
    BY <1>1, <1>3 DEF Disturbed, RunState
  <2> QED BY <2>1 DEF Progress, Through
<1> QED BY <1>2, <1>3

(* What is done while no run is under way: nothing a report speaks of; but *)
(* a delete is begun, and the console may act at any time.                 *)
LEMMA Besides ==
  ASSUME Edit \/ Follow
  PROVE  \/ Disturbed
         \/ run.at = "idle" /\ run' = run
         \/ run'.at = "deleting"
BY DEF Edit, Follow, ConsoleDelete, ConsoleEdit, ConsoleCreate, Import, ForgetBinding,
   BeginDelete, Reconfigure, Heed, Adopt, Recover, Idle

LEMMA NextProgress == Inv /\ Inv' /\ Progress /\ [Next]_vars => Progress'
<1> SUFFICES ASSUME Inv, Inv', Progress, [Next]_vars PROVE Progress'
  OBVIOUS
<1>1. CASE run'.at \in {"idle", "deleting", "reported"}
  <2>1. run'.todo = {}
    BY <1>1 DEF Inv, Scheduled
  <2> QED BY <1>1, <2>1, StillProgress
<1>2. CASE Start
  BY <1>2, StartProgress
<1>3. CASE Run
  <2>1. CASE \E a \in run.todo : Execute(a)
    BY <2>1, ExecuteProgress
  <2>2. CASE HoldBack
    BY <2>2, GoneProgress DEF HoldBack
  <2>3. CASE Record
    BY <2>3, RecordProgress
  <2>4. CASE Verify \/ End \/ Delete
    <3>1. Verify => run'.at = "reported"
      BY DEF Verify, Reported, Inv, RunState
    <3>2. End \/ Delete => run'.at = "idle"
      BY DEF End, Delete, Idle
    <3> QED BY <1>1, <2>4, <3>1, <3>2
  <2> QED BY <1>3, <2>1, <2>2, <2>3, <2>4 DEF Run
<1>4. CASE Kill
  BY <1>1, <1>4 DEF Kill, Idle
<1>5. CASE Edit \/ Follow
  BY <1>1, <1>5, Besides, DisturbedProgress
<1>6. CASE UNCHANGED vars
  <2>1. doc' = doc /\ remote' = remote /\ want' = want /\ run' = run
    BY <1>6 DEF vars
  <2> QED BY <2>1 DEF Progress
<1> QED BY <1>2, <1>3, <1>4, <1>5, <1>6 DEF Next
-----------------------------------------------------------------------------
(* A digest tells what OpenRouter holds, as long as no write of it went    *)
(* wrong: between a write and its record, the record does.                 *)

BeingRecorded(r, x) == r.at = "recording" /\ r.record.on = x
Holding(x) ==
  IF BeingRecorded(run, x)
    THEN run.record.id \in DOMAIN remote => remote[run.record.id].config = run.record.digest
    ELSE doc.digest[x] # None /\ doc.id[x] \in DOMAIN remote =>
           remote[doc.id[x]].config = doc.digest[x]
CreatesUnbound(d, todo) ==
  \A a \in todo : a.on \in Destinations /\ a.kind = "create" => d.id[a.on] = None

Truthful ==
  /\ \A x \in Destinations : doc.id[x] = None => doc.digest[x] = None
  /\ CreatesUnbound(doc, run.todo)
  /\ \A x \in Destinations : BeingRecorded(run, x) =>
       CanBind(doc, x, run.record.id) /\ run.record.digest # None
  /\ mishaps = 0 => \A x \in Destinations : Holding(x)

(* The destinations that the document or the run knows of are as they were.*)
Alike(after) == \A i \in DOMAIN after \cap DestinationIds \cap Mentioned :
  i \in DOMAIN remote /\ after[i].config = remote[i].config

LEMMA DestinationTyped ==
  ASSUME Inv, NEW x \in Destinations
  PROVE  /\ x \in Blocks /\ doc.id[x] \in DestinationIds \cup {None}
         /\ doc.id[x] # None => doc.id[x] \in Mentioned
         /\ BeingRecorded(run, x) =>
              run.record.id \in DestinationIds \cap Mentioned /\ run.record # None
<1>1. x \in Blocks /\ IdsFor(x) = DestinationIds
  BY KindOfIds DEF Blocks
<1>2. doc.id[x] \in DestinationIds \cup {None}
  BY <1>1 DEF Inv, Sound, Kinded
<1>3. doc.id[x] # None => doc.id[x] \in Mentioned
  BY <1>1 DEF Mentioned, Owned
<1>4. ASSUME BeingRecorded(run, x)
      PROVE  run.record.id \in DestinationIds \cap Mentioned /\ run.record # None
  <2>1. run.record # None /\ run.record.id \in IdsFor(x)
    BY <1>4 DEF BeingRecorded, Inv, Recordings
  <2> QED BY <1>1, <2>1 DEF Mentioned
<1> QED BY <1>1, <1>2, <1>3, <1>4

LEMMA TruthfulKept ==
  ASSUME Inv, Truthful,
         \A x \in Destinations : doc'.id[x] = doc.id[x] /\ doc'.digest[x] = doc.digest[x],
         mishaps' = 0 => mishaps = 0 /\ Alike(remote'),
         CreatesUnbound(doc', run'.todo),
         \A x \in Destinations : BeingRecorded(run', x) =>
           BeingRecorded(run, x) /\ doc' = doc /\ run'.record = run.record,
         mishaps' = 0 => \A x \in Destinations : BeingRecorded(run, x) => BeingRecorded(run', x)
  PROVE  Truthful'
<1>1. \A x \in Destinations : doc'.id[x] = None => doc'.digest[x] = None
  BY DEF Truthful
<1>2. \A x \in Destinations : BeingRecorded(run', x) =>
        CanBind(doc', x, run'.record.id) /\ run'.record.digest # None
  BY DEF Truthful
<1>3. ASSUME mishaps' = 0, NEW x \in Destinations
      PROVE  Holding(x)'
  <2>1. Holding(x) /\ Alike(remote') /\ (doc.id[x] = None => doc.digest[x] = None)
    BY <1>3 DEF Truthful
  <2>2. /\ doc.id[x] \in DestinationIds \cup {None}
        /\ doc.id[x] # None => doc.id[x] \in Mentioned
        /\ BeingRecorded(run, x) => run.record.id \in DestinationIds \cap Mentioned
    BY DestinationTyped
  <2>3. CASE BeingRecorded(run', x)
    <3>1. BeingRecorded(run, x) /\ run'.record = run.record
      BY <2>3
    <3> QED BY <2>1, <2>2, <2>3, <3>1 DEF Holding, Alike
  <2>4. CASE ~BeingRecorded(run', x)
    <3>1. ~BeingRecorded(run, x)
      BY <1>3, <2>4
    <3> QED BY <2>1, <2>2, <2>4, <3>1 DEF Holding, Alike
  <2> QED BY <2>3, <2>4
<1> QED BY <1>1, <1>2, <1>3 DEF Truthful

LEMMA AlikeSteps ==
  ASSUME Inv
  PROVE  /\ Alike(remote)
         /\ \A id, object : id \notin DestinationIds \/ id \notin Mentioned => Alike(With(id, object))
         /\ \A id \in DOMAIN remote :
              /\ Alike(Patched(id)) /\ Alike([remote EXCEPT ![id].matches = FALSE])
              /\ \A under : Alike([remote EXCEPT ![id].under = under])
         /\ \A id : Alike(Without(id))
<1>1. Seen(remote) /\ \A i \in DOMAIN remote : remote[i] \in Objects
  BY DEF Inv, Seen
<1>2. Alike(remote)
  BY DEF Alike
<1>3. ASSUME NEW id, NEW object, id \notin DestinationIds \/ id \notin Mentioned
      PROVE  Alike(With(id, object))
  BY <1>3 DEF Alike, With
<1>4. ASSUME NEW id \in DOMAIN remote, NEW under,
             NEW after \in {Patched(id), [remote EXCEPT ![id].matches = FALSE],
                            [remote EXCEPT ![id].under = under]}
      PROVE  Alike(after)
  <2>1. DOMAIN after = DOMAIN remote
    BY DEF Patched
  <2>2. \A i \in DOMAIN remote : after[i].config = remote[i].config
    BY <1>1 DEF Patched, Objects
  <2> QED BY <2>1, <2>2 DEF Alike
<1>5. ASSUME NEW id
      PROVE  Alike(Without(id))
  <2>1. /\ DOMAIN Without(id) \subseteq DOMAIN remote
        /\ \A i \in DOMAIN Without(id) :
             Without(id)[i] \in {remote[i], [remote[i] EXCEPT !.under = None]}
    BY <1>1, WithoutSeen
  <2>2. \A i \in DOMAIN Without(id) : Without(id)[i].config = remote[i].config
    BY <1>1, <2>1 DEF Objects
  <2> QED BY <2>1, <2>2 DEF Alike
<1> QED BY <1>2, <1>3, <1>4, <1>5

(* A run's step beside the destinations.                                   *)
LEMMA ExecutedTruthful ==
  ASSUME Inv, Truthful, run.at = "executing", Smooth \/ Mishap,
         \A x \in Destinations : doc'.id[x] = doc.id[x] /\ doc'.digest[x] = doc.digest[x],
         Alike(remote') \/ Mishap, run'.todo \subseteq run.todo,
         \A x \in Destinations : ~BeingRecorded(run', x)
  PROVE  Truthful'
<1>1. mishaps' = 0 => mishaps = 0 /\ Alike(remote')
  BY ConvergenceBounds DEF Smooth, Mishap, Inv
<1>2. CreatesUnbound(doc', run'.todo)
  BY DEF Truthful, CreatesUnbound
<1>3. \A x \in Destinations : ~BeingRecorded(run, x)
  BY DEF BeingRecorded
<1> QED BY <1>1, <1>2, <1>3, TruthfulKept

(* What comes next, where it is no destination's binding to record.        *)
Beside(r) == r.todo \subseteq run.todo /\ \A x \in Destinations : ~BeingRecorded(r, x)

LEMMA NextBeside ==
  ASSUME Inv, run.at = "executing", NEW a \in run.todo
  PROVE  /\ Beside(Done(a)) /\ Beside(Failed(a)) /\ Beside(Unmade(a)) /\ Beside(Skipped(a))
         /\ \A record \in Records : record.on \notin Destinations => Beside(Recording(a, record))
         /\ Beside([Done(a) EXCEPT !.issued = @ \cup {a.on}])
<1>1. [Done(a) EXCEPT !.issued = @ \cup {a.on}].todo = Done(a).todo
      /\ [Done(a) EXCEPT !.issued = @ \cup {a.on}].at = Done(a).at
  BY NextRuns DEF Onward, RunState
<1> QED BY <1>1, NextRuns DEF Beside, BeingRecorded, Onward

LEMMA PatchTruthful ==
  ASSUME Inv, Truthful, run.at = "executing", NEW a \in run.todo, NEW after, NEW next,
         Patch(a, after, next), Alike(after), Beside(next)
  PROVE  Truthful'
<1>1. /\ doc' = doc /\ run' \in {next, Failed(a)} /\ (Smooth \/ Mishap)
      /\ remote' \in {after, remote}
  BY DEF Patch
<1>2. Beside(run')
  BY <1>1, NextBeside
<1>3. Alike(remote')
  BY <1>1, AlikeSteps
<1> QED BY <1>1, <1>2, <1>3, ExecutedTruthful DEF Beside

LEMMA PostTruthful ==
  ASSUME Inv, Truthful, run.at = "executing", NEW a \in run.todo,
         a.on \in Blocks \ Destinations, NEW i \in Fresh(a.on), NEW object,
         NEW record \in Records, record.on = a.on, Post(a, i, object, record)
  PROVE  Truthful'
<1>1. /\ doc' = doc /\ run' \in {Recording(a, record), Failed(a)} /\ (Smooth \/ Mishap)
      /\ remote' \in {With(i, object), remote}
  BY DEF Post
<1>2. Beside(run')
  BY <1>1, NextBeside
<1>3. i \notin Mentioned
  BY DEF Fresh
<1>4. Alike(remote')
  BY <1>1, <1>3, AlikeSteps
<1> QED BY <1>1, <1>2, <1>4, ExecutedTruthful DEF Beside

LEMMA GoneTruthful ==
  ASSUME Inv, Truthful, run.at = "executing", NEW a \in run.todo,
         run' \in {Done(a), Failed(a), Unmade(a), Skipped(a)},
         UNCHANGED <<doc, remote, want, mishaps, edits>>
  PROVE  Truthful'
<1>1. doc' = doc /\ remote' = remote /\ Smooth
  BY DEF Smooth
<1>2. Beside(run')
  BY NextBeside
<1> QED BY <1>1, <1>2, AlikeSteps, ExecutedTruthful DEF Beside

(* A write of a destination's configuration that went well.                *)
LEMMA WrittenTruthful ==
  ASSUME Inv, Truthful, run.at = "executing", NEW a \in run.todo, a.on \in Destinations,
         NEW record \in Records, record.on = a.on, record.digest = want[a.on],
         CanBind(doc, a.on, record.id), run' = Recording(a, record), doc' = doc, mishaps' = mishaps,
         record.id \in DOMAIN remote' => remote'[record.id].config = want[a.on],
         \A i \in DOMAIN remote' : \/ i = record.id
                                   \/ i \in DOMAIN remote /\ remote'[i].config = remote[i].config,
         \A x \in Destinations \ {a.on} : doc.id[x] # None => doc.id[x] # record.id
  PROVE  Truthful'
<1>1. run'.todo \subseteq run.todo /\ run'.at = "recording" /\ run'.record = record
  BY NextRuns DEF Onward
<1>2. CreatesUnbound(doc', run'.todo)
  BY <1>1 DEF Truthful, CreatesUnbound
<1>3. want[a.on] # None
  BY Sections DEF Inv
<1>4. ASSUME NEW x \in Destinations, mishaps' = 0
      PROVE  Holding(x)'
  <2>1. CASE x = a.on
    BY <1>1, <2>1 DEF Holding, BeingRecorded
  <2>2. CASE x # a.on
    <3>1. ~BeingRecorded(run', x) /\ ~BeingRecorded(run, x)
      BY <1>1, <2>2 DEF BeingRecorded
    <3>2. Holding(x) /\ (doc.id[x] = None => doc.digest[x] = None)
      BY <1>4 DEF Truthful
    <3> QED BY <2>2, <3>1, <3>2 DEF Holding
  <2> QED BY <2>1, <2>2
<1> QED BY <1>1, <1>2, <1>3, <1>4 DEF Truthful, BeingRecorded

LEMMA CreateDestinationTruthful ==
  ASSUME Inv, Truthful, run.at = "executing", NEW a \in run.todo, a.on \in Destinations,
         a.kind = "create", CreateDestination(a.on, a)
  PROVE  Truthful'
<1> DEFINE record(i) == [on |-> a.on, id |-> i, default |-> None, digest |-> want[a.on]]
           object == Object(PlacedIn(doc, a.on), None, want[a.on])
<1> PICK i \in Fresh(a.on) : Post(a, i, object, record(i))
  BY DEF CreateDestination
<1>1. a.on \in Blocks
  BY DEF Blocks
<1>2. i \in Ids /\ i \notin DOMAIN remote /\ i \notin Owned(doc) /\ \A c \in Blocks : doc.id[c] # i
  BY <1>1, FreshIsNew
<1>3. record(i) \in Records /\ record(i).on = a.on /\ record(i).id = i
      /\ record(i).digest = want[a.on] /\ object.config = want[a.on]
  BY <1>1, <1>2 DEF Records, Inv, Object
<1> HIDE DEF record, object
<1>4. CASE run' = Recording(a, record(i)) /\ remote' = With(i, object) /\ Smooth
  <2>1. CanBind(doc, a.on, i)
    BY <1>2, Sections DEF CanBind, Truthful, CreatesUnbound
  <2>2. remote'[i].config = want[a.on]
    BY <1>3, <1>4 DEF With
  <2>3. \A j \in DOMAIN remote' : j = i \/ (j \in DOMAIN remote /\ remote'[j] = remote[j])
    BY <1>4 DEF With
  <2>4. \A x \in Destinations : doc.id[x] # i
    BY <1>2 DEF Blocks
  <2>5. doc' = doc /\ mishaps' = mishaps
    BY <1>4 DEF Post, Smooth
  <2> QED BY <1>3, <1>4, <2>1, <2>2, <2>3, <2>4, <2>5, WrittenTruthful
<1>5. CASE /\ run' = Failed(a) /\ doc' = doc /\ (Smooth \/ Mishap)
           /\ remote' = remote \/ Mishap
  <2>1. Beside(run') /\ Alike(remote)
    BY <1>5, NextBeside, AlikeSteps
  <2> QED BY <1>5, <2>1, ExecutedTruthful DEF Beside
<1> QED BY <1>4, <1>5 DEF Post

LEMMA UpdateDestinationTruthful ==
  ASSUME Inv, Truthful, run.at = "executing", NEW a \in run.todo, a.on \in Destinations,
         a.kind = "update", UpdateDestination(a.on, a)
  PROVE  Truthful'
<1>1. a.on \in Blocks /\ a.on \notin Guardrails
  BY Sections DEF Blocks
<1>2. /\ Seen(remote) /\ Sound(doc) /\ a.id = doc.id[a.on] /\ a.id # None
      /\ \A i \in DOMAIN remote : remote[i] \in Objects
  BY <1>1, InTurn DEF Due, OwnIdentity, Seen
<1>3. CASE a.id \notin DOMAIN remote
  BY <1>3, GoneTruthful DEF UpdateDestination, Gone
<1>4. CASE a.id \in DOMAIN remote
  <2> DEFINE after == [remote EXCEPT ![a.id].matches = TRUE,
                                     ![a.id].config = IF a.config THEN want[a.on] ELSE @]
             record == [on |-> a.on, id |-> a.id, default |-> None, digest |-> want[a.on]]
  <2>1. Patch(a, after, IF a.config THEN Recording(a, record) ELSE Done(a))
    BY <1>4 DEF UpdateDestination
  <2>2. /\ record \in Records /\ record.on = a.on /\ record.id = a.id
        /\ record.digest = want[a.on]
    BY <1>1, <1>2, InTurn DEF Records, Inv, Documents
  <2>3. /\ DOMAIN after = DOMAIN remote
        /\ \A i \in DOMAIN remote : i # a.id => after[i] = remote[i]
        /\ after[a.id].config = IF a.config THEN want[a.on] ELSE remote[a.id].config
    BY <1>2, <1>4 DEF Objects
  <2> HIDE DEF after, record
  <2>4. CASE ~a.config
    <3>1. Alike(after)
      BY <2>3, <2>4 DEF Alike
    <3> QED BY <2>1, <2>4, <3>1, NextBeside, PatchTruthful
  <2>5. CASE a.config /\ Smooth /\ remote' = after /\ run' = Recording(a, record) /\ doc' = doc
    <3>1. CanBind(doc, a.on, a.id)
      BY <1>2, <1>1, Sections DEF CanBind
    <3>2. \A x \in Destinations \ {a.on} : doc.id[x] # None => doc.id[x] # a.id
      BY <1>1, <1>2 DEF Sound, OneAddressEach, Blocks
    <3> QED BY <1>4, <2>2, <2>3, <2>5, <3>1, <3>2, WrittenTruthful DEF Smooth
  <2>6. CASE run' = Failed(a) /\ doc' = doc /\ Mishap
    <3>1. Beside(run')
      BY <2>6, NextBeside
    <3> QED BY <2>6, <3>1, ExecutedTruthful DEF Beside
  <2>7. CASE a.config /\ run' = Recording(a, record) /\ doc' = doc /\ Mishap
    <3>1. CanBind(doc, a.on, a.id) /\ want[a.on] # None
      BY <1>2, <1>1, Sections DEF CanBind, Inv
    <3>2. run'.todo \subseteq run.todo /\ run'.at = "recording" /\ run'.record = record
      BY <2>2, <2>7, NextRuns DEF Onward
    <3>3. mishaps' # 0
      BY <2>7, ConvergenceBounds DEF Mishap, Inv
    <3>4. CreatesUnbound(doc', run'.todo)
      BY <2>7, <3>2 DEF Truthful, CreatesUnbound
    <3> QED BY <2>2, <2>7, <3>1, <3>2, <3>3, <3>4 DEF Truthful, BeingRecorded
  <2> QED BY <2>1, <2>4, <2>5, <2>6, <2>7 DEF Patch
<1> QED BY <1>3, <1>4

LEMMA IssueTruthful ==
  ASSUME Inv, Truthful, run.at = "executing", NEW a \in run.todo, a.on \in Keys,
         CreatesItsResource(a), Issue(a.on, a)
  PROVE  Truthful'
<1> DEFINE k == a.on
<1>1. CASE Gone(a)
  BY <1>1, GoneTruthful DEF Gone
<1>2. CASE ~Gone(a)
  <2> PICK i \in Fresh(k) :
              /\ Smooth \/ Mishap
              /\ remote' \in {Made(k, i), remote}
              /\ \/ remote' = Made(k, i) /\ doc' = Promote(doc, k, i)
                 \/ \E phase \in {"unknown", "dead", "delivered"} : doc' = Standing(doc, k, i, phase)
                 \/ doc' = doc
              /\ \/ run' = [Done(a) EXCEPT !.issued = @ \cup {k}]
                 \/ run' = Failed(a)
    BY <1>2, IssueShape
  <2>1. Beside(run')
    BY NextBeside
  <2>2. i \notin Mentioned
    BY DEF Fresh
  <2>3. Alike(remote')
    BY <2>2, AlikeSteps DEF Made
  <2>4. \A x \in Destinations : doc'.id[x] = doc.id[x] /\ doc'.digest[x] = doc.digest[x]
    <3>1. doc \in Documents /\ \A x \in Destinations : x \in Blocks /\ x # k
      BY Sections DEF Inv, Sound, Blocks
    <3>2. CASE doc' = Promote(doc, k, i)
      <4>1. doc'.id = [doc.id EXCEPT ![k] = i] /\ doc'.digest = doc.digest
        BY <3>1, <3>2 DEF Promote, Documents
      <4> QED BY <3>1, <4>1 DEF Documents
    <3>3. ASSUME NEW phase, doc' = Standing(doc, k, i, phase)
          PROVE  doc'.id = doc.id /\ doc'.digest = doc.digest
      BY <3>1, <3>3 DEF Standing, Documents
    <3> QED BY <3>2, <3>3
  <2> QED BY <2>1, <2>3, <2>4, ExecutedTruthful DEF Beside
<1> QED BY <1>1, <1>2

LEMMA GuardrailTruthful ==
  ASSUME Inv, Truthful, run.at = "executing", NEW a \in run.todo, a.on \in Guardrails,
         CreateGuardrail(a.on, a) \/ UpdateGuardrail(a.on, a)
  PROVE  Truthful'
<1>1. a.on \in Blocks \ Destinations
  BY Sections DEF Blocks
<1>2. \A id \in Ids : /\ DefaultRecord(a.on, id) \in Records
                      /\ DefaultRecord(a.on, id).on = a.on
                      /\ Beside(Recording(a, DefaultRecord(a.on, id)))
  <2>1. \A id \in Ids : DefaultRecord(a.on, id) \in Records /\ DefaultRecord(a.on, id).on = a.on
    BY <1>1 DEF DefaultRecord, Records
  <2> QED BY <1>1, <2>1, NextBeside
<1>3. CASE run' = Unmade(a) /\ UNCHANGED <<doc, remote, want, mishaps, edits>>
  BY <1>3, GoneTruthful
<1>4. CASE WorkspaceDefault(a.on) # None /\ Materialize(a.on, a, WorkspaceDefault(a.on))
  <2> DEFINE id == WorkspaceDefault(a.on)
             home == CHOOSE i \in WorkspaceIds : DefaultGuardrail(i) = id
             next == IF Bound(doc, a.on) THEN Done(a) ELSE Recording(a, DefaultRecord(a.on, id))
  <2>1. id \in Defaults /\ id \in Ids
    <3>1. \E w \in Workspaces : doc.default[w] = id
      BY <1>4, InTurn, NamedDefaultTyped DEF WorkspaceDefault
    <3>2. id \in Defaults
      BY <1>4, <3>1, InTurn DEF Documents
    <3> QED BY <3>2, <1>1, KindOfIds
  <2>2. id \notin DestinationIds
    BY <2>1, IdsApart, KindOfIds
  <2>3. Beside(next)
    BY <1>2, <2>1, NextBeside
  <2>4. CASE home \notin DOMAIN remote
    BY <1>4, <2>4, GoneTruthful DEF Materialize, Gone
  <2>5. CASE home \in DOMAIN remote
    <3>1. Patch(a, With(id, Object(home, None, None)), next)
      BY <1>4, <2>5 DEF Materialize
    <3> HIDE DEF home, next, id
    <3>2. Alike(With(id, Object(home, None, None)))
      BY <2>2, AlikeSteps
    <3> QED BY <2>3, <3>1, <3>2, PatchTruthful
  <2> QED BY <2>4, <2>5
<1>5. ASSUME NEW i \in Fresh(a.on),
             Post(a, i, Object(PlacedIn(doc, a.on), None, None), DefaultRecord(a.on, i))
      PROVE  Truthful'
  BY <1>1, <1>2, <1>5, FreshIsNew, PostTruthful
<1>6. CASE UpdateGuardrail(a.on, a) /\ a.id \in DOMAIN remote
  <2> DEFINE next == IF WorkspaceDefault(a.on) = a.id /\ ~Bound(doc, a.on)
                       THEN Recording(a, DefaultRecord(a.on, a.id)) ELSE Done(a)
  <2>1. Patch(a, Patched(a.id), next)
    BY <1>6 DEF UpdateGuardrail
  <2>2. a.id \in Ids
    BY <1>6 DEF Inv, Seen
  <2>3. Beside(next)
    BY <1>2, <2>2, NextBeside
  <2>4. Alike(Patched(a.id))
    BY <1>6, AlikeSteps
  <2> QED BY <2>1, <2>3, <2>4, PatchTruthful
<1>7. CASE UpdateGuardrail(a.on, a) /\ a.id \notin DOMAIN remote
  BY <1>7, GoneTruthful DEF UpdateGuardrail, Gone
<1> QED BY <1>3, <1>4, <1>5, <1>6, <1>7 DEF CreateGuardrail

LEMMA AssignTruthful ==
  ASSUME Inv, Truthful, run.at = "executing", NEW a \in run.todo,
         Assign(BlockOf(a.on), a) \/ Unassign(BlockOf(a.on), a)
  PROVE  Truthful'
<1> DEFINE k == BlockOf(a.on)
<1>1. CASE /\ run' \in {Done(a), Skipped(a), Failed(a)}
           /\ UNCHANGED <<doc, remote, want, mishaps, edits>>
  BY <1>1, GoneTruthful
<1>2. ASSUME NEW under, doc.id[k] \in DOMAIN remote,
             Patch(a, [remote EXCEPT ![doc.id[k]].under = under], Done(a))
      PROVE  Truthful'
  BY <1>2, AlikeSteps, NextBeside, PatchTruthful
<1>3. CASE Assign(k, a)
  BY <1>1, <1>2, <1>3 DEF Assign, Skipped, Gone
<1>4. CASE Unassign(k, a)
  BY <1>1, <1>2, <1>4 DEF Unassign, Gone
<1> QED BY <1>3, <1>4

LEMMA ExecuteTruthful ==
  ASSUME Inv, Truthful, NEW a \in run.todo, Execute(a)
  PROVE  Truthful'
<1>1. run.at = "executing"
  BY DEF Execute, Turn
<1>2. CASE a.on \in Workspaces /\ a.kind = "create" /\ CreateWorkspace(a.on, a)
  <2> PICK i \in Fresh(a.on) : \E default \in {DefaultGuardrail(i), None} :
           Post(a, i, Object(None, None, None),
                [on |-> a.on, id |-> i, default |-> default, digest |-> None])
    BY <1>2 DEF CreateWorkspace
  <2> PICK default \in {DefaultGuardrail(i), None} :
           Post(a, i, Object(None, None, None),
                [on |-> a.on, id |-> i, default |-> default, digest |-> None])
    OBVIOUS
  <2> DEFINE record == [on |-> a.on, id |-> i, default |-> default, digest |-> None]
  <2>1. a.on \in Blocks \ Destinations
    BY <1>2, Sections DEF Blocks
  <2>2. i \in Ids /\ i \in WorkspaceIds
    BY <1>2, <2>1, FreshIsNew, KindOfIds
  <2>3. default \in Defaults \cup {None}
    BY <2>2, KindOfIds
  <2>4. record \in Records /\ record.on = a.on
    BY <2>1, <2>2, <2>3 DEF Records
  <2> HIDE DEF record
  <2> QED BY <1>1, <2>1, <2>4, PostTruthful DEF record
<1>3. CASE UpdateWorkspace(a) \/ UpdateKey(a)
  <2>1. CASE a.id \in DOMAIN remote
    <3>1. Patch(a, Patched(a.id), Done(a))
      BY <1>3, <2>1 DEF UpdateWorkspace, UpdateKey
    <3> QED BY <1>1, <2>1, <3>1, AlikeSteps, NextBeside, PatchTruthful
  <2>2. CASE a.id \notin DOMAIN remote
    BY <1>1, <1>3, <2>2, GoneTruthful DEF UpdateWorkspace, UpdateKey, Gone
  <2> QED BY <2>1, <2>2
<1>4. CASE a.on \in Destinations /\ a.kind = "create" /\ CreateDestination(a.on, a)
  BY <1>1, <1>4, CreateDestinationTruthful
<1>5. CASE a.on \in Destinations /\ a.kind = "update" /\ UpdateDestination(a.on, a)
  BY <1>1, <1>5, UpdateDestinationTruthful
<1>6. CASE a.on \in Guardrails /\ (CreateGuardrail(a.on, a) \/ UpdateGuardrail(a.on, a))
  BY <1>1, <1>6, GuardrailTruthful
<1>7. CASE a.on \in Keys /\ CreatesItsResource(a) /\ Issue(a.on, a)
  BY <1>1, <1>7, IssueTruthful
<1>8. CASE Assign(BlockOf(a.on), a) \/ Unassign(BlockOf(a.on), a)
  BY <1>1, <1>8, AssignTruthful
<1> QED BY <1>2, <1>3, <1>4, <1>5, <1>6, <1>7, <1>8 DEF Execute

LEMMA MishapCounts ==
  ASSUME Inv
  PROVE  /\ Mishap => mishaps' # 0
         /\ mishaps' = mishaps \/ Mishap => (mishaps' = 0 => mishaps = 0)
BY ConvergenceBounds DEF Mishap, Inv

(* A destination's binding is recorded together with its digest.           *)
LEMMA RecordTruthful ==
  ASSUME Inv, Truthful, Record
  PROVE  Truthful'
<1> DEFINE r == run.record
<1>1. /\ run.at = "recording" /\ remote' = remote /\ want' = want /\ run \in RunState
      /\ doc \in Documents /\ (mishaps' = mishaps \/ Mishap)
  BY DEF Record, Inv, Sound, Smooth
<1>2. run'.todo \subseteq run.todo /\ run'.at \in {"executing", "verifying"}
  BY <1>1 DEF Record, GiveUp, RunState
<1>3. \A x \in Destinations : ~BeingRecorded(run', x)
  BY <1>2 DEF BeingRecorded
<1>4. r \in Records /\ r.on \in Blocks /\ r # None
  BY <1>1, RecordOfRun, NoRecordAssumption
<1>5. \A a \in run.todo : a.on # r.on
  BY <1>4 DEF Inv, Scheduled
<1>6. CASE r.on \notin Destinations
  <2>1. \A x \in Destinations : doc'.id[x] = doc.id[x] /\ doc'.digest[x] = doc.digest[x]
    <3>1. CASE doc' = doc
      BY <3>1
    <3>2. CASE Recordable(r) /\ doc' = Recorded(r)
      <4>1. \A x \in Destinations : x \in Blocks \ {r.on} /\ x \notin Guardrails
        BY <1>6, Sections DEF Blocks
      <4> QED BY <1>1, <3>2, <4>1, RecordedBrings
    <3> QED BY <3>1, <3>2 DEF Record
  <2>2. CreatesUnbound(doc', run'.todo)
    BY <1>2, <2>1 DEF Truthful, CreatesUnbound
  <2>3. \A x \in Destinations : ~BeingRecorded(run, x)
    BY <1>6 DEF BeingRecorded
  <2> QED BY <1>1, <1>3, <2>1, <2>2, <2>3, AlikeSteps, MishapCounts, TruthfulKept
<1>7. CASE r.on \in Destinations
  <2> DEFINE x == r.on
             e == BindDestination(doc, x, r.id, r.digest)
  <2>1. BeingRecorded(run, x) /\ CanBind(doc, x, r.id) /\ r.digest # None
    BY <1>1, <1>7 DEF BeingRecorded, Truthful
  <2>2. Recordable(r) /\ Recorded(r) = e
    BY <1>7, <2>1, Sections DEF Recordable, Recorded
  <2>3. e.id = [doc.id EXCEPT ![x] = r.id] /\ e.digest = [doc.digest EXCEPT ![x] = r.digest]
    BY <1>1, <2>1 DEF BindDestination, Bind, Documents
  <2> HIDE DEF e
  <2>4. /\ e.id[x] = r.id /\ e.digest[x] = r.digest /\ r.id # None
        /\ \A y \in Destinations \ {x} : e.id[y] = doc.id[y] /\ e.digest[y] = doc.digest[y]
    <3>1. x \in DOMAIN doc.id /\ x \in DOMAIN doc.digest
      BY <1>1, <1>4, <1>7 DEF Documents
    <3>2. r.id \in DestinationIds
      BY <1>7, <2>1, DestinationTyped
    <3> QED BY <2>3, <3>1, <3>2, KindOfIds
  <2>5. doc' \in {doc, e} /\ (mishaps' = 0 => mishaps = 0 /\ doc' = e)
    BY <2>2, MishapCounts DEF Record, Smooth
  <2>6. \A y \in Destinations : doc'.id[y] = None => doc'.digest[y] = None
    BY <2>4, <2>5 DEF Truthful
  <2>7. CreatesUnbound(doc', run'.todo)
    BY <1>2, <1>5, <2>4, <2>5 DEF Truthful, CreatesUnbound
  <2>8. ASSUME mishaps' = 0, NEW y \in Destinations
        PROVE  Holding(y)'
    <3>1. Holding(y) /\ doc' = e
      BY <2>5, <2>8 DEF Truthful
    <3>2. CASE y = x
      BY <1>1, <1>3, <2>1, <2>4, <3>1, <3>2 DEF Holding
    <3>3. CASE y # x
      <4>1. ~BeingRecorded(run, y)
        BY <3>3 DEF BeingRecorded
      <4> QED BY <1>1, <1>3, <2>4, <3>1, <3>3, <4>1 DEF Holding
    <3> QED BY <3>2, <3>3
  <2> QED BY <1>3, <2>6, <2>7, <2>8 DEF Truthful
<1> QED BY <1>6, <1>7

(* With no run under way: what a destination block loses, it loses whole.  *)
LEMMA RestTruthful ==
  ASSUME Inv, Truthful, run.at # "recording", run'.at # "recording", run'.todo = {},
         \A x \in Destinations : \/ doc'.digest[x] = None
                                 \/ doc'.id[x] = doc.id[x] /\ doc'.digest[x] = doc.digest[x],
         mishaps' = mishaps \/ Mishap, Alike(remote')
  PROVE  Truthful'
<1>1. \A x \in Destinations : ~BeingRecorded(run, x) /\ ~BeingRecorded(run', x)
  BY DEF BeingRecorded
<1>2. CreatesUnbound(doc', run'.todo)
  BY DEF CreatesUnbound
<1>3. \A x \in Destinations : doc'.id[x] = None => doc'.digest[x] = None
  BY DEF Truthful
<1>4. ASSUME mishaps' = 0, NEW x \in Destinations
      PROVE  Holding(x)'
  <2>1. Holding(x)
    BY <1>4, MishapCounts DEF Truthful
  <2>2. /\ doc.id[x] \in DestinationIds \cup {None}
        /\ doc.id[x] # None => doc.id[x] \in Mentioned
        /\ doc.id[x] = None => doc.digest[x] = None
    BY DestinationTyped DEF Truthful
  <2> QED BY <1>1, <2>1, <2>2 DEF Holding, Alike
<1> QED BY <1>1, <1>2, <1>3, <1>4 DEF Truthful

LEMMA ForgottenDestinations ==
  ASSUME doc \in Documents, NEW b \in Blocks, NEW x \in Destinations
  PROVE  LET e == Forget(doc, b)
         IN  e.digest[x] = None \/ (e.id[x] = doc.id[x] /\ e.digest[x] = doc.digest[x])
<1>1. x \in Blocks /\ x \notin Workspaces /\ x \notin Guardrails /\ x \notin Keys
  BY Sections DEF Blocks
<1>2. CASE b \in Workspaces
  <2>1. Forget(doc, b) = [doc EXCEPT !.id = [c \in Blocks |-> IF c \in ReleasedWith(doc, b)
                                                                THEN None ELSE @[c]],
                                     !.default[b] = None]
    BY <1>2, Sections DEF Forget
  <2>2. /\ Forget(doc, b).id = [c \in Blocks |-> IF c \in ReleasedWith(doc, b) THEN None ELSE doc.id[c]]
        /\ Forget(doc, b).digest = doc.digest
    BY <2>1 DEF Documents
  <2>3. x \notin ReleasedWith(doc, b)
    BY <1>1, <1>2 DEF ReleasedWith
  <2> QED BY <1>1, <2>2, <2>3
<1>3. CASE b \in Destinations
  <2>1. Forget(doc, b) = [doc EXCEPT !.id[b] = None, !.digest[b] = None]
    BY <1>3, Sections DEF Forget
  <2>2. /\ Forget(doc, b).id = [doc.id EXCEPT ![b] = None]
        /\ Forget(doc, b).digest = [doc.digest EXCEPT ![b] = None]
    BY <2>1 DEF Documents
  <2> QED BY <2>2 DEF Documents
<1>4. CASE b \notin Workspaces /\ b \notin Destinations
  <2>1. /\ Forget(doc, b).id = [doc.id EXCEPT ![b] = None]
        /\ Forget(doc, b).digest = doc.digest
    BY <1>4, Sections DEF Forget, Documents, Blocks
  <2> QED BY <1>4, <2>1 DEF Documents
<1> QED BY <1>2, <1>3, <1>4

(* An import brings no digest, and takes none from another identity.       *)
LEMMA ImportedDestinations ==
  ASSUME Inv, Truthful, NEW b \in Blocks, NEW i, CanImport(b, i), NEW x \in Destinations
  PROVE  LET e == Imported(b, i)
         IN  e.digest[x] = None \/ (e.id[x] = doc.id[x] /\ e.digest[x] = doc.digest[x])
<1>1. /\ x \in Blocks /\ x \notin Workspaces /\ x \notin Guardrails /\ x \notin Keys
      /\ doc \in Documents /\ CanBind(doc, b, i)
      /\ doc.id[x] = None => doc.digest[x] = None
  BY Sections DEF Blocks, Inv, Sound, CanImport, Truthful
<1>2. CASE b \in Workspaces
  <2> DEFINE default == DefaultGuardrail(i)
             f == BindWorkspace(doc, b, i, default)
  <2>1. Imported(b, i) = BindDefault(f, b, default)
    BY <1>2, Sections DEF Imported
  <2>2. f.id = [doc.id EXCEPT ![b] = i] /\ f.digest = doc.digest
    BY <1>1 DEF BindWorkspace, Bind, Documents
  <2>3. f \in [id : {f.id}, default : {f.default}, digest : {f.digest},
               retained : {f.retained}, pending : {f.pending}]
    BY <1>1 DEF BindWorkspace, Bind, Documents
  <2>4. DefaultOf[b] # None => DefaultOf[b] \in Guardrails
    BY <1>2, SectionsAssumption
  <2> HIDE DEF f, default
  <2>5. CASE Imported(b, i) = f
    BY <1>1, <1>2, <2>2, <2>5 DEF Documents
  <2>6. CASE DefaultOf[b] # None /\ Imported(b, i) = [f EXCEPT !.id[DefaultOf[b]] = default]
    <3>1. /\ Imported(b, i).id = [f.id EXCEPT ![DefaultOf[b]] = default]
          /\ Imported(b, i).digest = f.digest
      BY <2>3, <2>6
    <3> QED BY <1>1, <1>2, <2>2, <2>4, <2>6, <3>1 DEF Documents
  <2> QED BY <2>1, <2>5, <2>6 DEF BindDefault, Bind
<1>3. CASE b \in Destinations
  <2>1. Imported(b, i) = BindDestination(doc, b, i, None)
    BY <1>3, Sections DEF Imported
  <2>2. /\ Imported(b, i).id = [doc.id EXCEPT ![b] = i]
        /\ Imported(b, i).digest = [doc.digest EXCEPT ![b] = doc.digest[b]]
    BY <1>1, <2>1 DEF BindDestination, Bind, Documents
  <2>3. Imported(b, i).digest[x] = doc.digest[x] /\ (x # b => Imported(b, i).id[x] = doc.id[x])
    BY <1>1, <2>2 DEF Documents
  <2>4. x = b => Imported(b, i).id[x] = i
    BY <1>1, <2>2 DEF Documents
  <2>5. doc.id[b] \in {i, None}
    BY <1>1 DEF CanBind
  <2> QED BY <1>1, <2>3, <2>4, <2>5
<1>4. CASE b \notin Workspaces /\ b \notin Destinations
  <2>1. Imported(b, i) = Bind(doc, b, i)
    BY <1>4 DEF Imported
  <2> QED BY <1>1, <1>4, <2>1 DEF Bind, Documents
<1> QED BY <1>2, <1>3, <1>4

LEMMA VerifyTruthful ==
  ASSUME Inv, Inv', Truthful, Verify \/ End \/ Kill
  PROVE  Truthful'
<1>1. doc' = doc /\ remote' = remote /\ (mishaps' = mishaps \/ Mishap)
  BY DEF Verify, End, Kill, Smooth
<1>2. run'.at \in {"idle", "reported"}
  <2>1. Verify => run'.at = "reported"
    BY DEF Verify, Reported, Inv, RunState
  <2>2. End \/ Kill => run'.at = "idle"
    BY DEF End, Kill, Idle
  <2> QED BY <2>1, <2>2
<1>3. run'.todo = {}
  BY <1>2 DEF Inv, Scheduled
<1>4. CASE run.at # "recording"
  BY <1>1, <1>2, <1>3, <1>4, AlikeSteps, RestTruthful
<1>5. CASE run.at = "recording"
  <2>1. mishaps' # 0
    BY <1>5, MishapCounts DEF Verify, End, Kill
  <2>2. \A x \in Destinations : ~BeingRecorded(run', x)
    BY <1>2 DEF BeingRecorded
  <2>3. CreatesUnbound(doc', run'.todo)
    BY <1>3 DEF CreatesUnbound
  <2> QED BY <1>1, <2>1, <2>2, <2>3, TruthfulKept
<1> QED BY <1>4, <1>5

LEMMA DeleteTruthful ==
  ASSUME Inv, Truthful, Delete
  PROVE  Truthful'
<1>1. /\ run.at = "deleting" /\ run' = Idle /\ (mishaps' = mishaps \/ Mishap)
      /\ doc' \in {doc, Forget(doc, run.record.on)}
      /\ remote' \in {remote, Without(run.record.id)}
  BY DEF Delete, Smooth
<1>2. run'.at # "recording" /\ run'.todo = {} /\ run.at # "recording"
  BY <1>1, IdleTyped
<1>3. Alike(remote')
  BY <1>1, AlikeSteps
<1>4. run.record.on \in Blocks /\ doc \in Documents
  BY <1>1, RecordOfRun DEF Inv, Sound
<1>5. \A x \in Destinations : \/ doc'.digest[x] = None
                              \/ doc'.id[x] = doc.id[x] /\ doc'.digest[x] = doc.digest[x]
  BY <1>1, <1>4, ForgottenDestinations
<1> QED BY <1>1, <1>2, <1>3, <1>5, RestTruthful

(* A create is planned for a block that is not bound.                      *)
LEMMA BegunUnbound ==
  ASSUME NEW d, Sound(d), NEW seen, Seen(seen), NEW asked
  PROVE  CreatesUnbound(d, Plan(d, seen, asked))
<1> SUFFICES ASSUME NEW a \in Plan(d, seen, asked), a.on \in Destinations, a.kind = "create"
             PROVE  d.id[a.on] = None
  BY DEF CreatesUnbound
<1> DEFINE x == a.on
           p == DestinationAction(d, seen, asked, x)
<1>1. PICK q \in Proposals(d, seen, asked) : a.on = q.on /\ a.kind = q.kind
  BY PlanSource
<1>2. p \in Proposals(d, seen, asked) /\ p.on = x
  BY DestinationProposal DEF Proposals
<1>3. p.kind = "create"
  BY <1>1, <1>2, ProposalsApart
<1>4. AsConfigured(seen, d.id[x]) \in {"no_op", "update"}
  BY DEF AsConfigured
<1>5. Bound(d, x) => p.kind \in {"missing", "update", "no_op"}
  BY <1>4 DEF DestinationAction, Action, Blocked
<1> QED BY <1>3, <1>5 DEF Bound

LEMMA StartTruthful ==
  ASSUME Inv, Truthful, Start
  PROVE  Truthful'
<1> DEFINE plan == Plan(Prepared, remote, want)
<1>1. /\ doc' = Prepared /\ remote' = remote /\ mishaps' = mishaps /\ run.at = "idle"
      /\ \/ run' = [Idle EXCEPT !.at = "reported", !.outcome = "blocked"]
         \/ run' = Begun(plan)
  BY DEF Start
<1>2. run'.at # "recording" /\ run'.todo \subseteq plan
  <2>1. Begun(plan).at = "executing" /\ Begun(plan).todo \subseteq plan
    BY DEF Begun, Idle
  <2>2. run' # Begun(plan) => run'.at = "reported" /\ run'.todo = {}
    BY <1>1 DEF Idle
  <2> HIDE DEF plan
  <2> QED BY <2>1, <2>2
<1>3. \A x \in Destinations : Prepared.id[x] = doc.id[x] /\ Prepared.digest[x] = doc.digest[x]
  <2>1. doc \in Documents /\ \A x \in Destinations : x \in Blocks /\ x \notin Keys
    BY Sections DEF Inv, Sound, Blocks
  <2>2. Prepared.id = Promoted(doc).id /\ Prepared.digest = Promoted(doc).digest
    BY <2>1 DEF Prepared, Backfilled, Documents, Promoted, Promote
  <2>3. CASE doc.pending # None /\ doc.pending.phase = "delivered"
    <3>1. doc.pending.key \in Keys
      BY <2>1, <2>3 DEF Documents, Pending
    <3>2. Promoted(doc) = Promote(doc, doc.pending.key, doc.pending.hash)
      BY <2>3 DEF Promoted
    <3>3. /\ Promoted(doc).id = [doc.id EXCEPT ![doc.pending.key] = doc.pending.hash]
          /\ Promoted(doc).digest = doc.digest
      BY <2>1, <3>2 DEF Promote, Documents
    <3> QED BY <2>1, <2>2, <3>1, <3>3 DEF Documents
  <2>4. CASE ~(doc.pending # None /\ doc.pending.phase = "delivered")
    BY <2>2, <2>4 DEF Promoted
  <2> QED BY <2>3, <2>4
<1>4. CreatesUnbound(doc', run'.todo)
  <2>1. CreatesUnbound(Prepared, plan)
    BY PreparedSound, BegunUnbound DEF Inv
  <2> HIDE DEF plan
  <2> QED BY <1>1, <1>2, <2>1 DEF CreatesUnbound
<1>5. \A x \in Destinations : ~BeingRecorded(run', x) /\ ~BeingRecorded(run, x)
  BY <1>1, <1>2 DEF BeingRecorded
<1>6. Alike(remote')
  BY <1>1, AlikeSteps
<1> HIDE DEF plan
<1> QED BY <1>1, <1>3, <1>4, <1>5, <1>6, TruthfulKept

LEMMA DisturbedTruthful ==
  ASSUME Inv, Truthful, Disturbed, doc' = doc, mishaps' = mishaps, Alike(remote')
  PROVE  Truthful'
<1>1. run'.at = run.at /\ run'.todo = run.todo /\ run'.record = run.record
  BY DEF Disturbed, Inv, RunState
<1>2. \A x \in Destinations : BeingRecorded(run', x) = BeingRecorded(run, x)
  BY <1>1 DEF BeingRecorded
<1>3. CreatesUnbound(doc', run'.todo)
  BY <1>1 DEF Truthful
<1> QED BY <1>1, <1>2, <1>3, TruthfulKept

(* What the console, and an operator while no run is under way, may do.    *)
LEMMA BesideSteps ==
  ASSUME Inv, Edit \/ Follow
  PROVE  /\ mishaps' = mishaps
         /\ \/ \E i \in DOMAIN remote : ConsoleDelete(i) \/ ConsoleEdit(i)
            \/ \E b \in Blocks : ConsoleCreate(b)
            \/ Reconfigure
            \/ /\ run.at = "idle"
               /\ \/ \E b \in Blocks : (\E i : Import(b, i)) \/ ForgetBinding(b)
                  \/ \E b : BeginDelete(b)
                  \/ Recover
<1>1. CASE Edit
  BY <1>1 DEF Edit
<1>2. CASE Follow
  <2>1. mishaps' = mishaps /\ run.at = "idle" /\ Guardrails \subseteq Blocks
    BY <1>2 DEF Follow, Blocks
  <2>2. ASSUME NEW a \in Proposals(doc, remote, want), Heed(a)
        PROVE  \/ \E i \in DOMAIN remote : ConsoleDelete(i)
               \/ \E b \in Blocks : (\E i : Import(b, i)) \/ ForgetBinding(b)
               \/ \E b : BeginDelete(b)
    <3>1. CASE a.kind = "adoption_required" /\ \E i \in UnownedNamed(doc, remote, a.on) : Adopt(a.on, i)
      <4>1. a.on \in Blocks
        BY <2>2, <3>1, AskedOfBlock
      <4>2. PICK i \in UnownedNamed(doc, remote, a.on) : Adopt(a.on, i)
        BY <3>1
      <4>3. i \in DOMAIN remote
        BY DEF UnownedNamed
      <4>4. \A g \in InTheWay(a.on, i) : g \in Blocks
        BY <2>1 DEF InTheWay
      <4> QED BY <4>1, <4>2, <4>3, <4>4 DEF Adopt
    <3>2. CASE a.kind = "missing" /\ ForgetBinding(a.on)
      <4>1. a.on \in Blocks
        BY <2>2, <3>2, AskedOfBlock
      <4> QED BY <3>2, <4>1
    <3>3. CASE BeginDelete(a.on)
      BY <3>3
    <3>4. CASE \E g \in Guardrails : ForgetBinding(g)
      BY <2>1, <3>4
    <3>5. CASE a.on \in Guardrails /\ Import(a.on, a.id)
      BY <2>1, <3>5
    <3> QED BY <2>2, <3>1, <3>2, <3>3, <3>4, <3>5 DEF Heed
  <2> QED BY <1>2, <2>1, <2>2 DEF Follow
<1> QED BY <1>1, <1>2

LEMMA BesidesTruthful ==
  ASSUME Inv, Truthful, Edit \/ Follow
  PROVE  Truthful'
<1>1. mishaps' = mishaps /\ doc \in Documents
  BY BesideSteps DEF Inv, Sound
<1>2. ASSUME NEW i \in DOMAIN remote, ConsoleDelete(i) \/ ConsoleEdit(i)
      PROVE  Truthful'
  <2>1. \/ remote' \in {Without(i), [remote EXCEPT ![i].matches = FALSE]}
        \/ \E under : remote' = [remote EXCEPT ![i].under = under]
    BY <1>2 DEF ConsoleDelete, ConsoleEdit
  <2>2. Alike(remote')
    BY <2>1, AlikeSteps
  <2> QED BY <1>1, <1>2, <2>2, DisturbedTruthful DEF ConsoleDelete, ConsoleEdit
<1>3. ASSUME NEW b \in Blocks, ConsoleCreate(b)
      PROVE  Truthful'
  <2> PICK i \in Fresh(b) : /\ \E object : remote' = With(i, object)
                            /\ Disturbed /\ doc' = doc
    BY <1>3 DEF ConsoleCreate
  <2>1. i \notin Mentioned
    BY DEF Fresh
  <2>2. Alike(remote')
    BY <2>1, AlikeSteps
  <2> QED BY <1>1, <2>2, DisturbedTruthful
<1>4. ASSUME run.at = "idle", run' = run, remote' = remote,
             \A x \in Destinations : \/ doc'.digest[x] = None
                                     \/ doc'.id[x] = doc.id[x] /\ doc'.digest[x] = doc.digest[x]
      PROVE  Truthful'
  <2>1. run.todo = {}
    BY <1>4, QuietRun
  <2> QED BY <1>1, <1>4, <2>1, AlikeSteps, RestTruthful
<1>5. ASSUME run.at = "idle", NEW b \in Blocks, (\E i : Import(b, i)) \/ ForgetBinding(b)
      PROVE  Truthful'
  <2>1. run' = run /\ remote' = remote
    BY <1>5 DEF Import, ForgetBinding
  <2>2. \/ doc' = Forget(doc, b)
        \/ \E i : CanImport(b, i) /\ doc' = Imported(b, i)
    BY <1>5 DEF Import, ForgetBinding
  <2>3. \A x \in Destinations : \/ doc'.digest[x] = None
                                \/ doc'.id[x] = doc.id[x] /\ doc'.digest[x] = doc.digest[x]
    BY <1>1, <2>2, ForgottenDestinations, ImportedDestinations
  <2> QED BY <1>4, <1>5, <2>1, <2>3
<1>6. CASE Reconfigure
  BY <1>4, <1>6 DEF Reconfigure
<1>7. CASE run.at = "idle" /\ Recover
  <2>1. doc'.id = doc.id /\ doc'.digest = doc.digest
    BY <1>1, <1>7 DEF Recover, Documents
  <2> QED BY <1>4, <1>7, <2>1 DEF Recover
<1>8. ASSUME run.at = "idle", NEW b, BeginDelete(b)
      PROVE  Truthful'
  <2>1. /\ doc' = doc /\ remote' = remote
        /\ run' = [Idle EXCEPT !.at = "deleting", !.record = DefaultRecord(b, doc.id[b])]
    BY <1>8 DEF BeginDelete
  <2>2. run'.at = "deleting" /\ run'.todo = {}
    BY <2>1 DEF Idle
  <2> QED BY <1>1, <1>8, <2>1, <2>2, AlikeSteps, RestTruthful
<1> QED BY <1>2, <1>3, <1>5, <1>6, <1>7, <1>8, BesideSteps

LEMMA NextTruthful == Inv /\ Inv' /\ Truthful /\ [Next]_vars => Truthful'
<1> SUFFICES ASSUME Inv, Inv', Truthful, [Next]_vars PROVE Truthful'
  OBVIOUS
<1>1. CASE Start
  BY <1>1, StartTruthful
<1>2. CASE Run
  <2>1. CASE \E a \in run.todo : Execute(a)
    BY <2>1, ExecuteTruthful
  <2>2. CASE HoldBack
    BY <2>2, GoneTruthful DEF HoldBack
  <2>3. CASE Record
    BY <2>3, RecordTruthful
  <2>4. CASE Verify \/ End
    BY <2>4, VerifyTruthful
  <2>5. CASE Delete
    BY <2>5, DeleteTruthful
  <2> QED BY <1>2, <2>1, <2>2, <2>3, <2>4, <2>5 DEF Run
<1>3. CASE Kill
  BY <1>3, VerifyTruthful
<1>4. CASE Edit \/ Follow
  BY <1>4, BesidesTruthful
<1>5. CASE UNCHANGED vars
  <2>1. doc' = doc /\ remote' = remote /\ run' = run /\ mishaps' = mishaps
    BY <1>5 DEF vars
  <2> QED BY <2>1 DEF Truthful, Holding
<1> QED BY <1>1, <1>2, <1>3, <1>4, <1>5 DEF Next
-----------------------------------------------------------------------------
(* The report.                                                             *)

(* A plan with nothing in it to hold back finds everything in its place.   *)
LEMMA ClearMatches ==
  ASSUME Inv, Clear(doc, remote, want)
  PROVE  /\ Matching
         /\ \A x \in Destinations : AsWanted(doc, remote, want, x)
<1>1. /\ Sound(doc) /\ Seen(remote) /\ ~Delivered(doc) /\ None \notin DOMAIN remote
      /\ \A a \in Plan(doc, remote, want) : ~HoldsBack(a)
  BY NoneIsUnseen DEF Inv, Clear
<1>2. ASSUME NEW p \in Proposals(doc, remote, want)
      PROVE  p.kind = "no_op" /\ ~p.blocked /\ ~Writes(p)
  <2>1. PICK a \in Plan(doc, remote, want) :
           /\ a.on = p.on /\ a.kind = p.kind /\ (p.blocked => a.blocked)
           /\ ~a.blocked => a = p
    BY <1>1, PlanHas
  <2>2. ~Writes(a) /\ ~BlocksDependents(a) /\ ~a.blocked
    BY <1>1 DEF HoldsBack
  <2>3. p \in Actions
    BY <1>1, ProposalDue
  <2>4. p = a /\ p.kind \in Kinds
    BY <2>1, <2>2, <2>3 DEF Actions
  <2> QED BY <2>2, <2>4 DEF Writes, BlocksDependents, Kinds
<1>3. ASSUME NEW w \in Workspaces
      PROVE  InPlace(w)
  <2>1. WorkspaceAction(doc, remote, w) \in Proposals(doc, remote, want)
    BY DEF Proposals
  <2>2. doc.id[w] \in DOMAIN remote /\ remote[doc.id[w]].matches
    BY <1>1, <1>2, <2>1, WorkspaceMeans
  <2>3. IdentityOf(w) = doc.id[w] /\ PlacedIn(doc, w) = None
    BY Sections, SectionsAssumption DEF IdentityOf, PlacedIn, Home
  <2> QED BY <2>2, <2>3 DEF InPlace, Elsewhere
<1>4. ASSUME NEW x \in Destinations
      PROVE  InPlace(x) /\ AsWanted(doc, remote, want, x)
  <2>1. DestinationAction(doc, remote, want, x) \in Proposals(doc, remote, want)
    BY DEF Proposals
  <2>2. /\ Mine(doc, remote, x) /\ remote[doc.id[x]].matches
        /\ AsWanted(doc, remote, want, x)
    BY <1>1, <1>2, <2>1, DestinationMeans
  <2>3. IdentityOf(x) = doc.id[x]
    BY Sections DEF IdentityOf
  <2> QED BY <2>2, <2>3 DEF InPlace, Mine
<1>5. ASSUME NEW g \in Guardrails
      PROVE  InPlace(g)
  <2>1. GuardrailAction(doc, remote, g) \in Proposals(doc, remote, want)
    BY DEF Proposals
  <2> QED BY <1>1, <1>2, <2>1, GuardrailMeans DEF InPlace, IdentityOf
<1>6. ASSUME NEW k \in Keys
      PROVE  InPlace(k) /\ Assigned(k)
  <2>1. KeyAction(doc, remote, k) \in Proposals(doc, remote, want)
    BY DEF Proposals
  <2>2. ~PendingAt(doc, k)
    BY <1>1, <1>2, <2>1, KeyMeans
  <2>3. Mine(doc, remote, k) /\ remote[doc.id[k]].matches
    BY <1>1, <1>2, <2>1, <2>2, KeyMeans
  <2>4. PICK a \in AssignmentAction(doc, remote, k) : TRUE
    BY <1>1, <2>2, <2>3, AssignmentMeans
  <2>5. a \in Proposals(doc, remote, want)
    BY <2>2, <2>4 DEF Proposals
  <2>6. UnderIts(doc, remote, k)
    BY <1>1, <1>2, <2>2, <2>4, <2>5, AssignmentMeans
  <2>7. IdentityOf(k) = doc.id[k]
    BY Sections DEF IdentityOf
  <2> QED BY <2>3, <2>6, <2>7 DEF InPlace, Mine, Assigned, UnderIts
<1> QED BY <1>3, <1>4, <1>5, <1>6 DEF Matching, Blocks

LEMMA WantedIsHeld ==
  ASSUME Inv, Truthful, run.at # "recording", mishaps = 0, NEW x \in Destinations,
         AsWanted(doc, remote, want, x), InPlace(x)
  PROVE  ConfigHeld(x)
<1>1. doc.id[x] \in DOMAIN remote /\ doc.digest[x] = want[x]
  BY Sections DEF InPlace, IdentityOf, AsWanted, Mine
<1>2. want[x] # None
  BY Sections DEF Inv
<1>3. Holding(x) /\ ~BeingRecorded(run, x)
  BY DEF Truthful, BeingRecorded
<1> QED BY <1>1, <1>2, <1>3 DEF Holding, ConfigHeld

LEMMA VerifiedHolds ==
  ASSUME Inv, Progress, Truthful, Verify
  PROVE  ReportHolds'
<1>1. /\ doc' = doc /\ remote' = remote /\ want' = want /\ run \in RunState
      /\ run.at \in {"executing", "verifying"}
  BY DEF Verify, Inv
<1>2. /\ run'.disturbed = run.disturbed
      /\ \/ run'.outcome = Outcome(FALSE)
         \/ run'.outcome = Outcome(WritesConfirm) /\ mishaps' = mishaps
  BY <1>1 DEF Verify, Reported, RunState, Smooth
<1>3. Outcome(FALSE) = "failed"
  BY DEF Outcome
<1> SUFFICES ASSUME ~run.disturbed, run'.outcome \in {"applied", "converged"}
             PROVE  /\ run'.outcome = "converged" => Matching
                    /\ run'.outcome = "applied" =>
                         /\ \A b \in Blocks : InPlace(b) \/ OperatorsTurn(b)
                         /\ \A k \in Keys : InPlace(k) => Assigned(k)
                    /\ mishaps = 0 => \A x \in Destinations : InPlace(x) => ConfigHeld(x)
  <2>1. run'.outcome \in {"applied", "converged"} => mishaps' = mishaps
    BY <1>2, <1>3
  <2>2. /\ Matching' = Matching
        /\ \A b : InPlace(b)' = InPlace(b) /\ OperatorsTurn(b)' = OperatorsTurn(b)
        /\ \A k : Assigned(k)' = Assigned(k)
        /\ \A x : ConfigHeld(x)' = ConfigHeld(x)
    BY <1>1 DEF Matching, InPlace, OperatorsTurn, Assigned, ConfigHeld, IdentityOf
  <2> QED BY <1>2, <2>1, <2>2 DEF ReportHolds
<1>4. run'.outcome = Outcome(WritesConfirm) /\ mishaps' = mishaps
  BY <1>2, <1>3
<1>5. /\ ~run.failed /\ WritesConfirm /\ ~run.skipped
      /\ ~run.waiting /\ run.held = {}
      /\ run'.outcome = "applied" => run.attempted # {}
      /\ run'.outcome = "converged" => ~run.left
  BY <1>4 DEF Outcome
<1>6. run.at = "executing" /\ run.todo = {}
  BY <1>1, <1>5 DEF Progress, Verify
<1>7. CASE run'.outcome = "converged"
  <2>1. Clear(doc, remote, want)
    BY <1>5, <1>6, <1>7 DEF Progress
  <2> QED BY <1>6, <1>7, <2>1, ClearMatches, WantedIsHeld
<1>8. CASE run'.outcome = "applied"
  <2>1. Accounts(doc, remote, want, run)
    BY <1>5, <1>6 DEF Progress, Through
  <2>2. /\ \A b \in Blocks : Quiet(doc, remote, b)
        /\ \A k \in Keys : UnderIts(doc, remote, k)
        /\ \A x \in Destinations : AsWanted(doc, remote, want, x)
    BY <1>5, <1>6, <2>1, SettledAccounts DEF Inv, WritesConfirm
  <2>3. \A k \in Keys : InPlace(k) => Assigned(k)
    BY <2>2, Sections DEF InPlace, IdentityOf, UnderIts, Mine, Assigned
  <2>4. \A b \in Blocks : InPlace(b) \/ OperatorsTurn(b)
    BY <2>2, QuietIsReported
  <2> QED BY <1>6, <1>8, <2>2, <2>3, <2>4, WantedIsHeld
<1> QED BY <1>7, <1>8

(* A run that is executing does not report in the same step.               *)
Going == run'.at \in {"executing", "recording", "verifying"}

LEMMA GoesOn ==
  ASSUME Inv, run.at = "executing", NEW a \in run.todo,
         \/ run' \in {Done(a), Failed(a), Unmade(a), Skipped(a)}
         \/ run' = [Done(a) EXCEPT !.issued = @ \cup {a.on}]
         \/ \E record : run' = Recording(a, record)
  PROVE  Going
<1>1. CASE \E record : run' = Recording(a, record)
  <2>1. PICK record : run' = Recording(a, record)
    BY <1>1
  <2>2. Done(a) \in RunState
    BY NextRuns DEF Onward
  <2>3. run'.at = "recording"
    BY <2>1, <2>2 DEF Recording, RunState
  <2> QED BY <2>3 DEF Going
<1>2. CASE run' \in {Done(a), Failed(a), Unmade(a), Skipped(a)}
  BY <1>2, NextRuns DEF Going
<1>3. CASE run' = [Done(a) EXCEPT !.issued = @ \cup {a.on}]
  BY <1>3, NextFields DEF Going
<1> QED BY <1>1, <1>2, <1>3

LEMMA ExecutedGoesOn ==
  ASSUME Inv, NEW a \in run.todo, Execute(a)
  PROVE  Going
<1>1. run.at = "executing"
  BY DEF Execute, Turn
<1>2. ASSUME NEW after, NEW next, Patch(a, after, next),
             next = Done(a) \/ \E record : next = Recording(a, record)
      PROVE  Going
  BY <1>1, <1>2, GoesOn DEF Patch
<1>3. ASSUME NEW i, NEW object, NEW record, Post(a, i, object, record)
      PROVE  Going
  BY <1>1, <1>3, GoesOn DEF Post
<1>4. ASSUME Gone(a)
      PROVE  Going
  BY <1>1, <1>4, GoesOn DEF Gone
<1>5. CASE a.on \in Workspaces /\ a.kind = "create" /\ CreateWorkspace(a.on, a)
  BY <1>3, <1>5 DEF CreateWorkspace
<1>6. CASE UpdateWorkspace(a) \/ UpdateKey(a)
  BY <1>2, <1>4, <1>6 DEF UpdateWorkspace, UpdateKey
<1>7. CASE a.on \in Destinations /\ a.kind = "create" /\ CreateDestination(a.on, a)
  BY <1>1, <1>3, <1>4, <1>7, GoesOn DEF CreateDestination
<1>8. CASE a.on \in Destinations /\ a.kind = "update" /\ UpdateDestination(a.on, a)
  BY <1>2, <1>4, <1>8 DEF UpdateDestination
<1>9. CASE a.on \in Guardrails /\ CreateGuardrail(a.on, a)
  <2>1. ASSUME NEW id, Materialize(a.on, a, id)
        PROVE  Going
    BY <1>2, <1>4, <2>1 DEF Materialize
  <2> QED BY <1>1, <1>3, <1>9, <2>1, GoesOn DEF CreateGuardrail
<1>10. CASE a.on \in Guardrails /\ UpdateGuardrail(a.on, a)
  BY <1>2, <1>4, <1>10 DEF UpdateGuardrail
<1>11. CASE a.on \in Keys /\ CreatesItsResource(a) /\ Issue(a.on, a)
  BY <1>1, <1>11, IssueDone, GoesOn
<1>12. CASE Assign(BlockOf(a.on), a) \/ Unassign(BlockOf(a.on), a)
  <2>1. Skipped(a) = [run EXCEPT !.todo = @ \ {a}, !.skipped = TRUE]
    BY DEF Skipped
  <2> QED BY <1>1, <1>2, <1>4, <1>12, <2>1, GoesOn DEF Assign, Unassign
<1> QED BY <1>5, <1>6, <1>7, <1>8, <1>9, <1>10, <1>11, <1>12 DEF Execute

LEMMA HeldGoesOn ==
  ASSUME Inv, HoldBack
  PROVE  Going
<1>1. PICK a \in run.todo : run' = Unmade(a) /\ run.at = "executing"
  BY DEF HoldBack, Turn
<1> QED BY <1>1, GoesOn

LEMMA NextReports == Inv /\ Inv' /\ Progress /\ Truthful /\ ReportHolds /\ [Next]_vars => ReportHolds'
<1> SUFFICES ASSUME Inv, Inv', Progress, Truthful, ReportHolds, [Next]_vars
             PROVE  ReportHolds'
  OBVIOUS
<1>1. CASE run'.at # "reported"
  BY <1>1 DEF ReportHolds
<1>2. CASE Start
  <2>1. CASE run' = [Idle EXCEPT !.at = "reported", !.outcome = "blocked"]
    <3>1. run'.outcome = "blocked"
      BY <2>1 DEF Idle
    <3> QED BY <3>1 DEF ReportHolds
  <2>2. CASE run' = Begun(Plan(Prepared, remote, want))
    <3>1. run'.at = "executing"
      BY <2>2 DEF Begun, Idle
    <3> QED BY <1>1, <3>1
  <2> QED BY <1>2, <2>1, <2>2 DEF Start
<1>3. CASE Run \/ Kill
  <2>1. CASE HoldBack \/ \E a \in run.todo : Execute(a)
    BY <1>1, <2>1, ExecutedGoesOn, HeldGoesOn DEF Going
  <2>2. CASE Record
    <3>1. run'.at \in {"executing", "verifying"}
      BY <2>2 DEF Record, GiveUp, Inv, RunState
    <3> QED BY <1>1, <3>1
  <2>3. CASE Verify
    BY <2>3, VerifiedHolds
  <2>4. CASE End \/ Delete \/ Kill
    <3>1. run'.at = "idle"
      BY <2>4, IdleTyped DEF End, Delete, Kill
    <3> QED BY <1>1, <3>1
  <2> QED BY <1>1, <1>3, <2>1, <2>2, <2>3, <2>4 DEF Run
<1>4. CASE Edit \/ Follow
  <2>1. CASE run.at = "idle" /\ run' = run
    BY <1>1, <2>1
  <2>2. CASE run'.at = "deleting"
    BY <1>1, <2>2
  <2>3. CASE Disturbed
    <3>1. run.at = "idle" => run' = run
      BY <2>3 DEF Disturbed
    <3>2. run.at # "idle" => run'.disturbed
      BY <2>3 DEF Disturbed, Inv, RunState
    <3> QED BY <1>1, <3>1, <3>2 DEF ReportHolds
  <2> QED BY <1>4, <2>1, <2>2, <2>3, Besides
<1>5. CASE UNCHANGED vars
  <2>1. doc' = doc /\ remote' = remote /\ want' = want /\ run' = run /\ mishaps' = mishaps
    BY <1>5 DEF vars
  <2> QED BY <2>1 DEF ReportHolds, Matching, InPlace, OperatorsTurn, Assigned, ConfigHeld, IdentityOf
<1> QED BY <1>2, <1>3, <1>4, <1>5 DEF Next

LEMMA NothingReported ==
  ASSUME Init
  PROVE  Progress /\ Truthful /\ ReportHolds
<1>1. run.at = "idle" /\ run.todo = {} /\ remote = [i \in {} |-> None] /\ doc = Empty
  BY DEF Init, Idle
<1>2. Progress
  BY <1>1 DEF Progress
<1>3. ReportHolds
  BY <1>1 DEF ReportHolds
<1>4. ASSUME NEW x \in Destinations
      PROVE  Holding(x)
  BY <1>1, Sections DEF Holding, BeingRecorded, Empty, Blocks
<1>5. Truthful
  BY <1>1, <1>4, Sections DEF Truthful, CreatesUnbound, BeingRecorded, Empty, Blocks
<1> QED BY <1>2, <1>3, <1>5

(* What a report says holds, whatever was left to do and whatever went wrong  *)
(* before: a run nothing disturbed reports `converged` only where every block *)
(* has its object and every key its guardrail, `applied` only where what is   *)
(* left is the operator's.  Either comes with destinations OpenRouter holds   *)
(* as configured only where no mishap has happened at all: one may leave the  *)
(* digest of another configuration behind.                                    *)
THEOREM ReportsHold == Spec => []ReportHolds
<1>1. Init => Inv /\ Progress /\ Truthful /\ ReportHolds
  BY NothingReported, InitInv
<1>2. Inv /\ Progress /\ Truthful /\ ReportHolds /\ [Next]_vars
        => (Inv /\ Progress /\ Truthful /\ ReportHolds)'
  BY NextInv, NextProgress, NextTruthful, NextReports
<1> QED BY <1>1, <1>2, PTL DEF Spec
=============================================================================
