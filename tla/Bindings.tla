------------------------------ MODULE Bindings ------------------------------
(* What the configuration describes, and the sections of the state file that  *)
(* bind its blocks to remote objects: state::State without the key journal    *)
(* (KeyLedger), whose phases are here the three a planner tells apart.        *)
(* Origins, timestamps and names are left out: nothing decided here reads     *)
(* them, but for the name a block's objects answer to (Named).                *)
EXTENDS FiniteSets

CONSTANTS Workspaces, Guardrails, Destinations, Keys,   \* the configured blocks
          DefaultOf,    \* the guardrail a workspace block names as its default
          Placement,    \* the workspace a block names
          RailOf,       \* the guardrail a key block names; None clears it
          Named,        \* bound: the identities OpenRouter can give objects that
                        \* answer to a block's name
          Configs,      \* the values of a destination's write-only `config`
          None

Blocks == Workspaces \cup Guardrails \cup Destinations \cup Keys
WorkspaceIds == UNION {Named[w] : w \in Workspaces}

(* The identity a workspace object names as its default guardrail.            *)
DefaultGuardrail(workspace) == <<"default guardrail", workspace>>
Defaults == {DefaultGuardrail(i) : i \in WorkspaceIds}

GuardrailIds == Defaults \cup UNION {Named[g] : g \in Guardrails}
KeyIds == UNION {Named[k] : k \in Keys}
DestinationIds == UNION {Named[d] : d \in Destinations}

IdsFor(b) == IF b \in Workspaces THEN WorkspaceIds
             ELSE IF b \in Guardrails THEN GuardrailIds
             ELSE IF b \in Destinations THEN DestinationIds ELSE KeyIds
Ids == UNION {IdsFor(b) : b \in Blocks}

(* The block whose name an object answers to; a default guardrail has a fixed *)
(* one, which no block can claim.                                             *)
DefaultingTo(g) == IF \E w \in Workspaces : DefaultOf[w] = g
                     THEN CHOOSE w \in Workspaces : DefaultOf[w] = g ELSE None

(* The sections of a configuration are apart, and a block names a block of    *)
(* the section it must, a workspace block no workspace; OpenRouter gives no   *)
(* object another's identity.                                                 *)
Apart(A, B) == A \cap B = {}
ASSUME SectionsAssumption ==
    /\ Apart(Workspaces, Guardrails \cup Destinations \cup Keys)
    /\ Apart(Guardrails, Destinations \cup Keys) /\ Apart(Destinations, Keys)
    /\ DefaultOf \in [Workspaces -> Guardrails \cup {None}]
    /\ Placement \in [Blocks -> Workspaces \cup {None}]
    /\ \A w \in Workspaces : Placement[w] = None
    /\ RailOf \in [Keys -> Guardrails \cup {None}]
    /\ \A b \in Blocks : Apart(Named[b], Defaults)
    /\ \A b, c \in Blocks : b # c => Apart(Named[b], Named[c])
    /\ None \notin Blocks \cup Ids \cup Defaults \cup Configs

(* config::validate: a default guardrail belongs to one workspace, and to the *)
(* one its block names if it names one; it has no name of its own.            *)
ValidatedAssumption ==
    /\ \A v, w \in Workspaces : DefaultOf[v] # None /\ DefaultOf[v] = DefaultOf[w] => v = w
    /\ \A w \in Workspaces : DefaultOf[w] # None
         => Placement[DefaultOf[w]] \in {w, None} /\ Named[DefaultOf[w]] = {}

ASSUME ValidatedAssumption

-----------------------------------------------------------------------------
(* The document.  `pending` is the operation a failed issuance left.          *)

Pending == [key : Keys, hash : KeyIds, phase : {"unknown", "dead", "delivered"}]

Documents == [id       : [Blocks -> Ids \cup {None}],
              default  : [Workspaces -> Defaults \cup {None}],
              digest   : [Destinations -> Configs \cup {None}],
              retained : [Keys -> SUBSET KeyIds],
              pending  : Pending \cup {None}]

Empty == [id       |-> [b \in Blocks |-> None],
          default  |-> [w \in Workspaces |-> None],
          digest   |-> [d \in Destinations |-> None],
          retained |-> [k \in Keys |-> {}],
          pending  |-> None]

Bound(doc, b) == doc.id[b] # None
PendingAt(doc, k) == doc.pending # None /\ doc.pending.key = k

(* The identities no other address may take.                                  *)
Owned(doc) == ({doc.id[b] : b \in Blocks} \ {None})
              \cup (UNION {doc.retained[k] : k \in Keys})
              \cup (IF doc.pending = None THEN {} ELSE {doc.pending.hash})

(* Slip: an identity is checked against its own address only.                 *)
CanBindUnowned(doc, b, id) == doc.id[b] \in {id, None}
(* bind_guardrail, bind_workspace, bind_log_destination and bind_key: one     *)
(* remote object belongs to one address, and an address keeps its object.     *)
CanBind(doc, b, id) == /\ doc.id[b] \in {id, None}
                       /\ doc.id[b] = None => id \notin Owned(doc)
                       /\ b \in Keys => ~PendingAt(doc, b)

Bind(doc, b, id) == [doc EXCEPT !.id[b] = id]

(* A binding that has no default identity takes the one it is handed.         *)
BindWorkspace(doc, w, id, default) ==
    [Bind(doc, w, id) EXCEPT !.default[w] = IF @ = None THEN default ELSE @]

(* Only a write of the configuration knows its digest.                        *)
BindDestination(doc, d, id, digest) ==
    [Bind(doc, d, id) EXCEPT !.digest[d] = IF digest = None THEN @ ELSE digest]

(* Recreation is the one case where an address changes its object.            *)
CanReplaceGuardrail(doc, g, id) == id \notin Owned(doc) \ {doc.id[g]}

(* import::bind_default_guardrail, after BindWorkspace.                       *)
CanBindDefault(doc, w, default) ==
    (IF default = None THEN {} ELSE {DefaultOf[w]} \ {None})
        \subseteq {g \in Guardrails : CanBind(doc, g, default)}
BindDefault(doc, w, default) ==
    IF DefaultOf[w] = None \/ default = None THEN doc ELSE Bind(doc, DefaultOf[w], default)

(* lifecycle::release: a workspace takes its default guardrail with it,       *)
(* wherever that is bound.                                                    *)
CanForget(doc, b) == Bound(doc, b) /\ ~(b \in Keys /\ PendingAt(doc, b))
ReleasedWith(doc, w) == {w} \cup {g \in Guardrails : Bound(doc, g) /\ doc.id[g] = doc.default[w]}
Forget(doc, b) ==
    CASE b \in Workspaces   -> [doc EXCEPT !.id = [c \in Blocks |-> IF c \in ReleasedWith(doc, b)
                                                                      THEN None ELSE @[c]],
                                           !.default[b] = None]
      [] b \in Guardrails   -> [doc EXCEPT !.id[b] = None]
      [] b \in Destinations -> [doc EXCEPT !.id[b] = None, !.digest[b] = None]
      [] b \in Keys         -> [doc EXCEPT !.id[b] = None, !.retained[b] = {}]

(* The key a completed issuance made current, its predecessor retained.       *)
Promote(doc, k, hash) == [doc EXCEPT !.id[k] = hash,
                                     !.retained[k] = @ \cup ({doc.id[k]} \ {None}),
                                     !.pending = None]

(* state::check_invariants over these sections.                               *)
OneAddressEach(doc) == \A b, c \in Blocks : b # c /\ doc.id[b] = doc.id[c] => doc.id[b] = None
=============================================================================
