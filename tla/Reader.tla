------------------------------ MODULE Reader ------------------------------
(* The snapshot a plan is computed from (ops::snapshot): the workspaces,     *)
(* their budgets, then the keys, guardrails, assignments and log             *)
(* destinations, each a listing of its own, read page by page at an offset   *)
(* (api::pagination::collect) while other people create and delete what is   *)
(* being listed.  The collections are OpenRouter's and external: a page is a *)
(* window of the collection as it is when the page is served.                *)
EXTENDS Client, Sequences, FiniteSets, SequencesExt

CONSTANTS Workspace,
          Default,      \* the credential's default workspace, listed when none is named
          Start,        \* the collections when the snapshot begins
          Fresh,        \* bound: identities of what is created meanwhile, in order
          Changing,     \* bound: the collections that change meanwhile
          MaxChanges,   \* bound: how often
          Totals,       \* what a server may claim as total_count: "none", "low", "exact"
          PageSize, MaxPages, MaxItems   \* PageLimits

Scoped == {"keys", "guardrails", "destinations"}
Collection == ({"workspaces", "assignments"} \X {None}) \cup (Scoped \X Workspace)

ASSUME ReaderAssumption ==
    /\ Default \in Workspace /\ None \notin Workspace
    /\ DOMAIN Start = Collection /\ Changing \subseteq Collection
    /\ {PageSize, MaxPages, MaxItems, MaxChanges} \subseteq Nat
    /\ PageSize > 0 /\ MaxPages > 0

Record == UNION {Range(Start[c]) : c \in Collection} \cup Range(Fresh) \cup Workspace
Kind == Scoped \cup {"workspaces", "assignments"}

(* What is listed is records, a workspace among the workspaces, and nothing  *)
(* of a workspace that is not listed; an identity is given once.             *)
ASSUME CollectionsAssumption ==
    /\ Start \in [Collection -> Seq(Record)] /\ Fresh \in Seq(Record) /\ None \notin Record
    /\ Range(Start[<<"workspaces", None>>]) \subseteq Workspace
    /\ \A c \in Collection :
          /\ Start[c] = <<>> \/ c[2] \in Range(Start[<<"workspaces", None>>]) \cup {None}
          /\ Range(Start[c]) \cap Range(Fresh) = {}
    /\ IsInjective(Fresh)

VARIABLES shelf,      \* OpenRouter's collections, in the order they are listed
          ignores,    \* whether the server ignores the offset
          todo,       \* the listings left, the one underway first
          pc,         \* "read", "asleep", "listed", "complete" or "failed"
          offset, page, collected,   \* collect's own
          attempt, waited,           \* read_with_retry's, for the request underway
          found,      \* what the finished listings found, by kind
          before, dropped,   \* history: the collection when its listing began, deletions since
          created, deleted   \* history: changes since the snapshot began

server == <<shelf, ignores, created, deleted>>
request == <<attempt, waited>>
listing == <<offset, page, collected>>
vars == <<server, request, listing, todo, pc, found, before, dropped>>

Listing == [kind : Kind \cup {"budgets"}, at : Workspace \cup {None}]

-----------------------------------------------------------------------------
(* The listings of a snapshot.                                               *)

Underway == Head(todo)
Paged(l) == l.kind # "budgets"

(* A listing that names no workspace answers for the default one.            *)
CollectionOf(l) == <<l.kind, IF l.kind \in Scoped /\ l.at = None THEN Default ELSE l.at>>

ListWorkspaces == [kind |-> "workspaces", at |-> None]
Unscoped(kind) == [kind |-> kind, at |-> None]
Each(kind, workspaces) == [i \in DOMAIN workspaces |-> [kind |-> kind, at |-> workspaces[i]]]

(* What list_workspaces and snapshot read once the workspaces are known.     *)
Rest(workspaces) ==
    Each("budgets", workspaces)
      \o <<Unscoped("keys")>> \o Each("keys", workspaces)
      \o <<Unscoped("guardrails")>> \o Each("guardrails", workspaces)
      \o <<Unscoped("assignments")>>
      \o <<Unscoped("destinations")>> \o Each("destinations", workspaces)

(* Slip: any refusal of a workspace's listing is read as an empty one.       *)
RefusedMeansNothing(l, status) == l.at # None /\ status \in 400..499

(* in_workspace and with_budgets: the refusals read as "nothing there".      *)
Nothing(l, status) ==
    \/ status = 404 /\ l.at # None /\ l.kind \in {"keys", "guardrails", "budgets"}
    \/ status = 403 /\ l.kind = "budgets"

-----------------------------------------------------------------------------
(* The server.                                                               *)

Listed(w) == w \in Range(shelf[<<"workspaces", None>>])
Exists(l) == l.at = None \/ Listed(l.at)

(* The pages it may answer with: at least one record when any is left, at    *)
(* most as many as a page holds.                                             *)
Pages(l, from) ==
    LET rest == SubSeq(shelf[CollectionOf(l)], (IF ignores THEN 0 ELSE from) + 1,
                       Len(shelf[CollectionOf(l)]))
    IN  {SubSeq(rest, 1, n) : n \in Min({1, Len(rest)})..Min({PageSize, Len(rest)})}

Claim(l, total) == CASE total = "none"  -> None
                     [] total = "low"   -> 0
                     [] total = "exact" -> Len(shelf[CollectionOf(l)])

(* The exchanges that end without an answer to the question: 404 is said of  *)
(* a workspace that is gone and of budgets a workspace has none of.          *)
Failing(l) == {x \in Exchange : /\ ~Succeeds(x)
                                /\ x.status = 404 => ~Exists(l) \/ l.kind = "budgets"}

-----------------------------------------------------------------------------
(* Reading one page.                                                         *)

ItemCap(total) == IF total = None THEN MaxItems
                  ELSE Min({MaxItems, 2 * total + PageSize})

(* Slip: the offset advances by what was asked for.                          *)
FullPageOffset(items) == offset + PageSize

(* By what arrived: a page may be shorter than it could be.                  *)
NextOffset(items) == offset + Len(items)

NoProgress(items) == Range(items) \subseteq collected
TooMany(all, total) == Cardinality(all) > ItemCap(total)

NewRequest == attempt' = 1 /\ waited' = 0

EmptyPage(items) ==
    /\ items = <<>>
    /\ pc' = "listed"
    /\ UNCHANGED listing

Page(items, total) ==
    /\ items # <<>>
    /\ collected' = collected \cup Range(items)
    /\ offset' = NextOffset(items)
    /\ page' = page + 1
    /\ pc' = IF NoProgress(items) \/ TooMany(collected', total) \/ page = MaxPages
             THEN "failed" ELSE "read"

ReadPage ==
    /\ pc = "read" /\ Paged(Underway) /\ Exists(Underway)
    /\ \E items \in Pages(Underway, offset), total \in Totals :
          EmptyPage(items) \/ Page(items, Claim(Underway, total))
    /\ NewRequest
    /\ UNCHANGED <<server, todo, found, before, dropped>>

ReadBudgets ==
    /\ pc = "read" /\ ~Paged(Underway) /\ Exists(Underway)
    /\ pc' = "listed"
    /\ UNCHANGED <<server, request, listing, todo, found, before, dropped>>

(* A body that is no page, or holds a record without a usable identity.      *)
Unusable ==
    /\ pc = "read" /\ pc' = "failed"
    /\ UNCHANGED <<server, request, listing, todo, found, before, dropped>>

Wishes(x) == IF x.status = NoAnswer THEN {None} ELSE RetryAfter \cup {None}

(* One more than the longest wait the policy allows a request, where the     *)
(* history of waiting stops counting.                                        *)
LongestWait == (MaxAttempts - 1) * MaxBackoff
Waited(delay) == Min({waited + delay, LongestWait + 1})

Repeat ==
    /\ pc = "read" /\ pc' = "asleep"
    /\ \E x \in Failing(Underway) :
          /\ Retryable(x) /\ AttemptsLeft(attempt)
          /\ \E wish \in Wishes(x) : waited' = Waited(NextDelay(attempt, wish))
    /\ UNCHANGED <<server, attempt, listing, todo, found, before, dropped>>

Wake ==
    /\ pc = "asleep" /\ pc' = "read"
    /\ attempt' = NextAttempt(attempt)
    /\ UNCHANGED <<server, waited, listing, todo, found, before, dropped>>

(* The exchange that is not repeated: nothing there, or the snapshot fails.  *)
GiveUp ==
    /\ pc = "read"
    /\ \E x \in Failing(Underway) :
          /\ ~(Retryable(x) /\ AttemptsLeft(attempt))
          /\ IF Nothing(Underway, StatusOf(x))
             THEN pc' = "listed" /\ collected' = {}
             ELSE pc' = "failed" /\ UNCHANGED collected
    /\ UNCHANGED <<server, request, offset, page, todo, found, before, dropped>>

Known == SetToSeq(collected)

(* From one listing to the next.                                             *)
NextListing ==
    /\ pc = "listed"
    /\ LET l == Underway
           left == IF l.kind = "workspaces" THEN Rest(Known) ELSE Tail(todo)
       IN  /\ found' = IF Paged(l) THEN [found EXCEPT ![l.kind] = @ \cup collected] ELSE found
           /\ todo' = left
           /\ pc' = IF left = <<>> THEN "complete" ELSE "read"
           /\ before' = IF left = <<>> \/ Head(left).kind = "budgets" THEN {}
                        ELSE Range(shelf[CollectionOf(Head(left))])
    /\ offset' = 0 /\ page' = 1 /\ collected' = {} /\ dropped' = 0
    /\ NewRequest
    /\ UNCHANGED server

-----------------------------------------------------------------------------
(* Everybody else, at any moment of the read.                                *)

Reading == pc \notin {"complete", "failed"}
MayChange == Reading /\ created + deleted < MaxChanges

Create(c) ==
    /\ MayChange /\ c[1] # "workspaces" /\ created < Len(Fresh)
    /\ c[2] = None \/ Listed(c[2])
    /\ \/ shelf' = [shelf EXCEPT ![c] = <<Fresh[created + 1]>> \o @]
       \/ shelf' = [shelf EXCEPT ![c] = @ \o <<Fresh[created + 1]>>]
    /\ created' = created + 1
    /\ UNCHANGED <<ignores, deleted, request, listing, todo, pc, found, before, dropped>>

(* A workspace goes with everything in it.                                   *)
Without(c, i) == [d \in Collection |->
    IF d = c THEN RemoveAt(shelf[c], i)
    ELSE IF d[2] = shelf[c][i] THEN <<>> ELSE shelf[d]]

Delete(c) ==
    /\ MayChange
    /\ \E i \in DOMAIN shelf[c] : shelf[c][i] # Default /\ shelf' = Without(c, i)
    /\ deleted' = deleted + 1
    /\ dropped' = IF Paged(Underway) /\ CollectionOf(Underway) = c THEN dropped + 1 ELSE dropped
    /\ UNCHANGED <<ignores, created, request, listing, todo, pc, found, before>>

-----------------------------------------------------------------------------
Init ==
    /\ shelf = Start /\ ignores \in BOOLEAN
    /\ todo = <<ListWorkspaces>> /\ pc = "read"
    /\ offset = 0 /\ page = 1 /\ collected = {}
    /\ attempt = 1 /\ waited = 0
    /\ found = [k \in Kind |-> {}]
    /\ before = Range(Start[<<"workspaces", None>>]) /\ dropped = 0
    /\ created = 0 /\ deleted = 0

Read == ReadPage \/ ReadBudgets \/ Unusable \/ Repeat \/ Wake \/ GiveUp \/ NextListing

Next == \/ Read
        \/ \E c \in Changing : Create(c) \/ Delete(c)

Spec == Init /\ [][Next]_vars
FairSpec == Spec /\ WF_vars(Read)

-----------------------------------------------------------------------------
(* Every variable has the values its comment says.                           *)
TypeOK ==
    /\ \A c \in Collection : Range(shelf[c]) \subseteq Record
    /\ ignores \in BOOLEAN
    /\ Range(todo) \subseteq Listing
    /\ pc \in {"read", "asleep", "listed", "complete", "failed"}
    /\ offset \in Nat /\ page \in 1..MaxPages + 1 /\ collected \subseteq Record
    /\ attempt \in 1..MaxAttempts /\ waited \in 0..LongestWait + 1
    /\ found \in [Kind -> SUBSET Record]
    /\ before \subseteq Record /\ dropped \in Nat
    /\ created + deleted \in 0..MaxChanges

(* A listing that reached its end omits no record that was there throughout, *)
(* but for one per record deleted while it was being read: the records       *)
(* behind a deleted one move up, and the one that moves onto a page already  *)
(* read is never seen.  Whatever the pages' lengths, the overlaps, the       *)
(* claimed totals and the repeated requests (pagination::collect).           *)
OmitsOnlyDisplaced ==
    pc = "listed" /\ Paged(Underway) =>
        Cardinality((before \cap Range(shelf[CollectionOf(Underway)])) \ collected) =< dropped

(* A snapshot that is handed on holds every record of every kind that was    *)
(* there when it began, if nothing was deleted meanwhile: whatever is        *)
(* created, refused, repeated or misreported on the way is in it or has      *)
(* failed it (ops::snapshot).                                                *)
SnapshotIsWhole ==
    pc = "complete" /\ deleted = 0 =>
        \A c \in Collection : Range(Start[c]) \subseteq found[c[1]]

(* However the server answers and whatever it asks for in Retry-After, the   *)
(* waits of one request add up to no more than its policy allows             *)
(* (retry::next_delay, read_with_retry).                                     *)
WaitBounded == waited =< LongestWait

(* Every snapshot is completed or fails, also against a server that fails    *)
(* every request, that ignores the offset or that claims any total.          *)
SnapshotEnds == <>(pc \in {"complete", "failed"})
=============================================================================
