# Keymaster in TLA+

Keymaster (`openrouter-keymaster`) is a command-line program and library that
manages OpenRouter inference keys, guardrails, workspaces and log destinations
from one TOML file. Its hard part is custody: a key's plaintext exists once, in
one HTTP response, `POST /keys` is not idempotent, an answer can be lost, a
process can die between any two steps, and the only record of what was done is
one local JSON file. This directory models that part of the program in TLA+,
checks it with TLC and proves what can be proved about it for every size with
TLAPS.

- [Inventory](#inventory): the program's parts, their state and what makes them right
- [Modules](#modules): which module models which part, and how it corresponds
- [Runs](#runs): what each check asks, its bounds and what it shows
- [Fairness](#fairness)
- [Proofs](#proofs)
- [Findings](#findings)
- [What is left out](#what-is-left-out) and the [plan](#plan)

Paths without a prefix are under `src/crates/core/src/`. `PROJECT.json` holds
the line-by-line map from definitions to the source, the list of hazards with
the properties that cover each, and for each property a mutation of the model
that breaks it.

## Inventory

The program is sequential: one process, no threads of its own, one request at a
time. What makes it hard is not concurrency inside a process but everything
around one: other processes, a machine that stops, a server that may or may not
have acted, an operator, and OpenRouter's own console.

| Part | Source | State it keeps | Operations | What makes it right |
|---|---|---|---|---|
| State model: keys | `state/mod.rs` | per address: `current`, `pending` operation, `retained` hashes, `generation_floor` | `begin_create`, `advance_key` (7 transitions), `abandon_create`, `promote_key`, `retire_candidate`, `clear_ambiguous_create`, `retain_leaked_candidate`, `bind_key`, `decommission_current`, `drop_retained`, `set_retained_status`, `forget_key` | any sequence of accepted mutations leaves a ledger the reader and the writer accept; a generation names one key; a delivery starts once; a superseded key stays superseded |
| State model: the rest | `state/mod.rs` | per address: guardrail id, workspace id and default guardrail, destination id and digest | `bind_*`, `forget_*`, `replace_guardrail` | one remote object at one address; a binding changes its object only when a guardrail is recreated |
| State persistence | `state/persist.rs` | the document, its serial, the lock file | lock, read, write (temporary file, rename, directory sync), release | one writer; whole documents only; what was acknowledged survives; what failed leaves no trace |
| Planner | `plan/mod.rs`, `plan/diff.rs` | none (pure) | snapshot + state + configuration to an ordered list of actions | never adopts by name; blocks what depends on what is blocked; holds issuance while an operation stands |
| Apply | `ops/apply.rs` | the run | fast-forward, read, plan, phases: workspaces, destinations, guardrails, keys, assignments, issuance; verify each write | nothing issued under a cap or guardrail that is not in force; what the report says holds; partial failure leaves a state the next apply continues from |
| Issuance | `ops/issuance.rs` | the run, and the plaintext in memory | journal, create, record, restrict, verify, deliver, promote, and a failure path from each | no live key without a record; no plaintext leaves with an unrestricted key; no key in use that nobody holds |
| Recovery and rotation | `ops/recover.rs`, `ops/rotate.rs` | as issuance | `recover resolve`, `recover replace`, `rotate` | every phase a run can be left in has a command that settles it |
| Key lifecycle, import | `ops/lifecycle.rs`, `ops/import.rs` | as above | `retire`, `delete key`, `decommission [--delete]`, `delete workspace`, `delete log-destination`, `state forget`, `import` | nothing recorded as dead that is not; nothing killed that was not named; nothing deleted along with a workspace unseen |
| HTTP client | `client/` | attempt counter | retried reads, single-shot writes, the one-shot create | only reads are retried, and for a bounded time; only a definite refusal counts as one |
| Reader, pagination | `api/` | offset, records so far, the listings left | complete snapshots over offset pagination | a snapshot ends, and is whole or an error |
| Receivers | `receiver/` | temporary file, child process | file, command, caller callback | an acknowledgement says what is known: delivered, refused, or neither |
| Reports | `report/` | none | one document per command; the advice about an operation that did not finish | what a document says is so; what it advises works |
| Configuration, command line, spend, secrets, identifiers | `config/`, `crates/cli/src/`, `ops/spend.rs`, `redaction.rs`, `ids.rs` | none | parsing, printing, read-only requests | single-input functions; their tests reach them |

How the parts interact: every command takes the lock (persistence), reads the
document, mutates it in memory through the state model and writes it back
through persistence, once before and once after anything that cannot be undone.
Apply reads a snapshot through the reader, plans, and calls issuance for each key
to create; rotate and `recover replace` call the same issuance. Issuance sends
writes through the client, and hands the plaintext to a receiver. Each command ends in
a report, from which an operator chooses the next command. Nothing calls back into the
program except a host's receiver callback, and the one place with threads is the
command receiver: one that writes to the adapter, one for each stream it prints to,
and the caller's, which watches the clock.

Behaviours a test hardly reaches, which the models are for:

- a process killed between a request and the write that records it;
- an answer lost after the server acted, or before it acts;
- a request accepted without effect (every write is therefore read back);
- a write to disk that fails before, or after, the rename: in the second case
  the disk is ahead of the memory;
- a power loss that takes back an unsynced rename, or an unsynced lock removal;
- contention for, and manual removal of, the lock;
- keys deleted in the console between two steps;
- a collection that changes between two pages of one listing;
- long sequences of legal commands;
- an order of writes that passes through a state the server refuses;
- an adapter that exits, or stores the key, between the last look at it and the kill;
- a pipe that fills while nobody reads it, or that an orphaned process holds open;
- a directory replaced by a link between its check and the rename in it;
- advice in a report that the command it names refuses.

`PROJECT.json` lists each of these at its line, under `hazards`.

## Modules

```
KeyLedger        the key section of the state file, as a value (no variables)
 |                                                 -- KeyLedger_proofs
 |- KeyState           any sequence of its mutations      -- KeyState_proofs
 `- Custody            a run, the ledger on disk, OpenRouter's keys, requests, journal writes
     `- Issuance       the journaled transaction
         `- Recovery   apply's decisions about keys, rotate, recover
             `- Lifecycle   retire, delete, decommission, forget, import
                 `- Reports     what the commands' documents claim, and what they advise
                     `- Keymaster   all of it, with crashes, power loss, the console
                                                          -- Keymaster_proofs
StateStore       the lock and the steps of a write   -- StateStore_proofs
 `- AtomicFile         the file the documentation promises; StateStore implements it
Delivery         what an acknowledgement is worth
Receiver         what the three receivers have in common
 |- FileReceiver       resolve, temporary file, rename, sync, clean up
 |- CommandReceiver    the adapter, its pipes, the threads, the deadline, the kill
 `- Receivers          all three; implements Delivery     -- Receivers_proofs
Budgets          a workspace's budgets: order of writes, refusals, the hold on issuing
                                                          -- Budgets_proofs
Bindings         all sections of the state file, and the configuration, as values
 `- Planner            the plan: an action for every block, and what blocks it
     `- Convergence    apply, its report, import, forget, delete, the console, an operator
                                                          -- Convergence_proofs
Client           one read: what an exchange proves, what is repeated, how long is waited
 `- Reader             the snapshot: every listing, page by page, while others change it
                                                          -- Reader_proofs
```

`MC*.tla` and `MC*.cfg` instantiate these for TLC. A definition marked *Slip* is a
plausible mistake in the definition below it; it is used only to show that a
property tells the two apart.

**KeyLedger** is `State`'s key section: one operator pair per method, `CanX` for
its early returns and `X` for its assignments, and `check_invariants` as
`CheckInvariants`. It has no variables, so that **KeyState** (the API: any caller,
any argument) and **Issuance** (the commands, each with the arguments it really
passes) share one translation. Timestamps, display names and the workspace of an
operation are left out: no mutation reads them. The `Vec` of retained hashes is
a set.

**Custody** is what every credential command acts on. `disk` is the document a
read returns, `synced` the one a power loss leaves, `run` the command that holds
the lock (at most one: that is `OneWriter` of StateStore), `remote` OpenRouter's
keys, `inflight` the creations it may still apply. `Journal` is every
`lock.write(..)?`: written, refused with the mutation rolled back in memory, or
written and reported as failed (the rename took place, the directory sync
failed), after which the run's memory no longer agrees with the disk and every
later write of the run meets the serial comparison. `Request` is every
idempotent write: applied and answered, refused, or one without the other.
`plaintext` and `waived` are history.

**Issuance** is `ops/issuance.rs` as the straight line it is: one action per
checkpoint and per request, the failure path of each an action too (`abandon`,
`doubt_create`, `reject`, `doubt_delivery`, disable-and-confirm). **Recovery** adds
what starts or settles an issuance: `fast_forward`, the planner's decision to
issue (`Issuable`, with the adoption hold of `unowned_keys_named`), rotate,
`recover resolve` in both forms, `recover replace`. **Lifecycle** adds the commands
that end a key's life and `import key`. **Keymaster** puts them together: any
command at any time no run is going, a crash between any two steps, a power
loss, a late creation, a key deleted in the console.

**Reports** is the half of `report/` that a property can be about. A credential command
that gets as far as a report says one of ten things of one key (`Holds`): that it is
promoted, retired, no longer tracked, and so on, with the warnings it is told from
(`retirement_failed`, `failed_candidate`). The step `Report` of Custody ends the run;
what it said is a conjunct of its own, so that `ReportedIsSo` compares it with the key,
the file and what a power loss would leave of the file. `Remediation` is the command
a report names for an operation, by its phase, and `FollowAdvice` an operator who runs
it; about a creation whose answer was lost, they attest that there is no key
only if `recover inspect` listed none under its name.

**StateStore** is `state/persist.rs`: `O_EXCL` creation of the lock, read, the serial
comparison, temporary file, rename, directory sync, release, each with the fault
the code's own `Fault` enum names; killed processes, power loss (which may undo
the last unsynced rename and the last change of the lock file), the operator who
removes a stale lock after looking for processes, and a writer that does not take
the lock. **AtomicFile** is what the module's documentation promises of the file;
StateStore implements it under `visible <- disk`, `durable <- synced`.

**Budgets** is the budget part of a workspace: `diff::workspace_changes`,
`budget_writes` and `write_budgets`, and the two holds on issuing and widening while
the budgets are not in force, the planner's (`hold_back_unbudgeted`) and the run's
(`note_unbudgeted`). The server's ordering rule, lifetime > monthly > weekly >
daily, is external, modelled from `config/validate.rs` and the tests of apply.

**Bindings** is what `state/mod.rs` keeps of workspaces, guardrails, log destinations
and keys, an identity per address, with the default guardrail a workspace names
and the digest of a destination's configuration; of a key's journal it keeps the
three cases a planner tells apart (an outcome nobody knows, a dead key, a
delivered one), which Keymaster has in full. The blocks of a configuration
are constants, restricted by what `config::validate` refuses. `Named` says which
identities an object gets that answers to a block's name: that is how the
planner finds an object it does not know. A default guardrail's identity is a
function of its workspace's.

**Planner** is `plan::plan`, a function of the document, one complete read and the
configuration: one definition per `plan_*` function, and `mark_blocked`'s fixpoint,
written as the three rounds the longest chain of dependencies takes. Which field
of an object differs is one bit, `matches`.

**Convergence** is `ops::apply` around it. `Start` is everything up to the plan
(`fast_forward`, the read, `record_default_identities`); `Execute` is `Apply::attempt`,
one request per step and in phase order, any order within a phase; `Record` is the write
of a new identity, a step of its own because the run may die between the two;
`HoldBack` is `runtime_holdback`; `Verify` plans again from a fresh read, and the
outcome is `report::apply::Outcome::of`. `Post` and `Patch` are every create and every
update: answered, refused or unanswered, and (`Ignores`) accepted without effect.
`Issue` is Issuance in one step, with the outcomes it can have, after
`converged_guardrail` has read the guardrail again. Around it are `import` and `state
forget` of every kind of block, `delete workspace` and `delete log-destination` in two
steps (what the workspace holds is read before the request), the console, which
may delete, change or make anything at any time, a destination whose
configuration is edited, and `Follow`: an operator who does what a report asks for,
an import, a forget, a deletion, a recovery.

**Client** is the read half of `client/`, without variables: an exchange is its status and
what became of its body; `Retryable` is the classification `consume` makes of it,
`StatusOf` the status its error keeps, `NextDelay` the policy of `retry.rs`.

**Reader** is `ops::snapshot`: a queue of listings (workspaces, then the budgets of each,
then keys, guardrails, assignments and destinations, the scoped ones once without a
workspace and once for each), `collect`'s loop over the pages of the listing underway
and `read_with_retry`'s over the attempts of its request. An attempt, a sleep and the
step to the next listing are actions of their own, and between any two of them a
record may be created or deleted, or a workspace with all that is in it. The
collections are external: a page is a window of any allowed length of the
collection as it is then, at the offset asked for or, if the server `ignores` it, at
the start. `before` and `dropped` are history.

**Delivery** is what `receiver/mod.rs` says of the three acknowledgements: delivered and
rejected are facts about the destination, when they are given and from then on;
ambiguous promises nothing, and in no case is half a key where the key belongs. `copy`
is a second copy of the plaintext a receiver made on its way.

**Receiver** holds what the three have in common, and the process being killed.
**FileReceiver** is `receiver/file.rs` over `files.rs`: one action per system call, each of
which may fail, and other programs between any two of them, which replace the
directory with a link, put something under the target's name, or remove the temporary
file; `lasting` is what a power loss leaves. **CommandReceiver** is
`receiver/command.rs`: spawn, the loop of `try_wait` and the clock, kill and wait, the
grace for what is still in the pipes; three threads; and the adapter, which is external.
It keeps the two promises of `docs/receiver-protocol.md` (exit 0 only with the key
committed, exit 10 only if it is not and will not be). Otherwise it may ignore its input, print
without end, never finish, start a process that outlives it, or be beyond
Keymaster's permission to kill (`nature`). An obliging one also reads to the end
before it acts, and is done before the deadline. Pipes are counters with a capacity. The
host's callback of `receiver/caller.rs` is one step, whose word is the host's.
**Receivers** puts the three together.

Four facts about the code that the model has and a reader may not expect. Nothing syncs the
parent of a directory that the receiver makes (`create_private_directory` is `create_dir_all` and a
chmod, `file.rs:197-204`), so on a file system where a new directory's entry needs
such a sync, a power loss after `delivered` can take the directory and the key with it. That is the
constant `Forgets`: with it, `ImplementsDelivery` fails in nine steps (make the directory, write,
rename, sync, answer, lose power); the run and the theorem are about a file system that
does not forget, and the two other theorems about either.
`remove_temporary` is followed by no directory sync, so a power loss soon after a
`rejected` may bring the temporary file, and with it the plaintext, back
(`Delivery!Resurface`; the key is disabled by then). `create_temporary_at` leaves an empty file behind if
`fchmod` fails. And several keys may name one file: the second delivery replaces the
first one's key, which the receiver reports as delivered; that is `Found`, the
file a delivery finds in its place.

How the modules join: Issuance's `Deliver` takes the receiver's answer for a fact if it is
delivered or rejected and for nothing if it is ambiguous or missing, which is what
Receivers implements Delivery for. Planner and Convergence take a complete read to be one step; what a
real one can miss is Reader's subject. Keymaster takes from StateStore that there is one writer
and that a write is atomic, and keeps only the two facts of a write that reach a
caller (failed without trace, or in place and reported as failed). KeyState's
invariants are not assumed by Keymaster: the guards are the same operators, and
the properties there are its own. Convergence
takes one writer and atomic writes from StateStore as well, and from Issuance the
ways it can end.

## Runs

| Run | Asks | Bounds | States | Time |
|---|---|---|---|---|
| `keystate_two` | does any sequence of accepted mutations keep the ledger acceptable, a generation's meaning, single delivery, and superseded keys superseded? | 2 addresses, 2 hashes, 3 generations | 0.4 M | 1 min |
| `store` | one writer, durability, no trace of failures; does the file implement AtomicFile; is the lock always free again? | 2 runs of up to 3 writes, 2 faults, 4 serials, one foreign write outside the comparison's window | 0.4 M | 45 s |
| `keymaster_one` | custody of every key through every command; is a serving key killed only as asked, and is what the commands report so? | 1 address, 2 hashes, 2 operations, 2 generations, 2 mishaps | 1.1 M | 1 min |
| `keymaster_two` | the same across addresses, in an apply of several keys, imports and forgets | 2 addresses, 2 hashes, 2 operations, 1 generation, 2 mishaps | 0.7 M | 40 s |
| `keymaster_settles` | does an operator who does what the reports advise settle every operation? | 1 address, 1 key to create and 1 to import, 4 generations, 2 mishaps | 0.3 M | 50 s |
| `budgets_order` | which budget writes can be refused, what is issued meanwhile, and do the budgets come into force? | 3 intervals, 3 amounts, 1 mishap, 1 edit | 0.4 M | 50 s |
| `converge_held` | does what a report says hold; is nothing touched that is not owned, nothing created twice, nothing issued under a wrong guardrail? | a workspace with its default guardrail, an ordinary guardrail, a log destination, a key under the guardrail; 2 identities each; 2 mishaps, 2 interventions | 1.3 M | 2 min |
| `converge_settles` | do repeated applies, and an operator who follows the reports, reach the configuration? | a workspace with its default guardrail, an ordinary guardrail, a log destination, a key under the default; 2 identities each, 3 for the key; 1 mishap, 1 intervention | 0.4 M | 70 s |
| `converge_stranded` | the same, without the import no report asks for (no: finding) | a workspace, its default guardrail, a key under it; 1 mishap | counterexample | 2 s |
| `reader_whole` | what can a finished listing omit; is a snapshot whole or an error, whatever the server answers; does it end? | 2 workspaces, 5 keys, 1 of each other kind, 2 changes, pages of up to 2, 3 attempts | 0.3 M | 30 s |
| `converge_digest` | does `converged` mean that a destination has its configuration? (no: finding) | a workspace, a destination; 1 mishap, 2 interventions | counterexample | 1 s |
| `receivers_answer` | what does an acknowledgement prove; is the key ever in a directory behind a link; does a delivery end, and is an obliging adapter heard? | 2 changes by others; an envelope of 2 pieces, pipes of up to 2, outputs of up to 2 | 0.6 M | 90 s |

Why the bounds are enough:

- *Addresses, hashes.* The ledger's rules relate two hashes or two addresses at a
  time (distinctness, one operation in the file), so two of each reach every
  conflict. An apply of several keys needs two addresses (`keymaster_two`);
  everything else about one key's life needs one, and gets a second generation,
  for its successor.
- *Generations.* Three give a current key, a retained one and an operation at
  once, and the last is the overflow of `checked_add`. `keymaster_settles` has four, so
  that an operation can be replaced more than once before numbers run out.
- *Mishaps.* A mishap is a step after which the run knows less than what happened
  (`Custody`). Two let a failure path fail. Killed processes and plain refusals
  are not mishaps and are unbounded.
- *Runs, writes, faults of the store.* The holder of the lock and one that is
  refused, or comes after; a second write is what meets the conflict a failed
  sync left, a third comes after that. Two faults are a death and a death during
  its clean-up. The unlocked writer keeps out of the window between the
  comparison and the rename (`Foreign`): within it, a document of its is overwritten,
  since the comparison is not atomic with the rename.
- *Operation identifiers.* `Minted` picks one nothing that still counts carries, so
  two stand for any number of attempts.
- *Intervals, amounts.* The rule relates two intervals, and a refusal needs one that
  is set while a narrower one decreases; the third lets a refused write be
  followed by others. One mishap per run suffices for `IssuingUnderBudget` and for
  recovery; the edit changes the target halfway.

- *Blocks.* One of each kind, and both kinds of guardrail, have every dependency
  there is: a key on a guardrail, that on a workspace, an assignment on both.
  A second key, which an operation that stands at the first would hold back, and a key under
  no guardrail are in the proofs, and the former in `keymaster_two`. A
  second workspace, and so an object in the wrong one of two, is in no run; an
  object outside every workspace stands for it.
- *Identities.* An object that is gone and its successor, or an object and a
  stranger of the same name. With one mishap and one intervention no run of
  `converge_settles` ends for want of an identity: the deadlock check is on there.
- *Mishaps and interventions of Convergence.* A mishap is a lost, refused or ignored
  request, a state write that fails (with or without effect), or a killed run;
  an intervention one step of the console, or one command an operator gives
  unasked. Two of each let one of either kind meet the other, and itself;
  what follows a report (`Follow`) is not bounded.

- *Reader.* A record can be displaced once a page has been read before it, and a third
  key makes the second page of a listing the one that misses it. Two changes let an
  insertion undo, or a second deletion repeat, what a deletion does. Failed requests are
  not bounded: the policy bounds them. Records within one page are distinct (the
  model's collected records are a set, so one page that repeats itself is the only
  repetition it tells apart).

- *Receivers.* An envelope of two pieces and pipes of one or two are the adapter that must
  read before Keymaster can finish writing, and the one that need not; likewise its
  output. Two changes by other programs are a link put in place and taken away again.
  Faults are not bounded: each step may fail.

Symmetry is used over hashes, operation identifiers, addresses and object
identities, only in runs without liveness. `CHECK_DEADLOCK FALSE` is set where the system may stop: all runs
ended, generations, identifiers or identities exhausted, budgets as configured.

What the properties say, beyond the type invariants:

- **LedgerConsistent**: `check_invariants` holds after every sequence of accepted
  mutations, so the file never becomes unreadable and the branches the code calls
  unreachable are.
- **GenerationNamesOneKey**, **DeliveryStartsOnce**, **RetainedNeverReturns**: what the
  numbers and the `rejected` flag of the journal are for.
- **OneWriter**, **AcknowledgedSurvives**, **FailedLeavesNoTrace**,
  **ImplementsAtomicFile**, **LockEventuallyFree**: the store's guarantee.
- **NoSilentOrphan**: each key a run made, or may yet have made, is in the ledger, or
  the operation that made it stands there, or an operator has answered for it;
  on the disk and after a power loss.
- **ExposedIsRestricted**: the plaintext leaves only with a key that carries its
  settings and guardrail, whatever the answers to the requests said.
- **CurrentWasDelivered**: no lost acknowledgement, crash or fast-forward makes current
  a key nobody holds.
- **RetiredIsDead**: what the ledger calls retired cannot be used.
- **FollowUpOnlyOnTrackedKeys**: nothing is sent about a key that is not on disk.
- **ServingKeyKilledOnlyOnRequest**: a current key only by a decommission; a delivered
  key never in the course of an apply or a rotation.
- **ReportedIsSo**: what a command reports of a key is so, at OpenRouter and in the state file,
  for every command whose document makes a claim. That a key was promoted, left
  unpromoted, cleared, released, bound or dropped survives a power loss too. That one was
  retired, or could not be, is a claim about the file as it is: a command that finds on disk what it
  would write writes nothing, so its claim is no more durable than the write before it, whose
  directory sync may have failed.
- **EveryOperationSettles**: whatever phase an operation was left in, the command that the
  reports name for it accepts and settles it.
- **IssuingUnderBudget**: nothing is issued in a workspace whose configured budget is
  not in force, but for a write of an earlier run that lands between this run's
  read and its issuance.
- **RefusalIsContained**, **BudgetsComeIntoForce**: the only write the server's rule refuses
  is of one shape, it hides no other, and the next apply makes it.
- **OnlyOwnedTouched**: a run changes no object that the state file does not own; a
  delete that nothing disturbed takes nothing along that the read before it did not show.
  What the console puts into a workspace between that read and the `DELETE` goes with the
  workspace: OpenRouter has no delete on a condition, so the property allows just that
  (`Taken`). A key elsewhere that
  somebody put under the default guardrail of a deleted workspace loses it: the guardrail
  goes with the workspace, and no read shows what is under it.
- **CreatesNoSecond**: whatever was lost before, apply creates nothing for a block whose
  object is there, and nothing beside an object of the same name that nobody owns, so not
  even the second object that apply's own messages announce (see the findings).
- **IssuedUnderGuardrail**: a key put into service is in its workspace and under its
  guardrail, which is present and as configured, though it was planned before the
  guardrail was written and the console may have changed it since.
- **ReportHolds**: what a report says is so. `converged`: everything is as configured;
  `applied`: so is everything no operator has to clear first. That OpenRouter holds the
  configurations of the destinations it claims only where no mishap has happened: finding 2.
- **EventuallyMatches**: repeated applies reach the configuration and stay there.
- **OmitsOnlyDisplaced**: a listing that reached its end omits at most one record for each
  one deleted while it was read. It is the exact measure of what pagination by offset
  can promise: with a deletion, the record that moves onto a page already read is
  omitted, and nothing reports it.
- **SnapshotIsWhole**: if nothing was deleted, a snapshot that is handed on holds everything
  that was there when it began, through short pages, overlaps, wrong totals, repeated
  requests and refusals.
- **WaitBounded**, **SnapshotEnds**: no server decides how long a read goes on.
- **ImplementsDelivery**: delivered and rejected are facts, through late exits, orphaned
  processes, failed clean-ups, killed processes and power losses.
- **KeyOnlyWhereChecked**: no change of the path, at any moment, brings the key into a directory that
  the path reaches through a link.
- **DeliveryEnds**: a delivery ends, with one exception: an adapter that
  Keymaster may not kill (it changed its user) is waited for without bound, since
  `command.rs:255-256` ignores the kill's failure and waits, although "nothing here can outlast
  the bound". A host's callback that never returns is the host's.
- **ObligingIsHeard**: an adapter that does as the protocol advises is neither blocked by a
  full pipe nor overtaken by what it started, and its exit status is what Keymaster reports.

## Fairness

`StateStore!FairSpec`: a run that was started goes on until it ends or dies (its
steps are local system calls); an operator eventually follows `docs/operations.md`
about a stale lock. Nothing is assumed of the contending runs.

`Keymaster!FairSpec`: a run goes on until it ends or is killed (weak fairness of its
step; every request has a timeout), and the operator keeps doing what the reports advise
about a standing operation (`FollowAdvice`, strong fairness: other
commands may hold the lock whenever he looks). That these commands succeed is
not assumed: any step of theirs may be refused or fail. Only mishaps are bounded
by the constants, so that they stop eventually.

`Convergence!FairSpec`: a run that was started goes on, apply is run again and again,
and the operator does what its reports ask for (strong fairness: a run may hold
the lock whenever he looks). That a run succeeds is not assumed. The first part
is weak fairness of `Start \/ Run`, one of which can always be taken; it is written
out because that is cheaper to evaluate.

`Reader!FairSpec`: the reading run goes on: every request is answered, fails or runs into its
timeout, and a sleep ends.

`Receivers!FairSpec`: Keymaster's threads go on, the clock does, and an obliging adapter does.
Of any other adapter, what it starts and other programs nothing is assumed.

`Budgets!FairSpec`: runs go on and are started again; a write that was given up on
lands or is lost for good.

## Proofs

`KeyLedger_proofs` holds the lemmas about the ledger's mutations and `KeyState_proofs`
the theorems of `KeyState!Spec`, for any sets of addresses, hashes, receivers and
operation identifiers and any largest generation:

| Theorem | States |
|---|---|
| `StateTyped` | `Spec => []TypeOK` |
| `StateConsistent` | `Spec => []LedgerConsistent` |
| `StateDeliversOnce` | `Spec => DeliveryStartsOnce` |
| `StateKeepsSuperseded` | `Spec => RetainedNeverReturns` |
| `StateNamesOneKey` | `Spec => []GenerationNamesOneKey` |

Assumptions: `MaxGenerationAssumption` (a positive number) and `NoneAssumption` (`None` is
none of the records or values it stands beside). TLC evaluates both.

The argument. `LedgerConsistent` with the types is inductive except in one place: an
operation's generation must exceed everything its address has *ever* settled
for `promote_key` to keep generations distinct, and it does because `begin_create` takes
a number above every recorded one and nothing raises a settled generation while
an operation stands. `PendingShape` says so, and is itself part of
`check_invariants`. Each mutation changes one address's binding; the lemmas show that
the new binding passes `CheckBinding` and that its hashes are the old ones plus at
most one that no address owned (`...Fields`), from which `DistinctHashes` and
`OneOperation` follow for the whole ledger (`ChangedConsistent`, `...Consistent`).

`DeliveryStartsOnce` needs `Undelivered`: the key of an operation in a phase before
`delivery_started`, and not rejected, has not been handed out. `GenerationNamesOneKey`
needs `NamesSealed`: every generation ever recorded at an address with a hash is at
or below one its binding still holds, as a settled key's, the operation's, or the
floor, so a new name, which is above them all, repeats none. This is what the floor
of `drop_retained` is for; leaving the floor alone breaks the property.

`StateStore_proofs` proves the store for any number of runs, writes, faults and serials:

| Theorem | States |
|---|---|
| `StoreTyped` | `Spec => []TypeOK` |
| `StoreHasOneWriter` | `Spec => []OneWriter` |
| `StoreKeepsAcknowledged` | `Foreign # "always"` implies `Spec => []AcknowledgedSurvives` |
| `StoreFailuresLeaveNoTrace` | under the same assumption, `Spec => []FailedLeavesNoTrace` |
| `StoreImplementsAtomicFile` | under the same assumption, `Spec => ImplementsAtomicFile` |

Assumptions: `StoreAssumption` (numbers, and `"foreign"` is no run). That the last three need
`Foreign # "always"` is the content of the hazard at `persist.rs:363`: a writer
that does not take the lock and writes between comparison and rename is overwritten.
`OneWriter` is inductive with `Locking`: who is past the lock has its file there, and an operator
who looked and saw no run still sees none, since the lock he is about to remove keeps them
out. The rest rests on one order, `Before`: a document with a smaller serial, or the same
document, whose changes are among the later one's. `Lineage` says that what a power loss
leaves is before the disk, every acknowledged document before that, and what a run that holds the
lock read before the disk, equal to it from the comparison on. `Serials` says that two published documents
with one serial are one document, so that the comparison by serial is a comparison of
documents (`StoreSerialsName`); `Traces` that a run's change that failed is in no document
and is never used again.

`Receivers_proofs` proves the receivers for any pipe capacity, envelope, amount of output and
number of changes by others:

| Theorem | States |
|---|---|
| `ReceiversTyped` | `Spec => []TypeOK` |
| `ReceiversKeepPlace` | `Spec => []KeyOnlyWhereChecked` |
| `ReceiversImplementDelivery` | `Spec => ImplementsDelivery` |

Assumptions: `NoneAssumption`, `MaxChangesAssumption`, `CommandAssumption`, and for the last of
the three `~Forgets`, that no power loss takes along a directory made for the key. The invariant is the
types and four parts: `Answering` (an answer ends the delivery), `Kept` (the descriptor is of the
directory that was checked, and a power loss can undo nothing but a rename of which nobody was
told, or a directory that nobody synced), `Told` (what the wait found is how the adapter ended,
which says whether the key is committed) and `Honest` (what the answers assert). A step then maps to `Act`, `Acknowledge` or
`Resurface` of Delivery, or to a stutter.

`Keymaster_proofs` proves what the credential commands together keep, for any sets of
addresses, hashes, receivers and operation identifiers, any largest generation and any
number of mishaps, kills and power losses:

| Theorem | States |
|---|---|
| `KeymasterTyped` | `Spec => []TypeOK` |
| `NoOrphanIsSilent` | `Spec => []NoSilentOrphan` |
| `OnlyRestrictedKeysLeave` | `Spec => []ExposedIsRestricted` |
| `CurrentKeysAreHeld` | `Spec => []CurrentWasDelivered` |
| `RetiredKeysStayDead` | `Spec => []RetiredIsDead` |
| `ReportsAreTrue` | `Spec => []ReportedIsSo` |
| `OnlyTrackedKeysAreTouched` | `Spec => FollowUpOnlyOnTrackedKeys` |
| `ServingKeysAreSpared` | `Spec => ServingKeyKilledOnlyOnRequest` |

Assumptions: those of KeyLedger and `MaxFaultsAssumption`. None of the properties is inductive:
whether a step keeps custody depends on what the run knew when it decided on it. The invariant
says both halves. `Ground` is what holds between runs as well: each of the two ledgers, the
one on disk and the one a power loss leaves, is consistent, and what it says of a key
is so at OpenRouter (an owned key was made, a key in service or awaiting its promotion is at
its destination, one called retired cannot be used, every key that was made is owned, asked
about or answered for). `Placed` is what holds of the run, by its `pc`:

- `Tracked`, `Follows`: a key that a run follows up on is on disk before the first request about it;
- `Told`: the plaintext has gone no further than the run knows, and when it promotes, both
  ledgers say that the key was delivered, so that a power loss cannot undo the reason;
- `Sole`: until its hash is recorded an attempt stands on disk under an identifier that
  nothing else answers to, which is why a run may abandon an operation when the answer
  proves that no key was made;
- `Spared`: only a decommission ends the key an address uses, and a key whose delivery
  was not refused is not cleaned up;
- `Proved`: a verdict read back from OpenRouter stays true until it is written down, since
  no hash is made twice and a disabled key is enabled by nobody the model has;
- `Unrecorded`: what a disable is about stays in the file until its outcome is written.

A step that writes the ledger matters to `Ground` only by what it adds and takes away: the keys it
names, those it calls delivered or retired, those it drops and the operations it settles.
The lemmas `...Effect` state that once for each mutation, and `MutationKept` turns it into
`Kept` of the new ledger. The two action properties follow from the same
invariant by what a request may change (`RunTouches`, `StartTouches`).

`Convergence_proofs` proves what apply and the commands beside it do to OpenRouter's objects,
for any configuration, any identities and any number of mishaps and interventions:

| Theorem | States |
|---|---|
| `ConvergenceTyped` | `Spec => []TypeOK` |
| `OnlyOwnedIsTouched` | `Spec => OnlyOwnedTouched` |
| `NoSecondIsCreated` | `Spec => CreatesNoSecond` |
| `IssuedKeysAreRestricted` | `Spec => IssuedUnderGuardrail` |
| `ReportsHold` | `Spec => []ReportHolds` |

Assumptions: `SectionsAssumption` (the sections of a configuration are apart, a block names
blocks of the right section, a workspace block names none (`struct Workspace`,
`config/mod.rs:169`, has no such field), and no two blocks' objects have one identity),
`AssignmentsAssumption`, `NoRecordAssumption` and `ConvergenceBounds`. `ValidatedAssumption`, what
`config::validate` says of default guardrails, is not needed. A plan is made from one read and
carried out later, so the invariant is about what of it is still true when an action's turn
comes:

- `Scheduled`, by `Due`: a write is addressed to the block's own identity or, for a
  guardrail, to the one its workspace gives, whatever the console did since; and unless it did
  something, a block to be created still has no object and no namesake that nobody owns. The lemma
  `ScheduleKept` carries this past every step: a step binds only its own block (`Grown`) and
  makes only its own block's object or a workspace's default guardrail (`Appeared`). The plan
  lemmas (`WorkspaceProposal` to `AssignmentProposal`) give it at the start.
- `Recordings`: the binding a write has to record is of its kind, and a guardrail's replaces
  one that is gone, so recording it disowns nothing that is there; it could be
  offered for adoption beside its successor otherwise.
- `Emptied`: what a delete did not see in the workspace is not there, unless the console
  has done something since.
- `Sound`: the document has no identity twice, not even a standing operation's, and a
  default identity is that of the workspace bound beside it. It is what makes
  `OneAddressEach` inductive: a workspace's record binds a second address.

`IssuedUnderGuardrail` follows from the step alone: only `Issue` changes a key's
binding while a run executes, and it looks at the guardrail itself. The proof of
`OnlyOwnedTouched` corrected the property: it had the deleted workspace's guardrail
taken from no key at all, which no run on the small instance had contradicted.

`ReportHolds` speaks of a moment long after the plan, and rests on two more parts, inductive
beside that invariant:

- `Progress`: of a run that held nothing back, skipped nothing and was not disturbed,
  every place has been written, is still to be written, or is already as the report says
  (`Accounts`): its object is as configured or an operator's to see to (`Quiet`), its key under its
  guardrail (`UnderIts`), its digest the configured one (`AsWanted`). A plan gives it at
  the start (`BegunAccounts`: what each kind of action means that writes nothing), a write keeps it
  for every other place (`AccountsKept`), and when all is written, the second plan
  that `verify` makes gives it for the written ones (`SettledAccounts`). What is not
  obvious is the place between: a key delivered but not yet promoted (`Unpromoted`) has an
  operation standing, which that second plan reports; and a workspace's
  record also binds a default guardrail, which changes what another block's
  identity is (`RecordedQuiet`). `converged` needs `Clear` instead: the plan held nothing
  at all, and nothing has happened since (`ClearMatches`).
- `Truthful`: as long as no mishap has happened, OpenRouter holds of each destination the
  configuration whose digest the document has, or, between a write and its record, the
  one about to be recorded (`Holding`). With a mishap it may not, which is finding 2 below.

`Budgets_proofs` proves what a run does about a workspace's budgets, for any number of
intervals, any amounts, and any number of mishaps and edits:

| Theorem | States |
|---|---|
| `BudgetsTyped` | `Spec => []TypeOK` |
| `NothingIssuedUnbudgeted` | `Spec => []IssuingUnderBudget` |
| `RefusalContained` | `Spec => []RefusalIsContained` |

Assumption: `BoundsAssumption` (positive and natural numbers). `budget_writes` sorts, and what
a sort returns is here the one increasing enumeration of a set of intervals; that there is
one is proved by least counterexample (`AlwaysSortable`), and `WritesInOrder` says that the
queue holds each write once with deletes before increases before decreases before carriers.
The invariant says where a run is in that queue: `InOrder` (what is left is its tail and
everything sent comes before it) and `AsSent` (while nothing disturbed the run, the
server's table is the one that was read with the accepted writes made). From both,
`OnlyBesideAddition` computes what the server sees at each write: a delete or a decrease in
this order never breaks the rule, an increase breaks it only beside a narrower decrease
still to come, and then only if the interval was not set. `Judged` says that a run
issues only if each write went well; `Unbound` and `AtRest` cover a workspace that the run
made itself, where nothing was read.

`Reader_proofs` proves the safety of the snapshot for collections of any length, any page
size and number of pages, any retry policy and any number of changes made meanwhile:

| Theorem | States |
|---|---|
| `ReaderTyped` | `Spec => []TypeOK` |
| `DisplacedOnly` | `Spec => []OmitsOnlyDisplaced` |
| `SnapshotsAreWhole` | `Spec => []SnapshotIsWhole` |
| `WaitsAreBounded` | `Spec => []WaitBounded` |

Assumptions: `PolicyAssumption`, `PowersAssumption` (a power of two is a whole number, which
the prover cannot compute), `ReaderAssumption` and `CollectionsAssumption`: an identity is
given once, and nothing is listed of a workspace that is not. `OmitsOnlyDisplaced` speaks only of
a listing at its end and says nothing of the pages before, so the invariant adds:

- `Displaced`: the records before the offset that were not collected (`Missed`) are no more
  than the deletions since the listing began. A page collects what stands between the old
  offset and the new, a deletion moves at most one record over the offset
  (`WithoutOne`), and a creation moves none towards the front (`CreatedBehind`). The page
  that ends the listing is empty, so the offset has passed everything. A server that
  ignores the offset is covered apart: its last page is empty only if the collection is.
- `Shelved`: a 404 about a workspace means there is nothing in it, which is why a
  listing refused that way may end empty.
- `Unmade`: what is created later was in no collection when a listing began.
- `Whole`, `Queued`: without deletions each collection is found or its listing is
  still ahead; `RestIs` shows that the queue made from the workspaces found has one for each.
- `Waits`: the waits so far are at most one longest wait per repetition.

Model-checked only: all liveness
(`LockEventuallyFree`, `EveryOperationSettles`, `BudgetsComeIntoForce`,
`EventuallyMatches`, `SnapshotEnds`, `DeliveryEnds`, `ObligingIsHeard`), which is out of the
prover's reach, as is `ENABLED`.

## Findings

Two places where the code does something other than its own words say. None is a
custody failure.

1. `converge_stranded`: `record_default_binding` runs only after a write of the default
   guardrail. A run that dies between the two leaves the guardrail as configured,
   so no later plan writes it and no later run records it, while issuing and
   assigning look it up in the state file: a key under it is never issued, and
   each run says "run `openrouter-keymaster apply` to create or import it first". The
   comments say that such a guardrail "is bound in effect". Importing it by its
   identity is the way out (`Adopts`; `converge_settles`).
2. `converge_digest`: a destination's new configuration is written and the run dies
   before the digest is; the block goes back to the old configuration. The
   digests are equal, "an equal digest is converged", and OpenRouter holds the other one.
   `docs/configuration.md` names two cases of an undetected configuration, and this is
   a third.

Three more, which a property states exactly instead of a run refuting the words. When the
identity of a workspace, a log destination or a guardrail could not be recorded,
`untracked_workspace`, `untracked_destination` and `untracked` (`apply.rs:1590-1613`) tell the operator
to import it "before applying again, or a second workspace will be created under the same name"
(likewise "destination", "guardrail"). None will: the next plan finds the object by its name, owned by
nobody, says `adoption_required` and creates nothing (`AdoptOrCreate`); CreatesNoSecond passes
on exactly these behaviours. The advice is right, its reason is not. Next,
`budget_writes` sends an interval that becomes set with the increases, before a narrower one's
decrease, and the server refuses it, though apply "orders the writes so that no intermediate
state violates" the rule (`RefusalIsContained`; the next apply makes the write). And
`pagination.rs:12` has every invariant there "to make a wrong snapshot an error rather than a
quiet omission", while a record deleted from a page already read quietly hides one that moved
up (`OmitsOnlyDisplaced`). A tracked key that is omitted is reported missing, which makes
no request; an untracked one of the same name no longer holds a creation back.

And two that no run refutes, being the model's own text. `create_workspace` writes the state file
after binding both the workspace and its default guardrail; if the block of the latter is
bound to another guardrail already, nothing is written, though "two things are persisted before
anything else runs" (the next plan finds the workspace by its name and asks for its
adoption, which meets the same refusal until the other binding is forgotten). And a receiver
waits for an adapter it may not kill, though "nothing here can outlast the bound"
(`command.rs`; `DeliveryEnds` names the exception).

Met while modelling, and no disagreement about state: an apply whose plan holds an
adoption or a missing object beside its writes reports `applied`, although its
successor is `held_back` and not a no-op (`docs/operations.md:113-116`); ReportHolds
states what `applied` does say. A rotate
whose promotion took effect on disk but was reported as failed warns that the predecessor "is
still recorded as the current key" (`report/lifecycle.rs:148-151`), which is cautious and
no longer so. `forget_key` releases an address's generations, so
"a generation names one remote key at one address for good" (`state/mod.rs:477-485`)
holds until the address is forgotten, as GenerationNamesOneKey has it.

## What is left out

- **A PATCH that lands late.** `Request` answers a lost update by applying it at once or
  never; only creations land late (`inflight`). A settings PATCH that OpenRouter
  applied after a later disable would enable the key again: the server's ordering
  decides, and no client can do anything about it. `Budgets` does have late writes.
- **Wire formats, configuration, command line, spend, secrets, identifiers**:
  single-input functions without state.
- **`status`, `plan`, `spend`**: read-only; their listings restate what was read. Of
  `recover inspect`, what an operator decides by is in `FollowAdvice`. The wording of every report.
- **Receivers**: the wording and redaction of diagnostics.
- **The console disabling a key**, or enabling one. The model's console deletes keys at any
  moment; `disabled` is one of the settings a block gives, so that to a plan a key disabled
  there is one whose settings differ, and the next update sets it as configured. Enabling a
  key that was retired would undo RetiredIsDead by the operator's own hand.
- **An apply bound to an approved plan** (`refuse_changed_plan`): the comparison of
  fingerprints after the reads can only refuse, before anything is written. What the
  properties say of a plan that is older than what it is applied to, they say of plans whose
  objects change after the run's own reads.
- **The console changing a budget.** `Budgets` edits the configuration only; a write of an earlier
  run that lands late is the one change of the server's table that a run does not make.
- **What PATCH fields hold**: the fields of a key are one thing, "settings"; the
  guardrail assignment is another.
- **In Convergence**: creates of other objects than keys that land late (a create that
  was given up on is made at once or never); the `--workspace` scope; reports about
  objects the configuration does not describe; a raised generation or a changed
  receiver as a reason to replace a key (Recovery has the replacement itself);
  budgets (Budgets has them); a change of a destination's configuration in the
  console, which ADR-0006 says is invisible; edits of blocks other than a
  destination's `config` (they look to a plan like drift in the console, which is
  there).
- The parts in the plan below.

## Plan

Done: the ledger and its proofs, the store, the credential commands together, the
budgets of a workspace, planner and apply for every kind of block, the snapshot they read, the
receivers, what the commands report; proofs of every safety property the runs check. Left:

1. **KeyLifecycle**, an abstract life of one key (made, tracked, restricted, exposed,
   in service, superseded, dead), which Keymaster implements.
