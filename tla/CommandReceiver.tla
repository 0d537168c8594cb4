--------------------------- MODULE CommandReceiver ---------------------------
(***************************************************************************)
(* The command receiver (crates/core/src/receiver/command.rs): it runs a   *)
(* program, the adapter, and hands it one envelope on a pipe.  Four        *)
(* threads of Keymaster (the one that waits, one that writes the envelope, *)
(* one reading each output stream) and the adapter's processes run beside  *)
(* each other.                                                             *)
(*                                                                         *)
(* The adapter is external.  It keeps the promises of docs/receiver-       *)
(* protocol.md (exit 0 only if the key is committed, exit 10 only if it is *)
(* not and will not be); otherwise it may do anything, start another       *)
(* process that inherits its pipes, or never end.  An obliging one also    *)
(* follows the advice there: it reads to end-of-file before it acts, and   *)
(* is done in time.                                                        *)
(***************************************************************************)
EXTENDS Receiver

CONSTANTS
  Envelope,     (* pieces the envelope is written in                       *)
  MaxCapacity,  (* pieces the largest pipe holds                           *)
  MaxOutput     (* pipefuls an adapter prints to one stream                *)

ASSUME CommandAssumption ==
  /\ Envelope \in Nat /\ MaxCapacity \in Nat /\ MaxOutput \in Nat
  /\ None \notin {"zero", "ten", "other", "signal"}

VARIABLES
  nature,     (* what the adapter is like, and the size of its pipes       *)
  adapter,    (* whether it runs, or how it ended                          *)
  offspring,  (* a process it started and that holds its pipes             *)
  unsent,     (* pieces of the envelope the writer has yet to write        *)
  inPipe,     (* pieces in the pipe to the adapter                         *)
  writer,     (* the thread writing them                                   *)
  toSay,      (* per stream: pipefuls the adapter has yet to print         *)
  outPipe,    (* per stream: what is in its pipe, nothing or a pipeful     *)
  reader,     (* per stream: the thread reading it                         *)
  expired,    (* the timeout has passed                                    *)
  grace,      (* CAPTURE_GRACE has passed                                  *)
  ending      (* what the wait found                                       *)

pipes == <<unsent, inPipe, writer, toSay, outPipe, reader>>
clocks == <<expired, grace>>
command == <<nature, adapter, offspring, pipes, clocks, ending>>

Stream == {"stdout", "stderr"}
Nature == [obliging : BOOLEAN,
           immune : BOOLEAN,     (* it runs as someone we may not kill *)
           capacity : 1 .. MaxCapacity]

(* What other kinds of receiver, which run none, have in the adapter's place. *)
Gentle == [obliging |-> TRUE, immune |-> FALSE, capacity |-> 1]

Exit == {"zero", "ten", "other"}
Ended == Exit \cup {"signal"}

CommandInit ==
  /\ nature \in Nature
  /\ kind # "command" => nature = Gentle
  /\ adapter = "none" /\ offspring = FALSE
  /\ unsent = Envelope /\ inPipe = 0 /\ writer = "none"
  /\ toSay = [s \in Stream |-> IF kind = "command" THEN MaxOutput ELSE 0]
  /\ outPipe = [s \in Stream |-> 0]
  /\ reader = [s \in Stream |-> "none"]
  /\ expired = FALSE /\ grace = FALSE
  /\ ending = None

Running == adapter = "running"
PipesHeld == Running \/ offspring
StdinOpen == writer = "writing" /\ Alive
AtEndOfFile == ~StdinOpen /\ inPipe = 0

(* The adapter's processes have read the whole envelope; the key is last.  *)
HasEnvelope == unsent + inPipe = 0

-----------------------------------------------------------------------------
(* receive, on the calling thread. *)

(* A program path that is not absolute is refused here. *)
Spawn ==
  /\ At("spawn")
  /\ \/ Answer("rejected") /\ UNCHANGED command
     \/ /\ adapter' = "running"
        /\ writer' = "writing"
        /\ reader' = [s \in Stream |-> "reading"]
        /\ Goto("poll")
        /\ UNCHANGED <<nature, offspring, unsent, inPipe, toSay, outPipe,
                       clocks, ending>>
  /\ UNCHANGED <<kind, committed>>

(* wait: first the status, *)
TryWait ==
  /\ At("poll")
  /\ \/ adapter \in Ended /\ ending' = adapter /\ Goto("collect")
     \/ Running /\ Goto("look") /\ UNCHANGED ending
     \/ ending' = "lost" /\ Goto("collect")
  /\ UNCHANGED <<kind, committed, nature, adapter, offspring, pipes, clocks>>

(* then the deadline. *)
LookAtClock ==
  /\ At("look")
  /\ Goto(IF expired THEN "kill" ELSE "poll")
  /\ UNCHANGED <<kind, committed, command>>

Kill ==
  /\ At("kill")
  /\ adapter' = IF Running /\ ~nature.immune THEN "signal" ELSE adapter
  /\ Goto("reap")
  /\ UNCHANGED <<kind, committed, nature, offspring, pipes, clocks, ending>>

(* child.wait(), which ends when the adapter does, killed or not. *)
Reap ==
  /\ At("reap")
  /\ ~Running
  /\ ending' = "timeout"
  /\ Goto("collect")
  /\ UNCHANGED <<kind, committed, nature, adapter, offspring, pipes, clocks>>

AllIn == writer # "writing" /\ \A s \in Stream : reader[s] = "ended"

(* Slip: the threads are joined. *)
Joined == AllIn

(* collect_write and collect, under one deadline. *)
Collected == AllIn \/ grace

(* Slip: a program that was still running cannot have committed. *)
ClassifyTimeout(whole, how) ==
  CASE how = "zero" -> "delivered"
    [] how \in {"ten", "timeout"} -> "rejected"
    [] OTHER -> "ambiguous"

Classify(whole, how) ==
  CASE ~whole -> "ambiguous"
    [] whole /\ how = "zero" -> "delivered"
    [] whole /\ how = "ten" -> "rejected"
    [] OTHER -> "ambiguous"

(* A write that has not finished is a write that failed. *)
Conclude ==
  /\ At("collect")
  /\ Collected
  /\ Answer(Classify(writer = "sent", ending))
  /\ UNCHANGED <<kind, committed, command>>

CommandStep ==
  Spawn \/ TryWait \/ LookAtClock \/ Kill \/ Reap \/ Conclude

Expire ==
  /\ pc \in {"poll", "look"} /\ ~expired /\ ~nature.obliging
  /\ expired' = TRUE
  /\ UNCHANGED <<delivery, nature, adapter, offspring, pipes, grace, ending>>

GraceEnds ==
  /\ At("collect") /\ ~grace
  /\ grace' = TRUE
  /\ UNCHANGED <<delivery, nature, adapter, offspring, pipes, expired, ending>>

-----------------------------------------------------------------------------
(* The other threads, which may outlive the call. *)

(* write_envelope: write_all, a broken pipe, and the end that closes stdin.*)
WriteEnvelope ==
  /\ StdinOpen
  /\ \/ /\ unsent > 0 /\ PipesHeld /\ inPipe < nature.capacity
        /\ unsent' = unsent - 1 /\ inPipe' = inPipe + 1
        /\ UNCHANGED writer
     \/ /\ unsent > 0 /\ ~PipesHeld
        /\ writer' = "broken" /\ UNCHANGED <<unsent, inPipe>>
     \/ /\ unsent = 0
        /\ writer' = "sent" /\ UNCHANGED <<unsent, inPipe>>
  /\ UNCHANGED <<delivery, nature, adapter, offspring, toSay, outPipe, reader,
                 clocks, ending>>

(* Slip: one thread reads one stream to its end, then the other. *)
DrainsInTurn(s) ==
  reader[s] = "reading" /\ (s = "stderr" => reader["stdout"] = "ended")

(* capture: a thread for each stream, *)
Drains(s) == reader[s] = "reading"

(* which reads, past what it keeps, until nobody can write any more. *)
Drain(s) ==
  /\ Alive /\ Drains(s)
  /\ \/ outPipe[s] = 1 /\ outPipe' = [outPipe EXCEPT ![s] = 0]
        /\ UNCHANGED reader
     \/ outPipe[s] = 0 /\ ~PipesHeld
        /\ reader' = [reader EXCEPT ![s] = "ended"] /\ UNCHANGED outPipe
  /\ UNCHANGED <<delivery, nature, adapter, offspring, unsent, inPipe, writer,
                 toSay, clocks, ending>>

-----------------------------------------------------------------------------
(* The adapter's processes. *)

ReadStdin ==
  /\ PipesHeld /\ inPipe > 0
  /\ inPipe' = inPipe - 1
  /\ UNCHANGED <<delivery, nature, adapter, offspring, unsent, writer, toSay,
                 outPipe, reader, clocks, ending>>

PrintTo(s) ==
  /\ Running /\ toSay[s] > 0 /\ outPipe[s] = 0
  /\ toSay' = [toSay EXCEPT ![s] = @ - 1]
  /\ outPipe' = [outPipe EXCEPT ![s] = 1]
  /\ UNCHANGED <<delivery, nature, adapter, offspring, unsent, inPipe, writer,
                 reader, clocks, ending>>

(* "Read to end-of-file before acting." *)
MayAct == nature.obliging => AtEndOfFile

CommitKey ==
  /\ ~committed /\ HasEnvelope
  /\ \/ Running /\ MayAct
     \/ offspring /\ adapter # "ten"
  /\ committed' = TRUE
  /\ UNCHANGED <<kind, pc, answer, command>>

ExitWith(code) ==
  /\ Running /\ MayAct
  /\ nature.obliging => \A s \in Stream : toSay[s] = 0
  /\ code = "zero" => committed
  /\ code = "ten" => ~committed
  /\ adapter' = code
  /\ UNCHANGED <<delivery, nature, offspring, pipes, clocks, ending>>

Signalled ==
  /\ Running /\ ~nature.obliging
  /\ adapter' = "signal"
  /\ UNCHANGED <<delivery, nature, offspring, pipes, clocks, ending>>

Fork ==
  /\ Running /\ ~offspring
  /\ offspring' = TRUE
  /\ UNCHANGED <<delivery, nature, adapter, pipes, clocks, ending>>

OffspringEnds ==
  /\ offspring /\ offspring' = FALSE
  /\ UNCHANGED <<delivery, nature, adapter, pipes, clocks, ending>>

AdapterWorks ==
  \/ ReadStdin
  \/ \E s \in Stream : PrintTo(s)
  \/ CommitKey
  \/ \E code \in Exit : ExitWith(code)

Adapter == AdapterWorks \/ Signalled \/ Fork \/ OffspringEnds

-----------------------------------------------------------------------------
CommandTypeOK ==
  /\ nature \in Nature
  /\ adapter \in {"none", "running"} \cup Ended
  /\ offspring \in BOOLEAN
  /\ unsent \in 0 .. Envelope
  /\ inPipe \in 0 .. MaxCapacity
  /\ writer \in {"none", "writing", "sent", "broken"}
  /\ toSay \in [Stream -> 0 .. MaxOutput]
  /\ outPipe \in [Stream -> 0 .. 1]
  /\ reader \in [Stream -> {"none", "reading", "ended"}]
  /\ expired \in BOOLEAN /\ grace \in BOOLEAN
  /\ ending \in Ended \cup {"timeout", "lost", None}
=============================================================================
