----------------------------- MODULE Receivers -----------------------------
(***************************************************************************)
(* One delivery through whichever receiver the configuration names, and    *)
(* what its acknowledgement is worth.  Issuance builds on that: its        *)
(* Deliver takes "delivered" and "rejected" for facts and stops at         *)
(* anything else.                                                          *)
(***************************************************************************)
EXTENDS FileReceiver, CommandReceiver

vars == <<delivery, files, command>>

Init ==
  /\ kind \in Kind
  /\ pc = First[kind]
  /\ answer = None
  /\ committed = FALSE
  /\ FileInit
  /\ CommandInit

(* CallerReceiver::receive: the host's callback runs on this thread.  What *)
(* it answers is the host's word, that it keeps it is external, and a      *)
(* panic is "ambiguous".                                                   *)
CallerReceives ==
  /\ At("call")
  /\ committed' \in BOOLEAN
  /\ \/ committed' /\ Answer("delivered")
     \/ ~committed' /\ Answer("rejected")
     \/ Answer("ambiguous")
  /\ UNCHANGED <<kind, files, command>>

FileDelivery == kind = "file" /\ (FileStep \/ Others) /\ UNCHANGED command

CommandDelivery ==
  /\ kind = "command"
  /\ \/ CommandStep
     \/ Expire
     \/ GraceEnds
     \/ WriteEnvelope
     \/ \E s \in Stream : Drain(s)
     \/ Adapter
  /\ UNCHANGED files

CallerDelivery == kind = "caller" /\ CallerReceives

Killed == Die /\ UNCHANGED <<files, command>>

Next == FileDelivery \/ CommandDelivery \/ CallerDelivery \/ Killed

Spec == Init /\ [][Next]_vars

(* Keymaster's threads go on, the clock does, and so does an obliging      *)
(* adapter.  Of any other adapter, of the processes it starts and of other *)
(* programs nothing is assumed.                                            *)
FairSpec ==
  /\ Spec
  /\ WF_vars(kind = "file" /\ FileStep /\ UNCHANGED command)
  /\ WF_vars(CommandStep /\ UNCHANGED files)
  /\ WF_vars(CallerDelivery)
  /\ WF_vars(Expire /\ UNCHANGED files)
  /\ WF_vars(GraceEnds /\ UNCHANGED files)
  /\ WF_vars(WriteEnvelope /\ UNCHANGED files)
  /\ \A s \in Stream : WF_vars(Drain(s) /\ UNCHANGED files)
  /\ WF_vars(nature.obliging /\ AdapterWorks /\ UNCHANGED files)

-----------------------------------------------------------------------------
TypeOK ==
  /\ kind \in Kind
  /\ pc \in {First[k] : k \in Kind} \cup {"done", "dead"}
         \cup {"open", "check", "create", "write", "sync", "rename",
               "sync_directory", "clean"}
         \cup {"poll", "look", "kill", "reap", "collect"}
  /\ answer \in Acknowledgement \cup {None}
  /\ committed \in BOOLEAN
  /\ FileTypeOK
  /\ CommandTypeOK

(* Whatever is put in the place of the containing directory, and when, the *)
(* key is never in a directory the path reaches through a link.            *)
KeyOnlyWhereChecked == \A d \in Directory : HoldsKey(d) => d = "own"

(* What an acknowledgement asserts is so when it is given and stays so,    *)
(* through adapters that end too late, descendants that outlive them,      *)
(* failed clean-ups, killed processes and power losses; and the target is  *)
(* never anything but what it was, or the key.                             *)
Place ==
  IF kind # "file" THEN IF committed THEN "key" ELSE "previous"
  ELSE IF \E d \in Directory : target[d] = "torn" THEN "torn"
  ELSE IF \E d \in Directory : target[d] = "key" THEN "key" ELSE "previous"

SecondCopy ==
  IF \E d \in Directory : temp[d] = "key" THEN "there"
  ELSE IF \E d \in Directory : temp[d] = "removed" THEN "removed" ELSE "none"

Promise == INSTANCE Delivery WITH destination <- Place, copy <- SecondCopy
ImplementsDelivery == Promise!Spec

(* "Nothing here can outlast the bound": a delivery ends, whatever the     *)
(* adapter, what it started or other programs do.  But for an adapter that *)
(* Keymaster may not kill: that one is waited for.                         *)
DeliveryEnds == <>(Returned \/ (At("reap") /\ nature.immune))

(* An adapter that follows the protocol's advice is heard: neither its     *)
(* output, nor the pipe its envelope is written to, nor a process it left  *)
(* behind keeps it from ending, or Keymaster from taking its word.         *)
Says == [zero |-> "delivered", ten |-> "rejected", other |-> "ambiguous"]

ObligingIsHeard ==
  (nature.obliging /\ Running)
    ~> \/ pc = "dead" \/ ending = "lost"
       \/ adapter \in Exit /\ answer = Says[adapter]
=============================================================================
