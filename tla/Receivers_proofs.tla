-------------------------- MODULE Receivers_proofs --------------------------
(***************************************************************************)
(* What a receiver's answer is worth, for every size of the envelope, the  *)
(* pipes and the adapter's output, and any number of changes by other      *)
(* programs.                                                               *)
(***************************************************************************)
EXTENDS Receivers, TLAPS

FileLabel == {"resolve", "open", "check", "create", "write", "sync", "rename",
              "sync_directory", "clean"}
CommandLabel == {"spawn", "poll", "look", "kill", "reap", "collect"}

(* An answer comes with the end of the delivery, and a delivery stays in   *)
(* the code of its own receiver.                                           *)
Answering ==
  /\ ~Returned => answer = None
  /\ pc = "done" => answer \in Acknowledgement
  /\ kind # "file" => pc \notin FileLabel
  /\ kind # "command" => pc \notin CommandLabel
  /\ kind # "caller" => pc # "call"

(* The file receiver: the descriptor is of the directory that was checked, *)
(* the key is under the target's name only from the rename on and only     *)
(* when its bytes are on disk, and what a power loss leaves is what is     *)
(* there, but for a rename nobody was told of.                             *)
Kept ==
  /\ opened \in {None, "own"}
  /\ pc \in FileLabel \ {"resolve", "open"} => opened = "own"
  /\ target["elsewhere"] = "absent"
  /\ lasting["elsewhere"] = "absent"
  /\ temp["elsewhere"] = "absent"
  /\ target["own"] # "torn" /\ lasting["own"] # "torn"
  /\ "key" \in {target["own"], lasting["own"]} => flushed
  /\ pc = "rename" => flushed
  /\ pc \in {"resolve", "open", "check", "create"} => temp["own"] = "absent"
  /\ pc \in FileLabel \ {"sync_directory"} => target["own"] # "key"
  /\ pc = "sync_directory" => target["own"] = "key" /\ temp["own"] = "absent"
  /\ lasting["own"] # target["own"] =>
       target["own"] = "key" /\ answer \notin {"delivered", "rejected"}
  /\ kind # "file" => target["own"] = "absent" /\ temp["own"] = "absent"

(* The command receiver: what the wait found is how the adapter ended, and *)
(* how it ended says whether the key is committed.                         *)
Told ==
  /\ offspring => adapter # "none"
  /\ pc \in {"spawn", "call"} => adapter = "none" /\ ~committed
  /\ kind # "command" => adapter = "none"
  /\ adapter = "zero" => committed
  /\ adapter = "ten" => ~committed
  /\ ending \in Ended => adapter = ending

(* What the answers assert, but for a new directory that a power loss may  *)
(* take along.                                                             *)
Honest ==
  /\ answer = "delivered" =>
       IF kind = "file"
       THEN (Forgets \/ target["own"] = "key") /\ temp["own"] = "absent"
       ELSE committed
  /\ answer = "rejected" =>
       IF kind = "file"
       THEN target["own"] # "key" /\ (pc # "dead" => temp["own"] # "key")
       ELSE ~committed /\ adapter \in {"none", "ten"}

Inv == TypeOK /\ Answering /\ Kept /\ Told /\ Honest

-----------------------------------------------------------------------------
(* Types. *)

Label == FileLabel \cup CommandLabel \cup {"call", "done", "dead"}

DeliveryTyped ==
  /\ kind \in Kind
  /\ pc \in Label
  /\ answer \in Acknowledgement \cup {None}
  /\ committed \in BOOLEAN

LEMMA TypeOKParts == TypeOK <=> DeliveryTyped /\ FileTypeOK /\ CommandTypeOK
<1>1. {First[k] : k \in Kind} = {"resolve", "spawn", "call"}
  BY DEF First, Kind
<1> QED BY <1>1 DEF TypeOK, DeliveryTyped, Label, FileLabel, CommandLabel

LEMMA FileStepTyped ==
  ASSUME DeliveryTyped, FileTypeOK, FileStep \/ Others
  PROVE  DeliveryTyped' /\ FileTypeOK'
<1> USE MaxChangesAssumption
    DEF DeliveryTyped, FileTypeOK, Label, FileLabel, Goto, Answer, At,
        Acknowledgement, delivery, files, Directory, Path, Found, Target,
        Temporary
<1>1. ASSUME MakeDirectory \/ OpenDirectory \/ CheckTarget
      PROVE  DeliveryTyped' /\ FileTypeOK'
  <2>1. CASE MakeDirectory
    BY <2>1 DEF MakeDirectory
  <2>2. CASE OpenDirectory
    BY <2>2 DEF OpenDirectory, Opens, Leads
  <2>3. CASE CheckTarget
    BY <2>3 DEF CheckTarget
  <2> QED BY <1>1, <2>1, <2>2, <2>3
<1>2. ASSUME CreateTemporary \/ WriteKey \/ CleanUp
      PROVE  DeliveryTyped' /\ FileTypeOK'
  <2>1. Anchor \in Directory => /\ Written \in Temporary
                                /\ Unlinked(temp[Anchor]) \in Temporary
    BY DEF Written, Unlinked
  <2>2. CASE CreateTemporary
    BY <2>2 DEF CreateTemporary, TempBecomes
  <2>3. CASE WriteKey
    BY <2>1, <2>3 DEF WriteKey, TempBecomes
  <2>4. CASE CleanUp
    BY <2>1, <2>4 DEF CleanUp, TempBecomes
  <2> QED BY <1>2, <2>2, <2>3, <2>4
<1>3. ASSUME SyncTemporary \/ RenameOver \/ SyncTarget
      PROVE  DeliveryTyped' /\ FileTypeOK'
  <2>1. CASE SyncTemporary
    BY <2>1 DEF SyncTemporary
  <2>2. CASE RenameOver
    BY <2>2 DEF RenameOver, TempBecomes
  <2>3. CASE SyncTarget
    BY <2>3 DEF SyncTarget
  <2> QED BY <1>3, <2>1, <2>2, <2>3
<1>4. ASSUME ChangePath \/ ChangeTarget \/ RemoveTemporary
      PROVE  DeliveryTyped' /\ FileTypeOK'
  <2>1. CASE ChangePath
    BY <2>1 DEF ChangePath, Changed
  <2>2. CASE ChangeTarget
    BY <2>2 DEF ChangeTarget, Changed
  <2>3. CASE RemoveTemporary
    BY <2>3 DEF RemoveTemporary, Changed, Unlinked
  <2> QED BY <1>4, <2>1, <2>2, <2>3
<1>5. ASSUME LosePower PROVE DeliveryTyped' /\ FileTypeOK'
  BY <1>5 DEF LosePower
<1> QED BY <1>1, <1>2, <1>3, <1>4, <1>5 DEF FileStep, Others

LEMMA CommandDeliveryTyped ==
  ASSUME DeliveryTyped, CommandTypeOK, CommandDelivery
  PROVE  DeliveryTyped' /\ CommandTypeOK'
<1> USE CommandAssumption
    DEF DeliveryTyped, CommandTypeOK, Label, CommandLabel, Goto, Answer, At,
        Acknowledgement, delivery, command, pipes, clocks, Stream, Nature,
        Ended, Exit
<1>1. ASSUME Spawn \/ TryWait \/ LookAtClock
      PROVE  DeliveryTyped' /\ CommandTypeOK'
  BY <1>1 DEF Spawn, TryWait, LookAtClock
<1>2. ASSUME Kill \/ Reap \/ Conclude
      PROVE  DeliveryTyped' /\ CommandTypeOK'
  BY <1>2 DEF Kill, Reap, Conclude, Classify
<1>3. ASSUME Expire \/ GraceEnds PROVE DeliveryTyped' /\ CommandTypeOK'
  <2>1. expired' \in BOOLEAN /\ grace' \in BOOLEAN
    BY <1>3 DEF Expire, GraceEnds
  <2>2. UNCHANGED <<delivery, nature, adapter, offspring, pipes, ending>>
    BY <1>3 DEF Expire, GraceEnds
  <2> QED BY <2>1, <2>2
<1>4. ASSUME WriteEnvelope PROVE DeliveryTyped' /\ CommandTypeOK'
  BY <1>4 DEF WriteEnvelope
<1>5. ASSUME NEW s \in Stream, Drain(s)
      PROVE  DeliveryTyped' /\ CommandTypeOK'
  BY <1>5 DEF Drain
<1>6. ASSUME NEW s \in Stream, PrintTo(s)
      PROVE  DeliveryTyped' /\ CommandTypeOK'
  BY <1>6 DEF PrintTo
<1>7. ASSUME ReadStdin \/ CommitKey PROVE DeliveryTyped' /\ CommandTypeOK'
  <2>1. CASE ReadStdin
    BY <2>1 DEF ReadStdin
  <2>2. CASE CommitKey
    <3>1. committed' \in BOOLEAN /\ UNCHANGED <<kind, pc, answer, command>>
      BY <2>2 DEF CommitKey
    <3> QED BY <3>1
  <2> QED BY <1>7, <2>1, <2>2
<1>8. ASSUME NEW code \in Exit, ExitWith(code)
      PROVE  DeliveryTyped' /\ CommandTypeOK'
  BY <1>8 DEF ExitWith
<1>9. ASSUME Signalled \/ Fork \/ OffspringEnds
      PROVE  DeliveryTyped' /\ CommandTypeOK'
  <2>1. offspring' \in BOOLEAN /\ adapter' \in {adapter, "signal"}
    BY <1>9 DEF Signalled, Fork, OffspringEnds
  <2>2. UNCHANGED <<delivery, nature, pipes, clocks, ending>>
    BY <1>9 DEF Signalled, Fork, OffspringEnds
  <2> QED BY <2>1, <2>2
<1> QED
  BY <1>1, <1>2, <1>3, <1>4, <1>5, <1>6, <1>7, <1>8, <1>9
  DEF CommandDelivery, CommandStep, Adapter, AdapterWorks

LEMMA NextTyped == TypeOK /\ [Next]_vars => TypeOK'
<1> SUFFICES ASSUME TypeOK, [Next]_vars PROVE TypeOK'
  OBVIOUS
<1>0. DeliveryTyped /\ FileTypeOK /\ CommandTypeOK
  BY TypeOKParts
<1>a. ASSUME DeliveryTyped', FileTypeOK', CommandTypeOK' PROVE TypeOK'
  <2>1. {First[k] : k \in Kind} = {"resolve", "spawn", "call"}
    BY DEF First, Kind
  <2> QED BY <1>a, <2>1 DEF TypeOK, DeliveryTyped, Label, FileLabel,
             CommandLabel
<1>1. UNCHANGED files => FileTypeOK'
  BY <1>0 DEF FileTypeOK, files
<1>2. UNCHANGED command => CommandTypeOK'
  BY <1>0 DEF CommandTypeOK, command, pipes, clocks
<1>3. CASE FileDelivery
  BY <1>0, <1>a, <1>2, <1>3, FileStepTyped DEF FileDelivery
<1>4. CASE CommandDelivery
  BY <1>0, <1>a, <1>1, <1>4, CommandDeliveryTyped DEF CommandDelivery
<1>5. CASE CallerDelivery \/ Killed \/ UNCHANGED vars
  <2>1. UNCHANGED files /\ UNCHANGED command
    BY <1>5 DEF CallerDelivery, CallerReceives, Killed, vars
  <2>2. DeliveryTyped'
    BY <1>0, <1>5 DEF CallerDelivery, CallerReceives, Killed, Die, vars,
       delivery, DeliveryTyped, Label, Goto, Answer, Acknowledgement
  <2> QED BY <1>a, <1>1, <1>2, <2>1, <2>2
<1> QED BY <1>3, <1>4, <1>5 DEF Next

-----------------------------------------------------------------------------
(* Each part of the invariant is kept.  A step of one receiver disturbs    *)
(* only what its own part says; TypeOK is used as it is in the state       *)
(* before the step.                                                        *)

LEMMA NextAnswering == TypeOK /\ Answering /\ [Next]_vars => Answering'
<1> SUFFICES ASSUME TypeOK, Answering, [Next]_vars PROVE Answering'
  OBVIOUS
<1> USE DEF Answering, Returned, Goto, Answer, At, Acknowledgement, FileLabel,
        CommandLabel, delivery, files, command, pipes, clocks
<1>0. answer \in Acknowledgement \cup {None}
  BY DEF TypeOK
<1>1. CASE FileDelivery
  <2>1. CASE FileStep
    BY <1>1, <2>1 DEF FileDelivery, FileStep, MakeDirectory, OpenDirectory,
       CheckTarget, CreateTemporary, WriteKey, SyncTemporary, RenameOver,
       SyncTarget, CleanUp
  <2>2. CASE Others
    BY <1>1, <2>2 DEF FileDelivery, Others, ChangePath, ChangeTarget,
       RemoveTemporary, Changed, LosePower, Alive
  <2> QED BY <1>1, <2>1, <2>2 DEF FileDelivery
<1>2. CASE CommandDelivery
  <2>1. CASE CommandStep
    BY <1>2, <2>1 DEF CommandDelivery, CommandStep, Spawn, TryWait,
       LookAtClock, Kill, Reap, Conclude, Classify
  <2>2. CASE ~CommandStep
    <3>1. UNCHANGED <<kind, pc, answer>>
      BY <1>2, <2>2 DEF CommandDelivery, Expire, GraceEnds, WriteEnvelope,
         Drain, Adapter, AdapterWorks, ReadStdin, PrintTo, CommitKey,
         ExitWith, Signalled, Fork, OffspringEnds
    <3> QED BY <3>1
  <2> QED BY <2>1, <2>2
<1>3. CASE CallerDelivery \/ Killed \/ UNCHANGED vars
  BY <1>0, <1>3 DEF CallerDelivery, CallerReceives, Killed, Die, Alive, vars
<1> QED BY <1>1, <1>2, <1>3 DEF Next

(* Nothing outside the file receiver touches a file. *)
LEMMA KeptByOthers ==
  ASSUME Kept, Answering', UNCHANGED files, kind' = kind,
         \/ kind # "file"
         \/ pc' = "dead" /\ answer' = answer
         \/ UNCHANGED <<pc, answer>>
  PROVE  Kept'
BY DEF Kept, Answering, files, FileLabel

LEMMA NextKept ==
  TypeOK /\ Answering /\ Answering' /\ Kept /\ [Next]_vars => Kept'
<1> SUFFICES ASSUME TypeOK, Answering, Answering', Kept, [Next]_vars
             PROVE  Kept'
  OBVIOUS
<1>0. /\ target \in [Directory -> Target] /\ lasting \in [Directory -> Target]
      /\ temp \in [Directory -> Temporary]
  BY DEF TypeOK, FileTypeOK
<1>1. ASSUME FileDelivery PROVE Kept'
  <2>0. kind = "file" /\ kind' = "file"
    BY <1>1 DEF FileDelivery, FileStep, Others, MakeDirectory, OpenDirectory,
       CheckTarget, CreateTemporary, WriteKey, SyncTemporary, RenameOver,
       SyncTarget, CleanUp, ChangePath, ChangeTarget, RemoveTemporary,
       Changed, LosePower, delivery
  <2> USE <1>0, <2>0 DEF Kept, FileLabel, Goto, Answer, At, Anchor, files,
          delivery, Directory
  <2>1. CASE MakeDirectory \/ CheckTarget
    BY <2>1 DEF MakeDirectory, CheckTarget, Answering, Returned
  <2>2. CASE OpenDirectory
    <3>1. Opens => Leads[path] = "own"
      BY DEF Opens, Leads
    <3> QED BY <2>2, <3>1 DEF OpenDirectory, Answering, Returned
  <2>3. CASE CreateTemporary
    BY <2>3 DEF CreateTemporary, TempBecomes
  <2>4. CASE WriteKey
    BY <2>4 DEF WriteKey, TempBecomes, Written
  <2>5. CASE SyncTemporary
    BY <2>5 DEF SyncTemporary
  <2>6. CASE RenameOver
    <3>0. answer \notin {"delivered", "rejected"}
      BY <2>6, NoneAssumption DEF RenameOver, Answering, Returned,
         Acknowledgement
    <3>1. CASE Goto("clean") /\ UNCHANGED <<target, temp>>
      BY <2>6, <3>1 DEF RenameOver
    <3>2. CASE /\ target' = [target EXCEPT !["own"] = "key"]
               /\ temp' = [temp EXCEPT !["own"] = "absent"]
               /\ Goto("sync_directory")
      BY <2>6, <3>0, <3>2 DEF RenameOver
    <3> QED BY <2>6, <3>1, <3>2 DEF RenameOver, TempBecomes
  <2>7. CASE SyncTarget
    BY <2>7 DEF SyncTarget
  <2>8. CASE CleanUp
    BY <2>8 DEF CleanUp, TempBecomes, Unlinked
  <2>9. CASE ChangePath
    BY <2>9 DEF ChangePath, Changed
  <2>10. CASE ChangeTarget
    BY <2>10 DEF ChangeTarget, Changed, Found
  <2>11. CASE RemoveTemporary
    BY <2>11 DEF RemoveTemporary, Changed
  <2>12. CASE LosePower
    <3>1. /\ TargetAfterLoss("elsewhere") = {"absent"}
          /\ TempAfterLoss("elsewhere") = {"absent"}
          /\ TargetAfterLoss("own") = {lasting["own"], target["own"]}
      BY DEF TargetAfterLoss, TempAfterLoss
    <3>2. /\ target'["elsewhere"] = "absent" /\ temp'["elsewhere"] = "absent"
          /\ target'["own"] \in {lasting["own"], target["own"], "absent"}
          /\ lasting' = target' /\ pc' = "dead"
          /\ UNCHANGED <<opened, flushed, answer>>
      BY <2>12, <3>1 DEF LosePower, MayGo
    <3> QED BY <3>2
  <2> QED
    BY <1>1, <2>1, <2>2, <2>3, <2>4, <2>5, <2>6, <2>7, <2>8, <2>9, <2>10,
       <2>11, <2>12 DEF FileDelivery, FileStep, Others
<1>2. CASE CommandDelivery
  <2>1. kind' = kind
    BY <1>2 DEF CommandDelivery, CommandStep, Spawn, TryWait,
       LookAtClock, Kill, Reap, Conclude, Expire, GraceEnds, WriteEnvelope,
       Drain, Adapter, AdapterWorks, ReadStdin, PrintTo, CommitKey,
       ExitWith, Signalled, Fork, OffspringEnds, delivery
  <2> QED BY <1>2, <2>1, KeptByOthers DEF CommandDelivery
<1>3. CASE CallerDelivery
  BY <1>3, KeptByOthers DEF CallerDelivery, CallerReceives
<1>4. CASE Killed \/ UNCHANGED vars
  BY <1>4, KeptByOthers DEF Killed, Die, Goto, vars, delivery
<1> QED BY <1>1, <1>2, <1>3, <1>4 DEF Next

LEMMA NextTold == TypeOK /\ Answering /\ Told /\ [Next]_vars => Told'
<1> SUFFICES ASSUME TypeOK, Answering, Told, [Next]_vars PROVE Told'
  OBVIOUS
<1> USE CommandAssumption
    DEF Told, Goto, Answer, At, FileLabel, CommandLabel, Ended, Exit, delivery,
        command, pipes, clocks
<1>0. /\ adapter \in {"none", "running"} \cup Ended
      /\ ending \in Ended \cup {"timeout", "lost", None}
  BY DEF TypeOK, CommandTypeOK
<1>1. CASE FileDelivery
  <2>1. /\ UNCHANGED <<command, committed, kind>>
        /\ pc' \in FileLabel \cup {"done", "dead"} \/ pc' = pc
    BY <1>1 DEF FileDelivery, FileStep, Others, MakeDirectory, OpenDirectory,
       CheckTarget, CreateTemporary, WriteKey, SyncTemporary, RenameOver,
       SyncTarget, CleanUp, ChangePath, ChangeTarget, RemoveTemporary,
       Changed, LosePower
  <2> QED BY <2>1
<1>2. CASE CommandDelivery
  <2>0. kind = "command" /\ pc # "call"
    BY <1>2 DEF CommandDelivery, Answering
  <2>1. CASE Spawn \/ TryWait \/ LookAtClock
    BY <1>0, <2>0, <2>1 DEF Spawn, TryWait, LookAtClock
  <2>2. CASE Kill
    BY <1>0, <2>0, <2>2 DEF Kill, Running
  <2>3. CASE Reap \/ Conclude
    BY <1>0, <2>0, <2>3 DEF Reap, Conclude
  <2>4. CASE \/ Expire
             \/ GraceEnds
             \/ WriteEnvelope
             \/ \E s \in Stream : Drain(s)
             \/ ReadStdin
             \/ \E s \in Stream : PrintTo(s)
    <3>1. UNCHANGED <<kind, pc, committed, adapter, offspring, ending>>
      BY <2>4 DEF Expire, GraceEnds, WriteEnvelope, Drain, ReadStdin, PrintTo
    <3> QED BY <3>1
  <2>5. CASE CommitKey
    <3>1. adapter \notin {"none", "ten"}
      BY <2>5 DEF CommitKey, Running
    <3>2. committed' /\ UNCHANGED <<kind, pc, adapter, offspring, ending>>
      BY <2>5 DEF CommitKey
    <3> QED BY <3>1, <3>2
  <2>6. CASE \E code \in Exit : ExitWith(code)
    BY <1>0, <2>6 DEF ExitWith, Running
  <2>7. CASE Signalled
    BY <1>0, <2>7 DEF Signalled, Running
  <2>8. CASE Fork \/ OffspringEnds
    BY <2>8 DEF Fork, OffspringEnds, Running
  <2> QED
    BY <1>2, <2>1, <2>2, <2>3, <2>4, <2>5, <2>6, <2>7, <2>8
    DEF CommandDelivery, CommandStep, Adapter, AdapterWorks
<1>3. CASE CallerDelivery
  <2>1. UNCHANGED <<kind, command>> /\ pc' = "done" /\ kind = "caller"
    BY <1>3 DEF CallerDelivery, CallerReceives
  <2> QED BY <2>1
<1>4. CASE Killed \/ UNCHANGED vars
  BY <1>4 DEF Killed, Die, vars
<1> QED BY <1>1, <1>2, <1>3, <1>4 DEF Next

LEMMA NextHonest == Inv /\ [Next]_vars => Honest'
<1> SUFFICES ASSUME Inv, [Next]_vars PROVE Honest'
  OBVIOUS
<1> USE NoneAssumption
    DEF Inv, Honest, Goto, Answer, At, FileLabel, CommandLabel, Acknowledgement
<1>0. /\ temp \in [Directory -> Temporary]
      /\ ~Returned => answer \notin {"delivered", "rejected"}
  BY DEF TypeOK, FileTypeOK, Answering
<1>1. CASE FileDelivery
  <2>0. kind = "file" /\ kind' = "file"
    BY <1>1 DEF FileDelivery, FileStep, Others, MakeDirectory, OpenDirectory,
       CheckTarget, CreateTemporary, WriteKey, SyncTemporary, RenameOver,
       SyncTarget, CleanUp, ChangePath, ChangeTarget, RemoveTemporary,
       Changed, LosePower, delivery
  <2> USE <1>0, <2>0 DEF Kept, Returned, Anchor, files, delivery, Directory
  <2>1. CASE MakeDirectory \/ OpenDirectory \/ CheckTarget
    BY <2>1 DEF MakeDirectory, OpenDirectory, CheckTarget
  <2>2. CASE CreateTemporary
    BY <2>2 DEF CreateTemporary, TempBecomes
  <2>3. CASE WriteKey \/ SyncTemporary \/ RenameOver
    BY <2>3 DEF WriteKey, SyncTemporary, RenameOver
  <2>4. CASE SyncTarget
    BY <2>4 DEF SyncTarget
  <2>5. CASE CleanUp
    <3>1. Unlinked(temp["own"]) # "key"
      BY DEF Unlinked
    <3> QED BY <2>5, <3>1 DEF CleanUp, TempBecomes
  <2>6. CASE ChangePath
    BY <2>6 DEF ChangePath, Changed
  <2>7. CASE ChangeTarget
    BY <2>7 DEF ChangeTarget, Changed, Found
  <2>8. CASE RemoveTemporary
    BY <2>8 DEF RemoveTemporary, Changed, Unlinked
  <2>9. CASE LosePower
    <3>1. /\ TargetAfterLoss("own") = {lasting["own"], target["own"]}
          /\ temp["own"] = "absent" /\ target["own"] = lasting["own"]
               => TempAfterLoss("own") = {"absent"}
      BY DEF TargetAfterLoss, TempAfterLoss
    <3>2. /\ \/ /\ target'["own"] \in TargetAfterLoss("own")
                /\ temp'["own"] \in TempAfterLoss("own")
             \/ Forgets /\ target'["own"] = "absent" /\ temp'["own"] = "absent"
          /\ pc' = "dead" /\ answer' = answer
      BY <2>9 DEF LosePower, MayGo
    <3> QED BY <3>1, <3>2
  <2> QED
    BY <1>1, <2>1, <2>2, <2>3, <2>4, <2>5, <2>6, <2>7, <2>8, <2>9
    DEF FileDelivery, FileStep, Others
<1>2. CASE CommandDelivery
  <2>0. kind = "command" /\ UNCHANGED files
    BY <1>2 DEF CommandDelivery
  <2> USE <2>0 DEF Told, Returned, Ended, Exit, delivery, command
  <2>1. CASE Spawn
    BY <1>0, <2>1 DEF Spawn
  <2>2. CASE TryWait \/ LookAtClock \/ Kill \/ Reap
    BY <1>0, <2>2 DEF TryWait, LookAtClock, Kill, Reap
  <2>3. CASE Conclude
    <3> DEFINE said == Classify(writer = "sent", ending)
    <3>1. /\ said = "delivered" => ending = "zero"
          /\ said = "rejected" => ending = "ten"
      BY DEF Classify
    <3>2. answer' = said /\ UNCHANGED <<kind, committed, adapter>>
      BY <2>3 DEF Conclude
    <3> QED BY <3>1, <3>2
  <2>4. CASE \/ Expire
             \/ GraceEnds
             \/ WriteEnvelope
             \/ \E s \in Stream : Drain(s)
             \/ ReadStdin
             \/ \E s \in Stream : PrintTo(s)
             \/ Fork
             \/ OffspringEnds
    <3>1. UNCHANGED <<kind, answer, committed, adapter>>
      BY <2>4 DEF Expire, GraceEnds, WriteEnvelope, Drain, ReadStdin, PrintTo,
         Fork, OffspringEnds
    <3> QED BY <3>1
  <2>5. CASE CommitKey
    <3>1. adapter \notin {"none", "ten"}
      BY <2>5 DEF CommitKey, Running
    <3>2. committed' /\ UNCHANGED <<kind, answer>>
      BY <2>5 DEF CommitKey
    <3> QED BY <3>1, <3>2
  <2>6. CASE Signalled \/ \E code \in Exit : ExitWith(code)
    <3>1. adapter = "running" /\ UNCHANGED <<kind, answer, committed>>
      BY <2>6 DEF Signalled, ExitWith, Running
    <3> QED BY <3>1
  <2> QED
    BY <1>2, <2>1, <2>2, <2>3, <2>4, <2>5, <2>6
    DEF CommandDelivery, CommandStep, Adapter, AdapterWorks
<1>3. CASE CallerDelivery
  <2>1. kind' = "caller" /\ adapter' = "none"
    BY <1>3 DEF CallerDelivery, CallerReceives, Told, command
  <2> QED BY <1>3, <2>1 DEF CallerDelivery, CallerReceives
<1>4. CASE Killed
  BY <1>4 DEF Killed, Die, files, command
<1>5. CASE UNCHANGED vars
  BY <1>5 DEF vars, delivery, files, command
<1> QED BY <1>1, <1>2, <1>3, <1>4, <1>5 DEF Next

-----------------------------------------------------------------------------
(* The invariant, and what it says of the key and of the answers. *)

LEMMA InitInv == Init => Inv
<1> SUFFICES ASSUME Init PROVE Inv
  OBVIOUS
<1> USE NoneAssumption, CommandAssumption, MaxChangesAssumption
    DEF Init, First, Kind
<1>1. TypeOK
  <2>1. FileTypeOK
    <3>1. target \in [Directory -> Target]
      BY DEF FileInit, Found, Target
    <3>2. temp \in [Directory -> Temporary]
      BY DEF FileInit, Temporary
    <3>3. lasting = target /\ path \in Path /\ opened = None
      BY DEF FileInit
    <3>4. changes = 0 /\ flushed = FALSE /\ made = FALSE
      BY DEF FileInit
    <3>5. changes \in 0 .. MaxChanges
      BY <3>4
    <3> QED BY <3>1, <3>2, <3>3, <3>4, <3>5 DEF FileTypeOK
  <2>2. CommandTypeOK
    <3>1. toSay \in [Stream -> 0 .. MaxOutput]
      BY DEF CommandInit
    <3>2. unsent \in 0 .. Envelope /\ inPipe \in 0 .. MaxCapacity
      BY DEF CommandInit
    <3>3. outPipe \in [Stream -> 0 .. 1]
          /\ reader \in [Stream -> {"none", "reading", "ended"}]
      BY DEF CommandInit
    <3> QED BY <3>1, <3>2, <3>3 DEF CommandInit, CommandTypeOK
  <2> QED BY <2>1, <2>2 DEF TypeOK
<1>2. Answering
  BY DEF Answering, Returned, FileLabel, CommandLabel, Acknowledgement
<1>3. Kept
  BY DEF Kept, FileInit, Directory, Found, FileLabel
<1>4. Told
  BY DEF Told, CommandInit, Ended, Exit
<1>5. Honest
  BY DEF Honest, Acknowledgement
<1> QED BY <1>1, <1>2, <1>3, <1>4, <1>5 DEF Inv

LEMMA NextInv == Inv /\ [Next]_vars => Inv'
BY NextTyped, NextAnswering, NextKept, NextTold, NextHonest DEF Inv

LEMMA SpecInv == Spec => []Inv
BY InitInv, NextInv, PTL DEF Spec

(* Every reachable state is well typed. *)
THEOREM ReceiversTyped == Spec => []TypeOK
<1>1. Inv => TypeOK
  BY DEF Inv
<1> QED BY <1>1, SpecInv, PTL

(* However often other programs change the path, the key is never put, nor *)
(* left behind, in a directory that was reached through a link.            *)
THEOREM ReceiversKeepPlace == Spec => []KeyOnlyWhereChecked
<1>1. Inv => KeyOnlyWhereChecked
  BY DEF Inv, Kept, KeyOnlyWhereChecked, HoldsKey, Directory
<1> QED BY <1>1, SpecInv, PTL

-----------------------------------------------------------------------------
(* The refinement.  An answer that asserts something is given once, and    *)
(* what it asserts is kept by every later step.                            *)

LEMMA Frame ==
  [Next]_vars => /\ kind' = kind
                 /\ Returned => answer' = answer
                 /\ answer' = answer \/ pc' = "done"
<1> SUFFICES ASSUME [Next]_vars
             PROVE  /\ kind' = kind
                    /\ Returned => answer' = answer
                    /\ answer' = answer \/ pc' = "done"
  OBVIOUS
<1> USE DEF Goto, Answer, At, Returned, delivery
<1>1. CASE FileDelivery
  BY <1>1 DEF FileDelivery, FileStep, Others, MakeDirectory, OpenDirectory,
     CheckTarget, CreateTemporary, WriteKey, SyncTemporary, RenameOver,
     SyncTarget, CleanUp, ChangePath, ChangeTarget, RemoveTemporary, Changed,
     LosePower
<1>2. CASE CommandDelivery
  BY <1>2 DEF CommandDelivery, CommandStep, Spawn, TryWait, LookAtClock,
     Kill, Reap, Conclude, Expire, GraceEnds, WriteEnvelope, Drain, Adapter,
     AdapterWorks, ReadStdin, PrintTo, CommitKey, ExitWith, Signalled, Fork,
     OffspringEnds
<1>3. CASE CallerDelivery \/ Killed \/ UNCHANGED vars
  BY <1>3 DEF CallerDelivery, CallerReceives, Killed, Die, vars
<1> QED BY <1>1, <1>2, <1>3 DEF Next

(* What the abstract variables are, in terms of the file receiver's own    *)
(* directory.                                                              *)
MappedFile ==
  /\ Place = IF target["own"] = "key" THEN "key" ELSE "previous"
  /\ SecondCopy = CASE temp["own"] = "key" -> "there"
                    [] temp["own"] = "removed" -> "removed"
                    [] OTHER -> "none"

MappedOther ==
  Place = (IF committed THEN "key" ELSE "previous") /\ SecondCopy = "none"

Evident ==
  /\ kind = "file" => MappedFile
  /\ kind # "file" => MappedOther
  /\ Place \in {"previous", "key"}
  /\ SecondCopy \in {"none", "there", "removed"}
  /\ answer = "delivered" =>
       (Forgets \/ Place = "key") /\ SecondCopy = "none"
  /\ answer = "rejected" =>
       Place = "previous" /\ (pc = "dead" \/ SecondCopy # "there")

LEMMA InvEvident == Inv => Evident
<1> SUFFICES ASSUME Inv PROVE Evident
  OBVIOUS
<1>1. ASSUME kind = "file" PROVE MappedFile
  BY <1>1 DEF Inv, Kept, MappedFile, Place, SecondCopy, Directory
<1>2. ASSUME kind # "file" PROVE MappedOther
  BY <1>2 DEF Inv, Kept, MappedOther, Place, SecondCopy, Directory
<1>3. CASE kind = "file"
  BY <1>1, <1>3 DEF Evident, MappedFile, Inv, Honest
<1>4. CASE kind # "file"
  BY <1>2, <1>4 DEF Evident, MappedOther, Inv, Honest
<1> QED BY <1>3, <1>4

LEMMA InvEvidentNext == Inv' => Evident'
BY InvEvident, PTL

(* After a refusal only a power loss brings a copy back, and only one that *)
(* had been removed.                                                       *)
LEMMA CopyAfterRefusal ==
  ASSUME Inv, Inv', [Next]_vars, answer = "rejected"
  PROVE  SecondCopy' = SecondCopy \/ SecondCopy = "removed"
<1>0. Evident /\ Evident'
  BY InvEvident, InvEvidentNext
<1>1. Returned /\ kind' = kind
  BY Frame, NoneAssumption DEF Inv, Answering, Acknowledgement
<1>2. CASE kind # "file"
  BY <1>0, <1>1, <1>2 DEF Evident, MappedOther
<1>3. CASE kind = "file" /\ UNCHANGED temp
  BY <1>0, <1>1, <1>3 DEF Evident, MappedFile
<1>4. CASE kind = "file" /\ FileDelivery
  <2>0. temp \in [Directory -> Temporary]
    BY DEF Inv, TypeOK, FileTypeOK
  <2>1. ~FileStep
    BY <1>1 DEF FileStep, MakeDirectory, OpenDirectory, CheckTarget,
       CreateTemporary, WriteKey, SyncTemporary, RenameOver, SyncTarget,
       CleanUp, At, Returned
  <2>2. CASE ChangePath \/ ChangeTarget
    BY <1>3, <1>4, <2>2 DEF ChangePath, ChangeTarget
  <2>3. CASE RemoveTemporary
    <3>1. temp["own"] # "key"
      BY <1>4, <2>3 DEF RemoveTemporary, Changed, Alive, Inv, Honest
    <3>2. temp["own"] = "empty" /\ temp'["own"] = "absent"
      BY <2>0, <2>3, <3>1 DEF RemoveTemporary, Unlinked, Directory
    <3> QED BY <1>0, <1>1, <1>4, <3>2 DEF Evident, MappedFile
  <2>4. CASE LosePower
    <3>1. /\ pc # "dead" /\ temp["own"] # "key"
          /\ lasting["own"] = target["own"]
      BY <1>4, <2>4 DEF LosePower, Alive, Inv, Honest, Kept
    <3>2. temp'["own"] \in TempAfterLoss("own") \cup {"absent"}
      BY <2>4 DEF LosePower, Directory
    <3>3. temp["own"] = "removed" \/ temp'["own"] \in {"absent", temp["own"]}
      BY <3>1, <3>2 DEF TempAfterLoss
    <3>4. temp["own"] \in {"absent", "empty", "removed"}
      BY <2>0, <3>1 DEF Directory, Temporary
    <3> QED BY <1>0, <1>1, <1>4, <3>3, <3>4 DEF Evident, MappedFile
  <2> QED BY <1>4, <2>1, <2>2, <2>3, <2>4 DEF FileDelivery, Others
<1> QED
  BY <1>2, <1>3, <1>4
  DEF Next, CommandDelivery, CallerDelivery, CallerReceives, Killed, files,
      vars

LEMMA StepImplements ==
  ASSUME ~Forgets
  PROVE  Inv /\ Inv' /\ [Next]_vars => [Promise!Next]_(Promise!vars)
<1> SUFFICES ASSUME Inv, Inv', [Next]_vars
             PROVE  [Promise!Next]_(Promise!vars)
  OBVIOUS
<1> USE NoneAssumption
    DEF Promise!Next, Promise!vars, Promise!Destination, Promise!Copy,
        Promise!Acknowledgement, Acknowledgement
<1>0. Evident /\ Evident'
  BY InvEvident, InvEvidentNext
<1>1. /\ Place' \in {"previous", "key"}
      /\ SecondCopy' \in {"none", "there", "removed"}
  BY <1>0 DEF Evident
<1>2. CASE answer \in {None, "ambiguous"} /\ answer' = answer
  BY <1>1, <1>2 DEF Promise!Act
<1>3. CASE answer' # answer
  <2>1. pc' = "done" /\ answer = None /\ answer' \in Acknowledgement
    BY <1>3, Frame DEF Inv, Answering
  <2>2. Promise!Evidence(answer', Place', SecondCopy')
    BY <1>0, <2>1 DEF Evident, Promise!Evidence
  <2> QED BY <1>1, <2>1, <2>2 DEF Promise!Acknowledge
<1>4. CASE answer = "delivered" /\ answer' = answer
  BY <1>0, <1>4 DEF Evident
<1>5. CASE answer = "rejected" /\ answer' = answer
  <2>1. Place' = Place
    BY <1>0, <1>5 DEF Evident
  <2>2. SecondCopy' = SecondCopy \/ SecondCopy = "removed"
    BY <1>5, CopyAfterRefusal
  <2> QED BY <1>1, <1>5, <2>1, <2>2 DEF Promise!Resurface
<1> QED
  <2>1. answer \in Acknowledgement \cup {None}
    BY DEF Inv, TypeOK
  <2> QED BY <2>1, <1>2, <1>3, <1>4, <1>5

(* An acknowledgement is evidence: each receiver implements the abstract   *)
(* delivery, if no power loss takes along a directory made for the key.    *)
THEOREM ReceiversImplementDelivery ==
  ASSUME ~Forgets
  PROVE  Spec => ImplementsDelivery
<1>1. Init => Promise!Init
  <2> SUFFICES ASSUME Init PROVE Promise!Init
    OBVIOUS
  <2>1. Inv /\ answer = None /\ ~committed /\ temp["own"] = "absent"
        /\ target["own"] # "key"
    BY InitInv DEF Init, FileInit, Directory, Found
  <2>2. Place = "previous" /\ SecondCopy = "none"
    BY <2>1, InvEvident DEF Evident, MappedFile, MappedOther
  <2> QED BY <2>1, <2>2 DEF Promise!Init
<1> QED
  BY <1>1, SpecInv, StepImplements, PTL DEF Spec, ImplementsDelivery,
     Promise!Spec
=============================================================================
