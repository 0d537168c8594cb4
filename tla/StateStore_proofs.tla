------------------------- MODULE StateStore_proofs -------------------------
(***************************************************************************)
(* The promises of the state file, for every number of runs, writes and    *)
(* faults: one writer at a time, and, where the unlocked writer keeps out  *)
(* of the window between another's comparison and its rename, an atomic    *)
(* file that loses nothing it acknowledged.                                *)
(***************************************************************************)
EXTENDS StateStore, TLAPS

Comparing == {"checked", "temporary"}

-----------------------------------------------------------------------------
(* Types.  What a run that is writing has checked about its document keeps *)
(* the serial and the change it will publish in range.                     *)

Writing ==
  \A p \in Run : pc[p] \in Comparing \cup {"renamed"} =>
    mem[p].serial < MaxSerial /\ writes[p] \in 1 .. MaxWrites

Typed == TypeOK /\ Writing

LEMMA EmptyTyped == Empty \in Document
BY StoreAssumption DEF Empty, Document

LEMMA InitTyped == Init => Typed
<1> SUFFICES ASSUME Init PROVE Typed
  OBVIOUS
<1>1. TypeOK
  <2>1. disk \in Document /\ synced \in Document /\ foreign \in Document
    BY EmptyTyped DEF Init
  <2>2. mem \in [Run -> Document]
    BY EmptyTyped DEF Init
  <2>3. writes \in [Run -> 0 .. MaxWrites + 1] /\ faults \in 0 .. MaxFaults
    BY StoreAssumption DEF Init
  <2> QED BY <2>1, <2>2, <2>3 DEF Init, TypeOK, Unlocked
<1>2. Writing
  BY DEF Init, Writing, Comparing
<1> QED BY <1>1, <1>2 DEF Typed

(* What a run publishes is a document. *)
LEMMA CandidateTyped ==
  ASSUME Typed, NEW p \in Run, pc[p] \in Comparing \cup {"renamed"}
  PROVE  /\ Mine(p) \in Run \X (1 .. MaxWrites)
         /\ Candidate(p) \in Document
<1>1. mem[p] \in Document /\ mem[p].serial < MaxSerial
      /\ writes[p] \in 1 .. MaxWrites
  BY DEF Typed, TypeOK, Writing
<1>2. Mine(p) \in Run \X (1 .. MaxWrites)
  BY <1>1 DEF Mine
<1>3. mem[p].serial + 1 \in 0 .. MaxSerial
  BY <1>1, StoreAssumption DEF Document
<1>4. mem[p].changes \cup {Mine(p)} \in SUBSET Change
  BY <1>1, <1>2 DEF Document, Change
<1> QED BY <1>2, <1>3, <1>4 DEF Candidate, Document

LEMMA NextTyped == Typed /\ [Next]_vars => Typed'
<1> SUFFICES ASSUME Typed, [Next]_vars PROVE Typed'
  OBVIOUS
<1> USE StoreAssumption DEF Typed, TypeOK, Writing, Comparing, Unlocked,
      Locked, Goto, file, history
<1>1. ASSUME NEW p \in Run, Start(p) PROVE Typed'
  BY <1>1 DEF Start
<1>2. ASSUME NEW p \in Run, Lock(p) PROVE Typed'
  BY <1>2 DEF Lock, CreateLock, RefuseLock
<1>3. ASSUME NEW p \in Run, Read(p) PROVE Typed'
  BY <1>3 DEF Read
<1>4. ASSUME NEW p \in Run, BeginWrite(p) PROVE Typed'
  <2>1. <<p, writes[p] + 1>> \in Change
    BY <1>4 DEF BeginWrite, Change
  <2> QED BY <1>4, <2>1 DEF BeginWrite, SerialAgrees, Document
<1>5. ASSUME NEW p \in Run, WriteTemporary(p) PROVE Typed'
  <2>1. Mine(p) \in Change
    BY <1>5, CandidateTyped DEF WriteTemporary, Change
  <2> QED BY <1>5, <2>1 DEF WriteTemporary, WriteBeside
<1>6. ASSUME NEW p \in Run, Rename(p) PROVE Typed'
  <2>1. Mine(p) \in Change /\ Candidate(p) \in Document
    BY <1>6, CandidateTyped DEF Rename, Change
  <2> QED BY <1>6, <2>1 DEF Rename
<1>7. ASSUME NEW p \in Run, SyncDirectory(p) PROVE Typed'
  <2>1. Candidate(p) \in Document
    BY <1>7, CandidateTyped DEF SyncDirectory
  <2> QED BY <1>7, <2>1 DEF SyncDirectory
<1>8. ASSUME NEW p \in Run, Release(p) PROVE Typed'
  BY <1>8 DEF Release, RemoveLock
<1>9. ASSUME NEW p \in Run, Crash(p) PROVE Typed'
  BY <1>9 DEF Crash
<1>10. CASE PowerLoss
  BY <1>10 DEF PowerLoss, Running, Empty, Document
<1>11. CASE OperatorLooks
  BY <1>11 DEF OperatorLooks
<1>12. CASE OperatorRemovesLock
  BY <1>12 DEF OperatorRemovesLock
<1>13. CASE ForeignWrite
  <2>1. disk' \in Document
    BY <1>13 DEF ForeignWrite, Document, Change
  <2> QED BY <1>13, <2>1 DEF ForeignWrite
<1>14. CASE ForeignSync
  BY <1>14 DEF ForeignSync
<1>15. CASE UNCHANGED vars
  BY <1>15 DEF vars
<1> QED
  BY <1>1, <1>2, <1>3, <1>4, <1>5, <1>6, <1>7, <1>8, <1>9, <1>10, <1>11,
     <1>12, <1>13, <1>14, <1>15 DEF Next, RunStep

(* Every reachable state is well typed: no serial leaves its range. *)
THEOREM StoreTyped == Spec => []TypeOK
<1>1. Typed => TypeOK
  BY DEF Typed
<1> QED BY <1>1, InitTyped, NextTyped, PTL DEF Spec

-----------------------------------------------------------------------------
(* The lock.  A run that holds it keeps it there; one that ends leaves it, *)
(* or removes it; and an operator who has seen that no run is left removes *)
(* it before any run can take it, since it is still there.                 *)

Locking ==
  /\ OneWriter
  /\ \A p \in Run : pc[p] \in Locked => lock
  /\ operator = "seen" => lock /\ \A p \in Run : pc[p] \notin Locked

LEMMA NextLocking == Typed /\ Locking /\ [Next]_vars => Locking'
<1> SUFFICES ASSUME Typed, Locking, [Next]_vars PROVE Locking'
  OBVIOUS
<1>0. pc \in [Run -> Unlocked \cup Locked]
  BY DEF Typed, TypeOK
<1> USE <1>0 DEF Locking, OneWriter, Unlocked, Locked, Goto
<1>1. ASSUME NEW p \in Run,
             \/ Start(p)
             \/ Read(p)
             \/ BeginWrite(p)
             \/ WriteTemporary(p)
             \/ Rename(p)
             \/ SyncDirectory(p)
             \/ Crash(p)
      PROVE  Locking'
  BY <1>1 DEF Start, Read, BeginWrite, WriteTemporary, Rename, SyncDirectory,
              Crash
<1>2. ASSUME NEW p \in Run, Lock(p) PROVE Locking'
  BY <1>2 DEF Lock, CreateLock, RefuseLock
<1>3. ASSUME NEW p \in Run, Release(p) PROVE Locking'
  BY <1>3 DEF Release, RemoveLock
<1>4. CASE PowerLoss
  BY <1>4 DEF PowerLoss, Running
<1>5. CASE OperatorLooks
  BY <1>5 DEF OperatorLooks, Running
<1>6. CASE OperatorRemovesLock
  BY <1>6 DEF OperatorRemovesLock
<1>7. CASE ForeignWrite \/ ForeignSync \/ UNCHANGED vars
  BY <1>7 DEF ForeignWrite, ForeignSync, vars
<1> QED
  BY <1>1, <1>2, <1>3, <1>4, <1>5, <1>6, <1>7 DEF Next, RunStep

(* Two runs are never between taking the lock and releasing it, however    *)
(* many contend, die or lose power.                                        *)
THEOREM StoreHasOneWriter == Spec => []OneWriter
<1>1. Init => Locking
  BY DEF Init, Locking, OneWriter, Locked
<1>2. Locking => OneWriter
  BY DEF Locking
<1> QED BY <1>1, <1>2, InitTyped, NextTyped, NextLocking, PTL DEF Spec

-----------------------------------------------------------------------------
(* Which document comes from which.  The comparison looks at serials only; *)
(* it is worth something because a document that comes from another has a  *)
(* higher serial, or is the same one.                                      *)

Before(d, e) == /\ d.changes \subseteq e.changes
                /\ d.serial <= e.serial
                /\ d.serial = e.serial => d = e

LEMMA BeforeItself == ASSUME NEW d \in Document PROVE Before(d, d)
BY StoreAssumption DEF Before, Document

LEMMA BeforeTransitive ==
  ASSUME NEW d \in Document, NEW e \in Document, NEW f \in Document,
         Before(d, e), Before(e, f)
  PROVE  Before(d, f)
BY StoreAssumption DEF Before, Document

LEMMA BeforeNext ==
  ASSUME NEW d \in Document, NEW e \in Document,
         e.serial = d.serial + 1, d.changes \subseteq e.changes
  PROVE  Before(d, e)
BY StoreAssumption DEF Before, Document

Holding == {"holding"} \cup Comparing

Lineage ==
  /\ Before(Empty, synced)
  /\ Before(synced, disk)
  /\ Before(foreign, disk)
  /\ \A d \in acked : Before(d, synced)
  /\ \A p \in Run :
       /\ pc[p] \in Holding => Before(mem[p], disk)
       /\ pc[p] \in Comparing => mem[p] = disk
       /\ pc[p] = "renamed" => Before(Candidate(p), disk)

LEMMA InitLineage == Init => Lineage
<1> SUFFICES ASSUME Init PROVE Lineage
  OBVIOUS
<1>1. Before(Empty, Empty)
  BY EmptyTyped, BeforeItself
<1> QED BY <1>1 DEF Init, Lineage, Holding, Comparing

(* Whatever replaces the document on disk by one that comes from it leaves *)
(* everybody's lineage as it was. *)
LEMMA Growth ==
  ASSUME Typed, Lineage, disk' \in Document, Before(disk, disk')
  PROVE  /\ Before(synced, disk')
         /\ Before(foreign, disk')
         /\ Before(Empty, disk')
         /\ \A d \in acked : Before(d, disk')
         /\ \A p \in Run :
              /\ pc[p] \in Holding => Before(mem[p], disk')
              /\ pc[p] = "renamed" => Before(Candidate(p), disk')
<1> DEFINE Ancestor(d) == d \in Document /\ Before(d, disk)
<1>1. disk \in Document /\ synced \in Document /\ foreign \in Document
      /\ acked \subseteq Document /\ mem \in [Run -> Document]
  BY DEF Typed, TypeOK
<1>2. ASSUME NEW d, Ancestor(d) PROVE Before(d, disk')
  BY <1>1, <1>2, BeforeTransitive
<1>3. Ancestor(synced) /\ Ancestor(foreign)
  BY <1>1 DEF Lineage
<1>4. Ancestor(Empty)
  BY <1>1, EmptyTyped, BeforeTransitive DEF Lineage
<1>5. \A d \in acked : Ancestor(d)
  BY <1>1, BeforeTransitive DEF Lineage
<1>6. \A p \in Run : pc[p] \in Holding => Ancestor(mem[p])
  BY <1>1 DEF Lineage
<1>7. \A p \in Run : pc[p] = "renamed" => Ancestor(Candidate(p))
  BY CandidateTyped DEF Lineage
<1> HIDE DEF Ancestor
<1> QED BY <1>2, <1>3, <1>4, <1>5, <1>6, <1>7

LEMMA NextLineage ==
  ASSUME Foreign # "always"
  PROVE  Typed /\ Typed' /\ Locking /\ Lineage /\ [Next]_vars => Lineage'
<1> SUFFICES ASSUME Typed, Typed', Locking, Lineage, [Next]_vars
             PROVE  Lineage'
  OBVIOUS
<1>0. /\ disk \in Document /\ disk' \in Document /\ synced \in Document
      /\ foreign \in Document /\ acked \subseteq Document
      /\ mem \in [Run -> Document] /\ pc \in [Run -> Unlocked \cup Locked]
  BY DEF Typed, TypeOK
<1> USE <1>0 DEF Goto, file, history, Holding, Comparing, Unlocked, Locked
<1>1. ASSUME NEW p \in Run, Start(p) \/ Lock(p) \/ Release(p) \/ Crash(p)
      PROVE  Lineage'
  <2>1. /\ UNCHANGED <<disk, synced, foreign, acked, mem, writes>>
        /\ \A q \in Run : pc'[q] # pc[q] => pc'[q] \in {"started", "locked",
                                                       "ended"}
    BY <1>1 DEF Start, Lock, CreateLock, RefuseLock, Release, RemoveLock,
                Crash
  <2> QED BY <2>1 DEF Lineage, Candidate, Mine
<1>2. ASSUME NEW p \in Run, Read(p) PROVE Lineage'
  <2>1. Before(disk, disk)
    BY BeforeItself
  <2> QED BY <1>2, <2>1 DEF Read, Lineage, Candidate, Mine
<1>3. ASSUME NEW p \in Run, BeginWrite(p) PROVE Lineage'
  <2>1. SerialAgrees(p) => mem[p] = disk
    BY <1>3 DEF BeginWrite, SerialAgrees, Lineage, Before
  <2>2. \A q \in Run : pc[q] = "renamed" => q # p
    BY <1>3 DEF BeginWrite
  <2> QED BY <1>3, <2>1, <2>2 DEF BeginWrite, Lineage, Candidate, Mine, Typed,
             TypeOK
<1>4. ASSUME NEW p \in Run, WriteTemporary(p) PROVE Lineage'
  BY <1>4 DEF WriteTemporary, WriteBeside, Lineage, Candidate, Mine
<1>5. ASSUME NEW p \in Run, Rename(p) PROVE Lineage'
  <2>1. CASE disk' = Candidate(p) /\ Goto(p, "renamed")
    <3>1. Before(disk, disk')
      BY <1>5, <2>1, BeforeNext DEF Rename, Lineage, Candidate
    <3>2. \A q \in Run : q # p => pc[q] \notin Locked
      BY <1>5 DEF Rename, Locking, OneWriter
    <3>3. Before(disk', disk')
      BY BeforeItself
    <3>4. UNCHANGED <<synced, mem, writes, foreign, acked>>
      BY <1>5 DEF Rename
    <3>5. pc' = [pc EXCEPT ![p] = "renamed"] /\ Candidate(p)' = disk'
      BY <2>1, <3>4 DEF Candidate, Mine
    <3> QED BY <3>1, <3>2, <3>3, <3>4, <3>5, Growth DEF Lineage
  <2>2. CASE UNCHANGED disk
    BY <1>5, <2>2 DEF Rename, Lineage, Candidate, Mine
  <2> QED BY <1>5, <2>1, <2>2 DEF Rename
<1>6. ASSUME NEW p \in Run, SyncDirectory(p) PROVE Lineage'
  <2>1. Candidate(p) \in Document /\ Before(Candidate(p), disk)
    BY <1>6, CandidateTyped DEF SyncDirectory, Lineage
  <2>2. Before(mem[p], disk)
    <3>1. Before(mem[p], Candidate(p))
      BY <2>1, BeforeNext DEF Candidate
    <3> QED BY <2>1, <3>1, BeforeTransitive
  <2>3. Before(disk, disk)
    BY BeforeItself
  <2>4. \A q \in Run : q # p => pc[q] \notin Locked
    BY <1>6 DEF SyncDirectory, Locking, OneWriter
  <2>5. /\ pc' = [pc EXCEPT ![p] = "holding"]
        /\ UNCHANGED <<disk, foreign>>
    BY <1>6 DEF SyncDirectory
  <2>6. CASE UNCHANGED <<synced, mem, acked>>
    BY <2>2, <2>4, <2>5, <2>6 DEF Lineage
  <2>7. CASE /\ synced' = disk
             /\ mem' = [mem EXCEPT ![p] = Candidate(p)]
             /\ acked' = acked \cup {Candidate(p)}
    BY <2>1, <2>3, <2>4, <2>5, <2>7, Growth DEF Lineage
  <2> QED BY <1>6, <2>6, <2>7 DEF SyncDirectory
<1>7. CASE PowerLoss
  <2>1. \A p \in Run : pc'[p] \notin Locked
    BY <1>7 DEF PowerLoss, Running
  <2>2. disk' \in {disk, synced} /\ synced' = disk' /\ UNCHANGED acked
        /\ foreign' \in acked \cup {Empty}
    BY <1>7 DEF PowerLoss
  <2>3. Before(disk', disk')
    BY BeforeItself
  <2>4. Before(Empty, disk') /\ \A d \in acked : Before(d, disk')
    <3>1. CASE disk' = disk
      BY <2>3, <3>1, Growth
    <3>2. CASE disk' = synced
      BY <3>2 DEF Lineage
    <3> QED BY <2>2, <3>1, <3>2
  <2> QED BY <2>1, <2>2, <2>3, <2>4 DEF Lineage
<1>8. CASE OperatorLooks \/ OperatorRemovesLock \/ UNCHANGED vars
  BY <1>8 DEF OperatorLooks, OperatorRemovesLock, vars, Lineage, Candidate,
              Mine
<1>9. CASE ForeignWrite
  <2>1. \A p \in Run : pc[p] \notin Comparing
    BY <1>9, StoreAssumption DEF ForeignWrite
  <2>2. Before(disk, disk')
    BY <1>9, BeforeNext DEF ForeignWrite
  <2>3. Before(disk', disk')
    BY BeforeItself
  <2> QED BY <1>9, <2>1, <2>2, <2>3, Growth
          DEF ForeignWrite, Lineage, Candidate, Mine
<1>10. CASE ForeignSync
  <2>1. Before(disk, disk)
    BY BeforeItself
  <2>2. UNCHANGED <<disk, foreign, pc, mem, writes>>
    BY <1>10 DEF ForeignSync
  <2>3. synced' = disk /\ acked' = acked \cup {foreign}
    BY <1>10 DEF ForeignSync
  <2>4. Before(Empty, disk) /\ \A d \in acked : Before(d, disk)
    BY <2>1, <2>2, Growth
  <2> QED BY <2>1, <2>2, <2>3, <2>4 DEF Lineage, Candidate, Mine
<1> QED
  BY <1>1, <1>2, <1>3, <1>4, <1>5, <1>6, <1>7, <1>8, <1>9, <1>10
  DEF Next, RunStep

(* Where the unlocked writer keeps out of the window, nobody overwrites a  *)
(* change he has not read.                                                 *)
THEOREM StoreKeepsAcknowledged ==
  ASSUME Foreign # "always"
  PROVE  Spec => []AcknowledgedSurvives
<1>1. Init => Locking
  BY DEF Init, Locking, OneWriter, Locked
<1>2. Typed /\ Lineage => AcknowledgedSurvives
  BY DEF Typed, TypeOK, Lineage, Before, AcknowledgedSurvives
<1> QED
  BY <1>1, <1>2, InitTyped, InitLineage, NextTyped, NextLocking, NextLineage,
     PTL DEF Spec

-----------------------------------------------------------------------------
(* Serials.  A document whose change was made visible, whether that write  *)
(* has returned or will, shares its serial with no other such document.    *)

Published ==
  acked \cup ({foreign} \ {Empty})
        \cup {Candidate(p) : p \in {q \in Run : pc[q] = "renamed"}}

Serials == \A d, e \in Published : d.serial = e.serial => d = e

LEMMA PublishedBefore ==
  ASSUME Typed, Lineage, NEW d \in Published
  PROVE  d \in Document /\ Before(d, disk)
<1>1. disk \in Document /\ synced \in Document /\ foreign \in Document
      /\ acked \subseteq Document
  BY DEF Typed, TypeOK
<1>2. CASE d \in acked
  BY <1>1, <1>2, BeforeTransitive DEF Lineage
<1>3. CASE d = foreign
  BY <1>1, <1>3 DEF Lineage
<1>4. ASSUME NEW p \in Run, pc[p] = "renamed", d = Candidate(p)
      PROVE  d \in Document /\ Before(d, disk)
  BY <1>4, CandidateTyped DEF Lineage
<1> QED BY <1>2, <1>3, <1>4 DEF Published

(* A document one above the disk's may join the published ones. *)
LEMMA NextSerialIsNew ==
  ASSUME Typed, Lineage, Serials, NEW new, new.serial = disk.serial + 1,
         Published' \subseteq Published \cup {new}
  PROVE  Serials'
<1>1. \A d \in Published : d.serial # new.serial
  <2> SUFFICES ASSUME NEW d \in Published PROVE d.serial # new.serial
    OBVIOUS
  <2>1. d \in Document /\ disk \in Document /\ d.serial <= disk.serial
    BY PublishedBefore DEF Typed, TypeOK, Before
  <2> QED BY <2>1, StoreAssumption DEF Document
<1> QED BY <1>1 DEF Serials

LEMMA NextSerials ==
  ASSUME Foreign # "always"
  PROVE  Typed /\ Locking /\ Lineage /\ Serials /\ [Next]_vars => Serials'
<1> SUFFICES ASSUME Typed, Locking, Lineage, Serials, [Next]_vars
             PROVE  Serials'
  OBVIOUS
<1>0. pc \in [Run -> Unlocked \cup Locked] /\ mem \in [Run -> Document]
      /\ writes \in [Run -> 0 .. MaxWrites + 1]
  BY DEF Typed, TypeOK
<1>a. ASSUME Published' \subseteq Published PROVE Serials'
  BY <1>a DEF Serials
<1> USE <1>0 DEF Goto, file, history
<1>1. ASSUME NEW p \in Run,
             \/ Start(p)
             \/ Lock(p)
             \/ Release(p)
             \/ Crash(p)
             \/ Read(p)
             \/ BeginWrite(p)
             \/ WriteTemporary(p)
      PROVE  Serials'
  <2>1. /\ UNCHANGED <<acked, foreign>>
        /\ \A q \in Run : pc'[q] = "renamed" =>
             /\ pc[q] = "renamed" /\ Candidate(q)' = Candidate(q)
    BY <1>1 DEF Start, Lock, CreateLock, RefuseLock, Release, RemoveLock,
                Crash, Read, BeginWrite, WriteTemporary, Candidate, Mine
  <2>2. Published' \subseteq Published
    BY <2>1 DEF Published
  <2> QED BY <2>2, <1>a
<1>2. ASSUME NEW p \in Run, Rename(p) PROVE Serials'
  <2>1. UNCHANGED <<acked, foreign, mem, writes>>
    BY <1>2 DEF Rename
  <2>2. \A q \in Run : Candidate(q)' = Candidate(q)
    BY <2>1 DEF Candidate, Mine
  <2>3. \A q \in Run : q # p /\ pc'[q] = "renamed" => pc[q] = "renamed"
    BY <1>2 DEF Rename
  <2>4. Published' \subseteq Published \cup {Candidate(p)}
    BY <2>1, <2>2, <2>3 DEF Published
  <2>5. Candidate(p).serial = disk.serial + 1
    BY <1>2 DEF Rename, Lineage, Comparing, Candidate
  <2> QED BY <2>4, <2>5, NextSerialIsNew
<1>3. ASSUME NEW p \in Run, SyncDirectory(p) PROVE Serials'
  <2>1. Candidate(p) \in Published
    BY <1>3 DEF SyncDirectory, Published
  <2>2. acked' \subseteq acked \cup {Candidate(p)} /\ foreign' = foreign
    BY <1>3 DEF SyncDirectory
  <2>3. \A q \in Run : pc'[q] = "renamed" =>
          pc[q] = "renamed" /\ Candidate(q)' = Candidate(q)
    BY <1>3 DEF SyncDirectory, Candidate, Mine
  <2>4. Published' \subseteq Published
    BY <2>1, <2>2, <2>3 DEF Published
  <2> QED BY <2>4, <1>a
<1>4. CASE PowerLoss
  <2>1. acked' = acked /\ foreign' \in acked \cup {Empty}
    BY <1>4 DEF PowerLoss
  <2>2. \A p \in Run : pc'[p] # "renamed"
    BY <1>4 DEF PowerLoss, Running
  <2>3. Published' \subseteq Published
    BY <2>1, <2>2 DEF Published
  <2> QED BY <2>3, <1>a
<1>5. CASE OperatorLooks \/ OperatorRemovesLock \/ UNCHANGED vars
  <2>1. UNCHANGED <<acked, foreign, pc, mem, writes>>
    BY <1>5 DEF OperatorLooks, OperatorRemovesLock, vars
  <2>2. Published' = Published
    BY <2>1 DEF Published, Candidate, Mine
  <2> QED BY <2>2, <1>a
<1>6. CASE ForeignWrite
  <2>1. disk'.serial = disk.serial + 1 /\ foreign' = disk'
        /\ UNCHANGED <<acked, pc, mem, writes>>
    BY <1>6 DEF ForeignWrite
  <2>2. Published' \subseteq Published \cup {disk'}
    BY <2>1 DEF Published, Candidate, Mine
  <2> QED BY <2>1, <2>2, NextSerialIsNew
<1>7. CASE ForeignSync
  <2>1. acked' = acked \cup {foreign} /\ foreign # Empty
        /\ UNCHANGED <<foreign, pc, mem, writes>>
    BY <1>7 DEF ForeignSync
  <2>2. Published' \subseteq Published
    BY <2>1 DEF Published, Candidate, Mine
  <2> QED BY <2>2, <1>a
<1> QED
  BY <1>1, <1>2, <1>3, <1>4, <1>5, <1>6, <1>7 DEF Next, RunStep

(* Where the unlocked writer keeps out of the window, the comparison of    *)
(* serials compares documents.                                             *)
THEOREM StoreSerialsName ==
  ASSUME Foreign # "always"
  PROVE  Spec => []SerialNamesOneDocument
<1>1. Init => Locking
  BY DEF Init, Locking, OneWriter, Locked
<1>2. Init => Serials
  BY DEF Init, Serials, Published
<1>3. Serials => SerialNamesOneDocument
  BY DEF Serials, Published, SerialNamesOneDocument
<1> QED
  BY <1>1, <1>2, <1>3, InitTyped, InitLineage, NextTyped, NextLocking,
     NextLineage, NextSerials, PTL DEF Spec

-----------------------------------------------------------------------------
(* Failed writes.  A run numbers its writes, so the change it is making is *)
(* in no document and among no failures until it is renamed or fails.      *)

Traces ==
  /\ failed \subseteq Run \X (1 .. MaxWrites)
  /\ failed \cap disk.changes = {}
  /\ \A p \in Run : \A k \in Nat :
       <<p, k>> \in failed \cup disk.changes => k <= writes[p]
  /\ \A p \in Run : pc[p] \in Comparing =>
       Mine(p) \notin failed \cup disk.changes

LEMMA NextTraces ==
  ASSUME Foreign # "always"
  PROVE  Typed /\ Locking /\ Lineage /\ Traces /\ [Next]_vars => Traces'
<1> SUFFICES ASSUME Typed, Locking, Lineage, Traces, [Next]_vars
             PROVE  Traces'
  OBVIOUS
<1>0. pc \in [Run -> Unlocked \cup Locked] /\ mem \in [Run -> Document]
      /\ writes \in [Run -> 0 .. MaxWrites + 1] /\ MaxWrites \in Nat
  BY StoreAssumption DEF Typed, TypeOK
<1> USE <1>0 DEF Goto, file, history, Comparing
<1>1. ASSUME NEW p \in Run,
             \/ Start(p)
             \/ Lock(p)
             \/ Release(p)
             \/ Crash(p)
             \/ Read(p)
             \/ SyncDirectory(p)
      PROVE  Traces'
  <2>1. /\ UNCHANGED <<disk, failed, writes>>
        /\ \A q \in Run : pc'[q] \in Comparing => pc[q] \in Comparing
    BY <1>1 DEF Start, Lock, CreateLock, RefuseLock, Release, RemoveLock,
                Crash, Read, SyncDirectory
  <2> QED BY <2>1 DEF Traces, Mine
<1>2. ASSUME NEW p \in Run, BeginWrite(p) PROVE Traces'
  <2>1. /\ writes' = [writes EXCEPT ![p] = @ + 1] /\ disk' = disk
        /\ writes[p] \in 0 .. MaxWrites - 1
        /\ \A q \in Run : q # p => pc'[q] = pc[q]
    BY <1>2 DEF BeginWrite
  <2>2. <<p, writes[p] + 1>> \notin failed \cup disk.changes
    BY <2>1 DEF Traces
  <2>3. CASE failed' = failed
    BY <2>1, <2>2, <2>3 DEF Traces, Mine
  <2>4. CASE failed' = failed \cup {<<p, writes[p] + 1>>} /\ pc' = pc
    <3>1. pc[p] \notin Comparing
      BY <1>2 DEF BeginWrite
    <3> QED BY <2>1, <2>2, <2>4, <3>1 DEF Traces, Mine
  <2> QED BY <1>2, <2>3, <2>4 DEF BeginWrite
<1>3. ASSUME NEW p \in Run, WriteTemporary(p) PROVE Traces'
  <2>1. UNCHANGED <<disk, writes>> /\ Mine(p) \in Run \X (1 .. MaxWrites)
        /\ pc[p] \in Comparing /\ \A q \in Run : q # p => pc'[q] = pc[q]
    BY <1>3, CandidateTyped DEF WriteTemporary, WriteBeside
  <2>2. CASE failed' = failed
    BY <2>1, <2>2 DEF Traces, Mine
  <2>3. CASE failed' = failed \cup {Mine(p)} /\ Goto(p, "holding")
    BY <2>1, <2>3 DEF Traces, Mine
  <2> QED BY <1>3, <2>2, <2>3 DEF WriteTemporary
<1>4. ASSUME NEW p \in Run, Rename(p) PROVE Traces'
  <2>1. UNCHANGED writes /\ Mine(p) \in Run \X (1 .. MaxWrites)
        /\ pc[p] \in Comparing
    BY <1>4, CandidateTyped DEF Rename
  <2>2. Mine(p) \notin failed \cup disk.changes
    BY <2>1 DEF Traces
  <2>3. \A q \in Run : /\ pc'[q] \in Comparing => q # p /\ pc[q] \in Comparing
                       /\ Mine(q)' = Mine(q)
                       /\ q # p => Mine(q) # Mine(p)
    BY <1>4, <2>1 DEF Rename, Mine
  <2>4. \A q \in Run : \A k \in Nat :
          <<q, k>> = Mine(p) => k <= writes[q]
    BY DEF Mine
  <2>5. CASE failed' = failed /\ disk' = Candidate(p)
    <3>1. disk'.changes = disk.changes \cup {Mine(p)}
      BY <1>4, <2>5 DEF Rename, Candidate, Lineage
    <3> QED BY <2>1, <2>2, <2>3, <2>4, <2>5, <3>1 DEF Traces
  <2>6. CASE failed' = failed \cup {Mine(p)} /\ disk' = disk
    BY <2>1, <2>2, <2>3, <2>4, <2>6 DEF Traces
  <2> QED BY <1>4, <2>5, <2>6 DEF Rename
<1>5. CASE PowerLoss
  <2>1. disk'.changes \subseteq disk.changes /\ UNCHANGED <<failed, writes>>
    BY <1>5 DEF PowerLoss, Lineage, Before
  <2>2. \A p \in Run : pc'[p] \notin Comparing
    BY <1>5 DEF PowerLoss, Running
  <2> QED BY <2>1, <2>2 DEF Traces
<1>6. CASE OperatorLooks \/ OperatorRemovesLock \/ ForeignSync \/ UNCHANGED vars
  BY <1>6 DEF OperatorLooks, OperatorRemovesLock, ForeignSync, vars, Traces,
              Mine
<1>7. CASE ForeignWrite
  <2>1. /\ disk'.changes = disk.changes \cup {ForeignChange}
        /\ UNCHANGED <<failed, writes, pc>>
    BY <1>7 DEF ForeignWrite
  <2>2. \A p \in Run : \A k \in Nat : <<p, k>> # ForeignChange
    BY StoreAssumption DEF ForeignChange
  <2> QED BY <2>1, <2>2 DEF Traces, Mine
<1> QED
  BY <1>1, <1>2, <1>3, <1>4, <1>5, <1>6, <1>7 DEF Next, RunStep

(* Where the unlocked writer keeps out of the window, a write that is      *)
(* reported as failed before its rename is in no document, then or later.  *)
THEOREM StoreFailuresLeaveNoTrace ==
  ASSUME Foreign # "always"
  PROVE  Spec => []FailedLeavesNoTrace
<1>1. Init => Locking
  BY DEF Init, Locking, OneWriter, Locked
<1>2. Init => Traces
  BY DEF Init, Traces, Empty, Comparing
<1>3. Lineage /\ Traces => FailedLeavesNoTrace
  BY DEF Lineage, Before, Traces, FailedLeavesNoTrace
<1> QED
  BY <1>1, <1>2, <1>3, InitTyped, InitLineage, NextTyped, NextLocking,
     NextLineage, NextTraces, PTL DEF Spec

-----------------------------------------------------------------------------
(* The refinement: a rename publishes one change on top of the document it *)
(* replaces, and only a power loss goes back.                              *)

LEMMA StepImplements ==
  ASSUME Foreign # "always"
  PROVE  Typed /\ Typed' /\ Locking /\ Lineage /\ [Next]_vars
           => [Guarantee!Next]_(Guarantee!vars)
<1> SUFFICES ASSUME Typed, Typed', Locking, Lineage, [Next]_vars
             PROVE  [Guarantee!Next]_(Guarantee!vars)
  OBVIOUS
<1> USE DEF file, Guarantee!vars, Guarantee!Next
<1>1. ASSUME NEW p \in Run,
             \/ Start(p)
             \/ Lock(p)
             \/ Release(p)
             \/ Crash(p)
             \/ Read(p)
             \/ BeginWrite(p)
             \/ WriteTemporary(p)
      PROVE  UNCHANGED <<disk, synced>>
  BY <1>1 DEF Start, Lock, CreateLock, RefuseLock, Release, RemoveLock,
              Crash, Read, BeginWrite, WriteTemporary, WriteBeside
<1>2. ASSUME NEW p \in Run, Rename(p)
      PROVE  Guarantee!Publish \/ UNCHANGED <<disk, synced>>
  <2>1. synced' = synced
    BY <1>2 DEF Rename
  <2>2. CASE disk' = Candidate(p)
    <3>1. Mine(p) \in Change
      BY <1>2, CandidateTyped DEF Rename, Comparing, Change
    <3>2. mem[p] = disk
      BY <1>2 DEF Rename, Lineage, Comparing
    <3>3. disk'.serial <= MaxSerial
      BY StoreAssumption DEF Typed, TypeOK, Document
    <3> QED BY <2>1, <2>2, <3>1, <3>2, <3>3
            DEF Candidate, Guarantee!Publish
  <2> QED BY <1>2, <2>1, <2>2 DEF Rename
<1>3. ASSUME NEW p \in Run, SyncDirectory(p)
      PROVE  Guarantee!MakeDurable \/ UNCHANGED <<disk, synced>>
  BY <1>3 DEF SyncDirectory, Guarantee!MakeDurable
<1>4. CASE PowerLoss
  BY <1>4 DEF PowerLoss, Guarantee!LosePower, Guarantee!MakeDurable
<1>5. CASE OperatorLooks \/ OperatorRemovesLock \/ UNCHANGED vars
  BY <1>5 DEF OperatorLooks, OperatorRemovesLock, vars
<1>6. CASE ForeignWrite
  <2>1. disk'.serial <= MaxSerial
    BY StoreAssumption DEF Typed, TypeOK, Document
  <2>2. ForeignChange \in Change
    BY DEF Change
  <2> QED BY <1>6, <2>1, <2>2 DEF ForeignWrite, Guarantee!Publish
<1>7. CASE ForeignSync
  BY <1>7 DEF ForeignSync, Guarantee!MakeDurable
<1> QED
  BY <1>1, <1>2, <1>3, <1>4, <1>5, <1>6, <1>7 DEF Next, RunStep

(* Where the unlocked writer keeps out of the window, the state file is an *)
(* atomic file for its readers.                                            *)
THEOREM StoreImplementsAtomicFile ==
  ASSUME Foreign # "always"
  PROVE  Spec => ImplementsAtomicFile
<1>1. Init => Locking
  BY DEF Init, Locking, OneWriter, Locked
<1>2. Init => Guarantee!Init
  BY DEF Init, Empty, Guarantee!Init
<1> QED
  BY <1>1, <1>2, InitTyped, InitLineage, NextTyped, NextLocking, NextLineage,
     StepImplements, PTL DEF Spec, ImplementsAtomicFile, Guarantee!Spec
===========================================================================
