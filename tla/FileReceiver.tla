---------------------------- MODULE FileReceiver ----------------------------
(***************************************************************************)
(* The file receiver (crates/core/src/receiver/file.rs, over files.rs):    *)
(* resolve the directory once, write a temporary file in it, rename it     *)
(* over the target, sync the directory; with the fault each step can end   *)
(* in, other programs changing the path, the target and the temporary      *)
(* file between any two steps, and power loss.                             *)
(*                                                                         *)
(* Two directories stand for all: the one the operator means, and one that *)
(* the path leads to while a symbolic link is in the former's place.       *)
(* Nothing syncs the parent of a directory that resolve makes              *)
(* (create_private_directory is create_dir_all and a chmod), so whether a  *)
(* power loss may take such a directory along is the file system's doing:  *)
(* a constant.                                                             *)
(***************************************************************************)
EXTENDS Receiver

CONSTANTS
  MaxChanges,   (* changes other programs make in a behaviour              *)
  Forgets       (* a power loss may take along a directory whose entry in  *)
                (* its parent was never synced, and what is in it          *)

ASSUME MaxChangesAssumption == MaxChanges \in Nat
ASSUME ForgetsAssumption == Forgets \in BOOLEAN

VARIABLES
  path,      (* what is at the containing directory's path                 *)
  opened,    (* Destination::directory, the open descriptor                *)
  target,    (* per directory: what is under the configured name           *)
  lasting,   (* the same, as a power loss leaves it                        *)
  temp,      (* per directory: the temporary file                          *)
  flushed,   (* the temporary file's bytes are on disk                     *)
  made,      (* the directory was made by this delivery                    *)
  changes    (* changes so far                                             *)

files == <<path, opened, target, lasting, temp, flushed, made,
           changes>>

Directory == {"own", "elsewhere"}
Path == {"missing", "directory", "link"}

(* "old" is a regular file, "other" anything but a file or a link; "torn"  *)
(* a file with part of the key.                                            *)
Found == {"absent", "old", "link", "other"}
Target == Found \cup {"key", "torn"}

(* A file whose removal no directory sync has followed is "removed". *)
Temporary == {"absent", "empty", "key", "removed"}

FileInit ==
  /\ path \in Path
  /\ kind # "file" => path = "directory"
  /\ opened = None
  /\ \E found \in IF kind = "file" THEN Found ELSE {"absent"} :
       target = [d \in Directory |-> IF d = "own" THEN found ELSE "absent"]
  /\ path = "missing" => target["own"] = "absent"
  /\ lasting = target
  /\ temp = [d \in Directory |-> "absent"]
  /\ flushed = FALSE
  /\ made = FALSE
  /\ changes = 0

-----------------------------------------------------------------------------
(* resolve *)

(* A path that is not absolute is refused here; a missing directory is     *)
(* created, and may be even if that fails.                                 *)
MakeDirectory ==
  /\ At("resolve")
  /\ \/ path # "missing" /\ Goto("open") /\ UNCHANGED <<path, made>>
     \/ path = "missing" /\ path' = "directory" /\ made' = TRUE
        /\ (Goto("open") \/ Answer("rejected"))
     \/ Answer("rejected") /\ UNCHANGED <<path, made>>
  /\ UNCHANGED <<kind, committed, opened, target, lasting, temp, flushed,
                 changes>>

(* open_directory_nofollow *)
Opens == path = "directory"

Leads == [directory |-> "own", link |-> "elsewhere"]

OpenDirectory ==
  /\ At("open")
  /\ \/ Opens /\ opened' = Leads[path] /\ Goto("check")
     \/ Answer("rejected") /\ UNCHANGED opened
  /\ UNCHANGED <<kind, committed, path, target, lasting, temp, flushed,
                 made, changes>>

(* Slip: each operation looks the directory up again. *)
LookedUp == IF path = "link" THEN "elsewhere" ELSE opened

(* Everything after the open is relative to the descriptor. *)
Anchor == opened

CheckTarget ==
  /\ At("check")
  /\ \/ target[Anchor] \in {"absent", "old"} /\ Goto("create")
     \/ Answer("rejected")
  /\ UNCHANGED <<kind, committed, files>>

-----------------------------------------------------------------------------
(* replace_contents *)

TempBecomes(what) == temp' = [temp EXCEPT ![Anchor] = what]

(* A name that is taken is tried again under another one; a file whose     *)
(* mode cannot be set stays behind, empty.                                 *)
CreateTemporary ==
  /\ At("create")
  /\ \/ TempBecomes("empty") /\ Goto("write")
     \/ \E left \in {"absent", "empty"} :
          TempBecomes(left) /\ Answer("rejected")
  /\ UNCHANGED <<kind, committed, path, opened, target, lasting, flushed,
                 made, changes>>

(* What is written goes into the file, wherever its name went. *)
Written == IF temp[Anchor] = "empty" THEN "key" ELSE temp[Anchor]

WriteKey ==
  /\ At("write")
  /\ \/ TempBecomes(Written) /\ Goto("sync")
     \/ \E part \in {temp[Anchor], Written} :
          TempBecomes(part) /\ Goto("clean")
  /\ UNCHANGED <<kind, committed, path, opened, target, lasting, flushed,
                 made, changes>>

SyncTemporary ==
  /\ At("sync")
  /\ \/ flushed' = TRUE /\ Goto("rename")
     \/ Goto("clean") /\ UNCHANGED flushed
  /\ UNCHANGED <<kind, committed, path, opened, target, lasting, temp,
                 made, changes>>

(* renameat replaces a link, not what it leads to, and no directory. *)
RenameOver ==
  /\ At("rename")
  /\ \/ /\ temp[Anchor] = "key" /\ target[Anchor] # "other"
        /\ target' = [target EXCEPT ![Anchor] = "key"]
        /\ TempBecomes("absent")
        /\ Goto("sync_directory")
     \/ Goto("clean") /\ UNCHANGED <<target, temp>>
  /\ UNCHANGED <<kind, committed, path, opened, lasting, flushed, made,
                 changes>>

SyncTarget ==
  /\ At("sync_directory")
  /\ \/ lasting' = [lasting EXCEPT ![Anchor] = target[Anchor]]
        /\ Answer("delivered")
     \/ Answer("ambiguous") /\ UNCHANGED lasting
  /\ UNCHANGED <<kind, committed, path, opened, target, temp, flushed,
                 made, changes>>

Unlinked(t) == IF t = "key" THEN "removed" ELSE IF t = "empty" THEN "absent"
               ELSE t

(* remove_temporary, after any failure up to the rename. *)
CleanUp ==
  /\ At("clean")
  /\ \/ TempBecomes(Unlinked(temp[Anchor])) /\ Answer("rejected")
     \/ Answer("ambiguous") /\ UNCHANGED temp
  /\ UNCHANGED <<kind, committed, path, opened, target, lasting, flushed,
                 made, changes>>

FileStep ==
  \/ MakeDirectory
  \/ OpenDirectory
  \/ CheckTarget
  \/ CreateTemporary
  \/ WriteKey
  \/ SyncTemporary
  \/ RenameOver
  \/ SyncTarget
  \/ CleanUp

-----------------------------------------------------------------------------
(* What others do meanwhile.  What becomes of a key that is in place is    *)
(* its consumer's business.                                                *)
Changed ==
  /\ Alive
  /\ changes < MaxChanges /\ changes' = changes + 1
  /\ UNCHANGED <<delivery, opened, flushed, made>>

ChangePath ==
  /\ Changed
  /\ path' \in Path \ {path}
  /\ UNCHANGED <<target, lasting, temp>>

ChangeTarget ==
  /\ Changed
  /\ target["own"] \in Found
  /\ \E found \in Found \ {target["own"]} :
       target' = [target EXCEPT !["own"] = found]
  /\ lasting' = target'
  /\ UNCHANGED <<path, temp>>

RemoveTemporary ==
  /\ Changed
  /\ temp["own"] \in {"empty", "key"}
  /\ temp' = [temp EXCEPT !["own"] = Unlinked(@)]
  /\ UNCHANGED <<path, target, lasting>>

(* An unsynced rename, or an unsynced removal, may be undone, and bytes    *)
(* that were not synced may be missing.                                    *)
TargetAfterLoss(d) ==
  {lasting[d], target[d]}
    \cup IF target[d] = "key" /\ ~flushed THEN {"torn"} ELSE {}

TempAfterLoss(d) ==
  IF temp[d] \in {"key", "removed"} \/ target[d] # lasting[d]
  THEN {"absent", "empty", "key"}
  ELSE {"absent", temp[d]}

(* A new directory may go, with everything in it. *)
MayGo(d) == Forgets /\ made /\ d = "own"

LosePower ==
  /\ Alive /\ Goto("dead")
  /\ target' \in [Directory -> Target] /\ temp' \in [Directory -> Temporary]
  /\ \A d \in Directory :
       \/ target'[d] \in TargetAfterLoss(d) /\ temp'[d] \in TempAfterLoss(d)
       \/ MayGo(d) /\ target'[d] = "absent" /\ temp'[d] = "absent"
  /\ lasting' = target'
  /\ UNCHANGED <<kind, committed, path, opened, flushed, made, changes>>

Others == ChangePath \/ ChangeTarget \/ RemoveTemporary \/ LosePower

-----------------------------------------------------------------------------
FileTypeOK ==
  /\ path \in Path
  /\ opened \in Directory \cup {None}
  /\ target \in [Directory -> Target]
  /\ lasting \in [Directory -> Target]
  /\ temp \in [Directory -> Temporary]
  /\ flushed \in BOOLEAN
  /\ made \in BOOLEAN
  /\ changes \in 0 .. MaxChanges

HoldsKey(d) == target[d] \in {"key", "torn"} \/ temp[d] \in {"key", "removed"}
=============================================================================
