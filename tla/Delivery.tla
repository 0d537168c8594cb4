------------------------------ MODULE Delivery ------------------------------
(***************************************************************************)
(* What a receiver promises about one delivery (crates/core/src/receiver/  *)
(* mod.rs, Acknowledgement): it answers once; "delivered" and "rejected"   *)
(* are facts about the destination that hold when they are given and go on *)
(* holding; "ambiguous", or no answer at all, promises nothing.  In no     *)
(* case is the destination anything but what it was, or the key, whole.    *)
(***************************************************************************)
CONSTANT None

VARIABLES
  answer,       (* None until there is one                                 *)
  destination,  (* what a consumer finds where the key belongs             *)
  copy          (* a second copy the receiver made of the key: "none",     *)
                (* "there", or "removed" but not yet for good              *)

vars == <<answer, destination, copy>>

Acknowledgement == {"delivered", "rejected", "ambiguous"}
Destination == {"previous", "key"}
Copy == {"none", "there", "removed"}

(* What an acknowledgement says of the receiver's side. *)
Evidence(a, dest, made) ==
  /\ a = "delivered" => dest = "key" /\ made = "none"
  /\ a = "rejected" => dest = "previous" /\ made # "there"

Init == answer = None /\ destination = "previous" /\ copy = "none"

(* Until it has answered, and after a doubtful answer, the receiver's side *)
(* may do what it likes.                                                   *)
Act ==
  /\ answer \in {None, "ambiguous"}
  /\ destination' \in Destination /\ copy' \in Copy
  /\ UNCHANGED answer

Acknowledge ==
  /\ answer = None
  /\ answer' \in Acknowledgement
  /\ destination' \in Destination /\ copy' \in Copy
  /\ Evidence(answer', destination', copy')

(* A power loss may bring back a file whose removal was never synced. *)
Resurface ==
  /\ copy = "removed"
  /\ copy' \in {"none", "there"}
  /\ UNCHANGED <<answer, destination>>

Next == Act \/ Acknowledge \/ Resurface

Spec == Init /\ [][Next]_vars
=============================================================================
