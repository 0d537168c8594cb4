------------------------------ MODULE Client ------------------------------
(* One read of the management API: how an exchange is classified, which      *)
(* failures are repeated, and how long the client waits in between           *)
(* (client::attempt_read, consume, read_with_retry and client::retry).       *)
(* An exchange is its status, NoAnswer when none arrived, and what became of *)
(* its body.  A delay is a number of units; a Retry-After is a delay, or     *)
(* None when the header is missing or does not parse.                        *)
EXTENDS Integers, FiniteSetsExt

CONSTANTS MaxAttempts,     \* RetryPolicy::max_attempts
          InitialBackoff,  \* RetryPolicy::initial_backoff
          MaxBackoff,      \* RetryPolicy::max_backoff
          RetryAfter,      \* the values a server puts in Retry-After
          None

ASSUME PolicyAssumption == /\ {MaxAttempts, InitialBackoff, MaxBackoff} \subseteq Nat
                           /\ MaxAttempts > 0
                           /\ RetryAfter \subseteq Nat

(* A power of two is a whole number, of every exponent the doubling may have.*)
ASSUME PowersAssumption == \A n \in 0..MaxAttempts - 1 : 2^Min({n, 31}) \in Nat

NoAnswer == 0
Transient == {429, 500, 502, 503, 504}
Success(status) == status \in 200..299

(* A status one of each class the client tells apart: a redirect, the        *)
(* refusals a caller reads as an answer, a rejection, and the transient and  *)
(* the final server errors.                                                  *)
Status == {200, 302, 400, 403, 404, 429, 501, 503}
Body == {"whole", "reset", "stalled", "oversized"}

Exchange == [status : {NoAnswer}, body : {"reset", "stalled"}]
              \cup [status : Status, body : Body]

(* The statuses reported as themselves although the body was not read.       *)
DefinitiveWithoutBody(status) == status \in 300..499

Succeeds(x) == x.body = "whole" /\ Success(x.status)

(* ApiError::status: the status an error carries, if it carries one.         *)
StatusOf(x) == IF x.body = "whole" \/ DefinitiveWithoutBody(x.status)
               THEN x.status ELSE NoAnswer

Retryable(x) ==
    IF x.status # NoAnswer /\ (x.body = "whole" \/ DefinitiveWithoutBody(x.status))
    THEN x.status \in Transient
    ELSE x.body = "reset"

(* The delay before attempt + 1: the server's wish, or the doubling, and     *)
(* never more than the policy's longest.  The exponent is cut at 31 as a     *)
(* shift of a u32 must be.                                                   *)
Backoff(attempt) == Min({InitialBackoff * 2^Min({attempt - 1, 31}), MaxBackoff})

(* Slip: the server's wish is granted whatever it is.                        *)
DelayAsWished(attempt, wish) == IF wish = None THEN Backoff(attempt) ELSE wish

NextDelay(attempt, wish) ==
    Min({IF wish = None THEN Backoff(attempt) ELSE wish, MaxBackoff})

(* Slips: one attempt too many; attempts that are not counted.               *)
AttemptsLeftLate(attempt) == attempt =< MaxAttempts
SameAttempt(attempt) == attempt

AttemptsLeft(attempt) == attempt < MaxAttempts
NextAttempt(attempt) == attempt + 1
=============================================================================
