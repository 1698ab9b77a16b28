------------------------------- MODULE OTPRows -------------------------------
(***************************************************************************)
(* One row of the otps table and what the service derives from it: the     *)
(* status of internal/otp/otp.go and the WHERE clauses of                  *)
(* internal/db/otps.go.  The (type, identifier) pair a code is addressed   *)
(* to is one subject.  Times are unix seconds.                             *)
(***************************************************************************)
EXTENDS Integers

CONSTANTS
    Envs,      \* the environments
    Subjects,  \* the (type, identifier) pairs codes are issued for
    Digits,    \* the codes GenerateCode may draw; two rows may share one
    Null       \* SQL's NULL and Go's nil

ASSUME NullAssumption == Null \notin Nat

Row == [env: Envs, subject: Subjects, code: Digits,
        attempts: Nat, max: Nat \ {0}, expires: Nat,
        consumed: Nat \cup {Null}, revoked: Nat \cup {Null}, created: Nat]

ASSUME RowAssumption == Null \notin Row

Statuses == {"active", "locked", "expired", "consumed", "revoked"}

(* A slip: the ceiling tested before expiry. *)
StatusOf_LockedFirst(row, ts) ==
    IF row.revoked # Null            THEN "revoked"
    ELSE IF row.consumed # Null      THEN "consumed"
    ELSE IF row.attempts >= row.max  THEN "locked"
    ELSE IF row.expires <= ts        THEN "expired"
    ELSE "active"

StatusOf(row, ts) ==
    IF row.revoked # Null            THEN "revoked"
    ELSE IF row.consumed # Null      THEN "consumed"
    ELSE IF row.expires <= ts        THEN "expired"
    ELSE IF row.attempts >= row.max  THEN "locked"
    ELSE "active"

(* The SQL condition that lists, and counts, the rows of one status.       *)
StatusPredicate(status, row, ts) ==
    \/ status = "revoked"  /\ row.revoked # Null
    \/ status = "consumed" /\ row.revoked = Null /\ row.consumed # Null
    \/ status = "expired"  /\ row.revoked = Null /\ row.consumed = Null
                           /\ row.expires <= ts
    \/ status = "locked"   /\ row.revoked = Null /\ row.consumed = Null
                           /\ row.expires > ts /\ row.attempts >= row.max
    \/ status = "active"   /\ row.revoked = Null /\ row.consumed = Null
                           /\ row.expires > ts /\ row.attempts < row.max

(* How far along its life a status is. *)
Rank == [s \in Statuses |-> CASE s = "active"   -> 0
                              [] s = "locked"   -> 1
                              [] s = "expired"  -> 2
                              [] s = "consumed" -> 3
                              [] s = "revoked"  -> 4]

-----------------------------------------------------------------------------
InEnv(row, env) == row # Null /\ row.env = env

(* Slips: a code about to expire is not handed back; codes of another      *)
(* subject count too; the ceiling is not looked at.                        *)
Live_NotEnding(row, env, subject, ts) ==
    /\ InEnv(row, env) /\ row.subject = subject
    /\ row.consumed = Null /\ row.revoked = Null /\ row.expires > ts + 1
    /\ row.attempts < row.max
Live_AnySubject(row, env, subject, ts) ==
    /\ InEnv(row, env)
    /\ row.consumed = Null /\ row.revoked = Null /\ row.expires > ts /\ row.attempts < row.max
Live_NoCeiling(row, env, subject, ts) ==
    /\ InEnv(row, env) /\ row.subject = subject
    /\ row.consumed = Null /\ row.revoked = Null /\ row.expires > ts

(* The condition GenerateOTP looks for and both statements of ValidateOTP  *)
(* repeat.                                                                 *)
Live(row, env, subject, ts) ==
    /\ InEnv(row, env)
    /\ row.subject = subject
    /\ row.consumed = Null
    /\ row.revoked = Null
    /\ row.expires > ts
    /\ row.attempts < row.max

(* WHERE of the UPDATE that revokes: a consumed code can be revoked too.   *)
Revocable(row, env) == InEnv(row, env) /\ row.revoked = Null

(* A slip: a code counts as dead when it was issued by then. *)
LongDead_Created(row, before) ==
    /\ row # Null
    /\ \/ row.created <= before
       \/ row.consumed # Null /\ row.consumed < before
       \/ row.revoked # Null /\ row.revoked < before

(* WHERE of the sweep's DELETE. *)
LongDead(row, before) ==
    /\ row # Null
    /\ \/ row.expires < before
       \/ row.consumed # Null /\ row.consumed < before
       \/ row.revoked # Null /\ row.revoked < before
=============================================================================
