------------------------------ MODULE TokenRows ------------------------------
(***************************************************************************)
(* One row of the tokens table, and everything the service derives from it *)
(* or matches it against: the status of internal/token/status.go and the   *)
(* WHERE clauses of internal/db/tokens.go.  A token's id and its secret    *)
(* value are two random columns of the same row; one name stands for both. *)
(* The payload, the prefix and the timestamps' text are data nothing here  *)
(* tells apart and are left out.  Times are unix seconds.                  *)
(***************************************************************************)
EXTENDS Integers

CONSTANTS
    Envs,   \* the environments, each a tenant of the service
    Null    \* SQL's NULL and Go's nil: no limit, not revoked, no row

ASSUME NullAssumption == Null \notin Nat

(* ValidateMaxUses: no limit at all, or a positive one. *)
Limit == (Nat \ {0}) \cup {Null}

Row == [env: Envs, max: Limit, used: Nat, expires: Nat,
        revoked: Nat \cup {Null}, created: Nat, lastUsed: Nat \cup {Null}]

ASSUME RowAssumption == Null \notin Row

-----------------------------------------------------------------------------
Statuses == {"active", "expired", "exhausted", "revoked"}

Exhausted(row) == row.max # Null /\ row.used >= row.max

(* A slip: exhaustion tested before expiry. *)
StatusOf_ExhaustedFirst(row, ts) ==
    IF row.revoked # Null     THEN "revoked"
    ELSE IF Exhausted(row)    THEN "exhausted"
    ELSE IF row.expires <= ts THEN "expired"
    ELSE "active"

StatusOf(row, ts) ==
    IF row.revoked # Null     THEN "revoked"
    ELSE IF row.expires <= ts THEN "expired"
    ELSE IF Exhausted(row)    THEN "exhausted"
    ELSE "active"

(***************************************************************************)
(* The SQL condition that lists, and counts, the rows of one status.  It   *)
(* is written independently of StatusOf.                                   *)
(***************************************************************************)
(* A slip: a token in its last second is listed nowhere. *)
StatusPredicate_Strict(status, row, ts) ==
    \/ status = "revoked"   /\ row.revoked # Null
    \/ status = "expired"   /\ row.revoked = Null /\ row.expires < ts
    \/ status = "exhausted" /\ row.revoked = Null /\ row.expires > ts /\ Exhausted(row)
    \/ status = "active"    /\ row.revoked = Null /\ row.expires > ts /\ ~ Exhausted(row)

StatusPredicate(status, row, ts) ==
    \/ status = "revoked"   /\ row.revoked # Null
    \/ status = "expired"   /\ row.revoked = Null /\ row.expires <= ts
    \/ status = "exhausted" /\ row.revoked = Null /\ row.expires > ts
                            /\ row.max # Null /\ row.used >= row.max
    \/ status = "active"    /\ row.revoked = Null /\ row.expires > ts
                            /\ (row.max = Null \/ row.used < row.max)

(* How far along its life a status is: a token only ever moves forward. *)
Rank == [s \in Statuses |-> CASE s = "active"    -> 0
                              [] s = "exhausted" -> 1
                              [] s = "expired"   -> 2
                              [] s = "revoked"   -> 3]

-----------------------------------------------------------------------------
(* Every statement names the environment of the API key or panel page. *)
InEnv(row, env) == row # Null /\ row.env = env

(* Slips in the UPDATE: one use too many; no look at revoked_at; no look   *)
(* at the environment.                                                     *)
Consumable_OneTooMany(row, env, ts) ==
    /\ InEnv(row, env) /\ row.revoked = Null /\ row.expires > ts
    /\ row.max # Null => row.used <= row.max
Consumable_Revoked(row, env, ts) ==
    /\ InEnv(row, env) /\ row.expires > ts
    /\ row.max # Null => row.used < row.max
Consumable_AnyEnv(row, env, ts) ==
    /\ row # Null /\ row.revoked = Null /\ row.expires > ts
    /\ row.max # Null => row.used < row.max

(* WHERE of the UPDATE that spends one use. *)
Consumable(row, env, ts) ==
    /\ InEnv(row, env)
    /\ row.revoked = Null
    /\ row.expires > ts
    /\ row.max # Null => row.used < row.max

(* A slip: only a token nobody used yet can be revoked. *)
Revocable_Unused(row, env) == InEnv(row, env) /\ row.revoked = Null /\ row.used = 0

(* WHERE of the UPDATE that revokes. *)
Revocable(row, env) == InEnv(row, env) /\ row.revoked = Null

(* A slip: the age of a token taken for its expiry. *)
LongExpired_Created(row, before) == row # Null /\ row.created < before

(* WHERE of the sweep's first DELETE. *)
LongExpired(row, before) == row # Null /\ row.expires < before

(* WHERE of the sweep's second DELETE: revoked, or spent, long ago. *)
LongSettled(row, before) ==
    /\ row # Null
    /\ \/ row.revoked # Null /\ row.revoked < before
       \/ /\ Exhausted(row)
          /\ (IF row.lastUsed # Null THEN row.lastUsed ELSE row.created) < before
=============================================================================
