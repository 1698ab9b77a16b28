------------------------------- MODULE Tokens -------------------------------
(***************************************************************************)
(* The tokens of tokenzy: requests that mint, spend, revoke and delete     *)
(* them, the clean-up job that removes finished ones, and the events the   *)
(* database layer emits after a commit (internal/db/tokens.go, the token   *)
(* handlers of internal/api - the panel makes the same database calls -    *)
(* and internal/cleanup/job.go).                                           *)
(*                                                                         *)
(* Every statement that writes goes through the one connection of the      *)
(* Write handle, so it is one atomic step; what a handler does before it   *)
(* (read the clock, draw an id) and after it (emit events, read the row    *)
(* back, answer) are steps of their own, and other requests, the clean-up  *)
(* and the clock move in between.  A request waits for the connection for  *)
(* as long as it takes.                                                    *)
(***************************************************************************)
EXTENDS TokenRows, CleanUp, Sequences

CONSTANTS
    Tokens,             \* the ids the generator may draw
    Clients,            \* requests being served at the same time
    MaxUses,            \* the limits callers ask for, a subset of Limit
    TTLs,               \* the lifetimes they ask for, in seconds
    ExpiredRetention,   \* Config.ExpiredRetention
    ConsumedRetention,  \* Config.ConsumedRetention
    Offered,            \* bound: the operations the callers use, of Ops
    MaxTime,            \* bound: the clock stops here
    MaxSpends,          \* bound: nobody asks for more uses of one token
    MaxFaults           \* bound: crashes, cancelled requests, failed sweeps

Ops == {"create", "consume", "revoke", "delete"}

ASSUME TokensAssumption ==
    /\ Null \notin Ops
    /\ MaxUses \subseteq Limit
    /\ TTLs \subseteq Nat \ {0}
    /\ ExpiredRetention \in Nat \ {0}   \* Config.withDefaults
    /\ ConsumedRetention \in Nat \ {0}
    /\ MaxTime \in Nat
    /\ MaxSpends \in Nat
    /\ MaxFaults \in Nat

VARIABLES
    now,        \* the wall clock, shared by every goroutine
    rows,       \* the tokens table: a Row, or Null where there is none
    req,        \* what each request in flight has read and has left to do
    sweep,      \* the clean-up job: the phase it is in, the time it captured
    faults,     \* how many faults have happened
    issued,     \* history: the tokens whose INSERT was committed
    limit,      \* history: the limit each was issued with
    accepted,   \* history: committed redemptions of each, its row gone or not
    emitted     \* history: events emitted, by token and type

vars == <<now, rows, req, sweep, faults, issued, limit, accepted, emitted>>
history == <<issued, limit, accepted>>

EventTypes == {"token.created", "token.consumed", "token.exhausted", "token.revoked"}
Answers == {"ok", "invalid_token", "not_found", "error"}

(***************************************************************************)
(* A request: op on token tok of environment env, ts the time its database *)
(* method read before it asked for the connection, row the row to insert,  *)
(* todo the events it still has to emit, answer its outcome.  pc:          *)
(*   queued    waiting for the write connection                            *)
(*   emit      the write is committed, events are still to be emitted      *)
(*   readback  about to read the row on the Read pool (revoke only)        *)
(*   done      about to send the answer                                    *)
(***************************************************************************)
Request == [pc: {"idle", "queued", "emit", "readback", "done"},
            op: Ops \cup {Null}, env: Envs \cup {Null}, tok: Tokens \cup {Null},
            ts: Nat \cup {Null}, row: Row \cup {Null},
            todo: Seq(EventTypes), answer: Answers \cup {Null}]

Idle == [pc |-> "idle", op |-> Null, env |-> Null, tok |-> Null, ts |-> Null,
         row |-> Null, todo |-> <<>>, answer |-> Null]

NotSweeping == [phase |-> "idle", at |-> Null, batch |-> 0]

TypeOK ==
    /\ now \in Nat
    /\ rows \in [Tokens -> Row \cup {Null}]
    /\ req \in [Clients -> Request]
    /\ sweep \in [phase: {"idle", "expired", "settled"}, at: Nat \cup {Null}, batch: Nat]
    /\ faults \in Nat
    /\ issued \in SUBSET Tokens
    /\ limit \in [Tokens -> Limit]
    /\ accepted \in [Tokens -> Nat]
    /\ emitted \in [Tokens -> [EventTypes -> Nat]]

Init ==
    /\ now = 0
    /\ rows = [t \in Tokens |-> Null]
    /\ req = [c \in Clients |-> Idle]
    /\ sweep = NotSweeping
    /\ faults = 0
    /\ issued = {}
    /\ limit = [t \in Tokens |-> Null]
    /\ accepted = [t \in Tokens |-> 0]
    /\ emitted = [t \in Tokens |-> [e \in EventTypes |-> 0]]

-----------------------------------------------------------------------------
(* A request arrives and gets as far as the queue for the connection.      *)

Queue(c, op, e, t, row) ==
    /\ req[c].pc = "idle"
    /\ op \in Offered
    /\ req' = [req EXCEPT ![c] = [Idle EXCEPT !.pc = "queued", !.op = op, !.env = e,
                                              !.tok = t, !.ts = now, !.row = row]]
    /\ UNCHANGED <<now, rows, sweep, faults, history, emitted>>

(***************************************************************************)
(* token.NewID and token.Generate draw 128 and 244 random bits: an id is   *)
(* taken never to be drawn twice, so the ErrDuplicate of CreateToken has   *)
(* no step here.  The handler reads the clock for the expiry and           *)
(* CreateToken for created_at; the two readings are taken as one.          *)
(***************************************************************************)
Fresh(t) == /\ t \notin issued
            /\ \A d \in Clients : req[d].op = "create" => req[d].tok # t

CreateRequest(c) ==
    \E e \in Envs, t \in Tokens, m \in MaxUses, ttl \in TTLs :
        /\ Fresh(t)
        /\ Queue(c, "create", e, t,
                 [env |-> e, max |-> m, used |-> 0, expires |-> now + ttl,
                  revoked |-> Null, created |-> now, lastUsed |-> Null])

(***************************************************************************)
(* The caller names a token that was issued once, in any environment and   *)
(* whatever became of it.  An id or a value that never existed misses like *)
(* one whose row is gone, and nobody guesses an id before it is issued.    *)
(***************************************************************************)
ConsumeRequest(c) == \E e \in Envs, t \in issued :
                        accepted[t] < MaxSpends /\ Queue(c, "consume", e, t, Null)
RevokeRequest(c)  == \E e \in Envs, t \in issued : Queue(c, "revoke", e, t, Null)
DeleteRequest(c)  == \E e \in Envs, t \in issued : Queue(c, "delete", e, t, Null)

-----------------------------------------------------------------------------
(* The writes.                                                             *)

Executing(c, op) == req[c].pc = "queued" /\ req[c].op = op

(* What the rest of the handler still looks at, once the write is decided. *)
Continue(c, pc, events, a) ==
    req' = [req EXCEPT ![c] = [@ EXCEPT !.pc = pc, !.ts = Null, !.row = Null,
                                        !.todo = events, !.answer = a]]

Answer(c, a) == Continue(c, "done", <<>>, a)

(***************************************************************************)
(* The write is committed.  Normally the method goes on to emit its events *)
(* (a deletion has none).  But a context cancelled while the driver hands  *)
(* the result back turns a committed write into an error: the method       *)
(* returns early and its events are never emitted.                         *)
(***************************************************************************)
Committed(c, events) ==
    \/ /\ IF events = <<>> THEN Answer(c, "ok")
                           ELSE Continue(c, "emit", events, Null)
       /\ UNCHANGED faults
    \/ /\ faults < MaxFaults
       /\ faults' = faults + 1
       /\ Answer(c, "error")

Missed(c, a) == Answer(c, a) /\ UNCHANGED <<rows, faults, history>>

CreateToken(c) ==
    LET r == req[c]
    IN  /\ Executing(c, "create")
        /\ rows' = [rows EXCEPT ![r.tok] = r.row]
        /\ issued' = issued \cup {r.tok}
        /\ limit' = [limit EXCEPT ![r.tok] = r.row.max]
        /\ Committed(c, <<"token.created">>)
        /\ UNCHANGED <<now, sweep, accepted, emitted>>

(* A slip: uses counted down instead of up. *)
Spent_Down(row, ts) == [row EXCEPT !.used = @ - 1, !.lastUsed = ts]

(* The row as the UPDATE ... RETURNING of ConsumeToken leaves it. *)
Spent(row, ts) == [row EXCEPT !.used = @ + 1, !.lastUsed = ts]

(* A slip: every redemption of a limited token announces its end. *)
ConsumeEvents_Limited(row, ts) ==
    IF row.max # Null THEN <<"token.consumed", "token.exhausted">> ELSE <<"token.consumed">>

ConsumeEvents(row, ts) ==
    IF StatusOf(row, ts) = "exhausted" THEN <<"token.consumed", "token.exhausted">>
                                       ELSE <<"token.consumed">>

ConsumeToken(c) ==
    LET r == req[c]
    IN  /\ Executing(c, "consume")
        /\ \/ /\ Consumable(rows[r.tok], r.env, r.ts)
              /\ rows' = [rows EXCEPT ![r.tok] = Spent(@, r.ts)]
              /\ accepted' = [accepted EXCEPT ![r.tok] = @ + 1]
              /\ Committed(c, ConsumeEvents(Spent(rows[r.tok], r.ts), r.ts))
              /\ UNCHANGED <<issued, limit>>
           \/ /\ ~ Consumable(rows[r.tok], r.env, r.ts)
              /\ Missed(c, "invalid_token")
        /\ UNCHANGED <<now, sweep, emitted>>

(* A miss may mean "already revoked": the handler reads the row to tell. *)
RevokeToken(c) ==
    LET r == req[c]
    IN  /\ Executing(c, "revoke")
        /\ \/ /\ Revocable(rows[r.tok], r.env)
              /\ rows' = [rows EXCEPT ![r.tok].revoked = r.ts]
              /\ Committed(c, <<"token.revoked">>)
           \/ /\ ~ Revocable(rows[r.tok], r.env)
              /\ Continue(c, "readback", <<>>, Null)
              /\ UNCHANGED <<rows, faults>>
        /\ UNCHANGED <<now, sweep, history, emitted>>

DeleteToken(c) ==
    LET r == req[c]
    IN  /\ Executing(c, "delete")
        /\ \/ /\ InEnv(rows[r.tok], r.env)
              /\ rows' = [rows EXCEPT ![r.tok] = Null]
              /\ Committed(c, <<>>)
              /\ UNCHANGED history
           \/ /\ ~ InEnv(rows[r.tok], r.env)
              /\ Missed(c, "not_found")
        /\ UNCHANGED <<now, sweep, emitted>>

-----------------------------------------------------------------------------
(* After the write.                                                        *)

EmitTokenEvent(c) ==
    LET r == req[c]
    IN  /\ r.pc = "emit"
        /\ emitted' = [emitted EXCEPT ![r.tok][Head(r.todo)] = @ + 1]
        /\ IF Tail(r.todo) = <<>> THEN Answer(c, "ok")
                                  ELSE Continue(c, "emit", Tail(r.todo), Null)
        /\ UNCHANGED <<now, rows, sweep, faults, history>>

(* GetToken, after RevokeToken found nothing to revoke. *)
ReadBack(c) ==
    /\ req[c].pc = "readback"
    /\ Answer(c, IF InEnv(rows[req[c].tok], req[c].env) THEN "ok" ELSE "not_found")
    /\ UNCHANGED <<now, rows, sweep, faults, history, emitted>>

Reply(c) ==
    /\ req[c].pc = "done"
    /\ req' = [req EXCEPT ![c] = Idle]
    /\ UNCHANGED <<now, rows, sweep, faults, history, emitted>>

(* The caller hangs up, or the statement fails, and nothing was written. *)
Fail(c) ==
    /\ req[c].pc \in {"queued", "readback"}
    /\ faults < MaxFaults
    /\ faults' = faults + 1
    /\ Answer(c, "error")
    /\ UNCHANGED <<now, rows, sweep, history, emitted>>

-----------------------------------------------------------------------------
(* The clean-up job.                                                       *)

(* Sweep reads the clock once, for every DELETE it will make. *)
StartSweep ==
    /\ sweep.phase = "idle"
    /\ sweep' = [phase |-> "expired", at |-> now, batch |-> 0]
    /\ UNCHANGED <<now, rows, req, faults, history, emitted>>

(* A slip: the sweep ends after its first kind of rows. *)
NextPhase_OnlyExpired == NotSweeping

NextPhase ==
    IF sweep.phase = "expired" THEN [sweep EXCEPT !.phase = "settled", !.batch = 0]
                               ELSE NotSweeping

(* One DELETE of drain. *)
DrainBatch(Old) ==
    \E D \in Batches(Old) :
        /\ rows' = [t \in Tokens |-> IF t \in D THEN Null ELSE rows[t]]
        /\ sweep' = IF Drained(D, sweep.batch) THEN NextPhase
                                              ELSE [sweep EXCEPT !.batch = @ + 1]
        /\ UNCHANGED <<now, req, faults, history, emitted>>

DeleteExpiredTokens ==
    /\ sweep.phase = "expired"
    /\ DrainBatch({t \in Tokens : LongExpired(rows[t], sweep.at - ExpiredRetention)})

DeleteSettledTokens ==
    /\ sweep.phase = "settled"
    /\ DrainBatch({t \in Tokens : LongSettled(rows[t], sweep.at - ConsumedRetention)})

(* A DELETE fails: drain logs it and gives the phase up. *)
DrainError ==
    /\ sweep.phase # "idle"
    /\ faults < MaxFaults
    /\ faults' = faults + 1
    /\ sweep' = NextPhase
    /\ UNCHANGED <<now, rows, req, history, emitted>>

-----------------------------------------------------------------------------
(* The process dies and is started again: SQLite keeps what was committed. *)
Crash ==
    /\ faults < MaxFaults
    /\ faults' = faults + 1
    /\ req' = [c \in Clients |-> Idle]
    /\ sweep' = NotSweeping
    /\ UNCHANGED <<now, rows, history, emitted>>

Tick ==
    /\ now < MaxTime
    /\ now' = now + 1
    /\ UNCHANGED <<rows, req, sweep, faults, history, emitted>>

Arrive(c) == CreateRequest(c) \/ ConsumeRequest(c) \/ RevokeRequest(c) \/ DeleteRequest(c)

Serve(c) == \/ CreateToken(c) \/ ConsumeToken(c) \/ RevokeToken(c) \/ DeleteToken(c)
            \/ EmitTokenEvent(c) \/ ReadBack(c) \/ Reply(c)

Sweep == StartSweep \/ DeleteExpiredTokens \/ DeleteSettledTokens

Next == \/ \E c \in Clients : Arrive(c) \/ Serve(c) \/ Fail(c)
        \/ Sweep \/ DrainError \/ Crash \/ Tick

Spec == Init /\ [][Next]_vars

(***************************************************************************)
(* The job is a goroutine that keeps running: its ticker fires for ever,   *)
(* and the pool hands the connection to every waiter in turn.  Nothing     *)
(* says that callers, faults or the clock go on.                           *)
(***************************************************************************)
FairSpec == Spec /\ WF_vars(Sweep)

-----------------------------------------------------------------------------
(* Properties.                                                             *)

(***************************************************************************)
(* No token is redeemed more often than it was issued for, however many    *)
(* callers race for the last use, are cut off or arrive after a restart:   *)
(* the condition and the effect of ConsumeToken are one UPDATE.            *)
(***************************************************************************)
SpendsWithinLimit ==
    \A t \in Tokens : limit[t] # Null => accepted[t] <= limit[t]

(***************************************************************************)
(* The service keeps the promise of TokenLedger: rows, requests, clean-up  *)
(* and crashes add nothing to it.  A token is closed once its row is       *)
(* revoked or gone.                                                        *)
(***************************************************************************)
Closed == {t \in issued : rows[t] = Null \/ rows[t].revoked # Null}

Ledger == INSTANCE TokenLedger WITH Limit <- MaxUses, closed <- Closed

KeepsLedger == Ledger!Spec

(***************************************************************************)
(* The SQL conditions the listing and the counts are built from mirror     *)
(* StatusOf exactly: every stored token is listed under its own status and *)
(* under no other, at whatever second the question is asked.               *)
(***************************************************************************)
StatusPredicateAgrees ==
    \A t \in Tokens : rows[t] # Null =>
        \A s \in Statuses : StatusPredicate(s, rows[t], now) <=> StatusOf(rows[t], now) = s

(***************************************************************************)
(* A use is spent only by a request for the token's own environment, and   *)
(* only on a token that StatusOf calls active at the time the request      *)
(* read: the UPDATE of ConsumeToken and Usable never disagree.             *)
(***************************************************************************)
SpentOnlyWhileActive ==
    [][\A t \in Tokens : accepted'[t] # accepted[t] =>
         \E c \in Clients : /\ Executing(c, "consume")
                            /\ req[c].tok = t
                            /\ req[c].env = rows[t].env
                            /\ StatusOf(rows[t], req[c].ts) = "active"]_vars

(***************************************************************************)
(* A stored token's status only moves forward, from active through         *)
(* exhausted and expired to revoked, although it is not stored but derived *)
(* from a clock and columns several requests write, some with a time they  *)
(* read long ago.                                                          *)
(***************************************************************************)
StatusMovesForward ==
    [][\A t \in Tokens : rows[t] # Null /\ rows'[t] # Null =>
         Rank[StatusOf(rows[t], now)] <= Rank[StatusOf(rows'[t], now')]]_vars

(***************************************************************************)
(* The clean-up job, which decides with the time at which its sweep began  *)
(* and deletes batch by batch among the requests, never removes a token    *)
(* that could still be redeemed.                                           *)
(***************************************************************************)
CleanUpSparesActive ==
    [][\A t \in Tokens : rows[t] # Null /\ rows'[t] = Null /\ UNCHANGED req =>
         StatusOf(rows[t], now) # "active"]_vars

(***************************************************************************)
(* A revoke that was answered with success holds: from then on the token   *)
(* is revoked or gone, also when it was the read-back, on another          *)
(* connection and at a later moment, that found the token.                 *)
(***************************************************************************)
RevokeAnswerHolds ==
    \A c \in Clients : /\ req[c].pc = "done"
                       /\ req[c].op = "revoke"
                       /\ req[c].answer = "ok"
                       => req[c].tok \in Closed

(***************************************************************************)
(* An event reports a committed change, once, and none is missing unless   *)
(* something failed: one consumed per redemption, one exhausted for the    *)
(* redemption that took the last use, at most one revoked.                 *)
(***************************************************************************)
Pending(t, e) ==
    Cardinality({c \in Clients : req[c].tok = t /\ \E i \in DOMAIN req[c].todo : req[c].todo[i] = e})

Occurred(t, e) ==
    CASE e = "token.created"   -> IF t \in issued THEN 1 ELSE 0
      [] e = "token.consumed"  -> accepted[t]
      [] e = "token.exhausted" -> IF limit[t] # Null /\ accepted[t] = limit[t] THEN 1 ELSE 0
      [] e = "token.revoked"   -> IF t \in Closed THEN 1 ELSE 0

EventsMatchCommits ==
    \A t \in Tokens, e \in EventTypes :
        /\ emitted[t][e] + Pending(t, e) <= Occurred(t, e)
        /\ faults = 0 /\ (rows[t] # Null \/ e # "token.revoked") =>
               emitted[t][e] + Pending(t, e) = Occurred(t, e)

(***************************************************************************)
(* The windows are ceilings: a row past either of them is removed, also    *)
(* when a batch is full, a sweep is capped, a DELETE fails or the process  *)
(* restarts.                                                               *)
(***************************************************************************)
FinishedRowsGo ==
    \A t \in Tokens :
        \/ LongExpired(rows[t], now - ExpiredRetention)
        \/ LongSettled(rows[t], now - ConsumedRetention)
        ~> rows[t] = Null

(***************************************************************************)
(* README.md, "the redemption query checks expires_at itself, so an        *)
(* expired token cannot be spent": no use is spent at or after the second  *)
(* the token expires.  The query compares with the time read before the    *)
(* request queued for the write connection, so this does not hold.         *)
(***************************************************************************)
NeverSpentExpired ==
    [][\A t \in Tokens : accepted'[t] # accepted[t] => now < rows[t].expires]_vars
=============================================================================
