-------------------------------- MODULE OTPs --------------------------------
(***************************************************************************)
(* The one-time codes of tokenzy: requests that issue, validate, revoke    *)
(* and delete them, and the clean-up (internal/db/otps.go, internal/api/   *)
(* otp.go, internal/cleanup/job.go).                                       *)
(*                                                                         *)
(* GenerateOTP and ValidateOTP are each one transaction on the only        *)
(* connection of the Write handle, so no other writer comes between their  *)
(* statements and each is one step; but the time they compare with is read *)
(* before they wait for that connection.                                   *)
(***************************************************************************)
EXTENDS OTPRows, CleanUp

CONSTANTS
    Otps,           \* the ids NewID may draw: bounds the codes ever issued
    Clients,        \* requests being served at the same time
    Ceilings,       \* the maxAttempts callers ask for
    TTLs,           \* the lifetimes they ask for, in seconds
    Guesses,        \* what they guess, Digits or not
    OTPRetention,   \* Config.OTPRetention in whole seconds
    Offered,        \* bound: the operations the callers use
    MaxTime,        \* bound: the clock stops here
    MaxFaults       \* bound: crashes, cancelled requests, failed sweeps

ASSUME OTPsAssumption ==
    /\ Ceilings \subseteq Nat \ {0}     \* ResolveAttempts: 1 to 20
    /\ TTLs \subseteq Nat \ {0}         \* ValidateTTL
    /\ OTPRetention \in Nat             \* Config.withDefaults; 0 is less than a second
    /\ MaxTime \in Nat
    /\ MaxFaults \in Nat

VARIABLES
    now,        \* the wall clock
    rows,       \* the otps table: a Row, or Null where there is none
    req,        \* the requests in flight
    sweep,      \* the clean-up job, in the part of its sweep that is about codes
    faults,     \* how many faults have happened
    issued,     \* history: the codes whose INSERT was committed
    ceiling,    \* history: the maxAttempts each was issued with
    guesses,    \* history: wrong guesses answered while the code was active
    accepted    \* history: how often each was accepted

vars == <<now, rows, req, sweep, faults, issued, ceiling, guesses, accepted>>
history == <<issued, ceiling, guesses, accepted>>

Ops == {"generate", "validate", "revoke", "delete"}
Answers == {"issued", "reused", "valid", "invalid_code", "ok", "not_found", "error"}

(***************************************************************************)
(* A request.  otp is the id it is about: named by the caller of revoke    *)
(* and delete, handed to the caller of generate; code is what a caller of  *)
(* validate guesses; max and expires go with the code generate inserts if  *)
(* none is live; ts is the time the database method read before it asked   *)
(* for the connection.                                                     *)
(***************************************************************************)
Request == [pc: {"idle", "queued", "readback", "done"}, op: Ops \cup {Null},
            env: Envs \cup {Null}, subject: Subjects \cup {Null}, otp: Otps \cup {Null},
            code: Guesses \cup {Null}, ts: Nat \cup {Null}, max: Nat \cup {Null},
            expires: Nat \cup {Null}, answer: Answers \cup {Null}]

Idle == [pc |-> "idle", op |-> Null, env |-> Null, subject |-> Null, otp |-> Null,
         code |-> Null, ts |-> Null, max |-> Null, expires |-> Null, answer |-> Null]

NotSweeping == [phase |-> "idle", at |-> Null, batch |-> 0]

TypeOK ==
    /\ now \in Nat
    /\ rows \in [Otps -> Row \cup {Null}]
    /\ req \in [Clients -> Request]
    /\ sweep \in [phase: {"idle", "codes"}, at: Nat \cup {Null}, batch: Nat]
    /\ faults \in Nat
    /\ issued \in SUBSET Otps
    /\ ceiling \in [Otps -> Nat]
    /\ guesses \in [Otps -> Nat]
    /\ accepted \in [Otps -> Nat]

Init ==
    /\ now = 0
    /\ rows = [o \in Otps |-> Null]
    /\ req = [c \in Clients |-> Idle]
    /\ sweep = NotSweeping
    /\ faults = 0
    /\ issued = {}
    /\ ceiling = [o \in Otps |-> 0]
    /\ guesses = [o \in Otps |-> 0]
    /\ accepted = [o \in Otps |-> 0]

-----------------------------------------------------------------------------
(* A request arrives and gets as far as the queue for the connection.      *)

Queue(c, r) ==
    /\ req[c].pc = "idle"
    /\ r.op \in Offered
    /\ req' = [req EXCEPT ![c] = r]
    /\ UNCHANGED <<now, rows, sweep, faults, history>>

Asking(op) == [Idle EXCEPT !.pc = "queued", !.op = op, !.ts = now]

(***************************************************************************)
(* The handler fixes the expiry (time.Now().Add(ttl)) and then calls       *)
(* GenerateOTP, which reads ts: two readings of the clock, between which   *)
(* nothing happens but that time may pass.  The first one is therefore     *)
(* made at any moment "asked" up to now, and a code with a short lifetime  *)
(* may have expired by the ts it is created at.                            *)
(***************************************************************************)
GenerateRequest(c) ==
    \E e \in Envs, s \in Subjects, m \in Ceilings, ttl \in TTLs, asked \in 0 .. now :
        Queue(c, [Asking("generate") EXCEPT !.env = e, !.subject = s,
                                            !.max = m, !.expires = asked + ttl])

ValidateRequest(c) ==
    \E e \in Envs, s \in Subjects, k \in Guesses :
        Queue(c, [Asking("validate") EXCEPT !.env = e, !.subject = s, !.code = k])

RevokeRequest(c) ==
    \E e \in Envs, o \in issued : Queue(c, [Asking("revoke") EXCEPT !.env = e, !.otp = o])

(* A DELETE compares with no time. *)
DeleteRequest(c) ==
    \E e \in Envs, o \in issued :
        Queue(c, [Asking("delete") EXCEPT !.env = e, !.otp = o, !.ts = Null])

-----------------------------------------------------------------------------
(* The transactions.                                                       *)

Executing(c, op) == req[c].pc = "queued" /\ req[c].op = op

(* The answer, and the code that goes with it. *)
Handed(c, a, o) == req' = [req EXCEPT ![c] = [Idle EXCEPT !.pc = "done", !.answer = a, !.otp = o]]

Answer(c, a) == Handed(c, a, Null)

LiveFor(r) == {o \in Otps : Live(rows[o], r.env, r.subject, r.ts)}

(* A slip: any of them will do. *)
Newest_Any(S) == S

(* ORDER BY created_at DESC, id DESC LIMIT 1; ids are random, so among     *)
(* codes of one second either may come first.                              *)
Newest(S) == {o \in S : \A p \in S : rows[p].created <= rows[o].created}

NewRow(r, k) ==
    [env |-> r.env, subject |-> r.subject, code |-> k, attempts |-> 0, max |-> r.max,
     expires |-> r.expires, consumed |-> Null, revoked |-> Null, created |-> r.ts]

(***************************************************************************)
(* The id and the digits are drawn in the handler, but nobody sees them    *)
(* unless they are inserted: they are drawn here.  NewID draws 128 random  *)
(* bits, taken never to be drawn twice.                                    *)
(***************************************************************************)
GenerateOTP(c) ==
    LET r == req[c]
    IN  /\ Executing(c, "generate")
        /\ \/ \E o \in Newest(LiveFor(r)) :
                /\ Handed(c, "reused", o)
                /\ UNCHANGED <<rows, issued, ceiling>>
           \/ /\ LiveFor(r) = {}
              /\ \E o \in Otps \ issued, k \in Digits :
                   /\ rows' = [rows EXCEPT ![o] = NewRow(r, k)]
                   /\ issued' = issued \cup {o}
                   /\ ceiling' = [ceiling EXCEPT ![o] = r.max]
                   /\ Handed(c, "issued", o)
        /\ UNCHANGED <<now, sweep, faults, guesses, accepted>>

(* What the first UPDATE of ValidateOTP matches. *)
Right(r) == {o \in LiveFor(r) : rows[o].code = r.code}

(* The codes StatusOf calls active for the caller: those a wrong guess is  *)
(* an attempt at.                                                          *)
Guessed(r) == {o \in Otps : /\ rows[o] # Null
                            /\ rows[o].env = r.env /\ rows[o].subject = r.subject
                            /\ StatusOf(rows[o], r.ts) = "active"}

(* Slips: the wrong guess is not charged; it is charged the wrong way.     *)
Charged_Not(row) == row
Charged_Down(row) == [row EXCEPT !.attempts = @ - 1]

(* The row as the second UPDATE of ValidateOTP leaves it. *)
Charged(row) == [row EXCEPT !.attempts = @ + 1]

ValidateOTP(c) ==
    LET r == req[c]
        live == LiveFor(r)
        right == Right(r)
    IN  /\ Executing(c, "validate")
        /\ \/ /\ right # {}
              /\ rows' = [o \in Otps |-> IF o \in right THEN [rows[o] EXCEPT !.consumed = r.ts]
                                                        ELSE rows[o]]
              /\ accepted' = [o \in Otps |-> accepted[o] + (IF o \in right THEN 1 ELSE 0)]
              /\ Answer(c, "valid")
              /\ UNCHANGED guesses
           \/ /\ right = {}
              /\ rows' = [o \in Otps |-> IF o \in live THEN Charged(rows[o])
                                                       ELSE rows[o]]
              /\ guesses' = [o \in Otps |-> guesses[o] + (IF o \in Guessed(r) THEN 1 ELSE 0)]
              /\ Answer(c, "invalid_code")
              /\ UNCHANGED accepted
        /\ UNCHANGED <<now, sweep, faults, issued, ceiling>>

(* A miss may mean "already revoked": the handler reads the row to tell. *)
RevokeOTP(c) ==
    LET r == req[c]
    IN  /\ Executing(c, "revoke")
        /\ \/ /\ Revocable(rows[r.otp], r.env)
              /\ rows' = [rows EXCEPT ![r.otp].revoked = r.ts]
              /\ Answer(c, "ok")
           \/ /\ ~ Revocable(rows[r.otp], r.env)
              /\ req' = [req EXCEPT ![c].pc = "readback", ![c].ts = Null]
              /\ UNCHANGED rows
        /\ UNCHANGED <<now, sweep, faults, history>>

DeleteOTP(c) ==
    LET r == req[c]
    IN  /\ Executing(c, "delete")
        /\ \/ /\ InEnv(rows[r.otp], r.env)
              /\ rows' = [rows EXCEPT ![r.otp] = Null]
              /\ Answer(c, "ok")
           \/ /\ ~ InEnv(rows[r.otp], r.env)
              /\ Answer(c, "not_found")
              /\ UNCHANGED rows
        /\ UNCHANGED <<now, sweep, faults, history>>

(* GetOTP, after RevokeOTP found nothing to revoke. *)
ReadBack(c) ==
    /\ req[c].pc = "readback"
    /\ Answer(c, IF InEnv(rows[req[c].otp], req[c].env) THEN "ok" ELSE "not_found")
    /\ UNCHANGED <<now, rows, sweep, faults, history>>

Reply(c) ==
    /\ req[c].pc = "done"
    /\ req' = [req EXCEPT ![c] = Idle]
    /\ UNCHANGED <<now, rows, sweep, faults, history>>

(* The caller hangs up or a statement fails: the transaction is rolled     *)
(* back, and the guess it carried was neither answered nor charged.        *)
Fail(c) ==
    /\ req[c].pc \in {"queued", "readback"}
    /\ faults < MaxFaults
    /\ faults' = faults + 1
    /\ Answer(c, "error")
    /\ UNCHANGED <<now, rows, sweep, history>>

-----------------------------------------------------------------------------
(* The clean-up job's third kind of row.                                   *)

StartSweep ==
    /\ sweep.phase = "idle"
    /\ sweep' = [phase |-> "codes", at |-> now, batch |-> 0]
    /\ UNCHANGED <<now, rows, req, faults, history>>

DeleteDeadOTPs ==
    /\ sweep.phase = "codes"
    /\ \E D \in Batches({o \in Otps : LongDead(rows[o], sweep.at - OTPRetention)}) :
        /\ rows' = [o \in Otps |-> IF o \in D THEN Null ELSE rows[o]]
        /\ sweep' = IF Drained(D, sweep.batch) THEN NotSweeping
                                              ELSE [sweep EXCEPT !.batch = @ + 1]
        /\ UNCHANGED <<now, req, faults, history>>

DrainError ==
    /\ sweep.phase = "codes"
    /\ faults < MaxFaults
    /\ faults' = faults + 1
    /\ sweep' = NotSweeping
    /\ UNCHANGED <<now, rows, req, history>>

-----------------------------------------------------------------------------
(* The process dies and is started again: SQLite keeps what was committed. *)
Crash ==
    /\ faults < MaxFaults
    /\ faults' = faults + 1
    /\ req' = [c \in Clients |-> Idle]
    /\ sweep' = NotSweeping
    /\ UNCHANGED <<now, rows, history>>

Tick ==
    /\ now < MaxTime
    /\ now' = now + 1
    /\ UNCHANGED <<rows, req, sweep, faults, history>>

Arrive(c) == GenerateRequest(c) \/ ValidateRequest(c) \/ RevokeRequest(c) \/ DeleteRequest(c)

Serve(c) == \/ GenerateOTP(c) \/ ValidateOTP(c) \/ RevokeOTP(c) \/ DeleteOTP(c)
            \/ ReadBack(c) \/ Reply(c)

Next == \/ \E c \in Clients : Arrive(c) \/ Serve(c) \/ Fail(c)
        \/ StartSweep \/ DeleteDeadOTPs \/ DrainError \/ Crash \/ Tick

Spec == Init /\ [][Next]_vars

-----------------------------------------------------------------------------
(* Properties.                                                             *)

(***************************************************************************)
(* At most one code is live for an (environment, type, identifier) at any  *)
(* moment, although no index says so: GenerateOTP looks and inserts in one *)
(* transaction, and what was live for its time covers what is live now.    *)
(***************************************************************************)
AtMostOneLive ==
    \A o, p \in {x \in Otps : rows[x] # Null /\ StatusOf(rows[x], now) = "active"} :
        rows[o].env = rows[p].env /\ rows[o].subject = rows[p].subject => o = p

(***************************************************************************)
(* No code is guessed at more often than its ceiling allows: every wrong   *)
(* guess that could have been right is charged before it is answered,      *)
(* guesses racing each other included.                                     *)
(***************************************************************************)
CeilingHolds == \A o \in Otps : guesses[o] <= ceiling[o]

(***************************************************************************)
(* The service keeps the promise of OTPLedger: a code is accepted once,    *)
(* never after its ceiling was reached, never once it is revoked or gone.  *)
(***************************************************************************)
Closed == {o \in issued : rows[o] = Null \/ rows[o].revoked # Null}

Ledger == INSTANCE OTPLedger WITH closed <- Closed

KeepsLedger == Ledger!Spec

(***************************************************************************)
(* Whoever asks while a code is outstanding "must receive the code they    *)
(* were already given" (GenerateOTP): when a caller is handed a code, new  *)
(* or reused, no other code of its type and identifier is live, although   *)
(* the request may have waited so long that several codes were live at the *)
(* time it looks for.  Codes that had expired when they were created, for  *)
(* the two readings of the clock, are excepted: one of those may be handed *)
(* to a request that waited while a live one exists.                       *)
(***************************************************************************)
HandsOver(c) ==
    LET r == req[c]
        handed == rows'[req'[c].otp]
    IN  /\ handed # Null /\ handed.env = r.env /\ handed.subject = r.subject
        /\ handed.created < handed.expires =>
              \A p \in Otps :
                  /\ rows'[p] # Null /\ rows'[p].env = r.env /\ rows'[p].subject = r.subject
                  /\ StatusOf(rows'[p], now') = "active"
                  => p = req'[c].otp

HandedTheLive ==
    [][\A c \in Clients :
          /\ Executing(c, "generate")
          /\ req'[c].pc = "done" /\ req'[c].answer \in {"issued", "reused"}
          => HandsOver(c)]_vars

(***************************************************************************)
(* A code's status only moves forward: active, locked, expired, consumed,  *)
(* revoked.                                                                *)
(***************************************************************************)
StatusMovesForward ==
    [][\A o \in Otps : rows[o] # Null /\ rows'[o] # Null =>
         Rank[StatusOf(rows[o], now)] <= Rank[StatusOf(rows'[o], now')]]_vars

(***************************************************************************)
(* A validation touches only codes of its own environment, type and        *)
(* identifier: it neither accepts nor charges anybody else's, even when    *)
(* the digits are the same.                                                *)
(***************************************************************************)
OwnSubjectOnly ==
    [][\A c \in Clients : Executing(c, "validate") /\ ~ Executing(c, "validate")' =>
         \A o \in Otps : rows'[o] # rows[o] =>
             rows[o].env = req[c].env /\ rows[o].subject = req[c].subject]_vars

(* The sweep never removes a code that could still be accepted.            *)
CleanUpSparesActive ==
    [][\A o \in Otps : rows[o] # Null /\ rows'[o] = Null /\ UNCHANGED req =>
         StatusOf(rows[o], now) # "active"]_vars

=============================================================================
