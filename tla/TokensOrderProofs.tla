-------------------------- MODULE TokensOrderProofs --------------------------
(***************************************************************************)
(* What Tokens promises about the order of things, for every value of its  *)
(* constants: a status only moves forward, the clean-up removes nothing    *)
(* that could still be redeemed although it decides with an old time, a    *)
(* revoke answered with success holds, and the events match the commits.   *)
(***************************************************************************)
EXTENDS TokensProofs, FiniteSetTheorems

(* The clock does not go back. *)
LEMMA ClockStep ==
    ASSUME IInv, [Next]_vars
    PROVE  now \in Nat /\ now' \in Nat /\ now <= now'
  <1>1. now \in Nat  BY DEF IInv, TypeOK
  <1>2. ASSUME NEW c \in Clients, Arrive(c) PROVE now' = now
    BY <1>2 DEF Arrive, CreateRequest, ConsumeRequest, RevokeRequest, DeleteRequest, Queue
  <1>3. ASSUME NEW c \in Clients, Serve(c) \/ Fail(c) PROVE now' = now
    BY <1>3 DEF Serve, CreateToken, ConsumeToken, RevokeToken, DeleteToken, EmitTokenEvent,
                ReadBack, Reply, Fail
  <1>4. ASSUME Sweep PROVE now' = now
    BY <1>4 DEF Sweep, StartSweep, DeleteExpiredTokens, DeleteSettledTokens, DrainBatch
  <1>5. ASSUME DrainError \/ Crash \/ UNCHANGED vars PROVE now' = now
    BY <1>5 DEF DrainError, Crash, vars
  <1>6. now' = now \/ now' = now + 1
    BY <1>2, <1>3, <1>4, <1>5 DEF Next, Tick
  <1> QED  BY <1>1, <1>6

-----------------------------------------------------------------------------
(* The time a sweep captured is a time that has been.                      *)
SweepClock == sweep.phase # "idle" => sweep.at \in Nat /\ sweep.at <= now

LEMMA SweepClockStep ==
    ASSUME IInv, SweepClock, [Next]_vars
    PROVE  SweepClock'
  <1>1. now \in Nat /\ now' \in Nat /\ now <= now'  BY ClockStep
  <1>2. sweep \in [phase: {"idle", "expired", "settled"}, at: Nat \cup {Null}, batch: Nat]
    BY DEF IInv, TypeOK
  <1>3. CASE UNCHANGED sweep  BY <1>1, <1>3 DEF SweepClock
  <1>4. CASE sweep' = NotSweeping  BY <1>4 DEF SweepClock, NotSweeping
  <1>5. CASE StartSweep  BY <1>1, <1>5 DEF StartSweep, SweepClock
  <1>6. CASE sweep.phase # "idle" /\ sweep'.at = sweep.at
    BY <1>1, <1>2, <1>6 DEF SweepClock
  <1>7. sweep.phase # "idle" =>
            NextPhase = NotSweeping \/ NextPhase.at = sweep.at
    BY <1>2 DEF NextPhase
  <1>8. [sweep EXCEPT !.batch = @ + 1].at = sweep.at  BY <1>2
  <1>9. ASSUME sweep.phase # "idle", NEW Old, DrainBatch(Old) PROVE SweepClock'
    <2>1. sweep' = NextPhase \/ sweep' = [sweep EXCEPT !.batch = @ + 1]
      BY <1>9 DEF DrainBatch
    <2> QED  BY <2>1, <1>4, <1>6, <1>7, <1>8, <1>9
  <1>10. CASE DrainError  BY <1>4, <1>6, <1>7, <1>10 DEF DrainError
  <1>11. ASSUME NEW c \in Clients, Arrive(c) PROVE UNCHANGED sweep
    BY <1>11 DEF Arrive, CreateRequest, ConsumeRequest, RevokeRequest, DeleteRequest, Queue
  <1>12. ASSUME NEW c \in Clients, Serve(c) \/ Fail(c) PROVE UNCHANGED sweep
    BY <1>12 DEF Serve, CreateToken, ConsumeToken, RevokeToken, DeleteToken, EmitTokenEvent,
                 ReadBack, Reply, Fail
  <1>13. CASE Sweep
    BY <1>5, <1>9, <1>13 DEF Sweep, DeleteExpiredTokens, DeleteSettledTokens
  <1>14. CASE Crash \/ Tick \/ UNCHANGED vars
    BY <1>3, <1>4, <1>14 DEF Crash, Tick, vars
  <1> QED  BY <1>3, <1>10, <1>11, <1>12, <1>13, <1>14 DEF Next

(* A row old enough for the sweep is not active now. *)
LEMMA OldIsFinished ==
    ASSUME NEW row \in Row, NEW at \in Nat, NEW ts \in Nat, at <= ts,
           LongExpired(row, at - ExpiredRetention) \/ LongSettled(row, at - ConsumedRetention)
    PROVE  StatusOf(row, ts) # "active"
  <1>1. row.expires \in Nat  BY DEF Row
  <1>2. CASE LongExpired(row, at - ExpiredRetention)
    <2>1. row.expires <= ts  BY <1>1, <1>2, TokensAssumption DEF LongExpired
    <2> QED  BY <2>1 DEF StatusOf
  <1>3. CASE LongSettled(row, at - ConsumedRetention)
    <2>1. row.revoked # Null \/ Exhausted(row)  BY <1>3 DEF LongSettled
    <2> QED  BY <2>1 DEF StatusOf
  <1> QED  BY <1>2, <1>3

(* Who can remove a row: a deletion, or a DELETE of the sweep. *)
LEMMA RemovedStep ==
    ASSUME IInv, [Next]_vars, NEW t \in Tokens, rows[t] # Null, rows'[t] = Null
    PROVE  \/ \E c \in Clients : DeleteToken(c)
           \/ /\ sweep.phase # "idle"
              /\ \/ LongExpired(rows[t], sweep.at - ExpiredRetention)
                 \/ LongSettled(rows[t], sweep.at - ConsumedRetention)
  <1>1. Requests /\ Books /\ Rest  BY Parts
  <1>2. rows \in [Tokens -> Row \cup {Null}]  BY <1>1 DEF Books, Stored
  <1>3. ASSUME NEW c \in Clients, CreateToken(c) PROVE FALSE
    <2>1. req[c].row \in Row  BY <1>1, <1>3 DEF CreateToken, Requests, Creating
    <2> QED  BY <1>2, <1>3, <2>1, RowAssumption DEF CreateToken
  <1>4. ASSUME NEW c \in Clients, ConsumeToken(c) PROVE FALSE
    <2> DEFINE u == req[c].tok
    <2>1. /\ u \in Tokens /\ req[c].ts \in Nat
          /\ Consumable(rows[u], req[c].env, req[c].ts)
          /\ rows' = [rows EXCEPT ![u] = Spent(@, req[c].ts)]
      BY <1>1, <1>4 DEF ConsumeToken, Executing, Requests, Ready, Missed
    <2>2. Spent(rows[u], req[c].ts) \in Row
      BY <1>2, <2>1, SpentType DEF Consumable, InEnv
    <2> QED  BY <1>2, <2>1, <2>2, RowAssumption
  <1>5. ASSUME NEW c \in Clients, RevokeToken(c) PROVE FALSE
    <2> DEFINE u == req[c].tok
    <2>1. /\ u \in Tokens /\ req[c].ts \in Nat
          /\ Revocable(rows[u], req[c].env)
          /\ rows' = [rows EXCEPT ![u].revoked = req[c].ts]
      BY <1>1, <1>5 DEF RevokeToken, Executing, Requests, Ready
    <2>2. rows[u] \in Row  BY <1>2, <2>1 DEF Revocable, InEnv
    <2>3. [rows[u] EXCEPT !.revoked = req[c].ts] \in Row  BY <2>1, <2>2 DEF Row
    <2> QED  BY <1>2, <2>1, <2>3, RowAssumption
  <1>6. ASSUME NEW Old, DrainBatch(Old) PROVE t \in Old
    BY <1>2, <1>6 DEF DrainBatch, Batches
  <1>7. rows' # rows  OBVIOUS
  <1>8. ASSUME NEW c \in Clients,
               \/ Arrive(c) \/ EmitTokenEvent(c) \/ ReadBack(c) \/ Reply(c) \/ Fail(c)
        PROVE  rows' = rows
    BY <1>8 DEF Arrive, CreateRequest, ConsumeRequest, RevokeRequest, DeleteRequest, Queue,
                EmitTokenEvent, ReadBack, Reply, Fail
  <1>9. ASSUME StartSweep \/ DrainError \/ Crash \/ Tick \/ UNCHANGED vars
        PROVE  rows' = rows
    BY <1>9 DEF StartSweep, DrainError, Crash, Tick, vars
  <1>10. \/ \E c \in Clients : DeleteToken(c)
         \/ DeleteExpiredTokens \/ DeleteSettledTokens
    BY <1>3, <1>4, <1>5, <1>7, <1>8, <1>9 DEF Next, Serve, Sweep
  <1> QED  BY <1>6, <1>10 DEF DeleteExpiredTokens, DeleteSettledTokens

(* The clean-up job never removes a token that could still be redeemed,    *)
(* although it decides with the time at which its sweep began              *)
(* (Job.Sweep, DeleteExpiredTokens, DeleteSettledTokens).                  *)
THEOREM SweepSparesActive == Spec => CleanUpSparesActive
  <1> DEFINE A == \A t \in Tokens : rows[t] # Null /\ rows'[t] = Null /\ UNCHANGED req =>
                    StatusOf(rows[t], now) # "active"
  <1>1. Init => SweepClock  BY DEF Init, SweepClock, NotSweeping
  <1>2. IInv /\ SweepClock /\ [Next]_vars => SweepClock'  BY SweepClockStep
  <1>3. IInv /\ SweepClock /\ [Next]_vars => A
    <2> SUFFICES ASSUME IInv, SweepClock, [Next]_vars,
                        NEW t \in Tokens, rows[t] # Null, rows'[t] = Null, UNCHANGED req
                 PROVE  StatusOf(rows[t], now) # "active"
      OBVIOUS
    <2>1. req \in [Clients -> Request] /\ rows \in [Tokens -> Row \cup {Null}] /\ now \in Nat
      BY DEF IInv, TypeOK
    <2>2. ASSUME NEW c \in Clients, DeleteToken(c) PROVE FALSE
      <3>1. req[c].pc = "queued"  BY <2>2 DEF DeleteToken, Executing
      <3>2. \E a : Continue(c, "done", <<>>, a)
        BY <2>2 DEF DeleteToken, Missed, Committed, Answer
      <3>3. c \in DOMAIN req /\ "pc" \in DOMAIN req[c]  BY <2>1 DEF Request
      <3>4. req'[c].pc = "done"  BY <3>2, <3>3 DEF Continue
      <3> QED  BY <3>1, <3>4
    <2>3. /\ sweep.phase # "idle"
          /\ \/ LongExpired(rows[t], sweep.at - ExpiredRetention)
             \/ LongSettled(rows[t], sweep.at - ConsumedRetention)
      BY <2>2, RemovedStep
    <2> QED  BY <2>1, <2>3, OldIsFinished DEF SweepClock
  <1> QED  BY Invariance, <1>1, <1>2, <1>3, PTL DEF Spec, CleanUpSparesActive

-----------------------------------------------------------------------------
LEMMA Ranks ==
    /\ Rank["active"] = 0 /\ Rank["exhausted"] = 1
    /\ Rank["expired"] = 2 /\ Rank["revoked"] = 3
  BY DEF Rank, Statuses

(* A row that only moved, looked at no earlier, has come no less far. *)
LEMMA StatusForward ==
    ASSUME NEW row \in Row, NEW row2 \in Row, NEW ts \in Nat, NEW ts2 \in Nat, ts <= ts2,
           row2.expires = row.expires, row2.max = row.max, row2.used >= row.used,
           row.revoked # Null => row2.revoked # Null
    PROVE  Rank[StatusOf(row, ts)] <= Rank[StatusOf(row2, ts2)]
  <1>1. /\ row.expires \in Nat /\ row.used \in Nat /\ row2.used \in Nat
        /\ row.max # Null => row.max \in Nat
    BY DEF Row, Limit
  <1>2. row.expires <= ts => row2.expires <= ts2  BY <1>1
  <1>3. Exhausted(row) => Exhausted(row2)  BY <1>1 DEF Exhausted
  <1>4. CASE StatusOf(row, ts) = "revoked"
    <2>1. StatusOf(row2, ts2) = "revoked"  BY <1>4 DEF StatusOf
    <2> QED  BY <1>4, <2>1, Ranks
  <1>5. CASE StatusOf(row, ts) = "expired"
    <2>1. StatusOf(row2, ts2) \in {"expired", "revoked"}  BY <1>2, <1>5 DEF StatusOf
    <2> QED  BY <1>5, <2>1, Ranks
  <1>6. CASE StatusOf(row, ts) = "exhausted"
    <2>1. StatusOf(row2, ts2) \in {"exhausted", "expired", "revoked"}
      BY <1>3, <1>6 DEF StatusOf
    <2> QED  BY <1>6, <2>1, Ranks
  <1>7. CASE StatusOf(row, ts) = "active"
    <2>1. StatusOf(row2, ts2) \in {"active", "exhausted", "expired", "revoked"}
      BY DEF StatusOf
    <2> QED  BY <1>7, <2>1, Ranks
  <1> QED  BY <1>4, <1>5, <1>6, <1>7 DEF StatusOf

(* A stored token's status only moves forward (token.StatusOf over the     *)
(* rows ConsumeToken and RevokeToken write, with times of their own).      *)
THEOREM StatusNeverBack == Spec => StatusMovesForward
  <1> DEFINE A == \A t \in Tokens : rows[t] # Null /\ rows'[t] # Null =>
                    Rank[StatusOf(rows[t], now)] <= Rank[StatusOf(rows'[t], now')]
  <1>1. IInv /\ [Next]_vars => A
    <2> SUFFICES ASSUME IInv, [Next]_vars,
                        NEW t \in Tokens, rows[t] # Null, rows'[t] # Null
                 PROVE  Rank[StatusOf(rows[t], now)] <= Rank[StatusOf(rows'[t], now')]
      OBVIOUS
    <2>1. IInv'  BY NextIInv
    <2>2. rows[t] \in Row /\ rows'[t] \in Row
      <3>1. rows[t] \in Row \cup {Null}  BY DEF IInv, TypeOK
      <3>2. rows'[t] \in Row \cup {Null}  BY <2>1 DEF IInv, TypeOK
      <3> QED  BY <3>1, <3>2
    <2>3. t \in issued  BY DEF IInv, Unissued
    <2>4. Moved(t)  BY <2>3, RowsStep
    <2>5. now \in Nat /\ now' \in Nat /\ now <= now'  BY ClockStep
    <2>6. /\ rows'[t].expires = rows[t].expires
          /\ rows'[t].max = rows[t].max
          /\ rows'[t].used >= rows[t].used
          /\ rows[t].revoked # Null => rows'[t].revoked # Null
      BY <2>4 DEF Moved
    <2> QED  BY <2>2, <2>5, <2>6, StatusForward
  <1> QED  BY Invariance, <1>1, PTL DEF Spec, StatusMovesForward

-----------------------------------------------------------------------------
(* What a revoke knows at each step of its handler.                        *)
Knows(c) ==
    req[c].op = "revoke" =>
        /\ req[c].tok \in issued
        /\ req[c].pc = "emit" => req[c].tok \in Closed
        /\ req[c].pc = "readback" => ~ Revocable(rows[req[c].tok], req[c].env)
        /\ req[c].pc = "done" /\ req[c].answer = "ok" => req[c].tok \in Closed

(* While its request waits, what a revoke knows stays true. *)
LEMMA KnowsStays ==
    ASSUME IInv, [Next]_vars, NEW c \in Clients, Knows(c), req'[c] = req[c]
    PROVE  Knows(c)'
  <1>1. Closed \subseteq Closed' /\ Closed' \subseteq issued'  BY ClosedStays
  <1>2. issued \subseteq issued' /\ \A t \in issued : Moved(t)  BY RowsStep
  <1>3. ASSUME req[c].op = "revoke", ~ Revocable(rows[req[c].tok], req[c].env)
        PROVE  ~ Revocable(rows'[req[c].tok], req[c].env)
    BY <1>2, <1>3 DEF Knows, Moved, Revocable, InEnv
  <1> QED  BY <1>1, <1>2, <1>3 DEF Knows

(* The answer, or next step, of request c, as its fields.                  *)
LEMMA ContinueFields ==
    ASSUME IInv, NEW c \in Clients, NEW pc, NEW events, NEW a, Continue(c, pc, events, a)
    PROVE  /\ req'[c].op = req[c].op /\ req'[c].tok = req[c].tok
           /\ req'[c].env = req[c].env /\ req'[c].pc = pc /\ req'[c].answer = a
           /\ \A d \in Clients : d # c => req'[d] = req[d]
  <1>1. req \in [Clients -> Request]  BY DEF IInv, TypeOK
  <1>2. DOMAIN req[c] = {"pc", "op", "env", "tok", "ts", "row", "todo", "answer"}
    BY <1>1 DEF Request
  <1>3. \E r : /\ r = [req[c] EXCEPT !.pc = pc, !.ts = Null, !.row = Null,
                                     !.todo = events, !.answer = a]
              /\ req' = [req EXCEPT ![c] = r]
    BY DEF Continue
  <1> QED  BY <1>1, <1>2, <1>3

(* What the request that takes a step knows after it.                      *)
LEMMA KnowsArrive ==
    ASSUME IInv, [Next]_vars, NEW c \in Clients, Arrive(c) \/ Reply(c)
    PROVE  Knows(c)'
  <1>1. req \in [Clients -> Request]  BY DEF IInv, TypeOK
  <1>2. CASE Reply(c)
    <2>1. req'[c].op = Null  BY <1>1, <1>2 DEF Reply, Idle
    <2> QED  BY <2>1, TokensAssumption DEF Knows, Ops
  <1>3. ASSUME NEW op, NEW e, NEW t, NEW row, Queue(c, op, e, t, row),
               op = "revoke" => t \in issued
        PROVE  Knows(c)'
    <2>1. req'[c].pc = "queued" /\ req'[c].op = op /\ req'[c].tok = t
      BY <1>1, <1>3 DEF Queue, Idle
    <2>2. issued' = issued  BY <1>3 DEF Queue, history
    <2> QED  BY <1>3, <2>1, <2>2 DEF Knows
  <1>4. CASE CreateRequest(c)
    <2>1. \E e, t, row : Queue(c, "create", e, t, row)  BY <1>4 DEF CreateRequest
    <2> QED  BY <2>1, <1>3
  <1>5. CASE ConsumeRequest(c)  BY <1>3, <1>5 DEF ConsumeRequest
  <1>6. CASE RevokeRequest(c)  BY <1>3, <1>6 DEF RevokeRequest
  <1>7. CASE DeleteRequest(c)  BY <1>3, <1>7 DEF DeleteRequest
  <1> QED  BY <1>2, <1>4, <1>5, <1>6, <1>7 DEF Arrive

LEMMA KnowsServe ==
    ASSUME IInv, [Next]_vars, NEW c \in Clients, Knows(c),
           \/ CreateToken(c) \/ ConsumeToken(c) \/ DeleteToken(c)
           \/ EmitTokenEvent(c) \/ ReadBack(c) \/ Fail(c)
    PROVE  Knows(c)'
  <1>1. Closed \subseteq Closed'  BY ClosedStays
  <1>2. issued \subseteq issued'  BY RowsStep
  <1>3. CASE CreateToken(c) \/ ConsumeToken(c) \/ DeleteToken(c)
    <2>1. \E pc, events, a : Continue(c, pc, events, a)
      BY <1>3 DEF CreateToken, ConsumeToken, DeleteToken, Committed, Missed, Answer
    <2>2. req'[c].op = req[c].op  BY <2>1, ContinueFields
    <2>3. req[c].op # "revoke"
      BY <1>3 DEF CreateToken, ConsumeToken, DeleteToken, Executing
    <2> QED  BY <2>2, <2>3 DEF Knows
  <1>4. CASE EmitTokenEvent(c)
    <2>1. req[c].pc = "emit"  BY <1>4 DEF EmitTokenEvent
    <2>2. \/ Continue(c, "done", <<>>, "ok")
          \/ \E events : Continue(c, "emit", events, Null)
      BY <1>4 DEF EmitTokenEvent, Answer
    <2>3. /\ req'[c].op = req[c].op /\ req'[c].tok = req[c].tok
          /\ req'[c].pc \in {"emit", "done"}
      BY <2>2, ContinueFields
    <2> QED  BY <1>1, <1>2, <2>1, <2>3 DEF Knows
  <1>5. CASE ReadBack(c)
    <2> DEFINE a == IF InEnv(rows[req[c].tok], req[c].env) THEN "ok" ELSE "not_found"
    <2>1. req[c].pc = "readback"  BY <1>5 DEF ReadBack
    <2>2. Continue(c, "done", <<>>, a)  BY <1>5 DEF ReadBack, Answer
    <2>3. /\ req'[c].op = req[c].op /\ req'[c].tok = req[c].tok
          /\ req'[c].pc = "done" /\ req'[c].answer = a
      BY <2>2, ContinueFields
    <2>4. req[c].op = "revoke" /\ a = "ok" => req[c].tok \in Closed
      BY <2>1 DEF Knows, Revocable, Closed
    <2> QED  BY <1>1, <1>2, <2>3, <2>4 DEF Knows
  <1>6. CASE Fail(c)
    <2>1. req'[c].op = req[c].op /\ req'[c].tok = req[c].tok
          /\ req'[c].pc = "done" /\ req'[c].answer = "error"
      BY <1>6, ContinueFields DEF Fail, Answer
    <2> QED  BY <1>2, <2>1 DEF Knows
  <1> QED  BY <1>3, <1>4, <1>5, <1>6

LEMMA KnowsRevoke ==
    ASSUME IInv, [Next]_vars, NEW c \in Clients, Knows(c), RevokeToken(c)
    PROVE  Knows(c)'
  <1> DEFINE t == req[c].tok
  <1>1. Requests /\ Books  BY Parts
  <1>2. /\ req[c].op = "revoke" /\ t \in issued /\ t \in Tokens /\ req[c].ts \in Nat
    BY <1>1 DEF RevokeToken, Executing, Knows, Requests, Ready
  <1>3. t \in issued'  BY <1>2, RowsStep
  <1>4. CASE /\ Revocable(rows[t], req[c].env)
             /\ rows' = [rows EXCEPT ![t].revoked = req[c].ts]
             /\ Committed(c, <<"token.revoked">>)
    <2>1. rows[t] \in Row /\ rows \in [Tokens -> Row \cup {Null}]
      BY <1>1, <1>2, <1>4 DEF Books, Stored, Revocable, InEnv
    <2>2. rows'[t].revoked = req[c].ts  BY <1>2, <1>4, <2>1 DEF Row
    <2>3. t \in Closed'  BY <1>2, <1>3, <2>2, NullAssumption DEF Closed
    <2>4. \/ Continue(c, "emit", <<"token.revoked">>, Null)
          \/ Continue(c, "done", <<>>, "error")
      BY <1>4 DEF Committed, Answer
    <2>5. req'[c].tok = t /\ req'[c].pc \in {"emit", "done"}
      BY <2>4, ContinueFields
    <2> QED  BY <1>3, <2>3, <2>5 DEF Knows
  <1>5. CASE /\ ~ Revocable(rows[t], req[c].env)
             /\ Continue(c, "readback", <<>>, Null)
             /\ UNCHANGED rows
    <2>1. req'[c].tok = t /\ req'[c].env = req[c].env /\ req'[c].pc = "readback"
      BY <1>5, ContinueFields
    <2> QED  BY <1>3, <1>5, <2>1 DEF Knows
  <1> QED  BY <1>4, <1>5 DEF RevokeToken

(* What a step does to the requests: nothing, forget them, or move one on. *)
LEMMA RequestStep ==
    ASSUME IInv, [Next]_vars
    PROVE  \/ UNCHANGED req
           \/ req' = [c \in Clients |-> Idle]
           \/ \E d \in Clients : /\ Arrive(d) \/ Serve(d) \/ Fail(d)
                                 /\ \A c \in Clients : c # d => req'[c] = req[c]
  <1>1. req \in [Clients -> Request]  BY DEF IInv, TypeOK
  <1>2. ASSUME NEW d \in Clients, Arrive(d) \/ Serve(d) \/ Fail(d)
        PROVE  \A c \in Clients : c # d => req'[c] = req[c]
    <2>1. CASE Arrive(d)
      BY <1>1, <2>1 DEF Arrive, CreateRequest, ConsumeRequest, RevokeRequest, DeleteRequest,
                        Queue
    <2>2. CASE Reply(d)  BY <1>1, <2>2 DEF Reply
    <2>3. CASE \E pc, events, a : Continue(d, pc, events, a)  BY <1>1, <2>3 DEF Continue
    <2>4. CreateToken(d) \/ ConsumeToken(d) \/ RevokeToken(d) \/ DeleteToken(d)
             => \E pc, events, a : Continue(d, pc, events, a)
      BY DEF CreateToken, ConsumeToken, RevokeToken, DeleteToken, Committed, Missed, Answer
    <2>5. EmitTokenEvent(d) \/ ReadBack(d) \/ Fail(d)
             => \E pc, events, a : Continue(d, pc, events, a)
      BY DEF EmitTokenEvent, ReadBack, Fail, Answer
    <2> QED  BY <1>2, <2>1, <2>2, <2>3, <2>4, <2>5 DEF Serve
  <1>3. CASE Sweep
    BY <1>3 DEF Sweep, StartSweep, DeleteExpiredTokens, DeleteSettledTokens, DrainBatch
  <1>4. CASE DrainError \/ Crash \/ Tick \/ UNCHANGED vars
    BY <1>4 DEF DrainError, Crash, Tick, vars
  <1> QED  BY <1>2, <1>3, <1>4 DEF Next

LEMMA KnowsStep ==
    ASSUME IInv, [Next]_vars, \A c \in Clients : Knows(c)
    PROVE  \A c \in Clients : Knows(c)'
  <1>1. CASE UNCHANGED req  BY <1>1, KnowsStays
  <1>2. CASE req' = [c \in Clients |-> Idle]
    BY <1>2, TokensAssumption DEF Knows, Idle, Ops
  <1>3. ASSUME NEW d \in Clients, Arrive(d) \/ Serve(d) \/ Fail(d),
               \A c \in Clients : c # d => req'[c] = req[c]
        PROVE  \A c \in Clients : Knows(c)'
    <2>1. Knows(d)'  BY <1>3, KnowsArrive, KnowsServe, KnowsRevoke DEF Serve
    <2>2. \A c \in Clients : c # d => Knows(c)'  BY <1>3, KnowsStays
    <2> QED  BY <2>1, <2>2
  <1> QED  BY <1>1, <1>2, <1>3, RequestStep

(* A revoke that was answered with success holds, also when the read-back  *)
(* on another connection decided it (the revoke handler, RevokeToken,      *)
(* GetToken).                                                              *)
THEOREM RevokeHolds == Spec => []RevokeAnswerHolds
  <1> DEFINE K == \A c \in Clients : Knows(c)
  <1>1. Init => K
    BY TokensAssumption DEF Init, Knows, Idle, Ops
  <1>2. IInv /\ K /\ [Next]_vars => K'  BY KnowsStep
  <1>3. K => RevokeAnswerHolds  BY DEF Knows, RevokeAnswerHolds
  <1> QED  BY Invariance, <1>1, <1>2, <1>3, PTL DEF Spec

-----------------------------------------------------------------------------
(* Events.  A request waits to emit event e of token t while its todo has  *)
(* it; which sequences todo can be keeps every event in it once.           *)
In(e, s) == \E i \in DOMAIN s : s[i] = e

Waiting(t, e) == {c \in Clients : req[c].tok = t /\ In(e, req[c].todo)}

Todo == {<<>>, <<"token.created">>, <<"token.consumed">>, <<"token.exhausted">>,
         <<"token.revoked">>, <<"token.consumed", "token.exhausted">>}

Todos == \A c \in Clients : /\ req[c].todo \in Todo
                            /\ req[c].pc # "emit" => req[c].todo = <<>>

(* The events of a token that live on: those of a revocation are excused   *)
(* once its row is gone, since a deletion closes a token without one.      *)
Told(t, e) == faults = 0 /\ (rows[t] # Null \/ e # "token.revoked")

Matched(t, e) ==
    /\ emitted[t][e] + Pending(t, e) <= Occurred(t, e)
    /\ Told(t, e) => emitted[t][e] + Pending(t, e) = Occurred(t, e)

AllMatched == \A t \in Tokens, e \in EventTypes : Matched(t, e)

FewWaiting == \A t \in Tokens, e \in EventTypes : IsFiniteSet(Waiting(t, e))

Events == Todos /\ FewWaiting /\ AllMatched

LEMMA InTuples ==
    /\ \A e : ~ In(e, <<>>)
    /\ \A e, x : In(e, <<x>>) <=> e = x
    /\ \A e, x, y : In(e, <<x, y>>) <=> e = x \/ e = y
  <1>1. \A e : ~ In(e, <<>>)  BY DEF In
  <1>2. ASSUME NEW e, NEW x PROVE In(e, <<x>>) <=> e = x
    <2>1. DOMAIN <<x>> = {1} /\ <<x>>[1] = x  OBVIOUS
    <2> QED  BY <2>1 DEF In
  <1>3. ASSUME NEW e, NEW x, NEW y PROVE In(e, <<x, y>>) <=> e = x \/ e = y
    <2>1. DOMAIN <<x, y>> = {1, 2} /\ <<x, y>>[1] = x /\ <<x, y>>[2] = y  OBVIOUS
    <2> QED  BY <2>1 DEF In
  <1> QED  BY <1>1, <1>2, <1>3

LEMMA PendingWaits ==
    \A t, e : Pending(t, e) = Cardinality(Waiting(t, e))
  BY DEF Pending, Waiting, In

(* How many there are are numbers. *)
LEMMA Counted ==
    ASSUME IInv, FewWaiting, NEW t \in Tokens, NEW e \in EventTypes
    PROVE  /\ emitted[t][e] \in Nat /\ Pending(t, e) \in Nat
           /\ Occurred(t, e) \in Nat /\ faults \in Nat
  <1>1. emitted[t][e] \in Nat /\ faults \in Nat /\ accepted[t] \in Nat
    BY DEF IInv, TypeOK
  <1>2. Pending(t, e) \in Nat  BY PendingWaits, FS_CardinalityType DEF FewWaiting
  <1>3. Occurred(t, e) \in Nat  BY <1>1 DEF Occurred, EventTypes
  <1> QED  BY <1>1, <1>2, <1>3

LEMMA CountedNext ==
    ASSUME IInv', FewWaiting', NEW t \in Tokens, NEW e \in EventTypes
    PROVE  /\ emitted'[t][e] \in Nat /\ Pending(t, e)' \in Nat
           /\ Occurred(t, e)' \in Nat /\ faults' \in Nat
  <1>1. emitted'[t][e] \in Nat /\ faults' \in Nat /\ accepted'[t] \in Nat
    BY DEF IInv, TypeOK
  <1>2. Pending(t, e)' \in Nat
    <2>1. Pending(t, e)' = Cardinality(Waiting(t, e)')  BY DEF Pending, Waiting, In
    <2>2. IsFiniteSet(Waiting(t, e)')  BY DEF FewWaiting
    <2> QED  BY <2>1, <2>2, FS_CardinalityType
  <1>3. Occurred(t, e)' \in Nat  BY <1>1 DEF Occurred, EventTypes
  <1> QED  BY <1>1, <1>2, <1>3

(* What is waiting after a request moved on to a new todo.                 *)
LEMMA WaitingMoves ==
    ASSUME req \in [Clients -> Request], NEW c \in Clients, NEW pc, NEW s, NEW a,
           Continue(c, pc, s, a), NEW t, NEW e
    PROVE  Waiting(t, e)' = IF req[c].tok = t /\ In(e, s) THEN Waiting(t, e) \cup {c}
                                                         ELSE Waiting(t, e) \ {c}
  <1> DEFINE r == [req[c] EXCEPT !.pc = pc, !.ts = Null, !.row = Null, !.todo = s, !.answer = a]
  <1>1. req' = [req EXCEPT ![c] = r]  BY DEF Continue
  <1>2. r.tok = req[c].tok /\ r.todo = s  BY DEF Request
  <1> HIDE DEF r
  <1>3. req'[c].tok = req[c].tok /\ req'[c].todo = s  BY <1>1, <1>2
  <1>4. \A d \in Clients : d # c => req'[d] = req[d]  BY <1>1
  <1>5. \A d \in Clients : d # c => (d \in Waiting(t, e)' <=> d \in Waiting(t, e))
    BY <1>4 DEF Waiting, In
  <1>6. c \in Waiting(t, e)' <=> req[c].tok = t /\ In(e, s)
    BY <1>3 DEF Waiting, In
  <1>7. Waiting(t, e)' \subseteq Clients /\ Waiting(t, e) \subseteq Clients
    BY DEF Waiting
  <1> HIDE DEF Waiting
  <1> QED  BY <1>5, <1>6, <1>7

LEMMA TodosMove ==
    ASSUME req \in [Clients -> Request], Todos, NEW c \in Clients, NEW pc, NEW s \in Todo, NEW a,
           Continue(c, pc, s, a), pc = "emit" \/ s = <<>>
    PROVE  Todos'
  <1> DEFINE r == [req[c] EXCEPT !.pc = pc, !.ts = Null, !.row = Null, !.todo = s, !.answer = a]
  <1>1. req' = [req EXCEPT ![c] = r]  BY DEF Continue
  <1>2. r.pc = pc /\ r.todo = s  BY DEF Request
  <1> HIDE DEF r
  <1>3. req'[c].pc = pc /\ req'[c].todo = s  BY <1>1, <1>2
  <1>4. \A d \in Clients : d # c => req'[d] = req[d]  BY <1>1
  <1> QED  BY <1>3, <1>4 DEF Todos

(* Whatever happens to t, e: the two sides move together, or the left one  *)
(* stays behind when there was a fault.                                    *)
LEMMA Balance ==
    ASSUME NEW t \in Tokens, NEW e \in EventTypes,
           IInv, FewWaiting, IInv', FewWaiting', Matched(t, e),
           emitted'[t][e] + Pending(t, e)' + Occurred(t, e)
               <= emitted[t][e] + Pending(t, e) + Occurred(t, e)',
           Told(t, e)' =>
               /\ Told(t, e) \/ Occurred(t, e) = 0
               /\ emitted'[t][e] + Pending(t, e)' + Occurred(t, e)
                     = emitted[t][e] + Pending(t, e) + Occurred(t, e)'
    PROVE  Matched(t, e)'
  <1> DEFINE a == emitted[t][e]   b == Pending(t, e)   o == Occurred(t, e)
             x == emitted'[t][e]  y == Pending(t, e)'  p == Occurred(t, e)'
  <1>1. a \in Nat /\ b \in Nat /\ o \in Nat  BY Counted
  <1>2. x \in Nat /\ y \in Nat /\ p \in Nat  BY CountedNext
  <1>3. a + b <= o /\ (Told(t, e) => a + b = o)  BY DEF Matched
  <1>4. x + y + o <= a + b + p  OBVIOUS
  <1>5. Told(t, e)' => (Told(t, e) \/ o = 0) /\ x + y + o = a + b + p  OBVIOUS
  <1> HIDE DEF a, b, o, x, y, p
  <1>6. x + y <= p /\ (Told(t, e)' => x + y = p)  BY <1>1, <1>2, <1>3, <1>4, <1>5
  <1> QED  BY <1>6 DEF Matched, a, b, o, x, y, p

-----------------------------------------------------------------------------
(* A step that makes no event and sends none.                              *)
LEMMA QuietStep ==
    ASSUME IInv, IInv', Events, Todos', UNCHANGED emitted,
           \A t, e : Waiting(t, e)' = Waiting(t, e),
           \A t \in Tokens, e \in EventTypes :
               /\ Occurred(t, e) <= Occurred(t, e)'
               /\ Told(t, e)' => Told(t, e) /\ Occurred(t, e)' = Occurred(t, e)
    PROVE  Events'
  <1>1. FewWaiting /\ AllMatched  BY DEF Events
  <1>2. FewWaiting'  BY <1>1 DEF FewWaiting
  <1>3. ASSUME NEW t \in Tokens, NEW e \in EventTypes PROVE Matched(t, e)'
    <2>1. Pending(t, e)' = Pending(t, e)
      <3>1. Pending(t, e)' = Cardinality(Waiting(t, e)')  BY DEF Pending, Waiting, In
      <3> QED  BY <3>1, PendingWaits
    <2>2. emitted'[t][e] = emitted[t][e]  OBVIOUS
    <2>3. /\ emitted[t][e] \in Nat /\ Pending(t, e) \in Nat
          /\ Occurred(t, e) \in Nat /\ Occurred(t, e)' \in Nat
      BY <1>1, <1>2, Counted, CountedNext
    <2>4. emitted'[t][e] + Pending(t, e)' + Occurred(t, e)
               <= emitted[t][e] + Pending(t, e) + Occurred(t, e)'
      BY <2>1, <2>2, <2>3
    <2>5. Told(t, e)' =>
             /\ Told(t, e)
             /\ emitted'[t][e] + Pending(t, e)' + Occurred(t, e)
                   = emitted[t][e] + Pending(t, e) + Occurred(t, e)'
      BY <2>1, <2>2
    <2>6. Matched(t, e)  BY <1>1 DEF AllMatched
    <2> QED  BY <1>1, <1>2, <2>4, <2>5, <2>6, Balance
  <1> QED  BY <1>2, <1>3 DEF Events, AllMatched

(* A commit makes the events it says: as many occurred as begin to wait.   *)
LEMMA CommitStep ==
    ASSUME IInv, IInv', Events, NEW c \in Clients, req[c].pc = "queued",
           NEW s \in Todo, Committed(c, s), UNCHANGED emitted,
           \A t \in Tokens, e \in EventTypes :
               LET n == IF t = req[c].tok /\ In(e, s) THEN 1 ELSE 0
               IN  /\ Occurred(t, e) + n <= Occurred(t, e)'
                   /\ Told(t, e)' => /\ Told(t, e) \/ Occurred(t, e) = 0
                                     /\ Occurred(t, e)' = Occurred(t, e) + n
    PROVE  Events'
  <1>1. Todos /\ FewWaiting /\ AllMatched  BY DEF Events
  <1>2. req \in [Clients -> Request] /\ req[c].todo = <<>> /\ faults \in Nat
    BY <1>1 DEF IInv, TypeOK, Todos
  <1>3. PICK q \in Todo : /\ q = s \/ (q = <<>> /\ faults' # 0)
                          /\ \E pc, a : Continue(c, pc, q, a) /\ (pc = "emit" \/ q = <<>>)
    <2>1. CASE s = <<>> /\ Answer(c, "ok")  BY <2>1 DEF Answer
    <2>2. CASE Continue(c, "emit", s, Null)  BY <2>2
    <2>3. CASE faults' = faults + 1 /\ Answer(c, "error")
      <3>1. faults' # 0  BY <1>2, <2>3
      <3>2. <<>> \in Todo  BY DEF Todo
      <3> QED  BY <2>3, <3>1, <3>2 DEF Answer
    <2> QED  BY <2>1, <2>2, <2>3 DEF Committed
  <1>4. Todos'  BY <1>1, <1>2, <1>3, TodosMove
  <1>5. ASSUME NEW t, NEW e
        PROVE  /\ c \notin Waiting(t, e)
               /\ Waiting(t, e)' = IF req[c].tok = t /\ In(e, q) THEN Waiting(t, e) \cup {c}
                                                                ELSE Waiting(t, e)
    <2>1. c \notin Waiting(t, e)  BY <1>2, InTuples DEF Waiting
    <2>2. Waiting(t, e)' = IF req[c].tok = t /\ In(e, q) THEN Waiting(t, e) \cup {c}
                                                        ELSE Waiting(t, e) \ {c}
      BY <1>2, <1>3, WaitingMoves
    <2> QED  BY <2>1, <2>2
  <1>6. FewWaiting'  BY <1>1, <1>5, FS_AddElement DEF FewWaiting
  <1>7. ASSUME NEW t \in Tokens, NEW e \in EventTypes PROVE Matched(t, e)'
    <2> DEFINE n == IF t = req[c].tok /\ In(e, s) THEN 1 ELSE 0
               m == IF t = req[c].tok /\ In(e, q) THEN 1 ELSE 0
    <2>1. IsFiniteSet(Waiting(t, e))  BY <1>1 DEF FewWaiting
    <2>2. Pending(t, e)' = Pending(t, e) + m
      <3>1. Pending(t, e)' = Cardinality(Waiting(t, e)')  BY DEF Pending, Waiting, In
      <3>2. Pending(t, e) = Cardinality(Waiting(t, e))  BY PendingWaits
      <3>3. Pending(t, e) \in Nat  BY <1>1, Counted
      <3>4. CASE t = req[c].tok /\ In(e, q)
        <4>1. Cardinality(Waiting(t, e) \cup {c}) = Cardinality(Waiting(t, e)) + 1
          BY <1>5, <2>1, FS_AddElement
        <4> QED  BY <1>5, <3>1, <3>2, <3>4, <4>1
      <3>5. CASE ~ (t = req[c].tok /\ In(e, q))
        BY <1>5, <3>1, <3>2, <3>3, <3>5
      <3> QED  BY <3>4, <3>5
    <2>3. m \in {0, 1} /\ n \in {0, 1} /\ m <= n /\ (faults' = 0 => m = n)
      BY <1>3, InTuples
    <2>4. /\ emitted[t][e] \in Nat /\ Pending(t, e) \in Nat
          /\ Occurred(t, e) \in Nat /\ Occurred(t, e)' \in Nat
      BY <1>1, <1>6, Counted, CountedNext
    <2>5. emitted'[t][e] = emitted[t][e]  OBVIOUS
    <2>6. /\ Occurred(t, e) + n <= Occurred(t, e)'
          /\ Told(t, e)' => /\ Told(t, e) \/ Occurred(t, e) = 0
                            /\ Occurred(t, e)' = Occurred(t, e) + n
      OBVIOUS
    <2>7. Told(t, e)' => faults' = 0  BY DEF Told
    <2> HIDE DEF m, n
    <2>8. emitted'[t][e] + Pending(t, e)' + Occurred(t, e)
               <= emitted[t][e] + Pending(t, e) + Occurred(t, e)'
      BY <2>2, <2>3, <2>4, <2>5, <2>6
    <2>9. Told(t, e)' =>
             /\ Told(t, e) \/ Occurred(t, e) = 0
             /\ emitted'[t][e] + Pending(t, e)' + Occurred(t, e)
                   = emitted[t][e] + Pending(t, e) + Occurred(t, e)'
      BY <2>2, <2>3, <2>4, <2>5, <2>6, <2>7
    <2>10. Matched(t, e)  BY <1>1 DEF AllMatched
    <2> QED  BY <1>1, <1>6, <2>8, <2>9, <2>10, Balance
  <1> QED  BY <1>4, <1>6, <1>7 DEF Events, AllMatched

(* Fewer faults cannot be.                                                 *)
LEMMA CommittedFaults ==
    ASSUME faults \in Nat, NEW c, NEW s, Committed(c, s), faults' = 0
    PROVE  faults = 0
  BY DEF Committed

(* What occurred to a token is in its row and its history.                 *)
LEMMA OccurredSame ==
    ASSUME NEW t, rows'[t] = rows[t], accepted'[t] = accepted[t], limit'[t] = limit[t],
           t \in issued' <=> t \in issued
    PROVE  \A e \in EventTypes : Occurred(t, e)' = Occurred(t, e)
  BY DEF Occurred, Closed, EventTypes

LEMMA OccurredGone ==
    ASSUME IInv, NEW t \in Tokens, UNCHANGED history, rows'[t] = rows[t] \/ rows'[t] = Null
    PROVE  \A e \in EventTypes :
              /\ Occurred(t, e) <= Occurred(t, e)'
              /\ rows'[t] # Null \/ e # "token.revoked" => Occurred(t, e)' = Occurred(t, e)
  <1>1. accepted[t] \in Nat /\ accepted'[t] = accepted[t] /\ limit'[t] = limit[t]
        /\ issued' = issued
    BY DEF IInv, TypeOK, history
  <1>2. \A e \in EventTypes : Occurred(t, e) \in Nat  BY <1>1 DEF Occurred, EventTypes
  <1>3. \A e \in EventTypes : e # "token.revoked" => Occurred(t, e)' = Occurred(t, e)
    BY <1>1 DEF Occurred, EventTypes
  <1>4. CASE rows'[t] = rows[t]  BY <1>1, <1>2, <1>4, OccurredSame
  <1>5. CASE rows'[t] = Null
    <2>1. t \in Closed => t \in Closed'  BY <1>1, <1>5 DEF Closed
    <2>2. Occurred(t, "token.revoked") = IF t \in Closed THEN 1 ELSE 0  BY DEF Occurred
    <2>3. Occurred(t, "token.revoked")' = IF t \in Closed' THEN 1 ELSE 0  BY DEF Occurred
    <2> QED  BY <1>2, <1>3, <1>5, <2>1, <2>2, <2>3
  <1> QED  BY <1>4, <1>5

LEMMA CreateTokenEvents ==
    ASSUME IInv, IInv', Events, NEW c \in Clients, CreateToken(c)
    PROVE  Events'
  <1> DEFINE s == <<"token.created">>
  <1>0. PICK u \in Tokens : u = req[c].tok
    BY DEF CreateToken, Executing, IInv, Ready
  <1>1. /\ req[c].pc = "queued" /\ u \notin issued
        /\ req[c].row \in Row /\ req[c].row.revoked = Null
    BY <1>0 DEF CreateToken, Executing, IInv, Ready, Creating
  <1>2. /\ rows' = [rows EXCEPT ![u] = req[c].row] /\ issued' = issued \cup {u}
        /\ limit' = [limit EXCEPT ![u] = req[c].row.max]
        /\ Committed(c, s) /\ UNCHANGED <<accepted, emitted>>
    BY <1>0 DEF CreateToken
  <1>3. /\ rows \in [Tokens -> Row \cup {Null}] /\ limit \in [Tokens -> Limit] /\ faults \in Nat
    BY DEF IInv, TypeOK
  <1>4. s \in Todo /\ \A e : In(e, s) <=> e = "token.created"  BY InTuples DEF Todo
  <1>5. accepted[u] = 0 /\ limit[u] = Null  BY <1>1 DEF IInv, Unissued
  <1>6. \A e \in EventTypes : Occurred(u, e) = 0
    BY <1>1, <1>5 DEF Occurred, Closed, EventTypes
  <1>7. /\ u \in issued' /\ accepted'[u] = 0 /\ rows'[u] # Null /\ rows'[u].revoked = Null
        /\ limit'[u] # Null => limit'[u] # 0
    BY <1>1, <1>2, <1>3, <1>5, RowAssumption DEF Row, Limit
  <1>8. \A e \in EventTypes : Occurred(u, e)' = IF e = "token.created" THEN 1 ELSE 0
    BY <1>7 DEF Occurred, Closed, EventTypes
  <1>9. ASSUME NEW t \in Tokens, t # u
        PROVE  rows'[t] = rows[t] /\ \A e \in EventTypes : Occurred(t, e)' = Occurred(t, e)
    <2>1. rows'[t] = rows[t] /\ limit'[t] = limit[t] /\ accepted'[t] = accepted[t]
          /\ (t \in issued' <=> t \in issued)
      BY <1>2, <1>3, <1>9
    <2> QED  BY <2>1, OccurredSame
  <1>10. faults' = 0 => faults = 0  BY <1>2, <1>3, CommittedFaults
  <1>11. \A t \in Tokens, e \in EventTypes : Occurred(t, e) \in Nat
    BY Counted DEF Events
  <1> HIDE DEF s
  <1>12. ASSUME NEW t \in Tokens, NEW e \in EventTypes
         PROVE  LET n == IF t = req[c].tok /\ In(e, s) THEN 1 ELSE 0
                IN  /\ Occurred(t, e) + n <= Occurred(t, e)'
                    /\ Told(t, e)' => /\ Told(t, e) \/ Occurred(t, e) = 0
                                      /\ Occurred(t, e)' = Occurred(t, e) + n
    <2>1. CASE t = u  BY <1>0, <1>4, <1>6, <1>8, <2>1
    <2>2. CASE t # u  BY <1>0, <1>9, <1>10, <1>11, <2>2 DEF Told
    <2> QED  BY <2>1, <2>2
  <1> QED  BY <1>1, <1>2, <1>4, <1>12, CommitStep

LEMMA ConsumeTokenEvents ==
    ASSUME IInv, IInv', Events, NEW c \in Clients, ConsumeToken(c), ~ Missed(c, "invalid_token")
    PROVE  Events'
  <1>0. PICK u \in Tokens : u = req[c].tok
    BY DEF ConsumeToken, Executing, IInv, Ready
  <1> DEFINE row == Spent(rows[u], req[c].ts)
             s == ConsumeEvents(row, req[c].ts)
  <1>1. req[c].pc = "queued" /\ req[c].ts \in Nat
    BY DEF ConsumeToken, Executing, IInv, Ready
  <1>2. /\ Consumable(rows[u], req[c].env, req[c].ts)
        /\ rows' = [rows EXCEPT ![u] = row]
        /\ accepted' = [accepted EXCEPT ![u] = @ + 1]
        /\ Committed(c, s) /\ UNCHANGED <<issued, limit, emitted>>
    BY <1>0 DEF ConsumeToken
  <1>3. /\ rows \in [Tokens -> Row \cup {Null}] /\ limit \in [Tokens -> Limit] /\ faults \in Nat
        /\ accepted \in [Tokens -> Nat]
    BY DEF IInv, TypeOK
  <1>4. /\ rows[u] \in Row /\ rows[u] # Null /\ rows[u].revoked = Null
        /\ rows[u].expires > req[c].ts
        /\ rows[u].max # Null => rows[u].used < rows[u].max
    BY <1>1, <1>2, <1>3 DEF Consumable, InEnv
  <1>5. rows[u].used = accepted[u] /\ rows[u].max = limit[u]
    BY <1>1, <1>4 DEF IInv, Accounts
  <1>6. /\ row \in Row /\ row.used = rows[u].used + 1 /\ row.max = rows[u].max
        /\ row.expires = rows[u].expires /\ row.revoked = rows[u].revoked
    <2>1. row.expires = rows[u].expires /\ row.revoked = rows[u].revoked
      BY <1>4 DEF Spent, Row
    <2> QED  BY <1>1, <1>4, <2>1, SpentType
  <1>7. row # Null  BY <1>6, RowAssumption
  <1>8. /\ rows'[u] = row /\ accepted'[u] = accepted[u] + 1 /\ limit'[u] = limit[u]
        /\ issued' = issued /\ accepted[u] \in Nat /\ limit[u] \in Limit
    BY <1>1, <1>2, <1>3
  <1>9. ~ (limit[u] # Null /\ accepted[u] = limit[u])  BY <1>4, <1>5, <1>8 DEF Limit
  <1>10. StatusOf(row, req[c].ts) = "exhausted" <=> limit[u] # Null /\ accepted[u] + 1 = limit[u]
    <2>1. Exhausted(row) <=> limit[u] # Null /\ accepted[u] + 1 = limit[u]
      BY <1>4, <1>5, <1>6, <1>8 DEF Exhausted, Limit
    <2>2. ~ (row.expires <= req[c].ts)  BY <1>1, <1>4, <1>6 DEF Row
    <2> QED  BY <1>4, <1>6, <2>1, <2>2 DEF StatusOf
  <1>11. /\ s \in Todo
         /\ \A e : In(e, s) <=> \/ e = "token.consumed"
                                \/ e = "token.exhausted" /\ StatusOf(row, req[c].ts) = "exhausted"
    BY InTuples DEF Todo, ConsumeEvents
  <1>12. u \notin Closed /\ u \notin Closed'
    BY <1>4, <1>6, <1>7, <1>8 DEF Closed
  <1> HIDE DEF row, s
  <1>13. ASSUME NEW e \in EventTypes
         PROVE  Occurred(u, e)' = Occurred(u, e) + IF In(e, s) THEN 1 ELSE 0
    <2>1. CASE e = "token.created"
      BY <1>8, <1>11, <2>1 DEF Occurred
    <2>2. CASE e = "token.consumed"
      BY <1>8, <1>11, <2>2 DEF Occurred
    <2>3. CASE e = "token.exhausted"
      <3>1. Occurred(u, e) = 0  BY <1>9, <2>3 DEF Occurred
      <3>2. Occurred(u, e)' = IF limit[u] # Null /\ accepted[u] + 1 = limit[u] THEN 1 ELSE 0
        BY <1>8, <2>3 DEF Occurred
      <3> QED  BY <1>10, <1>11, <2>3, <3>1, <3>2
    <2>4. CASE e = "token.revoked"
      BY <1>11, <1>12, <2>4 DEF Occurred
    <2> QED  BY <2>1, <2>2, <2>3, <2>4 DEF EventTypes
  <1>14. ASSUME NEW t \in Tokens, t # u
        PROVE  rows'[t] = rows[t] /\ \A e \in EventTypes : Occurred(t, e)' = Occurred(t, e)
    <2>1. rows'[t] = rows[t] /\ limit'[t] = limit[t] /\ accepted'[t] = accepted[t]
      BY <1>2, <1>3, <1>14
    <2> QED  BY <1>2, <2>1, OccurredSame
  <1>15. faults' = 0 => faults = 0  BY <1>2, <1>3, CommittedFaults
  <1>16. \A t \in Tokens, e \in EventTypes : Occurred(t, e) \in Nat
    BY Counted DEF Events
  <1>17. ASSUME NEW t \in Tokens, NEW e \in EventTypes
         PROVE  LET n == IF t = req[c].tok /\ In(e, s) THEN 1 ELSE 0
                IN  /\ Occurred(t, e) + n <= Occurred(t, e)'
                    /\ Told(t, e)' => /\ Told(t, e) \/ Occurred(t, e) = 0
                                      /\ Occurred(t, e)' = Occurred(t, e) + n
    <2>1. CASE t = u
      <3>1. Told(t, e)' => Told(t, e)  BY <1>4, <1>15, <2>1 DEF Told
      <3>2. Occurred(t, e)' = Occurred(t, e) + IF In(e, s) THEN 1 ELSE 0  BY <1>13, <2>1
      <3> QED  BY <1>0, <1>16, <2>1, <3>1, <3>2
    <2>2. CASE t # u  BY <1>0, <1>14, <1>15, <1>16, <2>2 DEF Told
    <2> QED  BY <2>1, <2>2
  <1> QED  BY <1>1, <1>2, <1>11, <1>17, CommitStep

LEMMA RevokeTokenEvents ==
    ASSUME IInv, IInv', Events, NEW c \in Clients, RevokeToken(c),
           ~ UNCHANGED <<rows, faults>>
    PROVE  Events'
  <1> DEFINE s == <<"token.revoked">>
  <1>0. PICK u \in Tokens : u = req[c].tok
    BY DEF RevokeToken, Executing, IInv, Ready
  <1>1. req[c].pc = "queued" /\ req[c].ts \in Nat
    BY DEF RevokeToken, Executing, IInv, Ready
  <1>2. /\ Revocable(rows[u], req[c].env)
        /\ rows' = [rows EXCEPT ![u].revoked = req[c].ts]
        /\ Committed(c, s) /\ UNCHANGED history /\ UNCHANGED emitted
    BY <1>0 DEF RevokeToken
  <1>3. rows \in [Tokens -> Row \cup {Null}] /\ faults \in Nat  BY DEF IInv, TypeOK
  <1>4. rows[u] \in Row /\ rows[u] # Null /\ rows[u].revoked = Null
    BY <1>1, <1>2, <1>3 DEF Revocable, InEnv
  <1>5. u \in issued  BY <1>1, <1>4 DEF IInv, Unissued
  <1>6. s \in Todo /\ \A e : In(e, s) <=> e = "token.revoked"  BY InTuples DEF Todo
  <1>7. rows'[u].revoked # Null  BY <1>1, <1>2, <1>3, <1>4, NullAssumption DEF Row
  <1>8. issued' = issued /\ accepted' = accepted /\ limit' = limit  BY <1>2 DEF history
  <1>9. u \notin Closed /\ u \in Closed'  BY <1>4, <1>5, <1>7, <1>8 DEF Closed
  <1> HIDE DEF s
  <1>10. \A e \in EventTypes : e # "token.revoked" => Occurred(u, e)' = Occurred(u, e)
    BY <1>8 DEF Occurred, EventTypes
  <1>11. Occurred(u, "token.revoked") = 0 /\ Occurred(u, "token.revoked")' = 1
    BY <1>9 DEF Occurred
  <1>12. ASSUME NEW t \in Tokens, t # u
        PROVE  rows'[t] = rows[t] /\ \A e \in EventTypes : Occurred(t, e)' = Occurred(t, e)
    <2>1. rows'[t] = rows[t]  BY <1>2, <1>3, <1>12
    <2> QED  BY <1>8, <2>1, OccurredSame
  <1>13. faults' = 0 => faults = 0  BY <1>2, <1>3, CommittedFaults
  <1>14. \A t \in Tokens, e \in EventTypes : Occurred(t, e) \in Nat
    BY Counted DEF Events
  <1>15. ASSUME NEW t \in Tokens, NEW e \in EventTypes
         PROVE  LET n == IF t = req[c].tok /\ In(e, s) THEN 1 ELSE 0
                IN  /\ Occurred(t, e) + n <= Occurred(t, e)'
                    /\ Told(t, e)' => /\ Told(t, e) \/ Occurred(t, e) = 0
                                      /\ Occurred(t, e)' = Occurred(t, e) + n
    <2>1. CASE t = u
      <3>1. Told(t, e)' => Told(t, e)  BY <1>4, <1>13, <2>1 DEF Told
      <3> QED  BY <1>0, <1>6, <1>10, <1>11, <1>14, <2>1, <3>1
    <2>2. CASE t # u  BY <1>0, <1>12, <1>13, <1>14, <2>2 DEF Told
    <2> QED  BY <2>1, <2>2
  <1> QED  BY <1>1, <1>2, <1>6, <1>15, CommitStep

LEMMA DeleteTokenEvents ==
    ASSUME IInv, IInv', Events, NEW c \in Clients, DeleteToken(c), ~ Missed(c, "not_found")
    PROVE  Events'
  <1>1. /\ req[c].pc = "queued" /\ rows' = [rows EXCEPT ![req[c].tok] = Null]
        /\ Committed(c, <<>>) /\ UNCHANGED history /\ UNCHANGED emitted
    BY DEF DeleteToken, Executing
  <1>2. rows \in [Tokens -> Row \cup {Null}] /\ faults \in Nat  BY DEF IInv, TypeOK
  <1>3. <<>> \in Todo /\ \A e : ~ In(e, <<>>)  BY InTuples DEF Todo
  <1>4. faults' = 0 => faults = 0  BY <1>1, <1>2, CommittedFaults
  <1>5. \A t \in Tokens : rows'[t] = rows[t] \/ rows'[t] = Null  BY <1>1, <1>2
  <1>6. \A t \in Tokens, e \in EventTypes : Occurred(t, e) \in Nat
    BY Counted DEF Events
  <1>7. \A t \in Tokens, e \in EventTypes :
           /\ Occurred(t, e) <= Occurred(t, e)'
           /\ rows'[t] # Null \/ e # "token.revoked" => Occurred(t, e)' = Occurred(t, e)
    BY <1>1, <1>5, OccurredGone
  <1>8. \A t \in Tokens, e \in EventTypes :
            LET n == IF t = req[c].tok /\ In(e, <<>>) THEN 1 ELSE 0
            IN  /\ Occurred(t, e) + n <= Occurred(t, e)'
                /\ Told(t, e)' => /\ Told(t, e) \/ Occurred(t, e) = 0
                                  /\ Occurred(t, e)' = Occurred(t, e) + n
    BY <1>3, <1>4, <1>5, <1>6, <1>7 DEF Told
  <1> QED  BY <1>1, <1>3, <1>8, CommitStep

(* A request without events comes, goes or moves on without any.           *)
LEMMA SwapStep ==
    ASSUME Todos, req \in [Clients -> Request], NEW c \in Clients, req[c].todo = <<>>,
           \/ \E r : r.todo = <<>> /\ req' = [req EXCEPT ![c] = r]
           \/ \E pc, a : Continue(c, pc, <<>>, a)
    PROVE  Todos' /\ \A t, e : Waiting(t, e)' = Waiting(t, e)
  <1>1. \E r : r.todo = <<>> /\ req' = [req EXCEPT ![c] = r]
    <2>1. ASSUME NEW pc, NEW a, Continue(c, pc, <<>>, a)
          PROVE  \E r : r.todo = <<>> /\ req' = [req EXCEPT ![c] = r]
      <3> DEFINE r == [req[c] EXCEPT !.pc = pc, !.ts = Null, !.row = Null, !.todo = <<>>,
                                     !.answer = a]
      <3>1. r.todo = <<>>  BY DEF Request
      <3>2. req' = [req EXCEPT ![c] = r]  BY <2>1 DEF Continue
      <3> QED  BY <3>1, <3>2
    <2> QED  BY <2>1
  <1>2. PICK r : r.todo = <<>> /\ req' = [req EXCEPT ![c] = r]  BY <1>1
  <1>3. req'[c].todo = <<>> /\ \A d \in Clients : d # c => req'[d] = req[d]  BY <1>2
  <1>4. <<>> \in Todo  BY DEF Todo
  <1>5. Todos'  BY <1>3, <1>4 DEF Todos
  <1>6. ASSUME NEW t, NEW e PROVE Waiting(t, e)' = Waiting(t, e)
    <2>1. \A d \in Clients : d # c => (d \in Waiting(t, e)' <=> d \in Waiting(t, e))
      BY <1>3 DEF Waiting, In
    <2>2. c \notin Waiting(t, e)' /\ c \notin Waiting(t, e)
      BY <1>3, InTuples DEF Waiting, In
    <2>3. Waiting(t, e)' \subseteq Clients /\ Waiting(t, e) \subseteq Clients
      BY DEF Waiting
    <2> HIDE DEF Waiting
    <2> QED  BY <2>1, <2>2, <2>3
  <1> QED  BY <1>5, <1>6

LEMMA RequestsSame ==
    ASSUME Todos, UNCHANGED req
    PROVE  Todos' /\ \A t, e : Waiting(t, e)' = Waiting(t, e)
  BY DEF Todos, Waiting, In

(* A quiet step among the rows: some may go, no history is made.           *)
LEMMA QuietRows ==
    ASSUME IInv, IInv', Events, Todos', \A t, e : Waiting(t, e)' = Waiting(t, e),
           UNCHANGED emitted, UNCHANGED history,
           \A t \in Tokens : rows'[t] = rows[t] \/ rows'[t] = Null,
           faults' = faults \/ faults' = faults + 1
    PROVE  Events'
  <1>1. \A t \in Tokens, e \in EventTypes :
           /\ Occurred(t, e) <= Occurred(t, e)'
           /\ rows'[t] # Null \/ e # "token.revoked" => Occurred(t, e)' = Occurred(t, e)
    BY OccurredGone
  <1>2. faults \in Nat  BY DEF IInv, TypeOK
  <1>3. faults' = 0 => faults = 0  BY <1>2
  <1>4. \A t \in Tokens, e \in EventTypes :
           Told(t, e)' => Told(t, e) /\ Occurred(t, e)' = Occurred(t, e)
    BY <1>1, <1>3 DEF Told
  <1> QED  BY <1>1, <1>4, QuietStep

(* The head of a todo is not in its tail.                                  *)
LEMMA TodoTail ==
    ASSUME NEW s \in Todo, s # <<>>
    PROVE  /\ Tail(s) \in Todo /\ Head(s) \in EventTypes /\ In(Head(s), s)
           /\ ~ In(Head(s), Tail(s))
           /\ \A e : e # Head(s) => (In(e, Tail(s)) <=> In(e, s))
  <1>1. ASSUME NEW x \in EventTypes, s = <<x>>
        PROVE  Head(s) = x /\ Tail(s) = <<>>
    BY <1>1
  <1>2. ASSUME s = <<"token.consumed", "token.exhausted">>
        PROVE  Head(s) = "token.consumed" /\ Tail(s) = <<"token.exhausted">>
    BY <1>2
  <1>3. \/ \E x \in EventTypes : s = <<x>>
        \/ s = <<"token.consumed", "token.exhausted">>
    BY DEF Todo, EventTypes
  <1>4. CASE \E x \in EventTypes : s = <<x>>
    <2>1. PICK x \in EventTypes : s = <<x>>  BY <1>4
    <2>2. Head(s) = x /\ Tail(s) = <<>>  BY <1>1, <2>1
    <2>3. <<>> \in Todo  BY DEF Todo
    <2> QED  BY <2>1, <2>2, <2>3, InTuples
  <1>5. CASE s = <<"token.consumed", "token.exhausted">>
    <2>1. Head(s) = "token.consumed" /\ Tail(s) = <<"token.exhausted">>  BY <1>2, <1>5
    <2>2. <<"token.exhausted">> \in Todo /\ "token.consumed" \in EventTypes
      BY DEF Todo, EventTypes
    <2> QED  BY <1>5, <2>1, <2>2, InTuples
  <1> QED  BY <1>3, <1>4, <1>5

(* Sending an event moves it from the waiting to the emitted.              *)
LEMMA EmitEvents ==
    ASSUME IInv, IInv', Events, NEW c \in Clients, EmitTokenEvent(c)
    PROVE  Events'
  <1>0. PICK u \in Tokens, s \in Todo : u = req[c].tok /\ s = req[c].todo
    BY DEF EmitTokenEvent, Events, Todos, IInv, Ready
  <1>1. Todos /\ FewWaiting /\ AllMatched  BY DEF Events
  <1>2. /\ s # <<>>
        /\ emitted' = [emitted EXCEPT ![u][Head(s)] = @ + 1]
        /\ UNCHANGED <<rows, faults, history>>
    BY <1>0 DEF EmitTokenEvent, IInv, Ready
  <1>3. /\ req \in [Clients -> Request] /\ faults \in Nat
        /\ emitted \in [Tokens -> [EventTypes -> Nat]]
    BY DEF IInv, TypeOK
  <1>4. /\ Tail(s) \in Todo /\ Head(s) \in EventTypes /\ In(Head(s), s)
        /\ ~ In(Head(s), Tail(s))
        /\ \A e : e # Head(s) => (In(e, Tail(s)) <=> In(e, s))
    BY <1>2, TodoTail
  <1>5. \E pc, a : Continue(c, pc, Tail(s), a) /\ (pc = "emit" \/ Tail(s) = <<>>)
    BY <1>0 DEF EmitTokenEvent, Answer
  <1>6. Todos'  BY <1>1, <1>3, <1>4, <1>5, TodosMove
  <1>7. ASSUME NEW t, NEW e
        PROVE  Waiting(t, e)' = IF t = u /\ e = Head(s) THEN Waiting(t, e) \ {c}
                                                       ELSE Waiting(t, e)
    <2>1. Waiting(t, e)' = IF u = t /\ In(e, Tail(s)) THEN Waiting(t, e) \cup {c}
                                                     ELSE Waiting(t, e) \ {c}
      BY <1>0, <1>3, <1>5, WaitingMoves
    <2>2. c \in Waiting(t, e) <=> u = t /\ In(e, s)  BY <1>0 DEF Waiting
    <2> QED  BY <1>4, <2>1, <2>2
  <1>8. c \in Waiting(u, Head(s))  BY <1>0, <1>4 DEF Waiting
  <1>9. FewWaiting'  BY <1>1, <1>7, FS_RemoveElement DEF FewWaiting
  <1>10. ASSUME NEW t \in Tokens, NEW e \in EventTypes PROVE Matched(t, e)'
    <2> DEFINE n == IF t = u /\ e = Head(s) THEN 1 ELSE 0
    <2>1. /\ emitted[t][e] \in Nat /\ Pending(t, e) \in Nat
          /\ Occurred(t, e) \in Nat
      BY <1>1, Counted
    <2>2. emitted'[t][e] = emitted[t][e] + n  BY <1>2, <1>3, <1>4, <2>1
    <2>3. Pending(t, e)' = Pending(t, e) - n
      <3>1. Pending(t, e)' = Cardinality(Waiting(t, e)')  BY DEF Pending, Waiting, In
      <3>2. Pending(t, e) = Cardinality(Waiting(t, e))  BY PendingWaits
      <3>3. CASE t = u /\ e = Head(s)
        <4>1. Cardinality(Waiting(t, e) \ {c}) = Cardinality(Waiting(t, e)) - 1
          BY <1>1, <1>8, <3>3, FS_RemoveElement DEF FewWaiting
        <4> QED  BY <1>7, <3>1, <3>2, <3>3, <4>1
      <3>4. CASE ~ (t = u /\ e = Head(s))
        BY <1>7, <2>1, <3>1, <3>2, <3>4
      <3> QED  BY <3>3, <3>4
    <2>4. Occurred(t, e)' = Occurred(t, e)
      BY <1>2, OccurredSame DEF history
    <2>5. Told(t, e)' => Told(t, e)  BY <1>2 DEF Told
    <2>6. n \in {0, 1}  OBVIOUS
    <2> HIDE DEF n
    <2>7. emitted'[t][e] + Pending(t, e)' + Occurred(t, e)
               = emitted[t][e] + Pending(t, e) + Occurred(t, e)'
      BY <2>1, <2>2, <2>3, <2>4, <2>6
    <2>8. emitted'[t][e] + Pending(t, e)' + Occurred(t, e)
               <= emitted[t][e] + Pending(t, e) + Occurred(t, e)'
      BY <2>1, <2>4, <2>7
    <2>9. Matched(t, e)  BY <1>1 DEF AllMatched
    <2> QED  BY <1>1, <1>9, <2>5, <2>7, <2>8, <2>9, Balance
  <1> QED  BY <1>6, <1>9, <1>10 DEF Events, AllMatched

(* A crash loses what was waiting, and is a fault.                         *)
LEMMA CrashEvents ==
    ASSUME IInv, IInv', Events, Crash
    PROVE  Events'
  <1>1. FewWaiting /\ AllMatched  BY DEF Events
  <1>2. /\ req' = [c \in Clients |-> Idle] /\ faults' = faults + 1
        /\ UNCHANGED rows /\ UNCHANGED history /\ UNCHANGED emitted
    BY DEF Crash
  <1>3. \A c \in Clients : req'[c].todo = <<>>  BY <1>2 DEF Idle
  <1>4. Todos'  BY <1>3 DEF Todos, Todo
  <1>5. ASSUME NEW t, NEW e PROVE Waiting(t, e)' = {}
    BY <1>3, InTuples DEF Waiting, In
  <1>6. FewWaiting'  BY <1>5, FS_EmptySet DEF FewWaiting
  <1>7. ASSUME NEW t \in Tokens, NEW e \in EventTypes PROVE Matched(t, e)'
    <2>1. /\ emitted[t][e] \in Nat /\ Pending(t, e) \in Nat
          /\ Occurred(t, e) \in Nat /\ faults \in Nat
      BY <1>1, Counted
    <2>2. Pending(t, e)' = 0
      <3>1. Pending(t, e)' = Cardinality(Waiting(t, e)')  BY DEF Pending, Waiting, In
      <3> QED  BY <1>5, <3>1, FS_EmptySet
    <2>3. Occurred(t, e)' = Occurred(t, e)
      BY <1>2, OccurredSame DEF history
    <2>4. ~ Told(t, e)'  BY <1>2, <2>1 DEF Told
    <2>5. emitted'[t][e] + Pending(t, e)' + Occurred(t, e)
               <= emitted[t][e] + Pending(t, e) + Occurred(t, e)'
      BY <1>2, <2>1, <2>2, <2>3
    <2>6. Matched(t, e)  BY <1>1 DEF AllMatched
    <2> QED  BY <1>1, <1>6, <2>4, <2>5, <2>6, Balance
  <1> QED  BY <1>4, <1>6, <1>7 DEF Events, AllMatched

(* The steps of a request that change no row.                              *)
LEMMA RequestEvents ==
    ASSUME IInv, IInv', Events, NEW c \in Clients,
           \/ Arrive(c) \/ ReadBack(c) \/ Reply(c) \/ Fail(c)
           \/ ConsumeToken(c) /\ Missed(c, "invalid_token")
           \/ DeleteToken(c) /\ Missed(c, "not_found")
           \/ RevokeToken(c) /\ UNCHANGED <<rows, faults>>
    PROVE  Events'
  <1>1. req \in [Clients -> Request] /\ Todos  BY DEF IInv, TypeOK, Events
  <1>2. ASSUME req[c].todo = <<>>, UNCHANGED <<rows, emitted>>, UNCHANGED history,
               faults' = faults \/ faults' = faults + 1,
               \/ \E r : r.todo = <<>> /\ req' = [req EXCEPT ![c] = r]
               \/ \E pc, a : Continue(c, pc, <<>>, a)
        PROVE  Events'
    BY <1>1, <1>2, SwapStep, QuietRows
  <1>3. req[c].pc # "emit" => req[c].todo = <<>>  BY <1>1 DEF Todos
  <1>4. CASE Arrive(c)
    <2>1. PICK op, e, t, row : Queue(c, op, e, t, row)
      BY <1>4 DEF Arrive, CreateRequest, ConsumeRequest, RevokeRequest, DeleteRequest
    <2> DEFINE r == [Idle EXCEPT !.pc = "queued", !.op = op, !.env = e,
                                 !.tok = t, !.ts = now, !.row = row]
    <2>2. r.todo = <<>>  BY DEF Idle
    <2>3. req' = [req EXCEPT ![c] = r] /\ req[c].pc = "idle"
          /\ UNCHANGED <<rows, emitted, faults>> /\ UNCHANGED history
      BY <2>1 DEF Queue
    <2> HIDE DEF r
    <2> QED  BY <1>2, <1>3, <2>2, <2>3
  <1>5. CASE Reply(c)
    <2>1. Idle.todo = <<>>  BY DEF Idle
    <2> QED  BY <1>2, <1>3, <1>5, <2>1 DEF Reply
  <1>6. CASE ReadBack(c) \/ Fail(c)
    <2>1. \E a : Continue(c, "done", <<>>, a)  BY <1>6 DEF ReadBack, Fail, Answer
    <2> QED  BY <1>2, <1>3, <1>6, <2>1 DEF ReadBack, Fail
  <1>7. CASE \/ ConsumeToken(c) /\ Missed(c, "invalid_token")
             \/ DeleteToken(c) /\ Missed(c, "not_found")
    <2>1. /\ \E a : Continue(c, "done", <<>>, a)
          /\ UNCHANGED <<rows, faults>> /\ UNCHANGED history
      BY <1>7 DEF Missed, Answer
    <2>2. req[c].pc = "queued" /\ UNCHANGED emitted
      BY <1>7 DEF ConsumeToken, DeleteToken, Executing
    <2> QED  BY <1>2, <1>3, <2>1, <2>2
  <1>8. CASE RevokeToken(c) /\ UNCHANGED <<rows, faults>>
    <2>1. req[c].pc = "queued" /\ UNCHANGED emitted /\ UNCHANGED history
      BY <1>8 DEF RevokeToken, Executing
    <2>2. \E pc, a : Continue(c, pc, <<>>, a)
      <3>1. CASE Continue(c, "readback", <<>>, Null)  BY <3>1
      <3>2. CASE /\ Revocable(rows[req[c].tok], req[c].env)
                 /\ rows' = [rows EXCEPT ![req[c].tok].revoked = req[c].ts]
        <4>1. req[c].tok \in Tokens /\ req[c].ts \in Nat
          BY <2>1 DEF IInv, Ready
        <4>2. rows[req[c].tok] \in Row /\ rows[req[c].tok].revoked = Null
              /\ rows \in [Tokens -> Row \cup {Null}]
          BY <3>2, <4>1 DEF Revocable, InEnv, IInv, TypeOK
        <4>3. rows'[req[c].tok].revoked = req[c].ts  BY <3>2, <4>1, <4>2 DEF Row
        <4> QED  BY <1>8, <4>1, <4>2, <4>3, NullAssumption
      <3> QED  BY <1>8, <3>1, <3>2 DEF RevokeToken
    <2> QED  BY <1>2, <1>3, <1>8, <2>1, <2>2
  <1> QED  BY <1>4, <1>5, <1>6, <1>7, <1>8

LEMMA EventsStep ==
    ASSUME IInv, IInv', Events, [Next]_vars
    PROVE  Events'
  <1>1. Todos /\ rows \in [Tokens -> Row \cup {Null}] /\ faults \in Nat
    BY DEF Events, IInv, TypeOK
  <1>2. ASSUME UNCHANGED req, UNCHANGED emitted, UNCHANGED history,
               \A t \in Tokens : rows'[t] = rows[t] \/ rows'[t] = Null,
               faults' = faults \/ faults' = faults + 1
        PROVE  Events'
    BY <1>1, <1>2, RequestsSame, QuietRows
  <1>3. ASSUME NEW c \in Clients, Arrive(c) \/ Fail(c) PROVE Events'
    BY <1>3, RequestEvents
  <1>4. ASSUME NEW c \in Clients, Serve(c) PROVE Events'
    <2>1. CASE CreateToken(c)  BY <2>1, CreateTokenEvents
    <2>2. CASE ConsumeToken(c)  BY <2>2, ConsumeTokenEvents, RequestEvents
    <2>3. CASE RevokeToken(c)  BY <2>3, RevokeTokenEvents, RequestEvents
    <2>4. CASE DeleteToken(c)  BY <2>4, DeleteTokenEvents, RequestEvents
    <2>5. CASE EmitTokenEvent(c)  BY <2>5, EmitEvents
    <2>6. CASE ReadBack(c) \/ Reply(c)  BY <2>6, RequestEvents
    <2> QED  BY <1>4, <2>1, <2>2, <2>3, <2>4, <2>5, <2>6 DEF Serve
  <1>5. ASSUME NEW Old, DrainBatch(Old) PROVE Events'
    BY <1>2, <1>5 DEF DrainBatch
  <1>6. ASSUME StartSweep \/ DrainError \/ Tick \/ UNCHANGED vars PROVE Events'
    BY <1>2, <1>6 DEF StartSweep, DrainError, Tick, vars, history
  <1>7. CASE Crash  BY <1>7, CrashEvents
  <1> QED
    BY <1>3, <1>4, <1>5, <1>6, <1>7 DEF Next, Sweep, DeleteExpiredTokens, DeleteSettledTokens

(* The events are in order in every reachable state.                       *)
LEMMA EventsHold == Spec => []Events
  <1>1. Init => Events
    <2> SUFFICES ASSUME Init PROVE Events  OBVIOUS
    <2>1. \A c \in Clients : req[c].todo = <<>>  BY DEF Init, Idle
    <2>2. Todos  BY <2>1 DEF Todos, Todo
    <2>3. \A t, e : Waiting(t, e) = {}  BY <2>1, InTuples DEF Waiting
    <2>4. FewWaiting  BY <2>3, FS_EmptySet DEF FewWaiting
    <2>5. \A t, e : Pending(t, e) = 0  BY <2>3, PendingWaits, FS_EmptySet
    <2>6. \A t \in Tokens, e \in EventTypes : emitted[t][e] = 0 /\ Occurred(t, e) = 0
      BY DEF Init, Occurred, Closed, EventTypes
    <2>7. AllMatched  BY <2>5, <2>6 DEF AllMatched, Matched
    <2> QED  BY <2>2, <2>4, <2>7 DEF Events
  <1>2. IInv /\ IInv' /\ Events /\ [Next]_vars => Events'  BY EventsStep
  <1> QED  BY Invariance, <1>1, <1>2, PTL DEF Spec

(* Every committed change is told once, and none is missing unless there   *)
(* was a fault: the events of the database layer match its commits.        *)
THEOREM EventsMatch == Spec => []EventsMatchCommits
  <1>1. Events => EventsMatchCommits
    BY DEF Events, AllMatched, Matched, Told, EventsMatchCommits
  <1> QED  BY EventsHold, <1>1, PTL

-----------------------------------------------------------------------------
(* How many steps a request still takes: its write, at most two events or  *)
(* the read-back, its answer.                                              *)
StepsLeft(c) == CASE req[c].pc = "idle"     -> 0
                  [] req[c].pc = "done"     -> 1
                  [] req[c].pc = "readback" -> 2
                  [] req[c].pc = "emit"     -> 1 + Len(req[c].todo)
                  [] req[c].pc = "queued"   -> 4

OnlyForward == [][\A c \in Clients : req[c].pc # "idle" /\ req'[c] # req[c]
                                        => StepsLeft(c)' < StepsLeft(c)]_vars

LEMMA TodoLengths ==
    ASSUME NEW s \in Todo
    PROVE  /\ Len(s) \in 0..2
           /\ s # <<>> => Len(s) > 0 /\ Len(Tail(s)) = Len(s) - 1
  <1>1. CASE s = <<>>  BY <1>1
  <1>2. ASSUME NEW x \in EventTypes, s = <<x>> PROVE Len(s) = 1 /\ Len(Tail(s)) = 0
    BY <1>2
  <1>3. CASE s = <<"token.consumed", "token.exhausted">>
    <2>1. Len(s) = 2 /\ Len(Tail(s)) = 1  BY <1>3
    <2> QED  BY <2>1
  <1>4. s = <<>> \/ s = <<"token.consumed", "token.exhausted">> \/ \E x \in EventTypes : s = <<x>>
    BY DEF Todo, EventTypes
  <1> QED  BY <1>1, <1>2, <1>3, <1>4

(* A step of the request itself takes it on.                               *)
LEMMA StepsFewer ==
    ASSUME IInv, Todos, Todos', NEW c \in Clients, Serve(c) \/ Fail(c)
    PROVE  StepsLeft(c)' < StepsLeft(c)
  <1>1. req \in [Clients -> Request] /\ req[c].todo \in Todo /\ req'[c].todo \in Todo
    BY DEF IInv, TypeOK, Todos
  <1>2. /\ Len(req[c].todo) \in 0..2 /\ Len(req'[c].todo) \in 0..2
        /\ req[c].todo # <<>> => Len(Tail(req[c].todo)) = Len(req[c].todo) - 1
    BY <1>1, TodoLengths
  <1>3. ASSUME req[c].pc = "queued", NEW pc \in {"emit", "readback", "done"}, NEW s, NEW a,
               Continue(c, pc, s, a)
        PROVE  StepsLeft(c)' < StepsLeft(c)
    <2>1. req'[c].pc = pc  BY <1>3, ContinueFields
    <2>2. StepsLeft(c) = 4  BY <1>3 DEF StepsLeft
    <2>3. CASE pc = "emit"
      <3>1. StepsLeft(c)' = 1 + Len(req'[c].todo)  BY <2>1, <2>3 DEF StepsLeft
      <3>2. PICK n \in 0..2 : n = Len(req'[c].todo)  BY <1>2
      <3>3. StepsLeft(c)' = 1 + n  BY <3>1, <3>2
      <3> QED  BY <2>2, <3>3
    <2>4. CASE pc # "emit"
      <3>1. StepsLeft(c)' \in 1..2  BY <1>3, <2>1, <2>4 DEF StepsLeft
      <3> QED  BY <2>2, <3>1
    <2> QED  BY <2>3, <2>4
  <1>4. CASE CreateToken(c) \/ ConsumeToken(c) \/ RevokeToken(c) \/ DeleteToken(c)
    BY <1>3, <1>4 DEF CreateToken, ConsumeToken, RevokeToken, DeleteToken, Executing, Missed,
                      Committed, Answer
  <1>5. CASE EmitTokenEvent(c)
    <2>1. req[c].pc = "emit" /\ req[c].todo # <<>>  BY <1>5 DEF EmitTokenEvent, IInv, Ready
    <2>2. StepsLeft(c) = 1 + Len(req[c].todo) /\ Len(req[c].todo) >= 1
      BY <1>1, <2>1, TodoLengths DEF StepsLeft
    <2>3. CASE Continue(c, "done", <<>>, "ok")
      <3>1. req'[c].pc = "done"  BY <2>3, ContinueFields
      <3>2. StepsLeft(c)' = 1  BY <3>1 DEF StepsLeft
      <3> QED  BY <1>2, <2>2, <3>2
    <2>4. CASE Continue(c, "emit", Tail(req[c].todo), Null)
      <3>1. req'[c].pc = "emit"  BY <2>4, ContinueFields
      <3>2. req'[c].todo = Tail(req[c].todo)  BY <1>1, <2>4 DEF Continue, Request
      <3>3. StepsLeft(c)' = 1 + Len(req'[c].todo)  BY <3>1 DEF StepsLeft
      <3> QED  BY <1>2, <2>1, <2>2, <3>2, <3>3
    <2> QED  BY <1>5, <2>3, <2>4 DEF EmitTokenEvent, Answer
  <1>6. CASE ReadBack(c)
    <2>1. req[c].pc = "readback" /\ \E a : Continue(c, "done", <<>>, a)
      BY <1>6 DEF ReadBack, Answer
    <2>2. req'[c].pc = "done"  BY <2>1, ContinueFields
    <2> QED  BY <2>1, <2>2 DEF StepsLeft
  <1>7. CASE Reply(c)
    <2>1. req[c].pc = "done" /\ req'[c].pc = "idle"  BY <1>1, <1>7 DEF Reply, Idle
    <2> QED  BY <2>1 DEF StepsLeft
  <1>8. CASE Fail(c)
    <2>1. req[c].pc \in {"queued", "readback"} /\ Continue(c, "done", <<>>, "error")
      BY <1>8 DEF Fail, Answer
    <2>2. req'[c].pc = "done"  BY <2>1, ContinueFields
    <2> QED  BY <2>1, <2>2 DEF StepsLeft
  <1> QED  BY <1>4, <1>5, <1>6, <1>7, <1>8 DEF Serve

(* A request only moves on: whatever the others, the clean-up and the      *)
(* faults do, each change of it takes it nearer to its answer, so it is    *)
(* answered in at most four steps of its own and never starts over.        *)
THEOREM NoRequestStartsOver == Spec => OnlyForward
  <1>1. Todos /\ IInv /\ [Next]_vars /\ Todos'
            => [\A c \in Clients : req[c].pc # "idle" /\ req'[c] # req[c]
                                        => StepsLeft(c)' < StepsLeft(c)]_vars
    <2> SUFFICES ASSUME Todos, IInv, [Next]_vars, Todos', NEW c \in Clients,
                        req[c].pc # "idle", req'[c] # req[c]
                 PROVE  StepsLeft(c)' < StepsLeft(c)
      OBVIOUS
    <2>1. CASE req' = [d \in Clients |-> Idle]
      <3>1. StepsLeft(c)' = 0  BY <2>1 DEF StepsLeft, Idle
      <3>2. StepsLeft(c) > 0
        <4>1. req[c].pc \in {"queued", "emit", "readback", "done"}
          BY DEF IInv, TypeOK, Request
        <4>2. Len(req[c].todo) \in 0..2  BY TodoLengths DEF Todos
        <4> QED  BY <4>1, <4>2 DEF StepsLeft
      <3> QED  BY <3>1, <3>2
    <2>2. ASSUME NEW d \in Clients, Arrive(d) \/ Serve(d) \/ Fail(d),
                 \A b \in Clients : b # d => req'[b] = req[b]
          PROVE  StepsLeft(c)' < StepsLeft(c)
      <3>1. d = c  BY <2>2
      <3>2. ~ Arrive(c)
        BY DEF Arrive, CreateRequest, ConsumeRequest, RevokeRequest, DeleteRequest, Queue
      <3> QED  BY <2>2, <3>1, <3>2, StepsFewer
    <2> QED  BY <2>1, <2>2, RequestStep
  <1>2. IInv /\ Events => Todos  BY DEF Events
  <1> QED  BY Invariance, EventsHold, <1>1, <1>2, PTL DEF Spec, OnlyForward

-----------------------------------------------------------------------------
(* The rows the DELETEs of a phase are after.                              *)
Overdue(phase, at) ==
    IF phase = "expired" THEN {t \in Tokens : LongExpired(rows[t], at - ExpiredRetention)}
                         ELSE {t \in Tokens : LongSettled(rows[t], at - ConsumedRetention)}

(* The DELETEs a sweep may still make. *)
DeletesLeft == CASE sweep.phase = "idle"    -> 0
                 [] sweep.phase = "settled" -> MaxBatches - sweep.batch
                 [] sweep.phase = "expired" -> (MaxBatches - sweep.batch) + MaxBatches

WithinCap == sweep.phase # "idle" => sweep.batch < MaxBatches

(***************************************************************************)
(* What a step of a sweep that did not fail achieves: it is one of the few *)
(* left, it takes nothing but overdue rows and a full batch of them, or    *)
(* all, and a phase is left only when it has none left or used up its cap. *)
(***************************************************************************)
SweepWorks ==
    [][\A p \in {"expired", "settled"}, a \in Nat :
          sweep.phase = p /\ sweep.at = a /\ sweep' # sweep /\ faults' = faults =>
             /\ DeletesLeft' < DeletesLeft
             /\ \/ Overdue(p, a)' = {}
                \/ /\ Overdue(p, a)' \subseteq Overdue(p, a)
                   /\ Cardinality(Overdue(p, a) \ Overdue(p, a)') = BatchSize
             /\ sweep'.phase # p => Overdue(p, a)' = {} \/ sweep.batch + 1 = MaxBatches]_vars

LEMMA WithinCapStep ==
    ASSUME IInv, WithinCap, [Next]_vars
    PROVE  WithinCap'
  <1>1. sweep \in [phase: {"idle", "expired", "settled"}, at: Nat \cup {Null}, batch: Nat]
    BY DEF IInv, TypeOK
  <1>2. MaxBatches \in Nat \ {0}  BY CleanUpAssumption
  <1>3. CASE UNCHANGED sweep  BY <1>3 DEF WithinCap
  <1>4. CASE sweep' = NotSweeping  BY <1>4 DEF WithinCap, NotSweeping
  <1>5. CASE StartSweep  BY <1>2, <1>5 DEF StartSweep, WithinCap
  <1>6. NextPhase = NotSweeping \/ NextPhase.batch = 0  BY <1>1 DEF NextPhase
  <1>7. CASE sweep' = NextPhase  BY <1>2, <1>4, <1>6, <1>7 DEF WithinCap
  <1>8. ASSUME NEW Old, DrainBatch(Old) PROVE WithinCap'
    <2>1. PICK D : sweep' = IF Drained(D, sweep.batch) THEN NextPhase
                                                      ELSE [sweep EXCEPT !.batch = @ + 1]
      BY <1>8 DEF DrainBatch
    <2>2. CASE ~ Drained(D, sweep.batch)
      <3>1. sweep'.batch = sweep.batch + 1  BY <1>1, <2>1, <2>2
      <3>2. ~ (sweep.batch + 1 >= MaxBatches) /\ sweep.batch \in Nat
        BY <1>1, <2>2 DEF Drained
      <3> QED  BY <1>2, <3>1, <3>2 DEF WithinCap
    <2> QED  BY <1>7, <2>1, <2>2
  <1>9. ASSUME NEW c \in Clients, Arrive(c) PROVE UNCHANGED sweep
    BY <1>9 DEF Arrive, CreateRequest, ConsumeRequest, RevokeRequest, DeleteRequest, Queue
  <1>10. ASSUME NEW c \in Clients, Serve(c) \/ Fail(c) PROVE UNCHANGED sweep
    BY <1>10 DEF Serve, CreateToken, ConsumeToken, RevokeToken, DeleteToken, EmitTokenEvent,
                 ReadBack, Reply, Fail
  <1>11. CASE Sweep  BY <1>5, <1>8, <1>11 DEF Sweep, DeleteExpiredTokens, DeleteSettledTokens
  <1>12. CASE DrainError \/ Crash \/ Tick \/ UNCHANGED vars
    BY <1>3, <1>4, <1>7, <1>12 DEF DrainError, Crash, Tick, vars
  <1> QED  BY <1>3, <1>9, <1>10, <1>11, <1>12 DEF Next

(* The step of a sweep that goes on without a fault is a DELETE of its     *)
(* phase.                                                                  *)
LEMMA SweepIsDelete ==
    ASSUME IInv, [Next]_vars, sweep.phase # "idle", sweep' # sweep, faults' = faults
    PROVE  DrainBatch(Overdue(sweep.phase, sweep.at))
  <1>1. faults \in Nat  BY DEF IInv, TypeOK
  <1>2. ASSUME NEW c \in Clients, Arrive(c) PROVE FALSE
    BY <1>2 DEF Arrive, CreateRequest, ConsumeRequest, RevokeRequest, DeleteRequest, Queue
  <1>3. ASSUME NEW c \in Clients, Serve(c) \/ Fail(c) PROVE FALSE
    BY <1>3 DEF Serve, CreateToken, ConsumeToken, RevokeToken, DeleteToken, EmitTokenEvent,
                ReadBack, Reply, Fail
  <1>4. ~ DrainError /\ ~ Crash  BY <1>1 DEF DrainError, Crash
  <1>5. ~ Tick /\ ~ UNCHANGED vars /\ ~ StartSweep  BY DEF Tick, vars, StartSweep
  <1>6. CASE DeleteExpiredTokens  BY <1>6 DEF DeleteExpiredTokens, Overdue
  <1>7. CASE DeleteSettledTokens  BY <1>7 DEF DeleteSettledTokens, Overdue
  <1> QED  BY <1>2, <1>3, <1>4, <1>5, <1>6, <1>7 DEF Next, Sweep

LEMMA BatchTaken ==
    ASSUME IInv, WithinCap, NEW p \in {"expired", "settled"}, NEW a \in Nat,
           sweep.phase = p, sweep.at = a, DrainBatch(Overdue(p, a))
    PROVE  /\ DeletesLeft' < DeletesLeft
           /\ \/ Overdue(p, a)' = {}
              \/ /\ Overdue(p, a)' \subseteq Overdue(p, a)
                 /\ Cardinality(Overdue(p, a) \ Overdue(p, a)') = BatchSize
           /\ sweep'.phase # p => Overdue(p, a)' = {} \/ sweep.batch + 1 = MaxBatches
  <1>1. /\ sweep \in [phase: {"idle", "expired", "settled"}, at: Nat \cup {Null}, batch: Nat]
        /\ rows \in [Tokens -> Row \cup {Null}]
    BY DEF IInv, TypeOK
  <1>2. MaxBatches \in Nat \ {0} /\ sweep.batch \in Nat /\ sweep.batch < MaxBatches
    BY <1>1, CleanUpAssumption DEF WithinCap
  <1>3. PICK D \in Batches(Overdue(p, a)) :
            /\ rows' = [t \in Tokens |-> IF t \in D THEN Null ELSE rows[t]]
            /\ sweep' = IF Drained(D, sweep.batch) THEN NextPhase
                                                  ELSE [sweep EXCEPT !.batch = @ + 1]
    BY DEF DrainBatch
  <1>4. /\ D \subseteq Overdue(p, a) /\ Cardinality(D) <= BatchSize
        /\ D # Overdue(p, a) => Cardinality(D) = BatchSize
    BY <1>3 DEF Batches
  <1>5. Overdue(p, a)' = Overdue(p, a) \ D
    BY <1>3, <1>4 DEF Overdue, LongExpired, LongSettled
  <1>6. \/ Overdue(p, a)' = {}
        \/ /\ Overdue(p, a)' \subseteq Overdue(p, a)
           /\ Cardinality(Overdue(p, a) \ Overdue(p, a)') = BatchSize
    <2>1. CASE D = Overdue(p, a)  BY <1>5, <2>1
    <2>2. CASE D # Overdue(p, a)
      <3>1. Overdue(p, a) \ Overdue(p, a)' = D  BY <1>4, <1>5
      <3> QED  BY <1>4, <1>5, <2>2, <3>1
    <2> QED  BY <2>1, <2>2
  <1>7. CASE ~ Drained(D, sweep.batch)
    <2>1. sweep' = [sweep EXCEPT !.batch = @ + 1]  BY <1>3, <1>7
    <2>2. sweep'.phase = p /\ sweep'.batch = sweep.batch + 1  BY <1>1, <2>1
    <2>3. DeletesLeft' < DeletesLeft  BY <1>2, <2>2 DEF DeletesLeft
    <2> QED  BY <1>6, <2>2, <2>3
  <1>8. CASE Drained(D, sweep.batch)
    <2>1. sweep' = NextPhase  BY <1>3, <1>8
    <2>2. DeletesLeft' < DeletesLeft
      <3>1. CASE p = "expired"
        <4>1. sweep'.phase = "settled" /\ sweep'.batch = 0  BY <1>1, <2>1, <3>1 DEF NextPhase
        <4> QED  BY <1>2, <3>1, <4>1 DEF DeletesLeft
      <3>2. CASE p = "settled"
        <4>1. sweep'.phase = "idle"  BY <2>1, <3>2 DEF NextPhase, NotSweeping
        <4> QED  BY <1>2, <3>2, <4>1 DEF DeletesLeft
      <3> QED  BY <3>1, <3>2
    <2>3. CASE Cardinality(D) < BatchSize
      <3>1. D = Overdue(p, a)  BY <1>4, <2>3, CleanUpAssumption
      <3> QED  BY <1>5, <1>6, <2>2, <3>1
    <2>4. CASE sweep.batch + 1 >= MaxBatches
      <3>1. sweep.batch + 1 = MaxBatches  BY <1>2, <2>4
      <3> QED  BY <1>6, <2>2, <3>1
    <2> QED  BY <1>8, <2>3, <2>4 DEF Drained
  <1> QED  BY <1>7, <1>8

(* Every DELETE of a sweep clears a batch of the overdue rows or the last  *)
(* of them, a sweep makes at most as many as drain allows for each of its  *)
(* two kinds, and it gives a kind up before it is clear only at that cap   *)
(* (Job.Sweep, drain, DeleteExpiredTokens, DeleteSettledTokens).           *)
THEOREM SweepsClear == Spec => SweepWorks
  <1>1. Init => WithinCap  BY DEF Init, WithinCap, NotSweeping
  <1>2. IInv /\ WithinCap /\ [Next]_vars => WithinCap'  BY WithinCapStep
  <1>3. IInv /\ WithinCap /\ [Next]_vars =>
          [\A p \in {"expired", "settled"}, a \in Nat :
              sweep.phase = p /\ sweep.at = a /\ sweep' # sweep /\ faults' = faults =>
                 /\ DeletesLeft' < DeletesLeft
                 /\ \/ Overdue(p, a)' = {}
                    \/ /\ Overdue(p, a)' \subseteq Overdue(p, a)
                       /\ Cardinality(Overdue(p, a) \ Overdue(p, a)') = BatchSize
                 /\ sweep'.phase # p => Overdue(p, a)' = {} \/ sweep.batch + 1 = MaxBatches]_vars
    BY SweepIsDelete, BatchTaken
  <1> QED  BY Invariance, <1>1, <1>2, <1>3, PTL DEF Spec, SweepWorks
=============================================================================
