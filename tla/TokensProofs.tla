---------------------------- MODULE TokensProofs ----------------------------
(***************************************************************************)
(* What Tokens promises for every number of tokens, clients, environments, *)
(* limits and faults.  IInv says why: a stored row counts exactly the      *)
(* redemptions that were committed (Accounts), a token that was not issued *)
(* has no row and no history (Unissued), and no two requests are about to  *)
(* insert the same token or one that exists (Creating).                    *)
(***************************************************************************)
EXTENDS Tokens, SequenceTheorems, TLAPS

(* What a request holds by the time each of its steps is taken. *)
Ready ==
    \A c \in Clients :
        /\ req[c].pc # "idle" => /\ req[c].op \in Ops
                                 /\ req[c].env \in Envs
                                 /\ req[c].tok \in Tokens
        /\ req[c].pc = "queued" => req[c].ts \in Nat
        /\ req[c].pc = "emit" => req[c].todo # <<>>

Creating ==
    \A c \in Clients :
        /\ Executing(c, "create") => /\ req[c].row \in Row
                                     /\ req[c].row.used = 0
                                     /\ req[c].row.max \in MaxUses
                                     /\ req[c].row.revoked = Null
                                     /\ req[c].tok \notin issued
        /\ req[c].pc = "idle" => req[c].op = Null
        /\ req[c].op = "create" =>
               \A d \in Clients : d # c /\ req[d].op = "create" => req[d].tok # req[c].tok

Accounts ==
    \A t \in Tokens : rows[t] # Null =>
        /\ rows[t].used = accepted[t]
        /\ rows[t].max = limit[t]

Unissued ==
    \A t \in Tokens : t \notin issued =>
        rows[t] = Null /\ accepted[t] = 0 /\ limit[t] = Null

IInv == TypeOK /\ Ready /\ Creating /\ Accounts /\ Unissued /\ SpendsWithinLimit

-----------------------------------------------------------------------------
(* The SQL condition of a status and StatusOf agree on every row and at    *)
(* every time (statusPredicate mirrors token.StatusOf).                    *)
THEOREM PredicateMirrorsStatus ==
    ASSUME NEW row \in Row, NEW ts \in Nat, NEW s \in Statuses
    PROVE  StatusPredicate(s, row, ts) <=> StatusOf(row, ts) = s
  BY NullAssumption DEF Row, Limit, Statuses, StatusPredicate, StatusOf, Exhausted

(* A row the UPDATE of ConsumeToken matches is one StatusOf calls active:  *)
(* the redemption query and Usable agree on every row and at every time.   *)
THEOREM ConsumableIsActive ==
    ASSUME NEW row \in Row \cup {Null}, NEW env \in Envs, NEW ts \in Nat
    PROVE  Consumable(row, env, ts) <=> InEnv(row, env) /\ StatusOf(row, ts) = "active"
  BY NullAssumption DEF Row, Limit, Consumable, InEnv, StatusOf, Exhausted

-----------------------------------------------------------------------------
LEMMA InitIInv == Init => IInv
  <1> SUFFICES ASSUME Init PROVE IInv  OBVIOUS
  <1>1. Idle \in Request /\ Idle.pc = "idle" /\ Idle.op = Null
    BY DEF Idle, Request
  <1>2. TypeOK
    BY <1>1, NullAssumption DEF Init, TypeOK, NotSweeping, Limit
  <1>3. Ready /\ Creating
    BY <1>1, TokensAssumption DEF Init, Ready, Creating, Executing, Ops
  <1>4. Accounts /\ Unissued /\ SpendsWithinLimit
    BY DEF Init, Accounts, Unissued, SpendsWithinLimit
  <1> QED  BY <1>2, <1>3, <1>4 DEF IInv

LEMMA EventsType ==
    /\ <<>> \in Seq(EventTypes)
    /\ <<"token.created">> \in Seq(EventTypes) \ {<<>>}
    /\ <<"token.revoked">> \in Seq(EventTypes) \ {<<>>}
  BY DEF EventTypes

LEMMA ConsumeEventsType ==
    ASSUME NEW row, NEW ts
    PROVE  ConsumeEvents(row, ts) \in Seq(EventTypes) \ {<<>>}
  BY DEF ConsumeEvents, EventTypes

(* The requests, as the three conjuncts about them.                        *)
Requests == req \in [Clients -> Request] /\ Ready /\ Creating

(* The step of one request that goes on, or is answered, keeps them in     *)
(* order; the only token it may have added to issued is its own.           *)
LEMMA ContinueStep ==
    ASSUME Requests, NEW c \in Clients, NEW pc \in {"emit", "readback", "done"},
           NEW events \in Seq(EventTypes), NEW a \in Answers \cup {Null},
           pc = "emit" => events # <<>>,
           req[c].pc # "idle",
           \/ issued' = issued
           \/ req[c].op = "create" /\ issued' = issued \cup {req[c].tok},
           Continue(c, pc, events, a)
    PROVE  Requests'
  <1> DEFINE r == [req[c] EXCEPT !.pc = pc, !.ts = Null, !.row = Null,
                                 !.todo = events, !.answer = a]
  <1>1. req \in [Clients -> Request] /\ req[c] \in Request  BY DEF Requests
  <1>2. r \in Request  BY <1>1 DEF Request
  <1>3. r.pc = pc /\ r.op = req[c].op /\ r.env = req[c].env /\ r.tok = req[c].tok
        /\ r.todo = events
    BY <1>1 DEF Request
  <1>4. req' = [req EXCEPT ![c] = r]  BY DEF Continue
  <1> HIDE DEF r
  <1>5. /\ req' \in [Clients -> Request]
        /\ req'[c] = r
        /\ \A d \in Clients : d # c => req'[d] = req[d]
    BY <1>1, <1>2, <1>4
  <1>6. Ready'  BY <1>3, <1>5 DEF Ready, Requests
  <1>7. Creating'
    <2> SUFFICES ASSUME NEW d \in Clients
                 PROVE  /\ Executing(d, "create")' => /\ req'[d].row \in Row
                                                      /\ req'[d].row.used = 0
                                                      /\ req'[d].row.max \in MaxUses
                                                      /\ req'[d].row.revoked = Null
                                                      /\ req'[d].tok \notin issued'
                        /\ req'[d].pc = "idle" => req'[d].op = Null
                        /\ req'[d].op = "create" =>
                             \A b \in Clients : b # d /\ req'[b].op = "create"
                                                  => req'[b].tok # req'[d].tok
      BY DEF Creating
    <2>1. CASE d = c
      BY <2>1, <1>3, <1>5 DEF Creating, Requests, Executing
    <2>2. CASE d # c
      <3>1. req'[d] = req[d]  BY <2>2, <1>5
      <3>2. Executing(d, "create")' => Executing(d, "create")  BY <3>1 DEF Executing
      <3>3. Executing(d, "create")' => req[d].tok \notin issued'
        BY <3>2, <2>2 DEF Creating, Requests, Executing
      <3> QED  BY <3>1, <3>2, <3>3, <1>3, <1>5 DEF Creating, Requests
    <2> QED  BY <2>1, <2>2
  <1> QED  BY <1>5, <1>6, <1>7 DEF Requests

LEMMA AnswerStep ==
    ASSUME Requests, NEW c \in Clients, NEW a \in Answers, req[c].pc # "idle",
           \/ issued' = issued
           \/ req[c].op = "create" /\ issued' = issued \cup {req[c].tok},
           Answer(c, a)
    PROVE  Requests'
  BY EventsType, ContinueStep DEF Answer

LEMMA CommittedStep ==
    ASSUME Requests, faults \in Nat, NEW c \in Clients, NEW events \in Seq(EventTypes),
           req[c].pc # "idle",
           \/ issued' = issued
           \/ req[c].op = "create" /\ issued' = issued \cup {req[c].tok},
           Committed(c, events)
    PROVE  Requests' /\ faults' \in Nat
  <1>1. "ok" \in Answers /\ "error" \in Answers  BY DEF Answers
  <1>2. CASE Answer(c, "ok") /\ UNCHANGED faults
    BY <1>1, <1>2, AnswerStep
  <1>3. CASE events # <<>> /\ Continue(c, "emit", events, Null) /\ UNCHANGED faults
    BY <1>3, ContinueStep
  <1>4. CASE Answer(c, "error") /\ faults' = faults + 1
    BY <1>1, <1>4, AnswerStep
  <1>5. \/ Answer(c, "ok") /\ UNCHANGED faults
        \/ events # <<>> /\ Continue(c, "emit", events, Null) /\ UNCHANGED faults
        \/ Answer(c, "error") /\ faults' = faults + 1
    BY DEF Committed
  <1> QED  BY <1>2, <1>3, <1>4, <1>5

FreshRow(row) == /\ row \in Row /\ row.used = 0
                 /\ row.max \in MaxUses /\ row.revoked = Null

(* A request that arrives, with the conditions its kind was admitted under. *)
LEMMA QueueStep ==
    ASSUME Requests, now \in Nat, NEW c \in Clients, NEW op \in Ops, NEW e \in Envs,
           NEW t \in Tokens, NEW row \in Row \cup {Null},
           op = "create" => Fresh(t) /\ FreshRow(row),
           Queue(c, op, e, t, row)
    PROVE  Requests'
  <1> DEFINE r == [Idle EXCEPT !.pc = "queued", !.op = op, !.env = e,
                               !.tok = t, !.ts = now, !.row = row]
  <1>1. req \in [Clients -> Request]  BY DEF Requests
  <1>2. r \in Request
    <2>1. Idle \in Request  BY EventsType DEF Idle, Request
    <2> QED  BY <2>1 DEF Request
  <1>3. r.pc = "queued" /\ r.op = op /\ r.env = e /\ r.tok = t /\ r.ts = now /\ r.row = row
    BY DEF Idle
  <1>4. req' = [req EXCEPT ![c] = r] /\ issued' = issued  BY DEF Queue, history
  <1> HIDE DEF r
  <1>5. /\ req' \in [Clients -> Request]
        /\ req'[c] = r
        /\ \A d \in Clients : d # c => req'[d] = req[d]
    BY <1>1, <1>2, <1>4
  <1>6. Ready'  BY <1>3, <1>5 DEF Ready, Requests
  <1>7. Creating'
    BY <1>3, <1>4, <1>5 DEF Creating, Requests, Executing, Fresh, FreshRow
  <1> QED  BY <1>5, <1>6, <1>7 DEF Requests

-----------------------------------------------------------------------------
(* The rows and the history of redemptions, together.                      *)
Stored == /\ rows \in [Tokens -> Row \cup {Null}]
          /\ issued \in SUBSET Tokens
          /\ limit \in [Tokens -> Limit]
          /\ accepted \in [Tokens -> Nat]
Books == Stored /\ Accounts /\ Unissued /\ SpendsWithinLimit

(* What is neither a request nor in the books. *)
Rest == /\ now \in Nat
        /\ sweep \in [phase: {"idle", "expired", "settled"}, at: Nat \cup {Null}, batch: Nat]
        /\ faults \in Nat
        /\ emitted \in [Tokens -> [EventTypes -> Nat]]

LEMMA Parts == IInv <=> Requests /\ Books /\ Rest
  BY DEF IInv, TypeOK, Requests, Books, Stored, Rest

LEMMA PartsNext == IInv' <=> Requests' /\ Books' /\ Rest'
  BY DEF IInv, TypeOK, Requests, Books, Stored, Rest

(* Rows that are removed, or change in a column no count depends on, leave *)
(* the books in order.                                                     *)
LEMMA BooksKept ==
    ASSUME Books, UNCHANGED history,
           rows' \in [Tokens -> Row \cup {Null}],
           \A t \in Tokens : rows'[t] # Null =>
               /\ rows[t] # Null
               /\ rows'[t].used = rows[t].used
               /\ rows'[t].max = rows[t].max
    PROVE  Books'
  BY DEF Books, Stored, Accounts, Unissued, SpendsWithinLimit, history

LEMMA CreateTokenStep ==
    ASSUME IInv, NEW c \in Clients, CreateToken(c)
    PROVE  IInv'
  <1> DEFINE t == req[c].tok
  <1>1. Requests /\ Books /\ Rest  BY Parts
  <1>2. /\ Executing(c, "create") /\ Committed(c, <<"token.created">>)
        /\ rows' = [rows EXCEPT ![t] = req[c].row]
        /\ issued' = issued \cup {t}
        /\ limit' = [limit EXCEPT ![t] = req[c].row.max]
        /\ UNCHANGED <<now, sweep, accepted, emitted>>
    BY DEF CreateToken
  <1>3. /\ req[c].pc # "idle" /\ req[c].op = "create" /\ t \in Tokens
        /\ req[c].row \in Row /\ req[c].row.used = 0 /\ t \notin issued
    BY <1>1, <1>2 DEF Executing, Requests, Ready, Creating
  <1>4. Requests' /\ faults' \in Nat
    BY <1>1, <1>2, <1>3, EventsType, CommittedStep DEF Rest
  <1>5. Rest'  BY <1>1, <1>2, <1>4 DEF Rest
  <1>6. Books'
    <2>1. req[c].row.max \in Limit  BY <1>3 DEF Row
    <2>2. Stored'  BY <1>1, <1>2, <1>3, <2>1 DEF Books, Stored
    <2>3. accepted[t] = 0  BY <1>1, <1>3 DEF Books, Unissued
    <2>4. /\ rows'[t] = req[c].row /\ limit'[t] = req[c].row.max /\ accepted'[t] = 0
          /\ \A u \in Tokens : u # t => /\ rows'[u] = rows[u]
                                        /\ limit'[u] = limit[u]
                                        /\ accepted'[u] = accepted[u]
      BY <1>1, <1>2, <1>3, <2>3 DEF Books, Stored
    <2>5. Accounts' /\ Unissued'
      BY <1>1, <1>2, <1>3, <2>4 DEF Books, Accounts, Unissued
    <2>6. SpendsWithinLimit'
      BY <1>1, <2>1, <2>4 DEF Books, SpendsWithinLimit, Limit
    <2> QED  BY <2>2, <2>5, <2>6 DEF Books
  <1> QED  BY <1>4, <1>5, <1>6, PartsNext

LEMMA SpentType ==
    ASSUME NEW row \in Row, NEW ts \in Nat
    PROVE  Spent(row, ts) \in Row /\ Spent(row, ts).used = row.used + 1
                                  /\ Spent(row, ts).max = row.max
  <1> DEFINE n == row.used + 1
  <1>1. n \in Nat  BY DEF Row
  <1>2. Spent(row, ts) = [row EXCEPT !.used = n, !.lastUsed = ts]  BY DEF Spent
  <1> HIDE DEF n
  <1>3. [row EXCEPT !.used = n, !.lastUsed = ts] \in Row  BY <1>1 DEF Row
  <1>4. /\ [row EXCEPT !.used = n, !.lastUsed = ts].used = n
        /\ [row EXCEPT !.used = n, !.lastUsed = ts].max = row.max
    BY DEF Row
  <1> QED  BY <1>2, <1>3, <1>4 DEF n

LEMMA ConsumeTokenStep ==
    ASSUME IInv, NEW c \in Clients, ConsumeToken(c)
    PROVE  IInv'
  <1> DEFINE t == req[c].tok
             ts == req[c].ts
             row == Spent(rows[t], ts)
  <1>1. Requests /\ Books /\ Rest  BY Parts
  <1>2. /\ req[c].pc # "idle" /\ req[c].op = "consume" /\ t \in Tokens
        /\ ts \in Nat /\ req[c].env \in Envs
    BY <1>1 DEF ConsumeToken, Executing, Requests, Ready
  <1>3. UNCHANGED <<now, sweep, emitted>>  BY DEF ConsumeToken
  <1>4. CASE Missed(c, "invalid_token")
    <2>1. UNCHANGED <<rows, faults, history>>  BY <1>4 DEF Missed
    <2>2. Requests'  BY <1>1, <1>2, <1>4, AnswerStep DEF Missed, Answers, history
    <2>3. Books'  BY <1>1, <2>1 DEF Books, Stored, Accounts, Unissued, SpendsWithinLimit, history
    <2> QED  BY <1>1, <1>3, <2>1, <2>2, <2>3, PartsNext DEF Rest
  <1>5. CASE /\ Consumable(rows[t], req[c].env, ts)
             /\ rows' = [rows EXCEPT ![t] = Spent(@, ts)]
             /\ accepted' = [accepted EXCEPT ![t] = @ + 1]
             /\ Committed(c, ConsumeEvents(row, ts))
             /\ UNCHANGED <<issued, limit>>
    <2>1. Requests' /\ faults' \in Nat
      BY <1>1, <1>2, <1>5, ConsumeEventsType, CommittedStep DEF Rest
    <2>2. rows[t] \in Row /\ rows[t] # Null /\ (rows[t].max # Null => rows[t].used < rows[t].max)
      BY <1>1, <1>2, <1>5 DEF Consumable, InEnv, Books, Stored
    <2>3. row \in Row /\ row.used = rows[t].used + 1 /\ row.max = rows[t].max
      BY <1>2, <2>2, SpentType
    <2>4. /\ rows'[t] = row /\ accepted'[t] = accepted[t] + 1 /\ limit'[t] = limit[t]
          /\ \A u \in Tokens : u # t => /\ rows'[u] = rows[u]
                                        /\ limit'[u] = limit[u]
                                        /\ accepted'[u] = accepted[u]
      BY <1>1, <1>2, <1>5 DEF Books, Stored
    <2>5. Stored'  BY <1>1, <1>2, <1>5, <2>3 DEF Books, Stored
    <2>6. rows[t].used = accepted[t] /\ rows[t].max = limit[t] /\ t \in issued
      BY <1>1, <1>2, <2>2 DEF Books, Accounts, Unissued
    <2>7. Accounts' /\ Unissued'
      <3>1. Accounts'  BY <1>1, <1>2, <2>3, <2>4, <2>6 DEF Books, Accounts
      <3>2. Unissued'  BY <1>1, <1>2, <1>5, <2>4, <2>6 DEF Books, Unissued
      <3> QED  BY <3>1, <3>2
    <2>8. SpendsWithinLimit'
      <3>1. limit[t] # Null => accepted[t] + 1 <= limit[t]
        BY <1>1, <1>2, <2>2, <2>6 DEF Books, Stored, Limit
      <3> QED  BY <1>1, <2>4, <3>1 DEF Books, SpendsWithinLimit
    <2> QED  BY <1>1, <1>3, <2>1, <2>5, <2>7, <2>8, PartsNext DEF Rest, Books
  <1> QED  BY <1>4, <1>5 DEF ConsumeToken

LEMMA RevokeTokenStep ==
    ASSUME IInv, NEW c \in Clients, RevokeToken(c)
    PROVE  IInv'
  <1> DEFINE t == req[c].tok
  <1>1. Requests /\ Books /\ Rest  BY Parts
  <1>2. /\ req[c].pc # "idle" /\ t \in Tokens /\ req[c].ts \in Nat
        /\ UNCHANGED <<now, sweep, emitted>> /\ UNCHANGED history
    BY <1>1 DEF RevokeToken, Executing, Requests, Ready
  <1>3. issued' = issued  BY <1>2 DEF history
  <1>4. CASE /\ Revocable(rows[t], req[c].env)
             /\ rows' = [rows EXCEPT ![t].revoked = req[c].ts]
             /\ Committed(c, <<"token.revoked">>)
    <2>1. Requests' /\ faults' \in Nat
      BY <1>1, <1>2, <1>3, <1>4, EventsType, CommittedStep DEF Rest
    <2>2. rows[t] \in Row
      BY <1>1, <1>2, <1>4 DEF Revocable, InEnv, Books, Stored
    <2>3. /\ rows' = [rows EXCEPT ![t] = [rows[t] EXCEPT !.revoked = req[c].ts]]
          /\ [rows[t] EXCEPT !.revoked = req[c].ts] \in Row
          /\ [rows[t] EXCEPT !.revoked = req[c].ts].used = rows[t].used
          /\ [rows[t] EXCEPT !.revoked = req[c].ts].max = rows[t].max
      BY <1>2, <1>4, <2>2 DEF Row
    <2>4. Books'
      BY <1>1, <1>2, <1>4, <2>2, <2>3, BooksKept DEF Books, Stored, Revocable, InEnv
    <2> QED  BY <1>1, <1>2, <2>1, <2>4, PartsNext DEF Rest
  <1>5. CASE Continue(c, "readback", <<>>, Null) /\ UNCHANGED <<rows, faults>>
    <2>1. Requests'  BY <1>1, <1>2, <1>3, <1>5, EventsType, ContinueStep
    <2>2. Books'  BY <1>1, <1>2, <1>5, BooksKept DEF Books, Stored
    <2> QED  BY <1>1, <1>2, <1>5, <2>1, <2>2, PartsNext DEF Rest
  <1> QED  BY <1>4, <1>5 DEF RevokeToken

LEMMA DeleteTokenStep ==
    ASSUME IInv, NEW c \in Clients, DeleteToken(c)
    PROVE  IInv'
  <1> DEFINE t == req[c].tok
  <1>1. Requests /\ Books /\ Rest  BY Parts
  <1>2. /\ req[c].pc # "idle" /\ t \in Tokens
        /\ UNCHANGED <<now, sweep, emitted>> /\ UNCHANGED history
    BY <1>1 DEF DeleteToken, Missed, Executing, Requests, Ready
  <1>3. issued' = issued  BY <1>2 DEF history
  <1>4. CASE rows' = [rows EXCEPT ![t] = Null] /\ Committed(c, <<>>)
    <2>1. Requests' /\ faults' \in Nat
      BY <1>1, <1>2, <1>3, <1>4, EventsType, CommittedStep DEF Rest
    <2>2. Books'  BY <1>1, <1>2, <1>4, BooksKept DEF Books, Stored
    <2> QED  BY <1>1, <1>2, <2>1, <2>2, PartsNext DEF Rest
  <1>5. CASE Missed(c, "not_found")
    <2>1. Requests'  BY <1>1, <1>2, <1>3, <1>5, AnswerStep DEF Missed, Answers
    <2>2. Books'  BY <1>1, <1>2, <1>5, BooksKept DEF Missed, Books, Stored
    <2> QED  BY <1>1, <1>2, <1>5, <2>1, <2>2, PartsNext DEF Rest, Missed
  <1> QED  BY <1>4, <1>5 DEF DeleteToken

LEMMA EmitTokenEventStep ==
    ASSUME IInv, NEW c \in Clients, EmitTokenEvent(c)
    PROVE  IInv'
  <1> DEFINE todo == req[c].todo
             t == req[c].tok
  <1>1. Requests /\ Books /\ Rest  BY Parts
  <1>2. /\ req[c].pc # "idle" /\ t \in Tokens
        /\ todo \in Seq(EventTypes) /\ todo # <<>>
    BY <1>1 DEF EmitTokenEvent, Requests, Ready, Request
  <1>3. Head(todo) \in EventTypes /\ Tail(todo) \in Seq(EventTypes)
    BY <1>2, HeadTailProperties
  <1>4. /\ UNCHANGED <<now, rows, sweep, faults, history>>
        /\ emitted' = [emitted EXCEPT ![t][Head(todo)] = @ + 1]
    BY DEF EmitTokenEvent
  <1>5. issued' = issued  BY <1>4 DEF history
  <1>6. Requests'
    <2>1. CASE Answer(c, "ok")
      BY <1>1, <1>2, <1>5, <2>1, AnswerStep DEF Answers
    <2>2. CASE Tail(todo) # <<>> /\ Continue(c, "emit", Tail(todo), Null)
      BY <1>1, <1>2, <1>3, <1>5, <2>2, ContinueStep
    <2> QED  BY <2>1, <2>2 DEF EmitTokenEvent
  <1>7. emitted' \in [Tokens -> [EventTypes -> Nat]]
    BY <1>1, <1>2, <1>3, <1>4 DEF Rest
  <1>8. Books'  BY <1>1, <1>4, BooksKept DEF Books, Stored
  <1> QED  BY <1>1, <1>4, <1>6, <1>7, <1>8, PartsNext DEF Rest

LEMMA ArriveStep ==
    ASSUME IInv, NEW c \in Clients, Arrive(c)
    PROVE  IInv'
  <1>1. Requests /\ Books /\ Rest  BY Parts
  <1>2. ASSUME NEW op \in Ops, NEW e \in Envs, NEW t \in Tokens, NEW row \in Row \cup {Null},
               op = "create" => Fresh(t) /\ FreshRow(row),
               Queue(c, op, e, t, row)
        PROVE  IInv'
    <2>1. Requests'  BY <1>1, <1>2, QueueStep DEF Rest
    <2>2. Books'  BY <1>1, <1>2, BooksKept DEF Queue, Books, Stored
    <2> QED  BY <1>1, <1>2, <2>1, <2>2, PartsNext DEF Queue, Rest
  <1>3. CASE CreateRequest(c)
    <2>1. PICK e \in Envs, t \in Tokens, m \in MaxUses, ttl \in TTLs :
              /\ Fresh(t)
              /\ Queue(c, "create", e, t,
                       [env |-> e, max |-> m, used |-> 0, expires |-> now + ttl,
                        revoked |-> Null, created |-> now, lastUsed |-> Null])
      BY <1>3 DEF CreateRequest
    <2> DEFINE row == [env |-> e, max |-> m, used |-> 0, expires |-> now + ttl,
                       revoked |-> Null, created |-> now, lastUsed |-> Null]
    <2>2. row \in Row /\ FreshRow(row)
      BY <1>1, TokensAssumption DEF Row, Rest, FreshRow
    <2>3. "create" \in Ops  BY DEF Ops
    <2> HIDE DEF row
    <2>4. Queue(c, "create", e, t, row)  BY <2>1 DEF row
    <2> QED  BY <1>2, <2>1, <2>2, <2>3, <2>4
  <1>4. issued \subseteq Tokens  BY <1>1 DEF Books, Stored
  <1>5. CASE ConsumeRequest(c)  BY <1>2, <1>4, <1>5 DEF ConsumeRequest, Ops
  <1>6. CASE RevokeRequest(c)  BY <1>2, <1>4, <1>6 DEF RevokeRequest, Ops
  <1>7. CASE DeleteRequest(c)  BY <1>2, <1>4, <1>7 DEF DeleteRequest, Ops
  <1> QED  BY <1>3, <1>5, <1>6, <1>7 DEF Arrive

LEMMA ReadBackStep ==
    ASSUME IInv, NEW c \in Clients, ReadBack(c)
    PROVE  IInv'
  <1>1. Requests /\ Books /\ Rest  BY Parts
  <1>2. req[c].pc # "idle" /\ UNCHANGED <<now, rows, sweep, faults, history, emitted>>
    BY DEF ReadBack
  <1>3. PICK a \in Answers : Answer(c, a)  BY DEF ReadBack, Answers
  <1>4. Requests'  BY <1>1, <1>2, <1>3, AnswerStep DEF history
  <1>5. Books'  BY <1>1, <1>2, BooksKept DEF Books, Stored
  <1> QED  BY <1>1, <1>2, <1>4, <1>5, PartsNext DEF Rest

LEMMA ReplyStep ==
    ASSUME IInv, NEW c \in Clients, Reply(c)
    PROVE  IInv'
  <1>1. Requests /\ Books /\ Rest  BY Parts
  <1>2. /\ req' = [req EXCEPT ![c] = Idle]
        /\ UNCHANGED <<now, rows, sweep, faults, history, emitted>>
    BY DEF Reply
  <1>3. Idle \in Request /\ Idle.pc = "idle" /\ Idle.op = Null
    BY EventsType DEF Idle, Request
  <1>4. /\ req' \in [Clients -> Request]
        /\ req'[c] = Idle
        /\ \A d \in Clients : d # c => req'[d] = req[d]
    BY <1>1, <1>2, <1>3 DEF Requests
  <1>5. Ready'  BY <1>1, <1>3, <1>4 DEF Requests, Ready
  <1>6. Creating'
    BY <1>1, <1>2, <1>3, <1>4, TokensAssumption DEF Requests, Creating, Executing, Ops, history
  <1>7. Books'  BY <1>1, <1>2, BooksKept DEF Books, Stored
  <1> QED  BY <1>1, <1>2, <1>4, <1>5, <1>6, <1>7, PartsNext DEF Requests, Rest

LEMMA FailStep ==
    ASSUME IInv, NEW c \in Clients, Fail(c)
    PROVE  IInv'
  <1>1. Requests /\ Books /\ Rest  BY Parts
  <1>2. /\ req[c].pc # "idle" /\ Answer(c, "error") /\ faults' = faults + 1
        /\ UNCHANGED <<now, rows, sweep, history, emitted>>
    BY DEF Fail
  <1>3. Requests'  BY <1>1, <1>2, AnswerStep DEF Answers, history
  <1>4. Books'  BY <1>1, <1>2, BooksKept DEF Books, Stored
  <1> QED  BY <1>1, <1>2, <1>3, <1>4, PartsNext DEF Rest

(* The clean-up job. *)
SweepType == sweep \in [phase: {"idle", "expired", "settled"}, at: Nat \cup {Null}, batch: Nat]

LEMMA NextPhaseType ==
    ASSUME SweepType
    PROVE  NextPhase \in [phase: {"idle", "expired", "settled"}, at: Nat \cup {Null}, batch: Nat]
  BY DEF SweepType, NextPhase, NotSweeping

LEMMA RequestsKept == Requests /\ UNCHANGED <<req, history>> => Requests'
  BY DEF Requests, Ready, Creating, Executing, history

LEMMA DrainBatchStep ==
    ASSUME IInv, NEW Old, DrainBatch(Old)
    PROVE  IInv'
  <1>1. Requests /\ Books /\ Rest  BY Parts
  <1>2. PICK D \in Batches(Old) :
            /\ rows' = [t \in Tokens |-> IF t \in D THEN Null ELSE rows[t]]
            /\ sweep' = IF Drained(D, sweep.batch) THEN NextPhase
                                                  ELSE [sweep EXCEPT !.batch = @ + 1]
            /\ UNCHANGED <<now, req, faults, history, emitted>>
    BY DEF DrainBatch
  <1>3. Requests'  BY <1>1, <1>2, RequestsKept
  <1>4. Books'  BY <1>1, <1>2, BooksKept DEF Books, Stored
  <1>5. SweepType'
    <2>1. SweepType /\ sweep.batch + 1 \in Nat  BY <1>1 DEF Rest, SweepType
    <2>2. [sweep EXCEPT !.batch = sweep.batch + 1]
              \in [phase: {"idle", "expired", "settled"}, at: Nat \cup {Null}, batch: Nat]
      BY <2>1 DEF SweepType
    <2> QED  BY <1>2, <2>1, <2>2, NextPhaseType DEF SweepType
  <1> QED  BY <1>1, <1>2, <1>3, <1>4, <1>5, PartsNext DEF Rest, SweepType

LEMMA SweepStep ==
    ASSUME IInv, Sweep
    PROVE  IInv'
  <1>1. CASE StartSweep
    <2>1. Requests /\ Books /\ Rest  BY Parts
    <2>2. Requests'  BY <1>1, <2>1, RequestsKept DEF StartSweep
    <2>3. Books'  BY <1>1, <2>1, BooksKept DEF StartSweep, Books, Stored
    <2> QED  BY <1>1, <2>1, <2>2, <2>3, PartsNext DEF StartSweep, Rest
  <1>2. CASE DeleteExpiredTokens  BY <1>2, DrainBatchStep DEF DeleteExpiredTokens
  <1>3. CASE DeleteSettledTokens  BY <1>3, DrainBatchStep DEF DeleteSettledTokens
  <1> QED  BY <1>1, <1>2, <1>3 DEF Sweep

LEMMA DrainErrorStep ==
    ASSUME IInv, DrainError
    PROVE  IInv'
  <1>1. Requests /\ Books /\ Rest  BY Parts
  <1>2. Requests'  BY <1>1, RequestsKept DEF DrainError
  <1>3. Books'  BY <1>1, BooksKept DEF DrainError, Books, Stored
  <1>4. SweepType'  BY <1>1, NextPhaseType DEF DrainError, Rest, SweepType
  <1> QED  BY <1>1, <1>2, <1>3, <1>4, PartsNext DEF DrainError, Rest, SweepType

(* A crash forgets the requests and keeps the books. *)
LEMMA CrashStep ==
    ASSUME IInv, Crash
    PROVE  IInv'
  <1>1. Requests /\ Books /\ Rest  BY Parts
  <1>2. /\ req' = [c \in Clients |-> Idle] /\ sweep' = NotSweeping /\ faults' = faults + 1
        /\ UNCHANGED <<now, rows, history, emitted>>
    BY DEF Crash
  <1>3. Idle \in Request /\ Idle.pc = "idle" /\ Idle.op = Null
    BY EventsType DEF Idle, Request
  <1>4. Requests'
    BY <1>2, <1>3, TokensAssumption DEF Requests, Ready, Creating, Executing, Ops
  <1>5. Books'  BY <1>1, <1>2, BooksKept DEF Books, Stored
  <1> QED  BY <1>1, <1>2, <1>4, <1>5, PartsNext DEF Rest, NotSweeping

LEMMA TickStep ==
    ASSUME IInv, Tick
    PROVE  IInv'
  <1>1. Requests /\ Books /\ Rest  BY Parts
  <1>2. Requests'  BY <1>1, RequestsKept DEF Tick
  <1>3. Books'  BY <1>1, BooksKept DEF Tick, Books, Stored
  <1> QED  BY <1>1, <1>2, <1>3, PartsNext DEF Tick, Rest

LEMMA StutterStep ==
    ASSUME IInv, UNCHANGED vars
    PROVE  IInv'
  <1>1. Requests /\ Books /\ Rest  BY Parts
  <1>2. Requests'  BY <1>1, RequestsKept DEF vars, history
  <1>3. Books'  BY <1>1, BooksKept DEF vars, history, Books, Stored
  <1> QED  BY <1>1, <1>2, <1>3, PartsNext DEF vars, Rest

LEMMA NextIInv == IInv /\ [Next]_vars => IInv'
  <1> SUFFICES ASSUME IInv, [Next]_vars PROVE IInv'  OBVIOUS
  <1>1. ASSUME NEW c \in Clients, Arrive(c) PROVE IInv'  BY <1>1, ArriveStep
  <1>2. ASSUME NEW c \in Clients, Serve(c) PROVE IInv'
    BY <1>2, CreateTokenStep, ConsumeTokenStep, RevokeTokenStep, DeleteTokenStep,
       EmitTokenEventStep, ReadBackStep, ReplyStep DEF Serve
  <1>3. ASSUME NEW c \in Clients, Fail(c) PROVE IInv'  BY <1>3, FailStep
  <1>4. CASE Sweep  BY <1>4, SweepStep
  <1>5. CASE DrainError  BY <1>5, DrainErrorStep
  <1>6. CASE Crash  BY <1>6, CrashStep
  <1>7. CASE Tick  BY <1>7, TickStep
  <1>8. CASE UNCHANGED vars  BY <1>8, StutterStep
  <1> QED  BY <1>1, <1>2, <1>3, <1>4, <1>5, <1>6, <1>7, <1>8 DEF Next

-----------------------------------------------------------------------------
(* IInv holds in every reachable state. *)
THEOREM Invariance == Spec => []IInv
  <1>1. IInv /\ [Next]_vars => IInv'  BY NextIInv
  <1> QED  BY InitIInv, <1>1, PTL DEF Spec

(* Every variable keeps its type, whatever arrives, fails or crashes. *)
THEOREM TypeCorrect == Spec => []TypeOK
  <1>1. IInv => TypeOK  BY DEF IInv
  <1> QED  BY Invariance, <1>1, PTL

(* No token is redeemed more often than it was issued for. *)
THEOREM NeverOverspent == Spec => []SpendsWithinLimit
  <1>1. IInv => SpendsWithinLimit  BY DEF IInv
  <1> QED  BY Invariance, <1>1, PTL

(* The listing and the counts put every stored token under its own status. *)
THEOREM ListedUnderOwnStatus == Spec => []StatusPredicateAgrees
  <1>1. TypeOK => StatusPredicateAgrees
    BY PredicateMirrorsStatus DEF TypeOK, StatusPredicateAgrees
  <1> QED  BY TypeCorrect, <1>1, PTL

-----------------------------------------------------------------------------
(* Only a redemption changes what was accepted. *)
LEMMA AcceptedStep ==
    ASSUME IInv, [Next]_vars
    PROVE  accepted' = accepted \/ \E c \in Clients : ConsumeToken(c)
  <1>1. ASSUME NEW c \in Clients, Arrive(c) PROVE accepted' = accepted
    BY <1>1 DEF Arrive, CreateRequest, ConsumeRequest, RevokeRequest, DeleteRequest, Queue,
                history
  <1>2. ASSUME NEW c \in Clients,
               \/ CreateToken(c) \/ RevokeToken(c) \/ DeleteToken(c) \/ EmitTokenEvent(c)
               \/ ReadBack(c) \/ Reply(c) \/ Fail(c)
        PROVE  accepted' = accepted
    BY <1>2 DEF CreateToken, RevokeToken, DeleteToken, Missed, EmitTokenEvent, ReadBack,
                Reply, Fail, history
  <1>3. CASE Sweep
    BY <1>3 DEF Sweep, StartSweep, DeleteExpiredTokens, DeleteSettledTokens, DrainBatch,
                history
  <1>4. CASE DrainError \/ Crash \/ Tick \/ UNCHANGED vars
    BY <1>4 DEF DrainError, Crash, Tick, vars, history
  <1> QED  BY <1>1, <1>2, <1>3, <1>4 DEF Next, Serve

(* A use is spent only by a request for the token's own environment, and   *)
(* only on a token active at the time the request read.                    *)
THEOREM SpentWhileActive == Spec => SpentOnlyWhileActive
  <1> DEFINE A == \A t \in Tokens : accepted'[t] # accepted[t] =>
                    \E c \in Clients : /\ Executing(c, "consume")
                                       /\ req[c].tok = t
                                       /\ req[c].env = rows[t].env
                                       /\ StatusOf(rows[t], req[c].ts) = "active"
  <1>1. IInv /\ [Next]_vars => A
    <2> SUFFICES ASSUME IInv, [Next]_vars,
                        NEW t \in Tokens, accepted'[t] # accepted[t]
                 PROVE  \E c \in Clients : /\ Executing(c, "consume")
                                           /\ req[c].tok = t
                                           /\ req[c].env = rows[t].env
                                           /\ StatusOf(rows[t], req[c].ts) = "active"
      OBVIOUS
    <2>1. Requests /\ Books  BY Parts
    <2>2. PICK c \in Clients : ConsumeToken(c)  BY AcceptedStep
    <2>3. Executing(c, "consume")  BY <2>2 DEF ConsumeToken
    <2>4. req[c].tok \in Tokens /\ req[c].env \in Envs /\ req[c].ts \in Nat
      BY <2>1, <2>3 DEF Executing, Requests, Ready
    <2>5. /\ Consumable(rows[req[c].tok], req[c].env, req[c].ts)
          /\ accepted' = [accepted EXCEPT ![req[c].tok] = @ + 1]
      BY <2>2 DEF ConsumeToken, Missed, history
    <2>6. req[c].tok = t  BY <2>1, <2>5 DEF Books, Stored
    <2>7. rows[t] \in Row \cup {Null}  BY <2>1 DEF Books, Stored
    <2>8. InEnv(rows[t], req[c].env) /\ StatusOf(rows[t], req[c].ts) = "active"
      BY <2>4, <2>5, <2>6, <2>7, ConsumableIsActive
    <2> QED  BY <2>3, <2>6, <2>8 DEF InEnv
  <1> QED  BY Invariance, <1>1, PTL DEF Spec, SpentOnlyWhileActive

-----------------------------------------------------------------------------
(* What a step may do to the rows of tokens already issued: take them away *)
(* or change them, but neither bring one back nor take a revocation back.  *)
Moved(t) == \/ rows'[t] = Null
            \/ /\ rows[t] # Null
               /\ rows'[t].env = rows[t].env
               /\ rows'[t].expires = rows[t].expires
               /\ rows'[t].max = rows[t].max
               /\ rows'[t].used >= rows[t].used
               /\ rows[t].revoked # Null => rows'[t].revoked # Null

LEMMA RowsStep ==
    ASSUME IInv, [Next]_vars
    PROVE  issued \subseteq issued' /\ \A t \in issued : Moved(t)
  <1> DEFINE P == issued \subseteq issued' /\ \A t \in issued : Moved(t)
  <1>1. Requests /\ Books /\ Rest  BY Parts
  <1>2. issued \subseteq Tokens /\ rows \in [Tokens -> Row \cup {Null}]
    BY <1>1 DEF Books, Stored
  <1>3. \A t \in issued : rows'[t] = rows[t] \/ rows'[t] = Null => Moved(t)
    BY <1>2 DEF Moved, Row
  <1>4. ASSUME UNCHANGED <<rows, issued>> PROVE P  BY <1>3, <1>4
  <1>5. ASSUME NEW c \in Clients, CreateToken(c) PROVE P
    <2>1. req[c].tok \notin issued  BY <1>1, <1>5 DEF CreateToken, Requests, Creating
    <2> QED  BY <1>2, <1>3, <1>5, <2>1 DEF CreateToken
  <1>6. ASSUME NEW c \in Clients, ConsumeToken(c) PROVE P
    <2>1. CASE UNCHANGED <<rows, issued>>  BY <1>4, <2>1
    <2>2. CASE /\ Consumable(rows[req[c].tok], req[c].env, req[c].ts)
               /\ rows' = [rows EXCEPT ![req[c].tok] = Spent(@, req[c].ts)]
               /\ UNCHANGED issued
      <3>1. req[c].tok \in Tokens
        BY <1>1, <1>6 DEF ConsumeToken, Executing, Requests, Ready
      <3>2. rows[req[c].tok] # Null /\ rows[req[c].tok] \in Row
        BY <1>2, <2>2, <3>1 DEF Consumable, InEnv
      <3>3. /\ Spent(rows[req[c].tok], req[c].ts).env = rows[req[c].tok].env
            /\ Spent(rows[req[c].tok], req[c].ts).expires = rows[req[c].tok].expires
            /\ Spent(rows[req[c].tok], req[c].ts).revoked = rows[req[c].tok].revoked
        BY <3>2 DEF Spent, Row
      <3>4. /\ Spent(rows[req[c].tok], req[c].ts).max = rows[req[c].tok].max
            /\ Spent(rows[req[c].tok], req[c].ts).used >= rows[req[c].tok].used
        BY <3>2 DEF Spent, Row
      <3>5. \A t \in issued : t # req[c].tok => Moved(t)  BY <1>2, <1>3, <2>2
      <3>6. Moved(req[c].tok)  BY <1>2, <2>2, <3>1, <3>2, <3>3, <3>4 DEF Moved
      <3> QED  BY <2>2, <3>5, <3>6
    <2> QED  BY <1>6, <2>1, <2>2 DEF ConsumeToken, Missed, history
  <1>7. ASSUME NEW c \in Clients, RevokeToken(c) PROVE P
    <2>1. CASE UNCHANGED <<rows, issued>>  BY <1>4, <2>1
    <2>2. CASE /\ Revocable(rows[req[c].tok], req[c].env)
               /\ rows' = [rows EXCEPT ![req[c].tok].revoked = req[c].ts]
               /\ UNCHANGED issued
      <3>1. req[c].tok \in Tokens
        BY <1>1, <1>7 DEF RevokeToken, Executing, Requests, Ready
      <3>2. /\ rows[req[c].tok] # Null /\ rows[req[c].tok] \in Row
            /\ rows[req[c].tok].revoked = Null
        BY <1>2, <2>2, <3>1 DEF Revocable, InEnv
      <3>3. rows' = [rows EXCEPT ![req[c].tok] =
                       [rows[req[c].tok] EXCEPT !.revoked = req[c].ts]]
        BY <2>2
      <3>4. /\ [rows[req[c].tok] EXCEPT !.revoked = req[c].ts].env = rows[req[c].tok].env
            /\ [rows[req[c].tok] EXCEPT !.revoked = req[c].ts].expires
                   = rows[req[c].tok].expires
            /\ [rows[req[c].tok] EXCEPT !.revoked = req[c].ts].max = rows[req[c].tok].max
            /\ [rows[req[c].tok] EXCEPT !.revoked = req[c].ts].used = rows[req[c].tok].used
        BY <3>2 DEF Row
      <3>5. rows[req[c].tok].used >= rows[req[c].tok].used  BY <3>2 DEF Row
      <3>6. \A t \in issued : t # req[c].tok => Moved(t)  BY <1>2, <1>3, <2>2
      <3>7. Moved(req[c].tok)  BY <1>2, <2>2, <3>1, <3>2, <3>3, <3>4, <3>5 DEF Moved
      <3> QED  BY <2>2, <3>6, <3>7
    <2> QED  BY <1>7, <2>1, <2>2 DEF RevokeToken, history
  <1>8. ASSUME NEW c \in Clients, DeleteToken(c) PROVE P
    <2>1. UNCHANGED issued /\ \A t \in issued : rows'[t] = rows[t] \/ rows'[t] = Null
      BY <1>2, <1>8 DEF DeleteToken, Missed, history
    <2> QED  BY <1>3, <2>1
  <1>9. ASSUME NEW Old, DrainBatch(Old) PROVE P
    <2>1. UNCHANGED issued /\ \A t \in issued : rows'[t] = rows[t] \/ rows'[t] = Null
      BY <1>2, <1>9 DEF DrainBatch, history
    <2> QED  BY <1>3, <2>1
  <1>10. ASSUME NEW c \in Clients,
               Arrive(c) \/ EmitTokenEvent(c) \/ ReadBack(c) \/ Reply(c) \/ Fail(c)
        PROVE  P
    <2>1. UNCHANGED <<rows, issued>>
      BY <1>10 DEF Arrive, CreateRequest, ConsumeRequest, RevokeRequest, DeleteRequest,
                   Queue, EmitTokenEvent, ReadBack, Reply, Fail, history
    <2> QED  BY <1>4, <2>1
  <1>11. ASSUME StartSweep \/ DrainError \/ Crash \/ Tick \/ UNCHANGED vars PROVE P
    BY <1>4, <1>11 DEF StartSweep, DrainError, Crash, Tick, vars, history
  <1> QED
    BY <1>5, <1>6, <1>7, <1>8, <1>9, <1>10, <1>11
    DEF Next, Serve, Sweep, DeleteExpiredTokens, DeleteSettledTokens

LEMMA ClosedStays ==
    ASSUME IInv, [Next]_vars
    PROVE  Closed \subseteq Closed' /\ Closed' \subseteq issued'
  BY RowsStep DEF Closed, Moved

(* Which steps change the history, and how.                                *)
LEMMA HistoryStep ==
    ASSUME IInv, [Next]_vars
    PROVE  \/ UNCHANGED history
           \/ \E c \in Clients : CreateToken(c)
           \/ \E c \in Clients :
                 /\ ConsumeToken(c)
                 /\ Consumable(rows[req[c].tok], req[c].env, req[c].ts)
  <1>1. ASSUME NEW c \in Clients, Arrive(c) PROVE UNCHANGED history
    BY <1>1 DEF Arrive, CreateRequest, ConsumeRequest, RevokeRequest, DeleteRequest, Queue
  <1>2. ASSUME NEW c \in Clients,
               \/ RevokeToken(c) \/ DeleteToken(c) \/ EmitTokenEvent(c)
               \/ ReadBack(c) \/ Reply(c) \/ Fail(c)
        PROVE  UNCHANGED history
    BY <1>2 DEF RevokeToken, DeleteToken, Missed, EmitTokenEvent, ReadBack, Reply, Fail
  <1>3. ASSUME NEW c \in Clients, ConsumeToken(c)
        PROVE  UNCHANGED history \/ Consumable(rows[req[c].tok], req[c].env, req[c].ts)
    BY <1>3 DEF ConsumeToken, Missed
  <1>4. CASE Sweep
    BY <1>4 DEF Sweep, StartSweep, DeleteExpiredTokens, DeleteSettledTokens, DrainBatch
  <1>5. CASE DrainError \/ Crash \/ Tick \/ UNCHANGED vars
    BY <1>5 DEF DrainError, Crash, Tick, vars, history
  <1> QED  BY <1>1, <1>2, <1>3, <1>4, <1>5 DEF Next, Serve

LEMMA LedgerStep ==
    ASSUME IInv, [Next]_vars
    PROVE  [Ledger!Next]_(Ledger!vars)
  <1>1. Requests /\ Books  BY Parts
  <1>2. Closed \subseteq Closed' /\ Closed' \subseteq issued'  BY ClosedStays
  <1>3. CASE UNCHANGED history
    <2>1. Ledger!Close(Closed' \ Closed)
      BY <1>2, <1>3 DEF Ledger!Close, history
    <2>2. Closed' \ Closed \in SUBSET Tokens
      BY <1>1, <1>2, <1>3 DEF Books, Stored, history
    <2> QED  BY <2>1, <2>2 DEF Ledger!Next
  <1>4. ASSUME NEW c \in Clients, CreateToken(c) PROVE Ledger!Next
    <2> DEFINE t == req[c].tok
    <2>1. /\ Executing(c, "create") /\ rows' = [rows EXCEPT ![t] = req[c].row]
          /\ issued' = issued \cup {t} /\ limit' = [limit EXCEPT ![t] = req[c].row.max]
          /\ UNCHANGED accepted
      BY <1>4 DEF CreateToken
    <2>2. /\ t \in Tokens /\ t \notin issued
          /\ req[c].row \in Row /\ req[c].row.max \in MaxUses /\ req[c].row.revoked = Null
      BY <1>1, <2>1 DEF Requests, Ready, Creating, Executing
    <2>3. /\ rows'[t] # Null /\ rows'[t].revoked = Null
          /\ \A u \in Tokens : u # t => rows'[u] = rows[u]
      BY <1>1, <2>1, <2>2, RowAssumption DEF Books, Stored
    <2>4. Closed' = Closed
      BY <1>1, <2>1, <2>2, <2>3 DEF Closed, Books, Stored
    <2>5. Ledger!Issue(t, req[c].row.max)
      BY <2>1, <2>2, <2>4 DEF Ledger!Issue
    <2> QED  BY <2>2, <2>5 DEF Ledger!Next
  <1>5. ASSUME NEW c \in Clients, ConsumeToken(c),
               Consumable(rows[req[c].tok], req[c].env, req[c].ts)
        PROVE  Ledger!Next
    <2> DEFINE t == req[c].tok
    <2>1. /\ Executing(c, "consume") /\ UNCHANGED <<issued, limit>>
          /\ rows' = [rows EXCEPT ![t] = Spent(@, req[c].ts)]
          /\ accepted' = [accepted EXCEPT ![t] = @ + 1]
      BY <1>5 DEF ConsumeToken
    <2>2. t \in Tokens /\ req[c].ts \in Nat
      BY <1>1, <2>1 DEF Requests, Ready, Executing
    <2>3. /\ rows[t] \in Row /\ rows[t] # Null /\ rows[t].revoked = Null
          /\ rows[t].max # Null => rows[t].used < rows[t].max
      BY <1>1, <1>5, <2>2 DEF Consumable, InEnv, Books, Stored
    <2>4. t \in issued /\ rows[t].used = accepted[t] /\ rows[t].max = limit[t]
      BY <1>1, <2>2, <2>3 DEF Books, Accounts, Unissued
    <2>5. Spent(rows[t], req[c].ts) \in Row /\ Spent(rows[t], req[c].ts).revoked = Null
      BY <2>2, <2>3, SpentType DEF Spent, Row
    <2>6. /\ rows'[t] # Null /\ rows'[t].revoked = Null
          /\ \A u \in Tokens : u # t => rows'[u] = rows[u]
      BY <1>1, <2>1, <2>2, <2>5, RowAssumption DEF Books, Stored
    <2>7. Closed' = Closed /\ t \notin Closed
      BY <1>1, <2>1, <2>3, <2>6 DEF Closed, Books, Stored
    <2>8. Ledger!Spend(t)
      BY <2>1, <2>3, <2>4, <2>7 DEF Ledger!Spend
    <2> QED  BY <2>2, <2>8 DEF Ledger!Next
  <1> QED  BY <1>3, <1>4, <1>5, HistoryStep

(* The rows, the requests, the clean-up and the crashes of Tokens keep the *)
(* promise of TokenLedger.                                                 *)
THEOREM Refinement == Spec => KeepsLedger
  <1>1. Init => Ledger!Init
    BY DEF Init, Ledger!Init, Closed
  <1>2. IInv /\ [Next]_vars => [Ledger!Next]_(Ledger!vars)  BY LedgerStep
  <1> QED  BY Invariance, <1>1, <1>2, PTL DEF Spec, KeepsLedger, Ledger!Spec
=============================================================================
