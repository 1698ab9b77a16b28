------------------------------ MODULE Dispatch ------------------------------
(***************************************************************************)
(* Webhook delivery (internal/webhook/dispatch.go, internal/db/webhooks.go *)
(* and the panel's webhook handlers): the queue of token events, the loop  *)
(* that turns each into one row per webhook, the loop that sends the rows  *)
(* that are due, the retries, and what an operator does to the webhooks    *)
(* meanwhile.                                                              *)
(*                                                                         *)
(* Ids are SQLite rowids without AUTOINCREMENT: a new row takes one more   *)
(* than the largest id stored, so an id is used again once the row that    *)
(* had it is gone.  A webhook therefore also carries the number of its     *)
(* making, which stands for the receiver at its URL, and a delivery the    *)
(* event and the webhook it was queued for; the code sees the ids only.    *)
(*                                                                         *)
(* The clock is abstracted: a row to be retried waits ("later") until its  *)
(* time has come ("due"), a settled row may be old enough for the clean-up *)
(* at any moment.  What one batch leaves behind is any of the rows due.    *)
(***************************************************************************)
EXTENDS Naturals, Sequences, FiniteSets

CONSTANTS
    EventTypes,     \* model.WebhookEvents
    Envs,           \* the environments
    Null,           \* SQL's NULL and Go's nil
    QueueSize,      \* queueSize, the capacity of the channel of events
    SweepBatch,     \* sweepBatch, the LIMIT on the rows due
    MaxConcurrent,  \* maxConcurrent, posts in flight
    Retries,        \* len(retrySchedule)
    Subscriptions,  \* bound: the subscription lists operators choose
    Offered,        \* bound: what happens around the dispatcher, of Doings
    MaxHooks,       \* bound: webhooks ever made
    MaxEvents,      \* bound: events ever notified, tests included
    MaxFaults       \* bound: crashes, shutdowns and failed statements

ASSUME DispatchAssumption ==
    /\ Null \notin Nat /\ Null \notin {"due", "later"}
    /\ QueueSize \in Nat /\ Retries \in Nat
    /\ SweepBatch \in Nat \ {0} /\ MaxConcurrent \in Nat \ {0}
    /\ Subscriptions \subseteq SUBSET EventTypes
    /\ MaxHooks \in Nat /\ MaxEvents \in Nat /\ MaxFaults \in Nat

Doings == {"notify", "test", "toggle", "delete", "retire", "prune", "crash", "shutdown", "dberror"}

VARIABLES
    hooks,      \* the webhooks table, by id
    rows,       \* the webhook_deliveries table, by id
    queue,      \* d.queue
    wake,       \* whether a nudge is pending in d.wake
    rec,        \* recordLoop: the event it records, the webhooks still to serve
    snd,        \* sendLoop: the batch it works on, the webhooks loaded for it
    flights,    \* the attempts under way, each a goroutine
    panel,      \* a Test request: the delivery it is about to queue
    tested,     \* whether it has queued one and has yet to nudge
    stopping,   \* whether the background context has been cancelled
    made,       \* history: webhooks made so far
    events,     \* history: events so far
    owed,       \* history: deliveries the recorder listed a webhook for
    written,    \* history: deliveries whose row was written
    accepted,   \* history: deliveries whose receiver answered 2xx
    faults      \* how many faults have happened

vars == <<hooks, rows, queue, wake, rec, snd, flights, panel, tested, stopping,
          made, events, owed, written, accepted, faults>>
tables == <<hooks, rows>>
record == <<queue, rec>>
send == <<snd, flights>>
history == <<made, events, owed, written, accepted>>

HookIds == 1 .. MaxHooks
RowIds == 1 .. MaxHooks * MaxEvents
Tries == Retries + 1

Pair == [event: 1 .. MaxEvents, hook: 1 .. MaxHooks]
Hook == [env: Envs, subs: SUBSET EventTypes, enabled: BOOLEAN, number: 1 .. MaxHooks]
Event == [env: Envs, type: EventTypes, number: 1 .. MaxEvents]
Delivery == [hook: HookIds, pair: Pair, attempt: 0 .. Tries,
             next: {"due", "later", Null}, delivered: BOOLEAN]

(* What the sender holds in memory: a row of the batch, an attempt, n its  *)
(* number and to the receiver it posts to, and one about to start.         *)
Claimed == [id: RowIds, hook: HookIds, pair: Pair, attempt: 0 .. Tries]
Flight == [id: RowIds, pair: Pair, n: 1 .. Tries, to: 1 .. MaxHooks,
           result: {"posting", "ok", "error"}]
Sending == [row: Claimed, to: 1 .. MaxHooks]

ASSUME RowAssumption == Null \notin Hook \cup Delivery \cup Sending

(* One more than the largest id in use. *)
NewId(table) ==
    LET used == {i \in DOMAIN table : table[i] # Null}
    IN  IF used = {} THEN 1 ELSE 1 + CHOOSE i \in used : \A j \in used : j <= i

Nothing == [pc |-> "idle", event |-> Null, todo |-> {}, queued |-> FALSE]
Waiting == [pc |-> "wait", todo |-> {}, cur |-> Null, full |-> FALSE,
            loaded |-> [h \in HookIds |-> Null]]
Listing == [Waiting EXCEPT !.pc = "list"]

TypeOK ==
    /\ hooks \in [HookIds -> Hook \cup {Null}]
    /\ rows \in [RowIds -> Delivery \cup {Null}]
    /\ queue \in Seq(Event) /\ Len(queue) <= QueueSize
    /\ wake \in BOOLEAN /\ tested \in BOOLEAN /\ stopping \in BOOLEAN
    /\ rec \in [pc: {"idle", "taken", "enqueue"}, event: Event \cup {Null},
                todo: SUBSET HookIds, queued: BOOLEAN]
    /\ snd \in [pc: {"wait", "list", "batch"}, todo: SUBSET Claimed,
                cur: Sending \cup {Null},
                full: BOOLEAN, loaded: [HookIds -> 0 .. MaxHooks \cup {Null}]]
    /\ flights \in SUBSET Flight /\ Cardinality(flights) <= MaxConcurrent
    /\ panel \in [id: HookIds, event: 1 .. MaxEvents] \cup {Null}
    /\ made \in 0 .. MaxHooks /\ events \in 0 .. MaxEvents /\ faults \in 0 .. MaxFaults
    /\ owed \subseteq Pair /\ written \subseteq Pair /\ accepted \subseteq Pair

Init ==
    /\ hooks = [h \in HookIds |-> Null]
    /\ rows = [i \in RowIds |-> Null]
    /\ queue = <<>> /\ wake = FALSE /\ stopping = FALSE
    /\ rec = Nothing /\ snd = Listing /\ flights = {} /\ panel = Null /\ tested = FALSE
    /\ made = 0 /\ events = 0 /\ faults = 0
    /\ owed = {} /\ written = {} /\ accepted = {}

Fault(kind) == /\ kind \in Offered
               /\ faults < MaxFaults
               /\ faults' = faults + 1

-----------------------------------------------------------------------------
(* The operator's panel, and the token requests that notify.  The server   *)
(* takes no new request once it shuts down.                                *)

CreateWebhook ==
    /\ made < MaxHooks /\ ~ stopping
    /\ \E e \in Envs, s \in Subscriptions :
         hooks' = [hooks EXCEPT ![NewId(hooks)] =
                     [env |-> e, subs |-> s, enabled |-> TRUE, number |-> made + 1]]
    /\ made' = made + 1
    /\ UNCHANGED <<rows, wake, record, send, panel, tested, stopping,
                   events, owed, written, accepted, faults>>

(* toggleWebhook: an operator reads the state and asks for the other one.  *)
SetWebhookEnabled(h) ==
    /\ "toggle" \in Offered /\ ~ stopping
    /\ hooks[h] # Null
    /\ hooks' = [hooks EXCEPT ![h].enabled = ~ @]
    /\ UNCHANGED <<rows, wake, record, send, panel, tested, stopping, history, faults>>

(* The dispatcher has nothing of webhook h in hand. *)
AtRest(h) ==
    /\ h \notin rec.todo
    /\ \A d \in snd.todo : d.hook # h
    /\ snd.cur # Null => snd.cur.row.hook # h
    /\ \A f \in flights : f.pair.hook # hooks[h].number

(* The deliveries of the webhook go with it, by cascade.  An operator may  *)
(* delete at any moment, or ("retire") only webhooks at rest.              *)
DeleteWebhook(h) ==
    /\ ~ stopping
    /\ hooks[h] # Null
    /\ \/ "delete" \in Offered
       \/ "retire" \in Offered /\ AtRest(h)
    /\ hooks' = [hooks EXCEPT ![h] = Null]
    /\ rows' = [i \in RowIds |-> IF rows[i] # Null /\ rows[i].hook = h THEN Null ELSE rows[i]]
    /\ UNCHANGED <<wake, record, send, panel, tested, stopping, history, faults>>

(* A slip: the channel grows. *)
Notify_Grows ==
    /\ "notify" \in Offered /\ ~ stopping
    /\ events < MaxEvents
    /\ events' = events + 1
    /\ \E e \in Envs, ty \in EventTypes :
         queue' = Append(queue, [env |-> e, type |-> ty, number |-> events + 1])
    /\ UNCHANGED <<tables, wake, rec, send, panel, tested, stopping,
                   made, owed, written, accepted, faults>>

(* A committed token change: dropped when the channel is full. *)
Notify ==
    /\ "notify" \in Offered /\ ~ stopping
    /\ events < MaxEvents
    /\ events' = events + 1
    /\ \E e \in Envs, ty \in EventTypes :
         queue' = IF Len(queue) < QueueSize
                  THEN Append(queue, [env |-> e, type |-> ty, number |-> events + 1])
                  ELSE queue
    /\ UNCHANGED <<tables, wake, rec, send, panel, tested, stopping,
                   made, owed, written, accepted, faults>>

(* The INSERT of EnqueueDelivery, due at once.  The row belongs to the     *)
(* webhook that has the id now; the foreign key wants one.                 *)
Inserted(h, event) ==
    LET pair == [event |-> event, hook |-> hooks[h].number]
    IN  /\ rows' = [rows EXCEPT ![NewId(rows)] =
                      [hook |-> h, pair |-> pair, attempt |-> 0,
                       next |-> "due", delivered |-> FALSE]]
        /\ written' = written \cup {pair}

(* testWebhook reads the webhook and draws an event id ... *)
TestWebhook(h) ==
    /\ "test" \in Offered /\ ~ stopping
    /\ panel = Null /\ ~ tested
    /\ hooks[h] # Null
    /\ events < MaxEvents
    /\ events' = events + 1
    /\ panel' = [id |-> h, event |-> events + 1]
    /\ UNCHANGED <<tables, wake, record, send, tested, stopping,
                   made, owed, written, accepted, faults>>

(* ... Test queues a delivery for the webhook that has the id by then ... *)
Test ==
    /\ panel # Null
    /\ panel' = Null
    /\ IF hooks[panel.id] # Null THEN Inserted(panel.id, panel.event) /\ tested' = TRUE
                                 ELSE UNCHANGED <<rows, written, tested>>
    /\ UNCHANGED <<hooks, wake, record, send, stopping, made, events, owed, accepted, faults>>

(* ... and wakes the sender. *)
TestNudge ==
    /\ tested
    /\ tested' = FALSE
    /\ wake' = TRUE
    /\ UNCHANGED <<tables, record, send, panel, stopping, history, faults>>

TestError ==
    /\ panel # Null
    /\ Fault("dberror")
    /\ panel' = Null
    /\ UNCHANGED <<tables, wake, record, send, tested, stopping, history>>

-----------------------------------------------------------------------------
(* recordLoop.                                                             *)

Subscribes(hook, type) == hook.subs = {} \/ type \in hook.subs

TakeEvent ==
    /\ rec.pc = "idle"
    /\ queue # <<>>
    /\ rec' = [Nothing EXCEPT !.pc = "taken", !.event = Head(queue)]
    /\ queue' = Tail(queue)
    /\ UNCHANGED <<tables, wake, send, panel, tested, stopping, history, faults>>

(* ListEnabledWebhooks, and the subscriptions looked at one by one.        *)
Interested(ev) ==
    {h \in HookIds : /\ hooks[h] # Null
                     /\ hooks[h].env = ev.env
                     /\ hooks[h].enabled
                     /\ Subscribes(hooks[h], ev.type)}

ListWebhooks ==
    /\ rec.pc = "taken" /\ ~ stopping
    /\ LET todo == Interested(rec.event)
       IN  /\ rec' = IF todo = {} THEN Nothing
                     ELSE [rec EXCEPT !.pc = "enqueue", !.todo = todo]
           /\ owed' = owed \cup {[event |-> rec.event.number, hook |-> hooks[h].number] : h \in todo}
    /\ UNCHANGED <<tables, queue, wake, send, panel, tested, stopping,
                   made, events, written, accepted, faults>>

(* The webhooks are served in the order of their ids.  If one is gone the  *)
(* INSERT fails and record returns: those after it are not served, and     *)
(* nobody is woken for those before it.                                    *)
EnqueueDelivery ==
    /\ rec.pc = "enqueue" /\ ~ stopping
    /\ \E h \in rec.todo :
        /\ \A g \in rec.todo : h <= g
        /\ IF hooks[h] # Null
           THEN /\ Inserted(h, rec.event.number)
                /\ rec' = [rec EXCEPT !.todo = @ \ {h}, !.queued = TRUE]
           ELSE /\ rec' = Nothing
                /\ UNCHANGED <<rows, written>>
    /\ UNCHANGED <<hooks, queue, wake, send, panel, tested, stopping,
                   made, events, owed, accepted, faults>>

Nudge ==
    /\ rec.pc = "enqueue" /\ rec.todo = {}
    /\ wake' = (wake \/ rec.queued)
    /\ rec' = Nothing
    /\ UNCHANGED <<tables, queue, send, panel, tested, stopping, history, faults>>

(* A read or a write of record fails - under a cancelled context all do -  *)
(* and the rest of the event is lost.                                      *)
RecordError ==
    /\ rec.pc = "taken" \/ rec.todo # {}
    /\ IF stopping THEN UNCHANGED faults ELSE Fault("dberror")
    /\ rec' = Nothing
    /\ UNCHANGED <<tables, queue, wake, send, panel, tested, stopping, history>>

-----------------------------------------------------------------------------
(* sendLoop.                                                               *)

(* A slip: retries are never looked for. *)
Due_FirstOnly(row) == row # Null /\ ~ row.delivered /\ row.next = "due" /\ row.attempt = 0

Due(row) == row # Null /\ ~ row.delivered /\ row.next = "due"

(* DueDeliveries, or the end of the sweep when there is nothing to do.     *)
DueDeliveries ==
    LET due == {i \in RowIds : Due(rows[i])}
    IN  /\ snd.pc = "list"
        /\ IF stopping \/ due = {}
           THEN snd' = Waiting
           ELSE \E B \in SUBSET due :
                  /\ Cardinality(B) <= SweepBatch
                  /\ B # due => Cardinality(B) = SweepBatch
                  /\ snd' = [snd EXCEPT !.pc = "batch",
                                        !.full = Cardinality(B) >= SweepBatch,
                                        !.todo = {[id |-> i, hook |-> rows[i].hook,
                                                   pair |-> rows[i].pair,
                                                   attempt |-> rows[i].attempt] : i \in B}]
        /\ UNCHANGED <<tables, wake, record, flights, panel, tested, stopping, history, faults>>

DueDeliveriesError ==
    /\ snd.pc = "list" /\ ~ stopping
    /\ Fault("dberror")
    /\ snd' = Waiting
    /\ UNCHANGED <<tables, wake, record, flights, panel, tested, stopping, history>>

(* GetWebhookByID for the next row of the batch, unless an earlier row     *)
(* loaded the webhook.  No webhook, no attempt; whether it is enabled is   *)
(* not looked at.                                                          *)
GetWebhookByID ==
    /\ snd.pc = "batch" /\ snd.cur = Null
    /\ \E d \in snd.todo :
         \/ /\ snd.loaded[d.hook] # Null
            /\ snd' = [snd EXCEPT !.todo = @ \ {d},
                                  !.cur = [row |-> d, to |-> snd.loaded[d.hook]]]
         \/ /\ snd.loaded[d.hook] = Null
            /\ snd' = IF stopping \/ hooks[d.hook] = Null
                      THEN [snd EXCEPT !.todo = @ \ {d}]
                      ELSE [snd EXCEPT !.todo = @ \ {d},
                                       !.cur = [row |-> d, to |-> hooks[d.hook].number],
                                       !.loaded[d.hook] = hooks[d.hook].number]
    /\ UNCHANGED <<tables, wake, record, flights, panel, tested, stopping, history, faults>>

GetWebhookByIDError ==
    /\ snd.pc = "batch" /\ snd.cur = Null
    /\ Fault("dberror")
    /\ \E d \in snd.todo : /\ snd.loaded[d.hook] = Null
                           /\ snd' = [snd EXCEPT !.todo = @ \ {d}]
    /\ UNCHANGED <<tables, wake, record, flights, panel, tested, stopping, history>>

(* A place among the posts in flight is free. *)
StartAttempt ==
    /\ snd.cur # Null
    /\ Cardinality(flights) < MaxConcurrent
    /\ flights' = flights \cup {[id |-> snd.cur.row.id, pair |-> snd.cur.row.pair,
                                 n |-> snd.cur.row.attempt + 1, to |-> snd.cur.to,
                                 result |-> "posting"]}
    /\ snd' = [snd EXCEPT !.cur = Null]
    /\ UNCHANGED <<tables, wake, record, panel, tested, stopping, history, faults>>

(* A slip: the next batch is listed before the posts have come back.       *)
FinishBatch_NoWait ==
    /\ snd.pc = "batch" /\ snd.todo = {} /\ snd.cur = Null
    /\ snd' = IF snd.full THEN Listing ELSE Waiting
    /\ UNCHANGED <<tables, wake, record, flights, panel, tested, stopping, history, faults>>

(* A slip: nudges that came during the batch are taken for served.         *)
FinishBatch_Drains ==
    /\ snd.pc = "batch" /\ snd.todo = {} /\ snd.cur = Null
    /\ flights = {}
    /\ snd' = IF snd.full THEN Listing ELSE Waiting
    /\ wake' = FALSE
    /\ UNCHANGED <<tables, record, flights, panel, tested, stopping, history, faults>>

FinishBatch ==
    /\ snd.pc = "batch" /\ snd.todo = {} /\ snd.cur = Null
    /\ flights = {}
    /\ snd' = IF snd.full THEN Listing ELSE Waiting
    /\ UNCHANGED <<tables, wake, record, flights, panel, tested, stopping, history, faults>>

(* sendLoop's select: a nudge or the ticker starts the next sweep. *)
Wake ==
    /\ snd.pc = "wait" /\ wake
    /\ snd' = Listing
    /\ wake' = FALSE
    /\ UNCHANGED <<tables, record, flights, panel, tested, stopping, history, faults>>

Ticker ==
    /\ snd.pc = "wait"
    /\ snd' = Listing
    /\ UNCHANGED <<tables, wake, record, flights, panel, tested, stopping, history, faults>>

-----------------------------------------------------------------------------
(* attempt.                                                                *)

(***************************************************************************)
(* post comes back.  The receiver accepted; or it refused, was not reached *)
(* or the context was cancelled; or it accepted, but the answer came too   *)
(* late and the attempt counts as failed.                                  *)
(***************************************************************************)
Post(f) ==
    /\ f.result = "posting"
    /\ \E ok \in BOOLEAN, got \in BOOLEAN :
         /\ ok => got
         /\ flights' = (flights \ {f}) \cup {[f EXCEPT !.result = IF ok THEN "ok" ELSE "error"]}
         /\ accepted' = IF got THEN accepted \cup {f.pair} ELSE accepted
    /\ UNCHANGED <<tables, wake, record, snd, panel, tested, stopping,
                   made, events, owed, written, faults>>

(* A slip: one retry more than the schedule has. *)
NextRetry_OneMore(f) == IF f.result = "error" /\ f.n <= Retries + 1 THEN "later" ELSE Null

(* When the next attempt is owed, if one is. *)
NextRetry(f) == IF f.result = "error" /\ f.n <= Retries THEN "later" ELSE Null

(* A slip: what needs no retry has been delivered. *)
Outcome_GaveUpCounts(f, row) ==
    [row EXCEPT !.attempt = f.n, !.next = NextRetry(f), !.delivered = (NextRetry(f) = Null)]

Outcome(f, row) ==
    [row EXCEPT !.attempt = f.n, !.next = NextRetry(f), !.delivered = (f.result = "ok")]

(* The UPDATE is by id: it finds whatever delivery has the id by then, and *)
(* misses when there is none.                                              *)
RecordDeliveryResult(f) ==
    /\ f.result # "posting"
    /\ rows' = IF rows[f.id] = Null THEN rows
               ELSE [rows EXCEPT ![f.id] = Outcome(f, rows[f.id])]
    /\ flights' = flights \ {f}
    /\ UNCHANGED <<hooks, wake, record, snd, panel, tested, stopping, history, faults>>

RecordResultError(f) ==
    /\ f.result # "posting"
    /\ Fault("dberror")
    /\ flights' = flights \ {f}
    /\ UNCHANGED <<tables, wake, record, snd, panel, tested, stopping, history>>

-----------------------------------------------------------------------------
(* Time, the clean-up job, and the life of the process.                    *)

Elapse(i) ==
    /\ rows[i] # Null /\ rows[i].next = "later"
    /\ rows' = [rows EXCEPT ![i].next = "due"]
    /\ UNCHANGED <<hooks, wake, record, send, panel, tested, stopping, history, faults>>

Settled(row) == row # Null /\ (row.delivered \/ row.next = Null)

DeleteOldDeliveries ==
    /\ "prune" \in Offered /\ ~ stopping
    /\ \E D \in SUBSET {i \in RowIds : Settled(rows[i])} :
         D # {} /\ rows' = [i \in RowIds |-> IF i \in D THEN Null ELSE rows[i]]
    /\ UNCHANGED <<hooks, wake, record, send, panel, tested, stopping, history, faults>>

(* The server has shut down; the background context is cancelled on the    *)
(* way out, and nobody waits for the loops.                                *)
Shutdown ==
    /\ ~ stopping
    /\ Fault("shutdown")
    /\ stopping' = TRUE
    /\ UNCHANGED <<tables, wake, record, send, panel, tested, history>>

(* The process is gone and is started again: only the tables are left.     *)
Restarted ==
    /\ queue' = <<>> /\ wake' = FALSE /\ stopping' = FALSE
    /\ rec' = Nothing /\ snd' = Listing /\ flights' = {} /\ panel' = Null /\ tested' = FALSE
    /\ UNCHANGED <<tables, history>>

Restart == stopping /\ Restarted /\ UNCHANGED faults

Crash == Fault("crash") /\ Restarted

Operator == \/ CreateWebhook \/ Notify \/ Test \/ TestNudge
            \/ \E h \in HookIds : SetWebhookEnabled(h) \/ DeleteWebhook(h) \/ TestWebhook(h)

Recorder == TakeEvent \/ ListWebhooks \/ EnqueueDelivery \/ Nudge

Sender == \/ DueDeliveries \/ GetWebhookByID \/ StartAttempt \/ FinishBatch \/ Wake \/ Ticker
          \/ \E f \in flights : Post(f) \/ RecordDeliveryResult(f)

Failures == \/ TestError \/ RecordError \/ DueDeliveriesError \/ GetWebhookByIDError
            \/ \E f \in flights : RecordResultError(f)
            \/ Shutdown \/ Restart \/ Crash

Next == \/ Operator \/ Recorder \/ Sender \/ Failures
        \/ \E i \in RowIds : Elapse(i)
        \/ DeleteOldDeliveries

Spec == Init /\ [][Next]_vars

(***************************************************************************)
(* The loops are goroutines, every post ends (deliveryTimeout), the ticker *)
(* fires for ever and time passes; whoever stops the service starts it     *)
(* again.                                                                  *)
(***************************************************************************)
FairSpec == /\ Spec
            /\ WF_vars(Sender)
            /\ \A i \in RowIds : WF_vars(Elapse(i))
            /\ WF_vars(Restart)

-----------------------------------------------------------------------------
(* Properties.                                                             *)

(***************************************************************************)
(* No delivery is attempted twice at once: a sweep runs to completion      *)
(* before the next one lists what is due, also when rows are added,        *)
(* removed and their ids used again meanwhile.                             *)
(***************************************************************************)
NeverTwiceAtOnce ==
    \A f, g \in flights : f.id = g.id \/ f.pair = g.pair => f = g

(***************************************************************************)
(* A nudge is not lost, whatever the sender was doing when it came: while  *)
(* neither the recorder nor a test is on its way to nudge, a delivery      *)
(* nobody has tried yet never waits for the ticker, unless a statement     *)
(* failed or an event was cut short.  The channel holds one nudge; a full  *)
(* one swallows the next.                                                  *)
(***************************************************************************)
NudgeNotLost ==
    /\ faults = 0 /\ owed \subseteq written
    /\ rec.pc = "idle" /\ ~ tested
    /\ snd.pc = "wait"
    /\ \E i \in RowIds : Due(rows[i]) /\ rows[i].attempt = 0
    => wake

(***************************************************************************)
(* An attempt whose webhook still exists is the attempt its row asks for:  *)
(* it posts to that webhook, and the row it was read from is still there,  *)
(* still owed, at the attempt before.  The UPDATE by id relies on it, also *)
(* while other webhooks are deleted and their ids used again.              *)
(***************************************************************************)
Lives(n) == \E h \in HookIds : hooks[h] # Null /\ hooks[h].number = n

AttemptKeepsItsRow ==
    \A f \in flights : Lives(f.pair.hook) =>
        /\ f.to = f.pair.hook
        /\ Due(rows[f.id])
        /\ rows[f.id].pair = f.pair
        /\ rows[f.id].attempt + 1 = f.n

(***************************************************************************)
(* A delivery is marked delivered only by an attempt its receiver          *)
(* accepted: its own, or one of a webhook deleted while the post was out,  *)
(* whose row's id has passed on to this delivery.                          *)
(***************************************************************************)
Delivered(row) == row # Null /\ row.delivered

DeliveredByAnAttempt ==
    [][\A i \in RowIds : Delivered(rows'[i]) /\ ~ Delivered(rows[i]) =>
          \E f \in flights : /\ f.id = i /\ f.pair \in accepted
                             /\ rows[i].pair = f.pair \/ ~ Lives(f.pair.hook)]_vars

(***************************************************************************)
(* recordLoop writes each event out as one delivery row per interested     *)
(* webhook: once it is done with an event no webhook it listed and that    *)
(* still exists has been left out, unless a statement failed or the        *)
(* process stopped.                                                        *)
(***************************************************************************)
AllHooksServed ==
    faults = 0 /\ rec.pc = "idle" =>
        \A p \in owed : Lives(p.hook) => p \in written

(***************************************************************************)
(* The table keeps the promise of DeliveryLedger through retries, pruning, *)
(* shutdowns and crashes: one row per event and webhook, at most Tries     *)
(* attempts counted, nothing recorded after the outcome, nothing pruned    *)
(* before it; all records of a webhook go when it is deleted, and no more  *)
(* are made.  This needs the webhooks deleted to be at rest.               *)
(***************************************************************************)
RowOf(p) == {i \in RowIds : rows[i] # Null /\ rows[i].pair = p}

StateOf(p) ==
    IF RowOf(p) = {} THEN IF p \in written THEN "dropped" ELSE "none"
    ELSE LET row == rows[CHOOSE i \in RowOf(p) : TRUE]
         IN  IF row.delivered THEN "delivered"
             ELSE IF row.next = Null THEN "gaveup" ELSE "pending"

Ledger == INSTANCE DeliveryLedger WITH
    Events <- 1 .. MaxEvents,
    Hooks <- 1 .. MaxHooks,
    gone <- {n \in 1 .. made : ~ Lives(n)},
    state <- [p \in Pair |-> StateOf(p)],
    tried <- [p \in Pair |-> IF RowOf(p) = {} THEN 0
                             ELSE rows[CHOOSE i \in RowOf(p) : TRUE].attempt]

KeepsLedger == Ledger!Spec

(***************************************************************************)
(* Every delivery is settled in the end or its webhook is deleted, however *)
(* often the receiver fails and wherever a crash or a failed statement     *)
(* falls.                                                                  *)
(***************************************************************************)
SettlesEventually ==
    \A i \in RowIds : rows[i] # Null /\ ~ Settled(rows[i]) ~> rows[i] = Null \/ Settled(rows[i])

(***************************************************************************)
(* internal/db/webhooks.go, a delivery row "already establishes which      *)
(* webhook the work belongs to": an attempt posts to the webhook its       *)
(* delivery was queued for.  The sender looks the webhook up by an id that *)
(* may have passed to another one meanwhile, so this does not hold.        *)
(***************************************************************************)
RightReceiver == \A f \in flights : f.to = f.pair.hook

(***************************************************************************)
(* internal/model/model.go, "Delivered reports whether the receiver        *)
(* accepted this delivery".  The outcome of an attempt is written by the   *)
(* id of its row, which may have passed to another delivery meanwhile, so  *)
(* this does not hold either.                                              *)
(***************************************************************************)
DeliveredMeansAccepted == \A i \in RowIds : Delivered(rows[i]) => rows[i].pair \in accepted
=============================================================================
