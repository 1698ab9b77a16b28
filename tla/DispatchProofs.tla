--------------------------- MODULE DispatchProofs ---------------------------
(***************************************************************************)
(* What Dispatch promises for any number of webhooks, events, attempts and *)
(* faults.  A delivery is written once, because events and webhooks are    *)
(* numbered and nobody is about to write a pair that is written (Numbers,  *)
(* Outstanding); so the rows of a batch are distinct deliveries, and stay  *)
(* so while they are claimed, loaded and sent (Batch).                     *)
(***************************************************************************)
EXTENDS Dispatch, FiniteSetTheorems, WellFoundedInduction, TLAPS

Types ==
    /\ hooks \in [HookIds -> Hook \cup {Null}]
    /\ rows \in [RowIds -> Delivery \cup {Null}]
    /\ made \in 0 .. MaxHooks /\ events \in 0 .. MaxEvents
    /\ written \subseteq Pair

(* What the tables hold: webhooks by their own numbers, ... *)
HookNumbers ==
    /\ \A h \in HookIds : hooks[h] # Null => hooks[h].number <= made
    /\ \A g, h \in HookIds :
        hooks[g] # Null /\ hooks[h] # Null /\ hooks[g].number = hooks[h].number => g = h

(* ... and each delivery once; one still to be sent has an attempt left.   *)
RowNumbers ==
    /\ \A i \in RowIds : rows[i] # Null =>
          rows[i].pair \in written /\ (rows[i].next # Null => rows[i].attempt <= Retries)
    /\ \A i, j \in RowIds :
          rows[i] # Null /\ rows[j] # Null /\ rows[i].pair = rows[j].pair => i = j

Numbers == /\ HookNumbers /\ RowNumbers
           /\ \A p \in written : p.hook <= made /\ p.event <= events

Tables == Types /\ Numbers

(* No delivery of event n is written yet. *)
Unwritten(n) == n <= events /\ \A p \in written : p.event # n

(* The events on their way to the table: each in one place only. *)
Outstanding ==
    /\ queue \in Seq(Event) /\ Len(queue) <= QueueSize
    /\ rec \in [pc: {"idle", "taken", "enqueue"}, event: Event \cup {Null},
                todo: SUBSET HookIds, queued: BOOLEAN]
    /\ panel \in [id: HookIds, event: 1 .. MaxEvents] \cup {Null}
    /\ \A k \in 1 .. Len(queue) : Unwritten(queue[k].number)
    /\ \A k, l \in 1 .. Len(queue) : queue[k].number = queue[l].number => k = l
    /\ rec.pc = "idle" => rec.todo = {}
    /\ rec.pc # "idle" =>
          /\ rec.event \in Event /\ rec.event.number <= events
          /\ \A k \in 1 .. Len(queue) : queue[k].number # rec.event.number
    /\ rec.pc = "taken" => Unwritten(rec.event.number) /\ rec.todo = {}
    /\ rec.pc = "enqueue" =>
          \A h \in rec.todo : hooks[h] # Null =>
              [event |-> rec.event.number, hook |-> hooks[h].number] \notin written
    /\ panel # Null =>
          /\ Unwritten(panel.event)
          /\ \A k \in 1 .. Len(queue) : queue[k].number # panel.event
          /\ rec.pc # "idle" => rec.event.number # panel.event

SndType ==
    [pc: {"wait", "list", "batch"}, todo: SUBSET Claimed,
     cur: Sending \cup {Null},
     full: BOOLEAN, loaded: [HookIds -> 0 .. MaxHooks \cup {Null}]]

(* The sender's batch: claimed, about to be sent, or in flight. *)
Batch ==
    /\ snd \in SndType
    /\ flights \in SUBSET Flight
    /\ \A h \in HookIds : snd.loaded[h] # Null => snd.loaded[h] \in 1 .. MaxHooks
    /\ snd.pc # "batch" => snd.todo = {} /\ snd.cur = Null /\ flights = {}
    /\ \A d \in snd.todo : d.attempt <= Retries
    /\ \A d, e \in snd.todo : d.id = e.id \/ d.pair = e.pair => d = e
    /\ \A d \in snd.todo, f \in flights : d.id # f.id /\ d.pair # f.pair
    /\ snd.cur # Null =>
          /\ snd.cur.row.attempt <= Retries
          /\ \A d \in snd.todo : d.id # snd.cur.row.id /\ d.pair # snd.cur.row.pair
          /\ \A f \in flights : f.id # snd.cur.row.id /\ f.pair # snd.cur.row.pair
    /\ NeverTwiceAtOnce

IInv == Tables /\ Outstanding /\ Batch

-----------------------------------------------------------------------------
LEMMA Bounds ==
    /\ Null \notin Nat /\ QueueSize \in Nat /\ Retries \in Nat
    /\ MaxHooks \in Nat /\ MaxEvents \in Nat /\ Tries = Retries + 1 /\ Tries \in Nat
    /\ SweepBatch \in Nat /\ MaxConcurrent \in Nat
  BY DispatchAssumption DEF DispatchAssumption, Tries

LEMMA NothingType ==
    /\ Nothing \in [pc: {"idle", "taken", "enqueue"}, event: Event \cup {Null},
                    todo: SUBSET HookIds, queued: BOOLEAN]
    /\ Nothing.pc = "idle" /\ Nothing.todo = {}
  BY DEF Nothing

LEMMA WaitingType ==
    ASSUME NEW s \in {Waiting, Listing}
    PROVE  /\ s \in SndType
           /\ s.pc \in {"wait", "list"} /\ s.todo = {} /\ s.cur = Null
           /\ \A h \in HookIds : s.loaded[h] = Null
<1>1. Waiting \in SndType
  BY DEF Waiting, SndType
<1>2. Listing \in SndType
  <2> DEFINE w == Waiting
  <2>1. w \in SndType  BY <1>1
  <2> HIDE DEF w
  <2>2. [w EXCEPT !.pc = "list"] \in SndType  BY <2>1 DEF SndType
  <2> QED  BY <2>2 DEF Listing, w
<1>3. /\ Waiting.pc = "wait" /\ Waiting.todo = {} /\ Waiting.cur = Null
      /\ \A h \in HookIds : Waiting.loaded[h] = Null
  BY DEF Waiting
<1>4. /\ Listing.pc = "list" /\ Listing.todo = Waiting.todo /\ Listing.cur = Waiting.cur
      /\ Listing.loaded = Waiting.loaded
  BY DEF Waiting, Listing
<1> QED
  BY <1>1, <1>2, <1>3, <1>4

LEMMA InitIInv == Init => IInv
<1> SUFFICES ASSUME Init PROVE IInv
  OBVIOUS
<1>1. Tables
  <2>1. 0 \in 0 .. MaxHooks /\ 0 \in 0 .. MaxEvents
    BY Bounds
  <2>2. Types  BY <2>1 DEF Init, Types
  <2>3. /\ \A h \in HookIds : hooks[h] = Null
        /\ \A i \in RowIds : rows[i] = Null
        /\ written = {}
    BY DEF Init
  <2>4. HookNumbers /\ RowNumbers  BY <2>3 DEF HookNumbers, RowNumbers
  <2>5. Numbers  BY <2>3, <2>4 DEF Numbers
  <2> QED  BY <2>2, <2>5 DEF Tables
<1>2. Outstanding
  BY NothingType, Bounds DEF Init, Outstanding
<1>3. Batch
  BY WaitingType DEF Init, Batch, NeverTwiceAtOnce
<1> QED
  BY <1>1, <1>2, <1>3 DEF IInv

-----------------------------------------------------------------------------
(* The parts that a step leaves alone. *)

LEMMA TablesKept ==
    Tables /\ UNCHANGED <<hooks, rows, made, events, written>> => Tables'
  BY DEF Tables, Types, Numbers, HookNumbers, RowNumbers

LEMMA BatchKept == Batch /\ UNCHANGED send => Batch'
  BY DEF Batch, NeverTwiceAtOnce, send

LEMMA OutstandingKept ==
    Outstanding /\ UNCHANGED <<hooks, events, written, record, panel>> => Outstanding'
  BY DEF Outstanding, Unwritten, record

(* The sender with no batch. *)
LEMMA BatchEmpty ==
    ASSUME NEW s \in {Waiting, Listing}, snd' = s, flights' = {}
    PROVE  Batch'
  BY WaitingType DEF Batch, NeverTwiceAtOnce

(* Webhooks and rows that go, or change without becoming another one. *)
LEMMA HooksChange ==
    ASSUME Tables, UNCHANGED made,
           \A h \in HookIds : hooks'[h] # Null =>
               hooks[h] # Null /\ hooks'[h].number = hooks[h].number
    PROVE  HookNumbers'
<1>1. HookNumbers  BY DEF Tables, Numbers
<1>2. \A h \in HookIds : hooks'[h] # Null => hooks'[h].number <= made'
  BY <1>1 DEF HookNumbers
<1>3. \A g, h \in HookIds :
        hooks'[g] # Null /\ hooks'[h] # Null /\ hooks'[g].number = hooks'[h].number => g = h
  BY <1>1 DEF HookNumbers
<1> QED
  BY <1>2, <1>3 DEF HookNumbers

LEMMA RowsChange ==
    ASSUME Tables, UNCHANGED written,
           \A i \in RowIds : rows'[i] # Null =>
               /\ rows[i] # Null
               /\ rows'[i].pair = rows[i].pair
               /\ rows'[i].next # Null => rows'[i].attempt <= Retries
    PROVE  RowNumbers'
<1>1. RowNumbers  BY DEF Tables, Numbers
<1>2. \A i \in RowIds : rows'[i] # Null =>
        rows'[i].pair \in written' /\ (rows'[i].next # Null => rows'[i].attempt <= Retries)
  BY <1>1 DEF RowNumbers
<1>3. \A i, j \in RowIds :
        rows'[i] # Null /\ rows'[j] # Null /\ rows'[i].pair = rows'[j].pair => i = j
  BY <1>1 DEF RowNumbers
<1> QED
  BY <1>2, <1>3 DEF RowNumbers

(* A delivery not yet written joins the table, wherever its row goes. *)
LEMMA InsertedTables ==
    ASSUME Tables, NEW h \in HookIds, hooks[h] # Null, NEW n \in 1 .. MaxEvents, n <= events,
           [event |-> n, hook |-> hooks[h].number] \notin written,
           Inserted(h, n), UNCHANGED <<hooks, made, events>>
    PROVE  Tables'
<1> DEFINE pair == [event |-> n, hook |-> hooks[h].number]
           new == [hook |-> h, pair |-> pair, attempt |-> 0, next |-> "due", delivered |-> FALSE]
<1>1. hooks[h] \in Hook /\ hooks[h].number <= made
  BY DEF Tables, Types, Numbers, HookNumbers
<1>2. pair \in Pair /\ pair.hook <= made /\ pair.event <= events /\ pair \notin written
  BY <1>1 DEF Hook, Pair
<1>3. new \in Delivery /\ new.pair = pair /\ new.attempt = 0
  BY <1>2, Bounds DEF Delivery
<1>4. rows' = [rows EXCEPT ![NewId(rows)] = new] /\ written' = written \cup {pair}
  BY DEF Inserted
<1> HIDE DEF new, pair
<1>5. \A i \in RowIds : rows'[i] = rows[i] \/ (rows'[i] = new /\ i = NewId(rows))
  BY <1>4 DEF Tables, Types
<1>6. Types'
  BY <1>2, <1>3, <1>4 DEF Tables, Types
<1>7. Numbers'
  <2>1. \A p \in written' : p.hook <= made' /\ p.event <= events'
    BY <1>2, <1>4 DEF Tables, Numbers
  <2>2. \A i \in RowIds : rows'[i] # Null =>
          rows'[i].pair \in written' /\ (rows'[i].next # Null => rows'[i].attempt <= Retries)
    BY <1>3, <1>4, <1>5, Bounds DEF Tables, Numbers, RowNumbers
  <2>3. \A i, j \in RowIds :
          rows'[i] # Null /\ rows'[j] # Null /\ rows'[i].pair = rows'[j].pair => i = j
    BY <1>2, <1>3, <1>5 DEF Tables, Numbers, RowNumbers
  <2>4. HookNumbers'
    BY HooksChange
  <2> QED
    BY <2>1, <2>2, <2>3, <2>4 DEF RowNumbers, Numbers
<1> QED
  BY <1>6, <1>7 DEF Tables

-----------------------------------------------------------------------------
(* The operator's actions, and the requests that notify. *)

LEMMA CreateWebhookStep == IInv /\ CreateWebhook => IInv'
<1> SUFFICES ASSUME IInv, CreateWebhook PROVE IInv'
  OBVIOUS
<1>1. PICK e \in Envs, s \in Subscriptions :
        hooks' = [hooks EXCEPT ![NewId(hooks)] =
                    [env |-> e, subs |-> s, enabled |-> TRUE, number |-> made + 1]]
  BY DEF CreateWebhook
<1> DEFINE new == [env |-> e, subs |-> s, enabled |-> TRUE, number |-> made + 1]
<1>2. /\ made < MaxHooks /\ made' = made + 1 /\ made \in Nat
      /\ UNCHANGED <<rows, record, send, panel, events, written>>
  BY Bounds DEF CreateWebhook, IInv, Tables, Types
<1>3. new \in Hook /\ new.number = made + 1
  BY <1>2, Bounds, DispatchAssumption DEF DispatchAssumption, Hook
<1> HIDE DEF new
<1>4. \A h \in HookIds : hooks'[h] = hooks[h] \/ (hooks'[h] = new /\ h = NewId(hooks))
  BY <1>1 DEF IInv, Tables, Types, new
<1>5. Types'
  <2>1. hooks' \in [HookIds -> Hook \cup {Null}]
    BY <1>1, <1>3 DEF IInv, Tables, Types, new
  <2>2. made' \in 0 .. MaxHooks
    BY <1>2, Bounds
  <2> QED
    BY <1>2, <2>1, <2>2 DEF IInv, Tables, Types
<1>6. \A h \in HookIds : hooks[h] # Null => hooks[h].number \in Nat /\ hooks[h].number <= made
  BY DEF IInv, Tables, Types, Numbers, HookNumbers, Hook
<1>7. \A p \in written : p.hook \in Nat /\ p.hook <= made /\ p.event <= events
  BY DEF IInv, Tables, Types, Numbers, Pair
<1>8. Numbers'
  <2>1. \A h \in HookIds : hooks'[h] # Null => hooks'[h].number <= made'
    BY <1>2, <1>3, <1>4, <1>6
  <2>2. \A g, h \in HookIds :
        hooks'[g] # Null /\ hooks'[h] # Null /\ hooks'[g].number = hooks'[h].number => g = h
    <3>1. \A g, h \in HookIds :
        hooks[g] # Null /\ hooks[h] # Null /\ hooks[g].number = hooks[h].number => g = h
      BY DEF IInv, Tables, Numbers, HookNumbers
    <3>2. \A h \in HookIds : hooks[h] # Null => hooks[h].number # new.number
      BY <1>2, <1>3, <1>6
    <3> QED
      BY <1>4, <3>1, <3>2
  <2>3. \A p \in written' : p.hook <= made' /\ p.event <= events'
    BY <1>2, <1>7
  <2>4. RowNumbers'
    BY <1>2 DEF IInv, Tables, Numbers, RowNumbers
  <2> QED
    BY <2>1, <2>2, <2>3, <2>4 DEF Numbers, HookNumbers
<1>9. Outstanding'
  <2>1. rec.pc = "enqueue" => \A h \in rec.todo : hooks'[h] # Null =>
          [event |-> rec.event.number, hook |-> hooks'[h].number] \notin written
    <3> SUFFICES ASSUME rec.pc = "enqueue", NEW h \in rec.todo, hooks'[h] # Null
                 PROVE  [event |-> rec.event.number, hook |-> hooks'[h].number] \notin written
      OBVIOUS
    <3>1. h \in HookIds  BY DEF IInv, Outstanding
    <3>2. CASE hooks'[h] = hooks[h]  BY <3>2 DEF IInv, Outstanding
    <3>3. CASE hooks'[h] = new
      <4> DEFINE q == [event |-> rec.event.number, hook |-> new.number]
      <4>1. q.hook = made + 1  BY <1>3
      <4>2. q \notin written  BY <4>1, <1>2, <1>7
      <4> QED  BY <3>3, <4>2
    <3> QED  BY <3>1, <3>2, <3>3, <1>4
  <2> QED
    BY <2>1, <1>2 DEF IInv, Outstanding, Unwritten, record
<1> QED
  BY <1>2, <1>5, <1>8, <1>9, BatchKept DEF IInv, Tables

LEMMA SetWebhookEnabledStep ==
    ASSUME IInv, NEW h \in HookIds, SetWebhookEnabled(h) PROVE IInv'
<1>1. /\ hooks[h] # Null /\ hooks' = [hooks EXCEPT ![h].enabled = ~ @]
      /\ UNCHANGED <<rows, record, send, panel, made, events, written>>
  BY DEF SetWebhookEnabled, history
<1>2. hooks \in [HookIds -> Hook \cup {Null}]
  BY DEF IInv, Tables, Types
<1>3. /\ hooks' \in [HookIds -> Hook \cup {Null}]
      /\ hooks'[h].number = hooks[h].number
      /\ \A g \in HookIds : g # h => hooks'[g] = hooks[g]
  BY <1>1, <1>2 DEF Hook
<1>4. \A g \in HookIds : hooks'[g] # Null => hooks[g] # Null /\ hooks'[g].number = hooks[g].number
  BY <1>1, <1>3
<1>5. Tables'
  <2>1. HookNumbers' /\ RowNumbers'
    BY <1>1, <1>4, HooksChange DEF IInv, Tables, Numbers, RowNumbers
  <2> QED
    BY <2>1, <1>1, <1>3 DEF IInv, Tables, Types, Numbers
<1>6. Outstanding'
  <2>1. rec.pc = "enqueue" => \A g \in rec.todo : hooks'[g] # Null =>
          [event |-> rec.event.number, hook |-> hooks'[g].number] \notin written
    BY <1>4 DEF IInv, Outstanding
  <2> QED
    BY <2>1, <1>1 DEF IInv, Outstanding, Unwritten, record
<1> QED
  BY <1>1, <1>5, <1>6, BatchKept DEF IInv

LEMMA DeleteWebhookStep ==
    ASSUME IInv, NEW h \in HookIds, DeleteWebhook(h) PROVE IInv'
<1>1. /\ hooks' = [hooks EXCEPT ![h] = Null]
      /\ rows' = [i \in RowIds |-> IF rows[i] # Null /\ rows[i].hook = h THEN Null ELSE rows[i]]
      /\ UNCHANGED <<record, send, panel, made, events, written>>
  BY DEF DeleteWebhook, history
<1>2. /\ hooks' \in [HookIds -> Hook \cup {Null}]
      /\ \A g \in HookIds : hooks'[g] # Null => hooks'[g] = hooks[g]
  BY <1>1 DEF IInv, Tables, Types
<1>3. /\ rows' \in [RowIds -> Delivery \cup {Null}]
      /\ \A i \in RowIds : rows'[i] # Null => rows'[i] = rows[i]
  BY <1>1 DEF IInv, Tables, Types
<1>4. Tables'
  <2>1. HookNumbers'
    BY <1>1, <1>2, HooksChange DEF IInv
  <2>2. \A i \in RowIds : rows[i] # Null => (rows[i].next # Null => rows[i].attempt <= Retries)
    BY DEF IInv, Tables, Numbers, RowNumbers
  <2>3. RowNumbers'
    BY <1>1, <1>3, <2>2, RowsChange DEF IInv
  <2> QED
    BY <2>1, <2>3, <1>1, <1>2, <1>3 DEF IInv, Tables, Types, Numbers
<1>5. Outstanding'
  <2>1. rec.pc = "enqueue" => \A g \in rec.todo : hooks'[g] # Null =>
          [event |-> rec.event.number, hook |-> hooks'[g].number] \notin written
    BY <1>2 DEF IInv, Outstanding
  <2> QED
    BY <2>1, <1>1 DEF IInv, Outstanding, Unwritten, record
<1> QED
  BY <1>1, <1>4, <1>5, BatchKept DEF IInv

(* A new event has no delivery yet. *)
LEMMA EventCounted ==
    ASSUME Tables, UNCHANGED <<hooks, rows, made, written>>,
           events < MaxEvents, events' = events + 1
    PROVE  /\ Tables'
           /\ events \in Nat
           /\ \A p \in written : p.event # events + 1
<1>1. events \in Nat /\ events' \in 0 .. MaxEvents
  BY Bounds DEF Tables, Types
<1>2. \A p \in written : p.event \in Nat /\ p.event <= events /\ p.hook <= made
  BY DEF Tables, Types, Numbers, Pair
<1>3. \A p \in written : p.event <= events' /\ p.event # events + 1
  BY <1>1, <1>2
<1>4. HookNumbers' /\ RowNumbers'
  BY DEF Tables, Numbers, HookNumbers, RowNumbers
<1>5. Tables'
  BY <1>1, <1>2, <1>3, <1>4 DEF Tables, Types, Numbers
<1> QED
  BY <1>1, <1>3, <1>5

LEMMA NotifyStep == IInv /\ Notify => IInv'
<1> SUFFICES ASSUME IInv, Notify PROVE IInv'
  OBVIOUS
<1>1. PICK e \in Envs, ty \in EventTypes :
        queue' = IF Len(queue) < QueueSize
                 THEN Append(queue, [env |-> e, type |-> ty, number |-> events + 1])
                 ELSE queue
  BY DEF Notify
<1> DEFINE ev == [env |-> e, type |-> ty, number |-> events + 1]
<1>2. /\ events < MaxEvents /\ events' = events + 1 /\ events \in Nat
      /\ UNCHANGED <<hooks, rows, rec, send, panel, made, written>>
  BY Bounds DEF Notify, IInv, Tables, Types, tables
<1>3. ev \in Event /\ ev.number = events + 1
  BY <1>2, Bounds DEF Event
<1> HIDE DEF ev
<1>4. Tables' /\ \A p \in written : p.event # events + 1
  BY <1>2, EventCounted DEF IInv
<1>5. /\ queue \in Seq(Event) /\ Len(queue) \in Nat /\ Len(queue) <= QueueSize
      /\ \A k \in 1 .. Len(queue) : queue[k] \in Event /\ queue[k].number <= events
      /\ \A k \in 1 .. Len(queue) : \A p \in written : p.event # queue[k].number
  BY DEF IInv, Outstanding, Unwritten
<1>6. rec.pc # "idle" => rec.event \in Event /\ rec.event.number <= events
  BY DEF IInv, Outstanding
<1>7. panel # Null => panel.event \in Nat /\ panel.event <= events
  BY DEF IInv, Outstanding, Unwritten
<1>8. \A x \in Event : x.number \in Nat
  BY DEF Event
<1>9. rec.pc # "idle" => rec.event.number <= events'
  BY <1>2, <1>6, <1>8
<1>10. rec.pc = "taken" => Unwritten(rec.event.number)'
  <2>1. rec.pc = "taken" => Unwritten(rec.event.number)
    BY DEF IInv, Outstanding
  <2> QED
    BY <2>1, <1>2, <1>9 DEF Unwritten
<1>11. panel # Null => Unwritten(panel.event)'
  <2>1. panel # Null => Unwritten(panel.event)
    BY DEF IInv, Outstanding
  <2> QED
    BY <2>1, <1>2, <1>7 DEF Unwritten
<1>12. CASE Len(queue) < QueueSize
  <2>1. queue' = Append(queue, ev)
    BY <1>1, <1>12 DEF ev
  <2>2. /\ queue' \in Seq(Event) /\ Len(queue') = Len(queue) + 1
        /\ queue'[Len(queue) + 1] = ev
        /\ \A k \in 1 .. Len(queue) : queue'[k] = queue[k]
    BY <2>1, <1>3, <1>5
  <2>3. Len(queue') <= QueueSize /\ \A k \in 1 .. Len(queue') : k \in 1 .. Len(queue) \/ k = Len(queue) + 1
    BY <2>2, <1>5, <1>12, Bounds
  <2>4. \A k \in 1 .. Len(queue') : /\ queue'[k].number <= events'
                                    /\ \A p \in written' : p.event # queue'[k].number
    <3> SUFFICES ASSUME NEW k \in 1 .. Len(queue')
                 PROVE  /\ queue'[k].number <= events'
                        /\ \A p \in written' : p.event # queue'[k].number
      OBVIOUS
    <3>1. CASE k \in 1 .. Len(queue)  BY <3>1, <2>2, <1>2, <1>5, <1>8
    <3>2. CASE k = Len(queue) + 1  BY <3>2, <2>2, <1>2, <1>3, <1>4
    <3> QED  BY <3>1, <3>2, <2>3
  <2>5. \A k \in 1 .. Len(queue') : Unwritten(queue[k].number)'
    BY <2>4 DEF Unwritten
  <2>6. \A k, l \in 1 .. Len(queue') : queue'[k].number = queue'[l].number => k = l
    <3>1. \A k \in 1 .. Len(queue) : queue[k].number # ev.number
      BY <1>2, <1>3, <1>5, <1>8
    <3>2. \A k, l \in 1 .. Len(queue) : queue[k].number = queue[l].number => k = l
      BY DEF IInv, Outstanding
    <3> QED
      BY <2>2, <2>3, <3>1, <3>2
  <2>7. rec.pc # "idle" => \A k \in 1 .. Len(queue') : queue'[k].number # rec.event.number
    <3>1. rec.pc # "idle" => \A k \in 1 .. Len(queue) : queue[k].number # rec.event.number
      BY DEF IInv, Outstanding
    <3>2. rec.pc # "idle" => ev.number # rec.event.number
      BY <1>2, <1>3, <1>6, <1>8
    <3> QED
      BY <2>2, <2>3, <3>1, <3>2
  <2>8. panel # Null => \A k \in 1 .. Len(queue') : queue'[k].number # panel.event
    <3>1. panel # Null => \A k \in 1 .. Len(queue) : queue[k].number # panel.event
      BY DEF IInv, Outstanding
    <3>2. panel # Null => ev.number # panel.event
      BY <1>2, <1>3, <1>7
    <3> QED
      BY <2>2, <2>3, <3>1, <3>2
  <2> QED
    BY <2>2, <2>3, <2>5, <2>6, <2>7, <2>8, <1>2, <1>4, <1>9, <1>10, <1>11, BatchKept DEF IInv, Outstanding
<1>13. CASE ~ (Len(queue) < QueueSize)
  <2>1. queue' = queue
    BY <1>1, <1>13
  <2>2. \A k \in 1 .. Len(queue) : queue[k].number <= events'
    BY <1>2, <1>5, <1>8
  <2>3. \A k \in 1 .. Len(queue') : Unwritten(queue[k].number)'
    BY <2>1, <2>2, <1>2, <1>5 DEF Unwritten
  <2> QED
    BY <2>1, <2>3, <1>2, <1>4, <1>9, <1>10, <1>11, BatchKept DEF IInv, Outstanding
<1> QED
  BY <1>12, <1>13

LEMMA TestWebhookStep ==
    ASSUME IInv, NEW h \in HookIds, TestWebhook(h) PROVE IInv'
<1>1. /\ panel = Null /\ events < MaxEvents /\ events' = events + 1
      /\ panel' = [id |-> h, event |-> events + 1]
      /\ UNCHANGED <<hooks, rows, queue, rec, send, made, written>>
  BY DEF TestWebhook, tables, record
<1>2. Tables' /\ events \in Nat /\ \A p \in written : p.event # events + 1
  BY <1>1, EventCounted DEF IInv
<1>3. panel' \in [id: HookIds, event: 1 .. MaxEvents] /\ panel'.event = events + 1
  BY <1>1, <1>2, Bounds
<1>4. Unwritten(panel.event)'
  BY <1>1, <1>2, <1>3 DEF Unwritten
<1>5. \A x \in Event : x.number \in Nat
  BY DEF Event
<1>6. \A k \in 1 .. Len(queue) : Unwritten(queue[k].number) /\ queue[k] \in Event
  BY DEF IInv, Outstanding
<1>7. \A k \in 1 .. Len(queue) : queue[k].number <= events
  BY <1>6 DEF Unwritten
<1>8. \A k \in 1 .. Len(queue) : queue[k].number <= events' /\ queue[k].number # panel'.event
  BY <1>1, <1>2, <1>3, <1>5, <1>6, <1>7
<1>9. \A k \in 1 .. Len(queue') : Unwritten(queue[k].number)'
  BY <1>1, <1>6, <1>8 DEF Unwritten
<1>10. rec.pc # "idle" =>
         rec.event \in Event /\ rec.event.number <= events' /\ rec.event.number # panel'.event
  <2>1. rec.pc # "idle" => rec.event \in Event /\ rec.event.number <= events
    BY DEF IInv, Outstanding
  <2> QED
    BY <2>1, <1>1, <1>2, <1>3, <1>5
<1>11. rec.pc = "taken" => Unwritten(rec.event.number)'
  <2>1. rec.pc = "taken" => Unwritten(rec.event.number)
    BY DEF IInv, Outstanding
  <2> QED
    BY <2>1, <1>1, <1>10 DEF Unwritten
<1>12. Outstanding'
  BY <1>1, <1>3, <1>4, <1>8, <1>9, <1>10, <1>11 DEF IInv, Outstanding
<1> QED
  BY <1>1, <1>2, <1>12, BatchKept DEF IInv

LEMMA TestStep == IInv /\ Test => IInv'
<1> SUFFICES ASSUME IInv, Test PROVE IInv'
  OBVIOUS
<1>1. /\ panel # Null /\ panel' = Null
      /\ UNCHANGED <<hooks, record, send, made, events>>
  BY DEF Test
<1>2. panel.id \in HookIds /\ panel.event \in 1 .. MaxEvents /\ Unwritten(panel.event)
  BY <1>1 DEF IInv, Outstanding
<1>3. CASE hooks[panel.id] = Null
  <2>1. UNCHANGED <<rows, written>>
    BY <1>3 DEF Test
  <2>2. Tables'
    BY <1>1, <2>1, TablesKept DEF IInv
  <2>3. Outstanding'
    BY <1>1, <2>1 DEF IInv, Outstanding, Unwritten, record
  <2> QED
    BY <1>1, <2>2, <2>3, BatchKept DEF IInv
<1>4. CASE hooks[panel.id] # Null
  <2> DEFINE pair == [event |-> panel.event, hook |-> hooks[panel.id].number]
  <2>1. Inserted(panel.id, panel.event)
    BY <1>1, <1>4 DEF Test
  <2>2. pair \notin written /\ panel.event <= events
    BY <1>2 DEF Unwritten
  <2>3. Tables'
    BY <1>1, <1>2, <1>4, <2>1, <2>2, InsertedTables DEF IInv
  <2>4. written' = written \cup {pair} /\ pair.event = panel.event
    BY <2>1 DEF Inserted
  <2> HIDE DEF pair
  <2>5. Outstanding'
    <3>1. \A k \in 1 .. Len(queue) : Unwritten(queue[k].number) /\ queue[k].number # panel.event
      BY <1>1 DEF IInv, Outstanding
    <3>2. \A k \in 1 .. Len(queue') : Unwritten(queue[k].number)'
      BY <3>1, <1>1, <2>4 DEF Unwritten, record
    <3>3. rec.pc # "idle" => rec.event.number # panel.event
      BY <1>1 DEF IInv, Outstanding
    <3>4. rec.pc = "taken" => Unwritten(rec.event.number)'
      <4>1. rec.pc = "taken" => Unwritten(rec.event.number) /\ rec.event.number # panel.event
        BY <1>1 DEF IInv, Outstanding
      <4> QED
        BY <4>1, <1>1, <2>4 DEF Unwritten, record
    <3>5. rec.pc = "enqueue" => \A h \in rec.todo : hooks[h] # Null =>
            [event |-> rec.event.number, hook |-> hooks[h].number] \notin written'
      <4> SUFFICES ASSUME rec.pc = "enqueue", NEW h \in rec.todo, hooks[h] # Null
                   PROVE  [event |-> rec.event.number, hook |-> hooks[h].number] \notin written'
        OBVIOUS
      <4> DEFINE q == [event |-> rec.event.number, hook |-> hooks[h].number]
      <4>1. q \notin written  BY DEF IInv, Outstanding
      <4>2. q.event = rec.event.number  OBVIOUS
      <4>3. q # pair  BY <4>2, <3>3, <2>4
      <4> QED  BY <4>1, <4>3, <2>4
    <3> QED
      BY <3>2, <3>4, <3>5, <1>1 DEF IInv, Outstanding, record
  <2> QED
    BY <1>1, <2>3, <2>5, BatchKept DEF IInv
<1> QED
  BY <1>3, <1>4

LEMMA TestNudgeStep == IInv /\ TestNudge => IInv'
  BY TablesKept, OutstandingKept, BatchKept DEF IInv, TestNudge, tables, record, history

LEMMA TestErrorStep == IInv /\ TestError => IInv'
<1> SUFFICES ASSUME IInv, TestError PROVE IInv'
  OBVIOUS
<1>1. panel' = Null /\ UNCHANGED <<hooks, rows, queue, rec, send, made, events, written>>
  BY DEF TestError, tables, record, history
<1>2. Outstanding'
  BY <1>1 DEF IInv, Outstanding, Unwritten
<1> QED
  BY <1>1, <1>2, TablesKept, BatchKept DEF IInv

-----------------------------------------------------------------------------
(* The recorder. *)

(* The recorder drops what it was doing, or is done with it. *)
LEMMA RecorderRests ==
    ASSUME Outstanding, rec' = Nothing, UNCHANGED <<hooks, events, written, queue, panel>>
    PROVE  Outstanding'
  BY NothingType DEF Outstanding, Unwritten

LEMMA TakeEventStep == IInv /\ TakeEvent => IInv'
<1> SUFFICES ASSUME IInv, TakeEvent PROVE IInv'
  OBVIOUS
<1> DEFINE ev == Head(queue)
           next == [Nothing EXCEPT !.pc = "taken", !.event = ev]
<1>1. /\ rec.pc = "idle" /\ queue # <<>> /\ rec' = next /\ queue' = Tail(queue)
      /\ UNCHANGED <<hooks, rows, send, panel, made, events, written>>
  BY DEF TakeEvent, tables, history
<1>2. queue \in Seq(Event) /\ Len(queue) <= QueueSize /\ Len(queue) \in Nat
  BY DEF IInv, Outstanding
<1>3. /\ queue' \in Seq(Event) /\ Len(queue') = Len(queue) - 1 /\ Len(queue) >= 1
      /\ \A k \in 1 .. Len(queue') : queue'[k] = queue[k + 1] /\ k + 1 \in 1 .. Len(queue)
      /\ ev = queue[1] /\ ev \in Event
  BY <1>1, <1>2
<1>4. 1 \in 1 .. Len(queue)
  BY <1>2, <1>3
<1>5. /\ next.pc = "taken" /\ next.event = ev /\ next.todo = {}
      /\ next \in [pc: {"idle", "taken", "enqueue"}, event: Event \cup {Null},
                   todo: SUBSET HookIds, queued: BOOLEAN]
  BY <1>3 DEF Nothing
<1> HIDE DEF next, ev
<1>6. \A k \in 1 .. Len(queue') : Unwritten(queue'[k].number) /\ queue'[k].number # ev.number
  <2> SUFFICES ASSUME NEW k \in 1 .. Len(queue')
               PROVE  Unwritten(queue'[k].number) /\ queue'[k].number # ev.number
    OBVIOUS
  <2>1. queue'[k] = queue[k + 1] /\ k + 1 \in 1 .. Len(queue) /\ k + 1 # 1
    BY <1>2, <1>3
  <2> QED
    BY <2>1, <1>3, <1>4 DEF IInv, Outstanding
<1>7. \A k, l \in 1 .. Len(queue') : queue'[k].number = queue'[l].number => k = l
  <2> SUFFICES ASSUME NEW k \in 1 .. Len(queue'), NEW l \in 1 .. Len(queue'),
                      queue'[k].number = queue'[l].number
               PROVE  k = l
    OBVIOUS
  <2>1. /\ k + 1 \in 1 .. Len(queue) /\ l + 1 \in 1 .. Len(queue)
        /\ queue[k + 1].number = queue[l + 1].number
    BY <1>3
  <2>2. k + 1 = l + 1
    BY <2>1 DEF IInv, Outstanding
  <2> QED
    BY <2>2, <1>2, <1>3
<1>8. Unwritten(ev.number)
  BY <1>3, <1>4 DEF IInv, Outstanding
<1>9. Len(queue') <= QueueSize
  BY <1>2, <1>3, Bounds
<1>10. \A k \in 1 .. Len(queue') : Unwritten(queue[k].number)'
  BY <1>1, <1>6 DEF Unwritten
<1>11. Unwritten(rec.event.number)' /\ rec'.event.number <= events'
  BY <1>1, <1>5, <1>8 DEF Unwritten
<1>12. panel # Null => /\ Unwritten(panel.event)'
                       /\ \A k \in 1 .. Len(queue') : queue'[k].number # panel.event
                       /\ ev.number # panel.event
  <2>1. panel # Null => /\ Unwritten(panel.event)
                        /\ \A k \in 1 .. Len(queue) : queue[k].number # panel.event
    BY DEF IInv, Outstanding
  <2> QED
    BY <2>1, <1>1, <1>3, <1>4 DEF Unwritten
<1>13. Outstanding'
  BY <1>1, <1>3, <1>5, <1>6, <1>7, <1>9, <1>10, <1>11, <1>12 DEF IInv, Outstanding
<1> QED
  BY <1>1, <1>13, TablesKept, BatchKept DEF IInv

LEMMA ListWebhooksStep == IInv /\ ListWebhooks => IInv'
<1> SUFFICES ASSUME IInv, ListWebhooks PROVE IInv'
  OBVIOUS
<1>1. /\ rec.pc = "taken"
      /\ rec' = IF Interested(rec.event) = {} THEN Nothing
                ELSE [rec EXCEPT !.pc = "enqueue", !.todo = Interested(rec.event)]
      /\ UNCHANGED <<hooks, rows, queue, send, panel, made, events, written>>
  BY DEF ListWebhooks, tables
<1>2. CASE rec' = Nothing
  BY <1>1, <1>2, RecorderRests, TablesKept, BatchKept DEF IInv
<1>3. CASE rec' = [rec EXCEPT !.pc = "enqueue", !.todo = Interested(rec.event)]
  <2>1. Interested(rec.event) \subseteq HookIds
    BY DEF Interested
  <2>2. /\ rec' \in [pc: {"idle", "taken", "enqueue"}, event: Event \cup {Null},
                     todo: SUBSET HookIds, queued: BOOLEAN]
        /\ rec'.pc = "enqueue" /\ rec'.event = rec.event
    BY <1>3, <2>1 DEF IInv, Outstanding
  <2>3. Unwritten(rec.event.number)
    BY <1>1 DEF IInv, Outstanding
  <2>4. \A h \in rec'.todo : hooks'[h] # Null =>
          [event |-> rec'.event.number, hook |-> hooks'[h].number] \notin written'
    BY <1>1, <2>2, <2>3 DEF Unwritten
  <2>5. Outstanding'
    BY <1>1, <2>2, <2>4 DEF IInv, Outstanding, Unwritten
  <2> QED
    BY <1>1, <2>5, TablesKept, BatchKept DEF IInv
<1> QED
  BY <1>1, <1>2, <1>3

LEMMA EnqueueDeliveryStep == IInv /\ EnqueueDelivery => IInv'
<1> SUFFICES ASSUME IInv, EnqueueDelivery PROVE IInv'
  OBVIOUS
<1>1. PICK h \in rec.todo :
        IF hooks[h] # Null
        THEN /\ Inserted(h, rec.event.number)
             /\ rec' = [rec EXCEPT !.todo = @ \ {h}, !.queued = TRUE]
        ELSE rec' = Nothing /\ UNCHANGED <<rows, written>>
  BY DEF EnqueueDelivery
<1>2. /\ rec.pc = "enqueue" /\ h \in HookIds
      /\ UNCHANGED <<hooks, queue, send, panel, made, events>>
  BY DEF EnqueueDelivery, IInv, Outstanding
<1>3. CASE hooks[h] = Null
  BY <1>1, <1>2, <1>3, RecorderRests, TablesKept, BatchKept DEF IInv
<1>4. CASE hooks[h] # Null
  <2> DEFINE n == rec.event.number
             pair == [event |-> n, hook |-> hooks[h].number]
  <2>1. n \in 1 .. MaxEvents /\ n <= events /\ pair \notin written
    BY <1>2, <1>4 DEF IInv, Outstanding, Event
  <2>2. Tables'
    BY <1>1, <1>2, <1>4, <2>1, InsertedTables DEF IInv
  <2>3. written' = written \cup {pair} /\ pair.event = n /\ pair.hook = hooks[h].number
    BY <1>1, <1>4 DEF Inserted
  <2> HIDE DEF n, pair
  <2>4. /\ rec' \in [pc: {"idle", "taken", "enqueue"}, event: Event \cup {Null},
                     todo: SUBSET HookIds, queued: BOOLEAN]
        /\ rec'.pc = "enqueue" /\ rec'.event = rec.event /\ rec'.todo = rec.todo \ {h}
    <3>1. rec \in [pc: {"idle", "taken", "enqueue"}, event: Event \cup {Null},
                   todo: SUBSET HookIds, queued: BOOLEAN]
      BY DEF IInv, Outstanding
    <3>2. rec' = [rec EXCEPT !.todo = rec.todo \ {h}, !.queued = TRUE]
      BY <1>1, <1>4
    <3> QED
      BY <1>2, <3>1, <3>2
  <2>5. \A g \in rec'.todo : hooks'[g] # Null =>
          [event |-> rec'.event.number, hook |-> hooks'[g].number] \notin written'
    <3> SUFFICES ASSUME NEW g \in rec'.todo, hooks[g] # Null
                 PROVE  [event |-> n, hook |-> hooks[g].number] \notin written'
      BY <1>2, <2>4 DEF n
    <3> DEFINE q == [event |-> n, hook |-> hooks[g].number]
    <3>1. g \in rec.todo /\ g # h /\ g \in HookIds
      BY <2>4 DEF IInv, Outstanding
    <3>2. hooks[g].number # hooks[h].number
      BY <3>1, <1>2, <1>4 DEF IInv, Tables, Numbers, HookNumbers
    <3>3. q \notin written
      BY <3>1, <1>2 DEF IInv, Outstanding, n
    <3>4. q.hook = hooks[g].number
      OBVIOUS
    <3> QED
      BY <2>3, <3>2, <3>3, <3>4
  <2>6. \A m : Unwritten(m) /\ m # n => m <= events' /\ \A p \in written' : p.event # m
    BY <1>2, <2>3 DEF Unwritten
  <2>7. \A k \in 1 .. Len(queue') : Unwritten(queue[k].number)'
    <3>1. \A k \in 1 .. Len(queue) : Unwritten(queue[k].number) /\ queue[k].number # n
      BY <1>2 DEF IInv, Outstanding, n
    <3> QED
      BY <3>1, <1>2, <2>6 DEF Unwritten
  <2>8. panel # Null => Unwritten(panel.event)'
    <3>1. panel # Null => Unwritten(panel.event) /\ panel.event # n
      BY <1>2 DEF IInv, Outstanding, n
    <3> QED
      BY <3>1, <1>2, <2>6 DEF Unwritten
  <2>9. Outstanding'
    BY <1>2, <2>4, <2>5, <2>7, <2>8 DEF IInv, Outstanding
  <2> QED
    BY <1>2, <2>2, <2>9, BatchKept DEF IInv
<1> QED
  BY <1>3, <1>4

LEMMA NudgeStep == IInv /\ (Nudge \/ RecordError) => IInv'
<1> SUFFICES ASSUME IInv, Nudge \/ RecordError PROVE IInv'
  OBVIOUS
<1>1. rec' = Nothing /\ UNCHANGED <<hooks, rows, queue, send, panel, made, events, written>>
  BY DEF Nudge, RecordError, tables, history
<1> QED
  BY <1>1, RecorderRests, TablesKept, BatchKept DEF IInv

-----------------------------------------------------------------------------
(* The sender. *)

(* A row leaves the batch without an attempt. *)
LEMMA RowPassedOver ==
    ASSUME Batch, NEW d \in snd.todo, snd' = [snd EXCEPT !.todo = @ \ {d}], UNCHANGED flights
    PROVE  Batch'
<1>1. /\ snd' \in SndType /\ snd'.todo = snd.todo \ {d} /\ snd'.cur = snd.cur
      /\ snd'.pc = snd.pc /\ snd'.loaded = snd.loaded
  BY DEF Batch, SndType
<1> QED
  BY <1>1 DEF Batch, NeverTwiceAtOnce

(* A row of the batch is to be sent, to a webhook loaded now or before. *)
LEMMA RowPicked ==
    ASSUME Batch, snd.pc = "batch", snd.cur = Null, NEW d \in snd.todo, NEW w \in 1 .. MaxHooks,
           snd' \in SndType, snd'.pc = snd.pc, snd'.todo = snd.todo \ {d},
           snd'.cur = [row |-> d, to |-> w],
           \A h \in HookIds : snd'.loaded[h] # Null => snd'.loaded[h] \in 1 .. MaxHooks,
           UNCHANGED flights
    PROVE  Batch'
<1>1. snd'.cur.row = d
  OBVIOUS
<1>2. \A e \in snd'.todo : e.id # d.id /\ e.pair # d.pair
  BY DEF Batch
<1>3. \A f \in flights : f.id # d.id /\ f.pair # d.pair
  BY DEF Batch
<1> QED
  BY <1>1, <1>2, <1>3 DEF Batch, NeverTwiceAtOnce

LEMMA DueDeliveriesStep ==
    ASSUME IInv, DueDeliveries
    PROVE  Batch' /\ UNCHANGED <<hooks, rows, queue, rec, panel, made, events, written>>
<1> DEFINE due == {i \in RowIds : Due(rows[i])}
           claim(i) == [id |-> i, hook |-> rows[i].hook, pair |-> rows[i].pair,
                        attempt |-> rows[i].attempt]
<1>1. /\ snd.pc = "list"
      /\ UNCHANGED <<hooks, rows, queue, rec, flights, panel, made, events, written>>
  BY DEF DueDeliveries, tables, record, history
<1>2. flights = {}
  BY <1>1 DEF IInv, Batch
<1>3. CASE snd' = Waiting
  BY <1>1, <1>2, <1>3, BatchEmpty
<1>4. ASSUME NEW B \in SUBSET due,
             snd' = [snd EXCEPT !.pc = "batch", !.full = Cardinality(B) >= SweepBatch,
                                !.todo = {claim(i) : i \in B}]
      PROVE  Batch'
  <2>1. \A i \in B : /\ claim(i) \in Claimed /\ claim(i).attempt <= Retries
                     /\ claim(i).id = i /\ claim(i).pair = rows[i].pair
                     /\ i \in RowIds /\ rows[i] # Null
    <3> SUFFICES ASSUME NEW i \in B
                 PROVE  /\ claim(i) \in Claimed /\ claim(i).attempt <= Retries
                        /\ claim(i).id = i /\ claim(i).pair = rows[i].pair
                        /\ i \in RowIds /\ rows[i] # Null
      OBVIOUS
    <3>1. i \in RowIds /\ rows[i] # Null /\ rows[i].next = "due" /\ rows[i].next # Null
      BY DispatchAssumption DEF DispatchAssumption, Due
    <3>2. rows[i] \in Delivery /\ rows[i].attempt <= Retries
      BY <3>1 DEF IInv, Tables, Types, Numbers, RowNumbers
    <3> QED
      BY <3>1, <3>2 DEF Delivery, Claimed
  <2> HIDE DEF claim
  <2>2. /\ snd' \in SndType /\ snd'.pc = "batch" /\ snd'.todo = {claim(i) : i \in B}
        /\ snd'.cur = snd.cur /\ snd'.loaded = snd.loaded
    <3>1. {claim(i) : i \in B} \subseteq Claimed
      BY <2>1
    <3>2. snd \in SndType /\ (Cardinality(B) >= SweepBatch) \in BOOLEAN
      BY DEF IInv, Batch
    <3> QED
      BY <1>4, <3>1, <3>2 DEF SndType
  <2>3. snd.cur = Null
    BY <1>1 DEF IInv, Batch
  <2>4. \A d, e \in snd'.todo : d.id = e.id \/ d.pair = e.pair => d = e
    <3> SUFFICES ASSUME NEW i \in B, NEW j \in B,
                        claim(i).id = claim(j).id \/ claim(i).pair = claim(j).pair
                 PROVE  i = j
      BY <2>2
    <3> QED
      BY <2>1 DEF IInv, Tables, Numbers, RowNumbers
  <2>5. \A d \in snd'.todo : d.attempt <= Retries
    BY <2>1, <2>2
  <2> QED
    BY <1>1, <1>2, <2>2, <2>3, <2>4, <2>5 DEF IInv, Batch, NeverTwiceAtOnce
<1> QED
  BY <1>1, <1>3, <1>4 DEF DueDeliveries

LEMMA GetWebhookByIDStep ==
    ASSUME IInv, GetWebhookByID
    PROVE  Batch' /\ UNCHANGED <<hooks, rows, queue, rec, panel, made, events, written>>
<1>1. /\ snd.pc = "batch" /\ snd.cur = Null
      /\ UNCHANGED <<hooks, rows, queue, rec, flights, panel, made, events, written>>
  BY DEF GetWebhookByID, tables, record, history
<1>2. snd \in SndType /\ snd.todo \subseteq Claimed
  BY DEF IInv, Batch, SndType
<1>3. PICK d \in snd.todo :
        \/ /\ snd.loaded[d.hook] # Null
           /\ snd' = [snd EXCEPT !.todo = snd.todo \ {d},
                                 !.cur = [row |-> d, to |-> snd.loaded[d.hook]]]
        \/ snd' = [snd EXCEPT !.todo = snd.todo \ {d}]
        \/ /\ hooks[d.hook] # Null
           /\ snd' = [snd EXCEPT !.todo = snd.todo \ {d},
                                 !.cur = [row |-> d, to |-> hooks[d.hook].number],
                                 !.loaded[d.hook] = hooks[d.hook].number]
  BY DEF GetWebhookByID
<1>4. d \in Claimed /\ d.hook \in HookIds
  BY <1>2 DEF Claimed
<1>5. CASE snd' = [snd EXCEPT !.todo = snd.todo \ {d}]
  BY <1>1, <1>5, RowPassedOver DEF IInv
<1>6. CASE /\ snd.loaded[d.hook] # Null
           /\ snd' = [snd EXCEPT !.todo = snd.todo \ {d},
                                 !.cur = [row |-> d, to |-> snd.loaded[d.hook]]]
  <2> DEFINE w == snd.loaded[d.hook]
  <2>1. w \in 1 .. MaxHooks
    BY <1>4, <1>6 DEF IInv, Batch
  <2> HIDE DEF w
  <2>2. /\ snd' \in SndType /\ snd'.pc = snd.pc /\ snd'.todo = snd.todo \ {d}
        /\ snd'.cur = [row |-> d, to |-> w] /\ snd'.loaded = snd.loaded
    BY <1>2, <1>4, <1>6, <2>1 DEF SndType, w, Sending
  <2>3. \A h \in HookIds : snd'.loaded[h] # Null => snd'.loaded[h] \in 1 .. MaxHooks
    BY <2>2 DEF IInv, Batch
  <2> QED
    BY <1>1, <2>1, <2>2, <2>3, RowPicked DEF IInv
<1>7. CASE /\ hooks[d.hook] # Null
           /\ snd' = [snd EXCEPT !.todo = snd.todo \ {d},
                                 !.cur = [row |-> d, to |-> hooks[d.hook].number],
                                 !.loaded[d.hook] = hooks[d.hook].number]
  <2> DEFINE w == hooks[d.hook].number
  <2>1. w \in 1 .. MaxHooks
    BY <1>4, <1>7 DEF IInv, Tables, Types, Hook
  <2> HIDE DEF w
  <2>2. /\ snd' \in SndType /\ snd'.pc = snd.pc /\ snd'.todo = snd.todo \ {d}
        /\ snd'.cur = [row |-> d, to |-> w]
        /\ snd'.loaded = [snd.loaded EXCEPT ![d.hook] = w]
    <3>1. w \in 0 .. MaxHooks
      BY <2>1
    <3> QED
      BY <1>2, <1>4, <1>7, <2>1, <3>1 DEF SndType, w, Sending
  <2>3. \A h \in HookIds : snd'.loaded[h] # Null => snd'.loaded[h] \in 1 .. MaxHooks
    BY <1>2, <1>4, <2>1, <2>2 DEF IInv, Batch, SndType
  <2> QED
    BY <1>1, <2>1, <2>2, <2>3, RowPicked DEF IInv
<1> QED
  BY <1>1, <1>3, <1>5, <1>6, <1>7

LEMMA GetWebhookByIDErrorStep ==
    ASSUME IInv, GetWebhookByIDError
    PROVE  Batch' /\ UNCHANGED <<hooks, rows, queue, rec, panel, made, events, written>>
  BY RowPassedOver DEF IInv, GetWebhookByIDError, tables, record, history

LEMMA StartAttemptStep ==
    ASSUME IInv, StartAttempt
    PROVE  Batch' /\ UNCHANGED <<hooks, rows, queue, rec, panel, made, events, written>>
<1> DEFINE f == [id |-> snd.cur.row.id, pair |-> snd.cur.row.pair,
                 n |-> snd.cur.row.attempt + 1, to |-> snd.cur.to, result |-> "posting"]
<1>1. /\ snd.cur # Null /\ flights' = flights \cup {f} /\ snd' = [snd EXCEPT !.cur = Null]
      /\ UNCHANGED <<hooks, rows, queue, rec, panel, made, events, written>>
  BY DEF StartAttempt, tables, record, history
<1>2. /\ snd.cur \in Sending /\ snd.cur.row.attempt <= Retries
      /\ snd \in SndType /\ snd.pc = "batch"
  BY <1>1 DEF IInv, Batch, SndType
<1>3. f \in Flight /\ f.id = snd.cur.row.id /\ f.pair = snd.cur.row.pair
  BY <1>2, Bounds DEF Flight, Claimed, Sending
<1> HIDE DEF f
<1>4. /\ snd' \in SndType /\ snd'.pc = snd.pc /\ snd'.todo = snd.todo /\ snd'.cur = Null
      /\ snd'.loaded = snd.loaded
  BY <1>1, <1>2 DEF SndType
<1>5. \A g \in flights : g.id # f.id /\ g.pair # f.pair
  BY <1>1, <1>3 DEF IInv, Batch
<1>6. \A d \in snd.todo : d.id # f.id /\ d.pair # f.pair
  BY <1>1, <1>3 DEF IInv, Batch
<1>7. NeverTwiceAtOnce'
  BY <1>1, <1>5 DEF IInv, Batch, NeverTwiceAtOnce
<1> QED
  BY <1>1, <1>2, <1>3, <1>4, <1>6, <1>7 DEF IInv, Batch

LEMMA SweepStep ==
    ASSUME IInv, FinishBatch \/ Wake \/ Ticker \/ DueDeliveriesError
    PROVE  Batch' /\ UNCHANGED <<hooks, rows, queue, rec, panel, made, events, written>>
<1>1. /\ flights = {} /\ snd' \in {Waiting, Listing}
      /\ UNCHANGED <<hooks, rows, queue, rec, flights, panel, made, events, written>>
  BY DEF FinishBatch, Wake, Ticker, DueDeliveriesError, IInv, Batch, tables, record, history
<1> QED
  BY <1>1, BatchEmpty

LEMMA PostStep ==
    ASSUME IInv, NEW f \in flights, Post(f)
    PROVE  Batch' /\ UNCHANGED <<hooks, rows, queue, rec, panel, made, events, written>>
<1>1. PICK r \in {"ok", "error"} : flights' = (flights \ {f}) \cup {[f EXCEPT !.result = r]}
  BY DEF Post
<1>2. UNCHANGED <<hooks, rows, queue, rec, snd, panel, made, events, written>>
  BY DEF Post, tables, record
<1> DEFINE g == [f EXCEPT !.result = r]
<1>3. g \in Flight /\ g.id = f.id /\ g.pair = f.pair
  BY DEF IInv, Batch, Flight
<1> HIDE DEF g
<1>4. flights' = (flights \ {f}) \cup {g}
  BY <1>1 DEF g
<1>5. NeverTwiceAtOnce'
  BY <1>3, <1>4 DEF IInv, Batch, NeverTwiceAtOnce
<1> QED
  BY <1>2, <1>3, <1>4, <1>5 DEF IInv, Batch

LEMMA FlightLands == ASSUME Batch, NEW f, flights' = flights \ {f}, UNCHANGED snd PROVE Batch'
  BY DEF Batch, NeverTwiceAtOnce

LEMMA RecordDeliveryResultStep ==
    ASSUME IInv, NEW f \in flights, RecordDeliveryResult(f) PROVE IInv'
<1>1. /\ rows' = IF rows[f.id] = Null THEN rows
                 ELSE [rows EXCEPT ![f.id] = Outcome(f, rows[f.id])]
      /\ flights' = flights \ {f}
      /\ UNCHANGED <<hooks, queue, rec, snd, panel, made, events, written>>
  BY DEF RecordDeliveryResult, record, history
<1>2. f \in Flight /\ f.id \in RowIds /\ f.n \in 1 .. Tries
  BY DEF IInv, Batch, Flight
<1> DEFINE new == Outcome(f, rows[f.id])
<1>3. rows[f.id] # Null =>
        /\ new \in Delivery /\ new.pair = rows[f.id].pair
        /\ new.next # Null => new.attempt <= Retries
  <2> SUFFICES ASSUME rows[f.id] # Null
               PROVE  /\ new \in Delivery /\ new.pair = rows[f.id].pair
                      /\ new.next # Null => new.attempt <= Retries
    OBVIOUS
  <2>1. rows[f.id] \in Delivery
    BY <1>2 DEF IInv, Tables, Types
  <2>2. NextRetry(f) \in {"due", "later", Null} /\ (NextRetry(f) # Null => f.n <= Retries)
    BY DEF NextRetry
  <2>3. f.n \in 0 .. Tries /\ (f.result = "ok") \in BOOLEAN
    BY <1>2, Bounds
  <2> QED
    BY <2>1, <2>2, <2>3 DEF Outcome, Delivery
<1> HIDE DEF new
<1>4. /\ rows' \in [RowIds -> Delivery \cup {Null}]
      /\ \A i \in RowIds : rows'[i] = rows[i] \/ (i = f.id /\ rows[i] # Null /\ rows'[i] = new)
  BY <1>1, <1>2, <1>3 DEF IInv, Tables, Types, new
<1>5. \A i \in RowIds : rows[i] # Null => (rows[i].next # Null => rows[i].attempt <= Retries)
  BY DEF IInv, Tables, Numbers, RowNumbers
<1>6. RowNumbers'
  BY <1>1, <1>3, <1>4, <1>5, RowsChange DEF IInv
<1>7. Tables'
  BY <1>1, <1>4, <1>6, HooksChange DEF IInv, Tables, Types, Numbers
<1> QED
  BY <1>1, <1>7, OutstandingKept, FlightLands DEF IInv, record

LEMMA RecordResultErrorStep ==
    ASSUME IInv, NEW f \in flights, RecordResultError(f)
    PROVE  Batch' /\ UNCHANGED <<hooks, rows, queue, rec, panel, made, events, written>>
  BY FlightLands DEF IInv, RecordResultError, tables, record, history

-----------------------------------------------------------------------------
(* Time, the clean-up job, and the life of the process. *)

LEMMA ElapseStep == ASSUME IInv, NEW i \in RowIds, Elapse(i) PROVE IInv'
<1>1. /\ rows[i] # Null /\ rows[i].next = "later" /\ rows' = [rows EXCEPT ![i].next = "due"]
      /\ UNCHANGED <<hooks, queue, rec, snd, flights, panel, made, events, written>>
  BY DEF Elapse, record, send, history
<1>2. rows \in [RowIds -> Delivery \cup {Null}] /\ rows[i] \in Delivery
  BY <1>1 DEF IInv, Tables, Types
<1>3. /\ rows' \in [RowIds -> Delivery \cup {Null}]
      /\ rows'[i].pair = rows[i].pair /\ rows'[i].attempt = rows[i].attempt
      /\ \A j \in RowIds : j # i => rows'[j] = rows[j]
  BY <1>1, <1>2 DEF Delivery
<1>4. \A j \in RowIds : rows[j] # Null => (rows[j].next # Null => rows[j].attempt <= Retries)
  BY DEF IInv, Tables, Numbers, RowNumbers
<1>5. rows[i].attempt <= Retries
  BY <1>1, <1>4, DispatchAssumption DEF DispatchAssumption
<1>6. RowNumbers'
  BY <1>1, <1>3, <1>4, <1>5, RowsChange DEF IInv
<1>7. Tables'
  BY <1>1, <1>3, <1>6, HooksChange DEF IInv, Tables, Types, Numbers
<1> QED
  BY <1>1, <1>7, OutstandingKept, BatchKept DEF IInv, record, send

LEMMA DeleteOldDeliveriesStep == IInv /\ DeleteOldDeliveries => IInv'
<1> SUFFICES ASSUME IInv, DeleteOldDeliveries PROVE IInv'
  OBVIOUS
<1>1. PICK D \in SUBSET RowIds : rows' = [i \in RowIds |-> IF i \in D THEN Null ELSE rows[i]]
  BY DEF DeleteOldDeliveries
<1>2. UNCHANGED <<hooks, queue, rec, snd, flights, panel, made, events, written>>
  BY DEF DeleteOldDeliveries, record, send, history
<1>3. /\ rows' \in [RowIds -> Delivery \cup {Null}]
      /\ \A i \in RowIds : rows'[i] # Null => rows'[i] = rows[i]
  BY <1>1 DEF IInv, Tables, Types
<1>4. \A i \in RowIds : rows[i] # Null => (rows[i].next # Null => rows[i].attempt <= Retries)
  BY DEF IInv, Tables, Numbers, RowNumbers
<1>5. RowNumbers'
  BY <1>2, <1>3, <1>4, RowsChange DEF IInv
<1>6. Tables'
  BY <1>2, <1>3, <1>5, HooksChange DEF IInv, Tables, Types, Numbers
<1> QED
  BY <1>2, <1>6, OutstandingKept, BatchKept DEF IInv, record, send

LEMMA RestartedStep == IInv /\ Restarted => IInv'
<1> SUFFICES ASSUME IInv, Restarted PROVE IInv'
  OBVIOUS
<1>1. /\ queue' = <<>> /\ rec' = Nothing /\ snd' = Listing /\ flights' = {} /\ panel' = Null
      /\ UNCHANGED <<hooks, rows, made, events, written>>
  BY DEF Restarted, tables, history
<1>2. Outstanding'
  BY <1>1, NothingType, Bounds DEF Outstanding
<1> QED
  BY <1>1, <1>2, TablesKept, BatchEmpty DEF IInv

LEMMA NextIInv == IInv /\ [Next]_vars => IInv'
<1> SUFFICES ASSUME IInv, [Next]_vars PROVE IInv'
  OBVIOUS
<1>1. ASSUME Batch', UNCHANGED <<hooks, rows, queue, rec, panel, made, events, written>>
      PROVE  IInv'
  BY <1>1, TablesKept, OutstandingKept DEF IInv, record
<1>2. CASE UNCHANGED vars
  BY <1>1, <1>2, BatchKept DEF IInv, vars, send
<1>3. CASE Operator
  BY <1>3, CreateWebhookStep, SetWebhookEnabledStep, DeleteWebhookStep, NotifyStep,
     TestWebhookStep, TestStep, TestNudgeStep DEF Operator
<1>4. CASE Recorder
  BY <1>4, TakeEventStep, ListWebhooksStep, EnqueueDeliveryStep, NudgeStep DEF Recorder
<1>5. CASE Sender
  BY <1>1, <1>5, DueDeliveriesStep, GetWebhookByIDStep, StartAttemptStep, SweepStep, PostStep,
     RecordDeliveryResultStep DEF Sender
<1>6. CASE Failures
  <2>1. CASE Shutdown
    BY <1>1, <2>1, BatchKept DEF Shutdown, IInv, tables, record, history
  <2>2. CASE Restart \/ Crash
    BY <2>2, RestartedStep DEF Restart, Crash
  <2> QED
    BY <1>1, <1>6, <2>1, <2>2, TestErrorStep, NudgeStep, SweepStep, GetWebhookByIDErrorStep,
       RecordResultErrorStep DEF Failures
<1>7. CASE \E i \in RowIds : Elapse(i)
  BY <1>7, ElapseStep
<1>8. CASE DeleteOldDeliveries
  BY <1>8, DeleteOldDeliveriesStep
<1> QED
  BY <1>2, <1>3, <1>4, <1>5, <1>6, <1>7, <1>8 DEF Next

(* The invariant holds in every state Dispatch reaches. *)
THEOREM Invariance == Spec => []IInv
<1> QED
  BY InitIInv, NextIInv, PTL DEF Spec

(***************************************************************************)
(* No delivery is attempted twice at once, for any number of deliveries    *)
(* due and posts in flight, also when webhooks are deleted and the numbers *)
(* of webhooks and rows pass to others while the batch is out.             *)
(***************************************************************************)
THEOREM NotTwiceAtOnce == Spec => []NeverTwiceAtOnce
<1>1. IInv => NeverTwiceAtOnce
  BY DEF IInv, Batch
<1> QED
  BY <1>1, Invariance, PTL

-----------------------------------------------------------------------------
(***************************************************************************)
(* The ids of rows.  A new row takes one more than the largest id in use,  *)
(* and every row ever written has a pair of its own, so no id exceeds the  *)
(* number of pairs written: the id is free, and there is a row for it.     *)
(***************************************************************************)
Used == {i \in RowIds : rows[i] # Null}
Compact == IsFiniteSet(written) /\ \A i \in Used : i <= Cardinality(written)

LEMMA Largest ==
    ASSUME NEW S \in SUBSET Nat, S # {}, NEW n \in Nat, \A x \in S : x <= n
    PROVE  \E m \in S : \A y \in S : y <= m
<1> DEFINE T == {m \in Nat : n - m \in S}
<1>1. PICK x \in S : TRUE
  OBVIOUS
<1>2. n - x \in T
  BY <1>1
<1>3. PICK m \in T : \A k \in T : ~ (<<k, m>> \in OpToRel(<, Nat))
  BY <1>2, NatLessThanWellFounded, WFMin
<1>4. m \in Nat /\ n - m \in S
  BY <1>3
<1>5. \A k \in T : m <= k
  <2> SUFFICES ASSUME NEW k \in T PROVE m <= k
    OBVIOUS
  <2>1. k \in Nat /\ m \in Nat
    BY <1>4
  <2>2. ~ (k < m)
    BY <1>3, <2>1 DEF OpToRel
  <2> QED
    BY <2>1, <2>2
<1>6. \A y \in S : y <= n - m
  <2> SUFFICES ASSUME NEW y \in S PROVE y <= n - m
    OBVIOUS
  <2>1. y \in Nat /\ y <= n
    OBVIOUS
  <2>2. n - y \in Nat /\ n - (n - y) = y
    BY <2>1
  <2>3. n - y \in T
    BY <2>2
  <2>4. m <= n - y
    BY <2>3, <1>5
  <2> HIDE DEF T
  <2> QED
    BY <2>1, <2>4, <1>4
<1> HIDE DEF T
<1> QED
  BY <1>4, <1>6

LEMMA NewIdFree ==
    ASSUME Tables, Compact
    PROVE  /\ NewId(rows) \notin Used /\ NewId(rows) \in Nat \ {0}
           /\ NewId(rows) <= Cardinality(written) + 1
<1>1. Used = {i \in DOMAIN rows : rows[i] # Null}
  BY DEF Used, Tables, Types
<1>2. Cardinality(written) \in Nat
  BY FS_CardinalityType DEF Compact
<1>3. CASE Used = {}
  BY <1>1, <1>2, <1>3 DEF NewId
<1>4. CASE Used # {}
  <2>1. Used \in SUBSET Nat
    BY DEF Used, RowIds
  <2>2. \E m \in Used : \A y \in Used : y <= m
    BY <1>2, <1>4, <2>1, Largest DEF Compact
  <2> DEFINE m == CHOOSE i \in Used : \A j \in Used : j <= i
  <2>3. m \in Used /\ \A y \in Used : y <= m
    BY <2>2
  <2>4. NewId(rows) = 1 + m
    BY <1>1, <1>4 DEF NewId
  <2> HIDE DEF m
  <2> QED
    BY <1>2, <2>1, <2>3, <2>4 DEF Compact
<1> QED
  BY <1>3, <1>4

LEMMA PairsFinite ==
    IsFiniteSet(Pair) /\ Cardinality(Pair) \in Nat /\ Cardinality(Pair) <= MaxHooks * MaxEvents
<1> DEFINE E == 1 .. MaxEvents
           H == 1 .. MaxHooks
           f == [t \in E \X H |-> [event |-> t[1], hook |-> t[2]]]
<1>1. /\ IsFiniteSet(E) /\ Cardinality(E) = MaxEvents
      /\ IsFiniteSet(H) /\ Cardinality(H) = MaxHooks
  BY FS_Interval, Bounds
<1>2. IsFiniteSet(E \X H) /\ Cardinality(E \X H) = MaxEvents * MaxHooks
  <2> HIDE DEF E, H
  <2>1. IsFiniteSet(E \X H) /\ Cardinality(E \X H) = Cardinality(E) * Cardinality(H)
    BY <1>1, FS_Product
  <2> QED
    BY <1>1, <2>1
<1>3. f \in Surjection(E \X H, Pair)
  <2>1. f \in [E \X H -> Pair]
    BY DEF Pair
  <2>2. ASSUME NEW p \in Pair PROVE \E t \in E \X H : f[t] = p
    <3>1. <<p.event, p.hook>> \in E \X H
      BY DEF Pair
    <3>2. f[<<p.event, p.hook>>] = p
      BY <3>1 DEF Pair
    <3> QED
      BY <3>1, <3>2
  <2> QED
    BY <2>1, <2>2 DEF Surjection
<1>4. IsFiniteSet(Pair) /\ Cardinality(Pair) <= Cardinality(E \X H)
  BY <1>2, <1>3, FS_Surjection
<1>5. MaxEvents * MaxHooks = MaxHooks * MaxEvents
  BY Bounds
<1> QED
  BY <1>2, <1>4, <1>5, FS_CardinalityType

(* The INSERT finds a row, and a free one. *)
LEMMA InsertedRow ==
    ASSUME Tables, Compact, NEW h \in HookIds, hooks[h] # Null,
           NEW n \in 1 .. MaxEvents, [event |-> n, hook |-> hooks[h].number] \notin written,
           Inserted(h, n)
    PROVE  /\ Compact'
           /\ NewId(rows) \in RowIds /\ rows[NewId(rows)] = Null
           /\ rows' = [rows EXCEPT ![NewId(rows)] =
                [hook |-> h, pair |-> [event |-> n, hook |-> hooks[h].number],
                 attempt |-> 0, next |-> "due", delivered |-> FALSE]]
           /\ written' = written \cup {[event |-> n, hook |-> hooks[h].number]}
           /\ [event |-> n, hook |-> hooks[h].number] \in Pair
<1> DEFINE pair == [event |-> n, hook |-> hooks[h].number]
           new == [hook |-> h, pair |-> pair, attempt |-> 0, next |-> "due", delivered |-> FALSE]
           x == NewId(rows)
<1>1. pair \in Pair
  BY DEF Tables, Types, Hook, Pair
<1>2. rows' = [rows EXCEPT ![x] = new] /\ written' = written \cup {pair}
  BY DEF Inserted
<1> HIDE DEF pair, new
<1>3. pair \notin written
  BY DEF pair
<1>4. IsFiniteSet(written') /\ Cardinality(written') = Cardinality(written) + 1
  BY <1>2, <1>3, FS_AddElement DEF Compact
<1>5. Cardinality(written) \in Nat
  BY FS_CardinalityType DEF Compact
<1>6. Cardinality(written') <= MaxHooks * MaxEvents
  <2>1. written' \in SUBSET Pair
    BY <1>1, <1>2 DEF Tables, Types
  <2>2. Cardinality(written') <= Cardinality(Pair)
    BY <2>1, PairsFinite, FS_Subset
  <2>3. MaxHooks * MaxEvents \in Nat
    BY Bounds
  <2> QED
    BY <2>2, <2>3, <1>4, <1>5, PairsFinite
<1>7. x \notin Used /\ x \in Nat \ {0} /\ x <= Cardinality(written')
  BY <1>4, NewIdFree
<1>8. x \in RowIds
  <2>1. MaxHooks * MaxEvents \in Nat
    BY Bounds
  <2> QED
    BY <2>1, <1>4, <1>5, <1>6, <1>7 DEF RowIds
<1>9. \A i \in RowIds : rows'[i] # Null => i \in Used \/ i = x
  BY <1>2 DEF Tables, Types, Used
<1>10. \A i \in Used' : i <= Cardinality(written')
  <2> SUFFICES ASSUME NEW i \in RowIds, rows'[i] # Null PROVE i <= Cardinality(written')
    BY DEF Used
  <2>1. CASE i \in Used
    <3>1. i \in Nat /\ i <= Cardinality(written)
      BY <2>1 DEF Compact, RowIds
    <3> QED
      BY <3>1, <1>4, <1>5
  <2>2. CASE i = x
    BY <2>2, <1>7
  <2> QED
    BY <1>9, <2>1, <2>2
<1>11. rows[x] = Null
  BY <1>7, <1>8 DEF Used
<1> QED
  BY <1>1, <1>2, <1>4, <1>8, <1>10, <1>11 DEF Compact, pair, new

Inserts(h, n) ==
    /\ h \in HookIds /\ hooks[h] # Null /\ n \in 1 .. MaxEvents
    /\ [event |-> n, hook |-> hooks[h].number] \notin written
    /\ Inserted(h, n)
    /\ UNCHANGED <<send, accepted>>

(* What the sender does without touching a delivery. *)
Sends == \/ DueDeliveries \/ DueDeliveriesError \/ GetWebhookByID \/ GetWebhookByIDError
         \/ StartAttempt \/ FinishBatch \/ Wake \/ Ticker \/ Restart \/ Crash
         \/ \E f \in flights : Post(f) \/ RecordResultError(f)

(* The ways in which a step touches the deliveries, or what is sent. *)
LEMMA RowsStep ==
    ASSUME IInv, [Next]_vars
    PROVE  \/ \E h, n : Inserts(h, n)
           \/ \E f \in flights : RecordDeliveryResult(f)
           \/ \E i \in RowIds : Elapse(i)
           \/ \E h \in HookIds : DeleteWebhook(h)
           \/ DeleteOldDeliveries
           \/ UNCHANGED <<rows, written>> /\ (Sends \/ UNCHANGED <<send, accepted>>)
<1>1. CASE Test
  <2>1. CASE hooks[panel.id] = Null
    BY <1>1, <2>1 DEF Test
  <2>2. CASE hooks[panel.id] # Null
    <3>1. panel.id \in HookIds /\ panel.event \in 1 .. MaxEvents /\ Unwritten(panel.event)
      BY <1>1 DEF Test, IInv, Outstanding
    <3>2. [event |-> panel.event, hook |-> hooks[panel.id].number] \notin written
      BY <3>1 DEF Unwritten
    <3>3. Inserts(panel.id, panel.event)
      BY <1>1, <2>2, <3>1, <3>2 DEF Test, Inserts
    <3> QED
      BY <3>3
  <2> QED
    BY <2>1, <2>2
<1>2. CASE EnqueueDelivery
  <2>1. PICK h \in rec.todo :
          IF hooks[h] # Null THEN Inserted(h, rec.event.number) ELSE UNCHANGED <<rows, written>>
    BY <1>2 DEF EnqueueDelivery
  <2>2. CASE hooks[h] = Null
    BY <1>2, <2>1, <2>2 DEF EnqueueDelivery
  <2>3. CASE hooks[h] # Null
    <3>1. h \in HookIds /\ rec.event.number \in 1 .. MaxEvents
      BY <1>2 DEF EnqueueDelivery, IInv, Outstanding, Event
    <3>2. [event |-> rec.event.number, hook |-> hooks[h].number] \notin written
      BY <1>2, <2>3 DEF EnqueueDelivery, IInv, Outstanding
    <3>3. Inserts(h, rec.event.number)
      BY <1>2, <2>1, <2>3, <3>1, <3>2 DEF EnqueueDelivery, Inserts
    <3> QED
      BY <3>3
  <2> QED
    BY <2>2, <2>3
<1>3. CASE Operator /\ ~ Test
  BY <1>3 DEF Operator, CreateWebhook, Notify, SetWebhookEnabled, TestWebhook, TestNudge, tables,
     history
<1>4. CASE Recorder /\ ~ EnqueueDelivery
  BY <1>4 DEF Recorder, TakeEvent, ListWebhooks, Nudge, tables, history
<1>5. CASE Sender
  BY <1>5 DEF Sender, DueDeliveries, GetWebhookByID, StartAttempt, FinishBatch, Wake, Ticker,
     Post, Sends, tables, history
<1>6. CASE Failures
  BY <1>6 DEF Failures, TestError, RecordError, DueDeliveriesError, GetWebhookByIDError,
     RecordResultError, Shutdown, Restart, Crash, Restarted, Sends, tables, history
<1>7. CASE UNCHANGED vars
  BY <1>7 DEF vars, send
<1> QED
  BY <1>1, <1>2, <1>3, <1>4, <1>5, <1>6, <1>7 DEF Next

LEMMA NextCompact == IInv /\ Compact /\ [Next]_vars => Compact'
<1> SUFFICES ASSUME IInv, Compact, [Next]_vars PROVE Compact'
  OBVIOUS
<1>1. ASSUME UNCHANGED written, \A i \in RowIds : rows'[i] # Null => rows[i] # Null
      PROVE  Compact'
  BY <1>1 DEF Compact, Used
<1>2. ASSUME NEW h, NEW n, Inserts(h, n) PROVE Compact'
  BY <1>2, InsertedRow DEF Inserts, IInv
<1>3. ASSUME NEW f \in flights, RecordDeliveryResult(f) PROVE Compact'
  <2>1. \A i \in RowIds : rows'[i] # Null => rows[i] # Null
    BY <1>3 DEF RecordDeliveryResult, IInv, Tables, Types
  <2> QED
    BY <1>1, <1>3, <2>1 DEF RecordDeliveryResult, history
<1>4. ASSUME NEW i \in RowIds, Elapse(i) PROVE Compact'
  <2>1. \A j \in RowIds : rows'[j] # Null => rows[j] # Null
    BY <1>4 DEF Elapse, IInv, Tables, Types
  <2> QED
    BY <1>1, <1>4, <2>1 DEF Elapse, history
<1>5. ASSUME NEW h \in HookIds, DeleteWebhook(h) PROVE Compact'
  <2>1. \A j \in RowIds : rows'[j] # Null => rows[j] # Null
    BY <1>5 DEF DeleteWebhook
  <2> QED
    BY <1>1, <1>5, <2>1 DEF DeleteWebhook, history
<1>6. CASE DeleteOldDeliveries
  <2>1. \A j \in RowIds : rows'[j] # Null => rows[j] # Null
    BY <1>6 DEF DeleteOldDeliveries
  <2> QED
    BY <1>1, <1>6, <2>1 DEF DeleteOldDeliveries, history
<1>7. CASE UNCHANGED <<rows, written>>
  BY <1>1, <1>7
<1> QED
  BY <1>2, <1>3, <1>4, <1>5, <1>6, <1>7, RowsStep

(***************************************************************************)
(* No delivery row has an id beyond the number of pairs ever recorded, so  *)
(* the id of the next INSERT is free and within RowIds.                    *)
(***************************************************************************)
THEOREM Compactness == Spec => []Compact
<1>1. Init => Compact
  <2> SUFFICES ASSUME Init PROVE Compact
    OBVIOUS
  <2>1. written = {} /\ Used = {}
    BY DEF Init, Used
  <2> QED
    BY <2>1, FS_EmptySet DEF Compact
<1> QED
  BY <1>1, NextCompact, Invariance, PTL DEF Spec

-----------------------------------------------------------------------------
(***************************************************************************)
(* The ids of webhooks are given out again, but a delivery row never       *)
(* changes hands: it belongs to the webhook with its id, the one it was    *)
(* queued for, because it goes with it.  A row that waits has been tried.  *)
(***************************************************************************)
RowsHome ==
    \A i \in RowIds : rows[i] # Null =>
        hooks[rows[i].hook] # Null /\ hooks[rows[i].hook].number = rows[i].pair.hook

Sound == /\ \A h \in HookIds : hooks[h] # Null => h <= made
         /\ RowsHome
         /\ \A i \in RowIds : rows[i] # Null => (rows[i].next = "later" => rows[i].attempt # 0)

(* The id of a new webhook is free, and within HookIds. *)
LEMMA NewHookFree ==
    ASSUME IInv, Sound, made < MaxHooks
    PROVE  NewId(hooks) \in HookIds /\ hooks[NewId(hooks)] = Null /\ NewId(hooks) <= made + 1
<1> DEFINE used == {h \in HookIds : hooks[h] # Null}
<1>1. used = {h \in DOMAIN hooks : hooks[h] # Null}
  BY DEF IInv, Tables, Types
<1>2. made \in Nat /\ MaxHooks \in Nat
  BY Bounds DEF IInv, Tables, Types
<1>3. CASE used = {}
  BY <1>1, <1>2, <1>3 DEF NewId, HookIds
<1>4. CASE used # {}
  <2>1. used \in SUBSET Nat /\ \A h \in used : h <= made
    BY DEF HookIds, Sound
  <2> DEFINE m == CHOOSE h \in used : \A g \in used : g <= h
  <2>2. NewId(hooks) = 1 + m
    BY <1>1, <1>4 DEF NewId
  <2> HIDE DEF used
  <2>3. m \in used /\ \A g \in used : g <= m
    <3>1. \E h \in used : \A g \in used : g <= h
      BY <1>2, <1>4, <2>1, Largest
    <3> QED
      BY <3>1
  <2> HIDE DEF m
  <2>4. m \in Nat /\ m <= made /\ 1 + m \notin used
    BY <2>1, <2>3
  <2>5. 1 + m \in HookIds
    BY <1>2, <2>4 DEF HookIds
  <2> QED
    BY <2>2, <2>4, <2>5, <1>2 DEF used
<1> QED
  BY <1>3, <1>4

(* Webhook h stays, and is the one it was. *)
Stays(h) == hooks'[h] # Null /\ hooks'[h].number = hooks[h].number

(* What a step that deletes no webhook does to the webhooks. *)
LEMMA HooksStep ==
    ASSUME IInv, Sound, [Next]_vars, \A h \in HookIds : ~ DeleteWebhook(h)
    PROVE  /\ \A h \in HookIds : hooks[h] # Null => Stays(h)
           /\ \/ made' = made /\ \A h \in HookIds : hooks'[h] # Null => hooks[h] # Null
              \/ /\ made' = made + 1 /\ made + 1 \in 1 .. MaxHooks
                 /\ \A h \in HookIds : hooks'[h] # Null =>
                       hooks[h] # Null \/ (h <= made + 1 /\ hooks'[h].number = made + 1)
                 /\ \E h \in HookIds : hooks'[h] # Null /\ hooks'[h].number = made + 1
                 /\ UNCHANGED <<rows, written, snd, flights>>
<1>1. hooks \in [HookIds -> Hook \cup {Null}] /\ made \in Nat
  BY Bounds DEF IInv, Tables, Types
<1>2. ASSUME NEW g \in HookIds, SetWebhookEnabled(g)
      PROVE  /\ \A h \in HookIds : hooks[h] # Null => Stays(h)
             /\ made' = made /\ \A h \in HookIds : hooks'[h] # Null => hooks[h] # Null
  <2>1. hooks[g] \in Hook /\ made' = made
    BY <1>1, <1>2 DEF SetWebhookEnabled, history
  <2> DEFINE new == [hooks[g] EXCEPT !.enabled = ~ @]
  <2>2. new \in Hook /\ new.number = hooks[g].number
    BY <2>1 DEF Hook
  <2>3. hooks' = [hooks EXCEPT ![g] = new] /\ hooks[g] # Null
    BY <1>2 DEF SetWebhookEnabled
  <2> HIDE DEF new
  <2> QED
    BY <1>1, <2>1, <2>2, <2>3, RowAssumption DEF Stays
<1>3. CASE CreateWebhook
  <2>1. PICK e \in Envs, s \in Subscriptions :
          hooks' = [hooks EXCEPT ![NewId(hooks)] =
                      [env |-> e, subs |-> s, enabled |-> TRUE, number |-> made + 1]]
    BY <1>3 DEF CreateWebhook
  <2> DEFINE new == [env |-> e, subs |-> s, enabled |-> TRUE, number |-> made + 1]
             x == NewId(hooks)
  <2>2. /\ made' = made + 1 /\ made < MaxHooks /\ made + 1 \in 1 .. MaxHooks
        /\ UNCHANGED <<rows, written, snd, flights>>
    BY <1>1, <1>3, Bounds DEF CreateWebhook, send
  <2>3. new \in Hook /\ new.number = made + 1
    BY <2>2, DispatchAssumption DEF DispatchAssumption, Hook
  <2>4. x \in HookIds /\ hooks[x] = Null /\ x <= made + 1
    BY <2>2, NewHookFree
  <2> HIDE DEF new, x
  <2>5. new # Null /\ hooks' = [hooks EXCEPT ![x] = new]
    BY <2>1, <2>3, RowAssumption DEF new, x
  <2>6. hooks'[x] = new /\ \A h \in HookIds : h # x => hooks'[h] = hooks[h]
    BY <1>1, <2>4, <2>5
  <2> QED
    BY <2>2, <2>3, <2>4, <2>5, <2>6 DEF Stays
<1>4. CASE UNCHANGED <<hooks, made>>
  BY <1>4 DEF Stays
<1>5. CASE Operator
  BY <1>2, <1>3, <1>4, <1>5 DEF Operator, Notify, Test, TestNudge, TestWebhook, tables, history
<1>6. CASE ~ Operator
  BY <1>4, <1>6 DEF Next, Recorder, Sender, Failures, TakeEvent, ListWebhooks, EnqueueDelivery,
     Nudge, DueDeliveries, GetWebhookByID, StartAttempt, FinishBatch, Wake, Ticker, Post,
     RecordDeliveryResult, TestError, RecordError, DueDeliveriesError, GetWebhookByIDError,
     RecordResultError, Shutdown, Restart, Crash, Restarted, Elapse, DeleteOldDeliveries,
     vars, tables, history
<1> QED
  BY <1>2, <1>3, <1>4, <1>5, <1>6

LEMMA NextSound == IInv /\ Compact /\ Sound /\ [Next]_vars => Sound'
<1> SUFFICES ASSUME IInv, Compact, Sound, [Next]_vars PROVE Sound'
  OBVIOUS
<1> DEFINE Lasting(i) == /\ rows[i] # Null /\ rows'[i].hook = rows[i].hook
                         /\ rows'[i].pair = rows[i].pair
                         /\ rows'[i].next = "later" => rows'[i].attempt # 0
<1>1. \A i \in RowIds : rows[i] # Null => rows[i] \in Delivery /\ rows[i].hook \in HookIds
  BY DEF IInv, Tables, Types, Delivery
<1>2. made \in Nat /\ \A h \in HookIds : h \in Nat
  BY Bounds DEF IInv, Tables, Types, HookIds
<1>3. ASSUME \A h \in HookIds : ~ DeleteWebhook(h),
             NEW x, NEW h \in HookIds, hooks[h] # Null,
             \A i \in RowIds : rows'[i] # Null =>
                \/ Lasting(i)
                \/ /\ i = x /\ rows'[i].hook = h /\ rows'[i].pair.hook = hooks[h].number
                   /\ rows'[i].next # "later"
      PROVE  Sound'
  <2>1. /\ \A g \in HookIds : hooks[g] # Null => Stays(g)
        /\ made' = made \/ made' = made + 1
        /\ \A g \in HookIds : hooks'[g] # Null => hooks[g] # Null \/ (g <= made + 1 /\ made' = made + 1)
    BY <1>3, HooksStep
  <2>2. \A g \in HookIds : hooks'[g] # Null => g <= made'
    BY <1>2, <2>1 DEF Sound
  <2>3. RowsHome'
    BY <1>1, <1>3, <2>1 DEF Sound, RowsHome, Stays
  <2> QED
    BY <1>3, <2>2, <2>3 DEF Sound
<1>4. ASSUME \A h \in HookIds : ~ DeleteWebhook(h),
             \A i \in RowIds : rows'[i] # Null => Lasting(i)
      PROVE  Sound'
  <2>1. /\ \A g \in HookIds : hooks[g] # Null => Stays(g)
        /\ made' = made \/ made' = made + 1
        /\ \A g \in HookIds : hooks'[g] # Null => hooks[g] # Null \/ (g <= made + 1 /\ made' = made + 1)
    BY <1>4, HooksStep
  <2>2. \A g \in HookIds : hooks'[g] # Null => g <= made'
    BY <1>2, <2>1 DEF Sound
  <2>3. RowsHome'
    BY <1>1, <1>4, <2>1 DEF Sound, RowsHome, Stays
  <2> QED
    BY <1>4, <2>2, <2>3 DEF Sound
<1>5. ASSUME NEW h, NEW n, Inserts(h, n) PROVE Sound'
  <2> DEFINE x == NewId(rows)
             new == [hook |-> h, pair |-> [event |-> n, hook |-> hooks[h].number],
                     attempt |-> 0, next |-> "due", delivered |-> FALSE]
  <2>1. x \in RowIds /\ rows' = [rows EXCEPT ![x] = new]
    BY <1>5, InsertedRow DEF IInv, Inserts
  <2>2. /\ new.hook = h /\ new.pair.hook = hooks[h].number /\ new.next # "later"
        /\ h \in HookIds /\ hooks[h] # Null
    BY <1>5 DEF Inserts
  <2>3. \A g \in HookIds : ~ DeleteWebhook(g)
    <3> SUFFICES ASSUME NEW g \in HookIds, DeleteWebhook(g) PROVE FALSE
      OBVIOUS
    <3>1. written' = written
      BY DEF DeleteWebhook, history
    <3> QED
      BY <3>1, <1>5 DEF Inserts, Inserted
  <2> HIDE DEF x, new
  <2>4. \A i \in RowIds : (i = x /\ rows'[i] = new) \/ (i # x /\ rows'[i] = rows[i])
    BY <2>1 DEF IInv, Tables, Types
  <2>5. \A i \in RowIds : rows[i] # Null /\ rows'[i] = rows[i] => Lasting(i)
    BY DEF Sound
  <2> HIDE DEF Lasting
  <2> QED
    BY <2>2, <2>3, <2>4, <2>5, <1>3
<1>6. ASSUME NEW f \in flights, RecordDeliveryResult(f) PROVE Sound'
  <2>1. UNCHANGED hooks /\ rows' = IF rows[f.id] = Null THEN rows
                                   ELSE [rows EXCEPT ![f.id] = Outcome(f, rows[f.id])]
    BY <1>6 DEF RecordDeliveryResult
  <2>2. f.id \in RowIds /\ f.n # 0
    BY DEF IInv, Batch, Flight
  <2>3. rows[f.id] # Null => /\ Outcome(f, rows[f.id]).hook = rows[f.id].hook
                             /\ Outcome(f, rows[f.id]).pair = rows[f.id].pair
                             /\ Outcome(f, rows[f.id]).attempt # 0
    BY <1>1, <2>2 DEF Outcome, Delivery
  <2>4. \A i \in RowIds : rows'[i] = rows[i] \/
          (i = f.id /\ rows[i] # Null /\ rows'[i] = Outcome(f, rows[f.id]))
    BY <2>1, <2>2 DEF IInv, Tables, Types
  <2>5. \A h \in HookIds : ~ DeleteWebhook(h)
    BY <1>6, <2>1 DEF DeleteWebhook, IInv, Tables, Types
  <2> QED
    BY <1>4, <2>3, <2>4, <2>5 DEF Sound
<1>7. ASSUME NEW i \in RowIds, Elapse(i) PROVE Sound'
  <2>1. UNCHANGED hooks /\ rows[i] # Null /\ rows' = [rows EXCEPT ![i].next = "due"]
    BY <1>7 DEF Elapse
  <2>2. /\ rows'[i].hook = rows[i].hook /\ rows'[i].pair = rows[i].pair /\ rows'[i].next # "later"
        /\ \A j \in RowIds : j # i => rows'[j] = rows[j]
    BY <1>1, <2>1 DEF Delivery, IInv, Tables, Types
  <2>3. \A h \in HookIds : ~ DeleteWebhook(h)
    BY <2>1 DEF DeleteWebhook, IInv, Tables, Types
  <2> QED
    BY <1>4, <2>1, <2>2, <2>3 DEF Sound
<1>8. ASSUME NEW h \in HookIds, DeleteWebhook(h) PROVE Sound'
  <2>1. /\ hooks' = [hooks EXCEPT ![h] = Null] /\ made' = made
        /\ rows' = [i \in RowIds |-> IF rows[i] # Null /\ rows[i].hook = h THEN Null ELSE rows[i]]
    BY <1>8 DEF DeleteWebhook, history
  <2>2. \A i \in RowIds : rows'[i] # Null => rows'[i] = rows[i] /\ rows[i].hook # h
    BY <2>1
  <2>3. hooks'[h] = Null /\ \A g \in HookIds : g # h => hooks'[g] = hooks[g]
    BY <2>1 DEF IInv, Tables, Types
  <2>4. RowsHome'
    BY <1>1, <2>2, <2>3 DEF Sound, RowsHome
  <2> QED
    BY <1>1, <2>1, <2>2, <2>3, <2>4 DEF Sound
<1>9. CASE DeleteOldDeliveries
  <2>1. UNCHANGED hooks /\ \A i \in RowIds : rows'[i] # Null => rows'[i] = rows[i]
    BY <1>9 DEF DeleteOldDeliveries
  <2>2. \A h \in HookIds : ~ DeleteWebhook(h)
    BY <2>1 DEF DeleteWebhook, IInv, Tables, Types
  <2> QED
    BY <1>4, <2>1, <2>2 DEF Sound
<1>10. CASE UNCHANGED rows /\ \A h \in HookIds : ~ DeleteWebhook(h)
  BY <1>4, <1>10 DEF Sound
<1> QED
  BY <1>5, <1>6, <1>7, <1>8, <1>9, <1>10, RowsStep

THEOREM Soundness == Spec => []Sound
<1>1. Init => Sound
  BY DEF Init, Sound, RowsHome
<1> QED
  BY <1>1, NextSound, Invariance, Compactness, PTL DEF Spec

(***************************************************************************)
(* Every delivery row belongs to the webhook it was queued for, which      *)
(* still exists: the cascade takes the rows of a deleted webhook along, so *)
(* the next webhook with its id inherits none (db/webhooks.go).            *)
(***************************************************************************)
THEOREM RowsStayHome == Spec => []RowsHome
<1>1. Sound => RowsHome
  BY DEF Sound
<1> QED
  BY <1>1, Soundness, PTL

-----------------------------------------------------------------------------
(***************************************************************************)
(* What the sender holds for a webhook that still exists is what the       *)
(* tables say: nothing but the result of an attempt changes a row that is  *)
(* due, no row goes that is not settled but with its webhook, and the      *)
(* webhooks a batch has loaded are forgotten at its end.  Of what it holds *)
(* for a webhook that is gone, only that it was made is known.             *)
(***************************************************************************)
Kept(d) == Due(rows[d.id]) /\ rows[d.id].pair = d.pair /\ rows[d.id].attempt = d.attempt
Mine(d) == hooks[d.hook] # Null /\ hooks[d.hook].number = d.pair.hook

HeldRows ==
    \A d \in snd.todo :
        /\ d.pair.hook <= made
        /\ Lives(d.pair.hook) => Kept(d) /\ Mine(d) /\ snd.loaded[d.hook] \in {Null, d.pair.hook}

HeldNext ==
    snd.cur # Null =>
        /\ snd.cur.row.pair.hook <= made
        /\ Lives(snd.cur.row.pair.hook) =>
              Kept(snd.cur.row) /\ Mine(snd.cur.row) /\ snd.cur.to = snd.cur.row.pair.hook

Held == /\ HeldRows /\ HeldNext
        /\ (\A f \in flights : f.pair.hook <= made) /\ AttemptKeepsItsRow
        /\ snd.pc # "batch" => \A h \in HookIds : snd.loaded[h] = Null

(* What the sender holds, by its types. *)
LEMMA HeldTypes ==
    ASSUME Batch
    PROVE  /\ \A d \in snd.todo : d.id \in RowIds /\ d.hook \in HookIds /\ d.pair.hook \in Nat
           /\ snd.cur # Null => /\ snd.cur.row.id \in RowIds /\ snd.cur.row.hook \in HookIds
                                /\ snd.cur.row.pair.hook \in Nat
           /\ \A f \in flights : f.id \in RowIds /\ f.pair.hook \in Nat
<1>1. \A p \in Pair : p.hook \in Nat
  BY DEF Pair
<1> QED
  BY <1>1 DEF Batch, SndType, Claimed, Flight, Sending

(* What any step does to the webhooks: one that lives after it is the one  *)
(* it was, unless the step made it.                                        *)
LEMMA LivesStep ==
    ASSUME IInv, Sound, [Next]_vars
    PROVE  /\ made \in Nat /\ made' \in Nat /\ made <= made'
           /\ \A n \in Nat : n <= made /\ Lives(n)' => Lives(n)
           /\ \A n \in Nat, h \in HookIds :
                 hooks[h] # Null /\ hooks[h].number = n /\ Lives(n)' => Stays(h)
<1>1. /\ made \in Nat
      /\ \A h \in HookIds : hooks[h] # Null => hooks[h].number \in Nat /\ hooks[h].number <= made
      /\ \A g, h \in HookIds :
            hooks[g] # Null /\ hooks[h] # Null /\ hooks[g].number = hooks[h].number => g = h
  BY Bounds DEF IInv, Tables, Types, Numbers, HookNumbers, Hook
<1>2. CASE \A h \in HookIds : ~ DeleteWebhook(h)
  <2>1. /\ \A h \in HookIds : hooks[h] # Null => Stays(h)
        /\ made' = made \/ made' = made + 1
        /\ \A h \in HookIds : hooks'[h] # Null => hooks[h] # Null \/ hooks'[h].number = made + 1
    BY <1>2, HooksStep
  <2>2. made \in Nat /\ made' \in Nat /\ made <= made'
    BY <1>1, <2>1
  <2>3. ASSUME NEW n \in Nat, n <= made, NEW h \in HookIds, hooks'[h] # Null, hooks'[h].number = n
        PROVE  Lives(n)
    <3>1. hooks'[h].number # made + 1
      BY <1>1, <2>3
    <3> QED
      BY <2>1, <2>3, <3>1 DEF Lives, Stays
  <2> QED
    BY <2>1, <2>2, <2>3 DEF Lives
<1>3. ASSUME NEW x \in HookIds, DeleteWebhook(x)
      PROVE  /\ made' = made
             /\ \A h \in HookIds : hooks'[h] # Null => hooks'[h] = hooks[h]
             /\ \A h \in HookIds : h # x => hooks'[h] = hooks[h]
             /\ hooks'[x] = Null
  BY <1>3 DEF DeleteWebhook, history, IInv, Tables, Types
<1>4. CASE \E x \in HookIds : DeleteWebhook(x)
  <2>1. PICK x \in HookIds : DeleteWebhook(x)
    BY <1>4
  <2>2. /\ made' = made /\ hooks'[x] = Null
        /\ \A h \in HookIds : hooks'[h] # Null => hooks'[h] = hooks[h]
        /\ \A h \in HookIds : h # x => hooks'[h] = hooks[h]
    BY <1>3, <2>1
  <2>3. ASSUME NEW n \in Nat, NEW h \in HookIds, hooks[h] # Null, hooks[h].number = n, Lives(n)'
        PROVE  Stays(h)
    <3>1. PICK g \in HookIds : hooks'[g] # Null /\ hooks'[g].number = n
      BY <2>3 DEF Lives
    <3> QED
      BY <1>1, <2>2, <2>3, <3>1 DEF Stays
  <2> QED
    BY <1>1, <2>2, <2>3 DEF Lives
<1> QED
  BY <1>2, <1>4

(* The sender stands still, and so does what is due of a webhook that stays. *)
LEMMA HeldStays ==
    ASSUME IInv, Sound, Held, [Next]_vars, UNCHANGED <<snd, flights>>,
           \A i \in RowIds, n \in Nat :
               Due(rows[i]) /\ rows[i].pair.hook = n /\ Lives(n)' => rows'[i] = rows[i]
    PROVE  Held'
<1>1. /\ made \in Nat /\ made' \in Nat /\ made <= made'
      /\ \A n \in Nat : n <= made /\ Lives(n)' => Lives(n)
      /\ \A n \in Nat, h \in HookIds :
            hooks[h] # Null /\ hooks[h].number = n /\ Lives(n)' => Stays(h)
  BY LivesStep
<1>2. /\ \A d \in snd.todo : d.id \in RowIds /\ d.hook \in HookIds /\ d.pair.hook \in Nat
      /\ snd.cur # Null => /\ snd.cur.row.id \in RowIds /\ snd.cur.row.hook \in HookIds
                           /\ snd.cur.row.pair.hook \in Nat
      /\ \A f \in flights : f.id \in RowIds /\ f.pair.hook \in Nat
  BY HeldTypes DEF IInv
<1>3. ASSUME NEW d, d.id \in RowIds, d.hook \in HookIds, NEW n \in Nat, d.pair.hook = n, n <= made,
             Lives(n)', Lives(n) => Kept(d) /\ Mine(d)
      PROVE  Lives(n) /\ Kept(d)' /\ Mine(d)'
  <2>1. Lives(n) /\ Kept(d) /\ Mine(d)
    BY <1>1, <1>3
  <2>2. rows'[d.id] = rows[d.id]
    BY <1>3, <2>1 DEF Kept
  <2>3. Stays(d.hook)
    BY <1>1, <1>3, <2>1 DEF Mine
  <2> QED
    BY <2>1, <2>2, <2>3 DEF Kept, Mine, Stays
<1>4. HeldRows'
  <2> SUFFICES ASSUME NEW d \in snd.todo
               PROVE  /\ d.pair.hook <= made'
                      /\ Lives(d.pair.hook)' => /\ Kept(d)' /\ Mine(d)'
                                                /\ snd.loaded[d.hook] \in {Null, d.pair.hook}
    BY DEF HeldRows
  <2>1. d.pair.hook \in Nat /\ d.pair.hook <= made /\ d.pair.hook <= made'
    BY <1>1, <1>2 DEF Held, HeldRows
  <2> QED
    BY <1>2, <1>3, <2>1 DEF Held, HeldRows
<1>5. HeldNext'
  <2> SUFFICES ASSUME snd.cur # Null
               PROVE  \A n \in Nat : snd.cur.row.pair.hook = n =>
                         /\ n <= made'
                         /\ Lives(n)' => /\ Kept(snd.cur.row)' /\ Mine(snd.cur.row)'
                                         /\ snd.cur.to = n
    BY <1>2 DEF HeldNext
  <2> SUFFICES ASSUME NEW n \in Nat, snd.cur.row.pair.hook = n
               PROVE  /\ n <= made'
                      /\ Lives(n)' => /\ Kept(snd.cur.row)' /\ Mine(snd.cur.row)'
                                      /\ snd.cur.to = n
    OBVIOUS
  <2>1. PICK d : d = snd.cur.row
    OBVIOUS
  <2>2. n <= made /\ (Lives(n) => Kept(d) /\ Mine(d) /\ snd.cur.to = n)
    BY <2>1 DEF Held, HeldNext
  <2>3. Lives(n)' => Lives(n) /\ Kept(d)' /\ Mine(d)'
    BY <1>2, <1>3, <2>1, <2>2
  <2>4. snd'.cur.row = d
    BY <2>1
  <2> QED
    BY <1>1, <2>2, <2>3, <2>4 DEF Kept, Mine
<1>6. (\A f \in flights : f.pair.hook <= made)'
  BY <1>1, <1>2 DEF Held
<1>7. AttemptKeepsItsRow'
  <2> SUFFICES ASSUME NEW f \in flights, Lives(f.pair.hook)'
               PROVE  /\ f.to = f.pair.hook /\ Due(rows'[f.id])
                      /\ rows'[f.id].pair = f.pair /\ rows'[f.id].attempt + 1 = f.n
    BY DEF AttemptKeepsItsRow
  <2>1. Lives(f.pair.hook)
    BY <1>1, <1>2 DEF Held
  <2>2. /\ f.to = f.pair.hook /\ Due(rows[f.id])
        /\ rows[f.id].pair = f.pair /\ rows[f.id].attempt + 1 = f.n
    BY <2>1 DEF Held, AttemptKeepsItsRow
  <2>3. rows'[f.id] = rows[f.id]
    BY <1>2, <2>2
  <2> QED
    BY <2>2, <2>3
<1>8. (snd.pc # "batch" => \A h \in HookIds : snd.loaded[h] = Null)'
  BY DEF Held
<1> QED
  BY <1>4, <1>5, <1>6, <1>7, <1>8 DEF Held

(* The tables stand still; the sender holds no more than it did. *)
LEMMA SenderHolds ==
    ASSUME Held, UNCHANGED <<rows, hooks, made>>,
           flights' \subseteq flights,
           \A d \in snd'.todo :
               d \in snd.todo /\ (Lives(d.pair.hook) => snd'.loaded[d.hook] \in {Null, d.pair.hook}),
           snd'.cur # Null =>
               \/ snd'.cur = snd.cur
               \/ \E d \in snd.todo : /\ snd'.cur.row = d
                                      /\ Lives(d.pair.hook) => snd'.cur.to = d.pair.hook,
           snd'.pc # "batch" => \A h \in HookIds : snd'.loaded[h] = Null
    PROVE  Held'
<1>1. HeldRows'
  BY DEF Held, HeldRows, Kept, Mine, Lives
<1>2. HeldNext'
  BY DEF Held, HeldRows, HeldNext, Kept, Mine, Lives
<1>3. AttemptKeepsItsRow'
  BY DEF Held, AttemptKeepsItsRow, Lives
<1> QED
  BY <1>1, <1>2, <1>3 DEF Held

LEMMA DueDeliveriesHolds ==
    ASSUME IInv, Sound, Held, DueDeliveries
    PROVE  Held'
<1> DEFINE due == {i \in RowIds : Due(rows[i])}
           claim(i) == [id |-> i, hook |-> rows[i].hook, pair |-> rows[i].pair,
                        attempt |-> rows[i].attempt]
<1>1. snd.pc = "list" /\ UNCHANGED <<rows, hooks, made, flights>>
  BY DEF DueDeliveries, tables, history
<1>2. /\ flights = {} /\ snd.cur = Null /\ snd \in SndType
      /\ \A h \in HookIds : snd.loaded[h] = Null
  BY <1>1 DEF IInv, Batch, Held
<1>3. CASE snd' = Waiting
  <2>1. snd'.todo = {} /\ snd'.cur = Null /\ \A h \in HookIds : snd'.loaded[h] = Null
    BY <1>3, WaitingType
  <2> QED
    BY <1>1, <2>1, SenderHolds
<1>4. ASSUME NEW B \in SUBSET due,
             snd' = [snd EXCEPT !.pc = "batch", !.full = Cardinality(B) >= SweepBatch,
                                !.todo = {claim(i) : i \in B}]
      PROVE  Held'
  <2>1. \A i \in B : /\ i \in RowIds /\ Due(rows[i]) /\ claim(i).id = i
                     /\ claim(i).hook = rows[i].hook /\ claim(i).pair = rows[i].pair
                     /\ claim(i).attempt = rows[i].attempt
    OBVIOUS
  <2> HIDE DEF claim
  <2>2. /\ snd'.todo = {claim(i) : i \in B} /\ snd'.cur = Null /\ snd'.pc = "batch"
        /\ snd'.loaded = snd.loaded
    BY <1>2, <1>4 DEF SndType
  <2>3. \A i \in B : /\ rows[i] # Null /\ rows[i] \in Delivery /\ rows[i].hook \in HookIds
                     /\ rows[i].pair.hook <= made
    BY <2>1 DEF Due, IInv, Tables, Types, Numbers, RowNumbers, Delivery
  <2>4. \A i \in B : Kept(claim(i)) /\ Mine(claim(i))
    BY <2>1, <2>3 DEF Kept, Mine, Sound, RowsHome
  <2>5. HeldRows'
    BY <1>1, <1>2, <2>1, <2>2, <2>3, <2>4 DEF HeldRows, Kept, Mine
  <2>6. HeldNext' /\ AttemptKeepsItsRow' /\ flights' = {}
    BY <1>1, <1>2, <2>2 DEF HeldNext, AttemptKeepsItsRow
  <2> QED
    BY <2>2, <2>5, <2>6 DEF Held
<1> QED
  BY <1>3, <1>4 DEF DueDeliveries

LEMMA GetWebhookByIDHolds ==
    ASSUME IInv, Held, GetWebhookByID \/ GetWebhookByIDError
    PROVE  Held'
<1>1. UNCHANGED <<rows, hooks, made, flights>> /\ snd.pc = "batch"
  BY DEF GetWebhookByID, GetWebhookByIDError, tables, history
<1>2. snd \in SndType /\ \A d \in snd.todo : d.hook \in HookIds
  BY HeldTypes DEF IInv, Batch
<1>3. ASSUME NEW d \in snd.todo, snd' = [snd EXCEPT !.todo = snd.todo \ {d}]
      PROVE  Held'
  <2>1. /\ snd'.todo = snd.todo \ {d} /\ snd'.cur = snd.cur /\ snd'.pc = "batch"
        /\ snd'.loaded = snd.loaded
    BY <1>1, <1>2, <1>3 DEF SndType
  <2> QED
    BY <1>1, <2>1, SenderHolds DEF Held, HeldRows
<1>4. ASSUME NEW d \in snd.todo, snd.loaded[d.hook] # Null,
             snd' = [snd EXCEPT !.todo = snd.todo \ {d},
                                !.cur = [row |-> d, to |-> snd.loaded[d.hook]]]
      PROVE  Held'
  <2>1. /\ snd'.todo = snd.todo \ {d} /\ snd'.pc = "batch" /\ snd'.loaded = snd.loaded
        /\ snd'.cur.row = d /\ snd'.cur.to = snd.loaded[d.hook]
    BY <1>1, <1>2, <1>4 DEF SndType
  <2>2. Lives(d.pair.hook) => snd'.cur.to = d.pair.hook
    BY <1>4, <2>1 DEF Held, HeldRows
  <2> QED
    BY <1>1, <2>1, <2>2, SenderHolds DEF Held, HeldRows
<1>5. ASSUME NEW d \in snd.todo, hooks[d.hook] # Null,
             snd' = [snd EXCEPT !.todo = snd.todo \ {d},
                                !.cur = [row |-> d, to |-> hooks[d.hook].number],
                                !.loaded[d.hook] = hooks[d.hook].number]
      PROVE  Held'
  <2>1. /\ snd'.todo = snd.todo \ {d} /\ snd'.pc = "batch"
        /\ snd'.loaded = [snd.loaded EXCEPT ![d.hook] = hooks[d.hook].number]
        /\ snd'.cur.row = d /\ snd'.cur.to = hooks[d.hook].number
    BY <1>1, <1>2, <1>5 DEF SndType
  <2>2. \A e \in snd.todo : Lives(e.pair.hook) =>
          Mine(e) /\ snd.loaded[e.hook] \in {Null, e.pair.hook}
    BY DEF Held, HeldRows
  <2>3. Lives(d.pair.hook) => snd'.cur.to = d.pair.hook
    BY <2>1, <2>2 DEF Mine
  <2>4. \A e \in snd.todo : Lives(e.pair.hook) => snd'.loaded[e.hook] \in {Null, e.pair.hook}
    BY <1>2, <2>1, <2>2 DEF Mine, SndType
  <2> QED
    BY <1>1, <2>1, <2>3, <2>4, SenderHolds
<1>6. CASE GetWebhookByID
  BY <1>3, <1>4, <1>5, <1>6 DEF GetWebhookByID
<1>7. CASE GetWebhookByIDError
  BY <1>3, <1>7 DEF GetWebhookByIDError
<1> QED
  BY <1>6, <1>7

LEMMA StartAttemptHolds ==
    ASSUME IInv, Held, StartAttempt
    PROVE  Held'
<1> DEFINE f == [id |-> snd.cur.row.id, pair |-> snd.cur.row.pair,
                 n |-> snd.cur.row.attempt + 1, to |-> snd.cur.to, result |-> "posting"]
<1>1. /\ snd.cur # Null /\ flights' = flights \cup {f} /\ snd' = [snd EXCEPT !.cur = Null]
      /\ UNCHANGED <<rows, hooks, made>>
  BY DEF StartAttempt, tables, history
<1>2. /\ snd'.todo = snd.todo /\ snd'.cur = Null /\ snd'.loaded = snd.loaded /\ snd'.pc = snd.pc
  BY <1>1 DEF IInv, Batch, SndType
<1>3. /\ f.id = snd.cur.row.id /\ f.pair = snd.cur.row.pair
      /\ f.n = snd.cur.row.attempt + 1 /\ f.to = snd.cur.to
  OBVIOUS
<1> HIDE DEF f
<1>4. f.pair.hook <= made
  BY <1>1, <1>3 DEF Held, HeldNext
<1>5. Lives(f.pair.hook) => /\ f.to = f.pair.hook /\ Due(rows[f.id])
                            /\ rows[f.id].pair = f.pair /\ rows[f.id].attempt + 1 = f.n
  BY <1>1, <1>3 DEF Held, HeldNext, Kept
<1>6. HeldRows' /\ HeldNext'
  BY <1>1, <1>2 DEF Held, HeldRows, HeldNext, Kept, Mine, Lives
<1>7. AttemptKeepsItsRow'
  BY <1>1, <1>5 DEF Held, AttemptKeepsItsRow, Lives
<1> QED
  BY <1>1, <1>2, <1>4, <1>6, <1>7 DEF Held

LEMMA PostHolds ==
    ASSUME IInv, Held, NEW f \in flights, Post(f)
    PROVE  Held'
<1>1. PICK r \in {"ok", "error"} : flights' = (flights \ {f}) \cup {[f EXCEPT !.result = r]}
  BY DEF Post
<1>2. UNCHANGED <<rows, hooks, made, snd>>
  BY DEF Post, tables
<1> DEFINE g == [f EXCEPT !.result = r]
<1>3. g.id = f.id /\ g.pair = f.pair /\ g.n = f.n /\ g.to = f.to
  BY DEF IInv, Batch, Flight
<1> HIDE DEF g
<1>4. flights' = (flights \ {f}) \cup {g}
  BY <1>1 DEF g
<1>5. HeldRows' /\ HeldNext'
  BY <1>2 DEF Held, HeldRows, HeldNext, Kept, Mine, Lives
<1>6. AttemptKeepsItsRow'
  BY <1>2, <1>3, <1>4 DEF Held, AttemptKeepsItsRow, Lives
<1> QED
  BY <1>2, <1>3, <1>4, <1>5, <1>6 DEF Held

(* The sender, or the whole process, starts afresh. *)
LEMMA SweepHolds ==
    ASSUME IInv, Held,
           FinishBatch \/ Wake \/ Ticker \/ DueDeliveriesError \/ Restart \/ Crash
    PROVE  Held'
<1>1. snd' \in {Waiting, Listing} /\ flights' \subseteq flights /\ UNCHANGED <<rows, hooks, made>>
  BY DEF FinishBatch, Wake, Ticker, DueDeliveriesError, Restart, Crash, Restarted, tables, history
<1>2. snd'.todo = {} /\ snd'.cur = Null /\ \A h \in HookIds : snd'.loaded[h] = Null
  BY <1>1, WaitingType
<1> QED
  BY <1>1, <1>2, SenderHolds

(* The result of an attempt: no other row that is held has its id. *)
LEMMA ResultHolds ==
    ASSUME IInv, Held, NEW f \in flights, RecordDeliveryResult(f)
    PROVE  Held'
<1>1. /\ rows' = IF rows[f.id] = Null THEN rows
                 ELSE [rows EXCEPT ![f.id] = Outcome(f, rows[f.id])]
      /\ flights' = flights \ {f} /\ UNCHANGED <<hooks, made, snd>>
  BY DEF RecordDeliveryResult, history
<1>2. \A i \in RowIds : i # f.id => rows'[i] = rows[i]
  BY <1>1 DEF IInv, Tables, Types
<1>3. /\ \A d \in snd.todo : d.id # f.id
      /\ snd.cur # Null => snd.cur.row.id # f.id
      /\ \A g \in flights' : g.id # f.id
  BY <1>1 DEF IInv, Batch, NeverTwiceAtOnce
<1>4. /\ \A d \in snd.todo : rows'[d.id] = rows[d.id]
      /\ snd.cur # Null => rows'[snd.cur.row.id] = rows[snd.cur.row.id]
      /\ \A g \in flights' : rows'[g.id] = rows[g.id]
  BY <1>1, <1>2, <1>3, HeldTypes DEF IInv
<1>5. HeldRows' /\ HeldNext'
  BY <1>1, <1>4 DEF Held, HeldRows, HeldNext, Kept, Mine, Lives
<1>6. AttemptKeepsItsRow'
  BY <1>1, <1>4 DEF Held, AttemptKeepsItsRow, Lives
<1> QED
  BY <1>1, <1>5, <1>6 DEF Held

(* The other ways in which rows change touch none that is due - but with   *)
(* their webhook.                                                          *)
LEMMA DueStays ==
    ASSUME IInv, Compact, Sound, [Next]_vars, ~ \E f \in flights : RecordDeliveryResult(f)
    PROVE  \A i \in RowIds, n \in Nat :
               Due(rows[i]) /\ rows[i].pair.hook = n /\ Lives(n)' => rows'[i] = rows[i]
<1> SUFFICES ASSUME NEW i \in RowIds, NEW n \in Nat, Due(rows[i]), rows[i].pair.hook = n, Lives(n)'
             PROVE  rows'[i] = rows[i]
  OBVIOUS
<1>1. rows[i] # Null /\ rows[i].next = "due" /\ ~ rows[i].delivered /\ rows[i].hook \in HookIds
  BY DEF Due, IInv, Tables, Types, Delivery
<1>2. ASSUME NEW h, NEW m, Inserts(h, m) PROVE rows'[i] = rows[i]
  <2>1. rows[NewId(rows)] = Null /\ \E new : rows' = [rows EXCEPT ![NewId(rows)] = new]
    BY <1>2, InsertedRow DEF IInv, Inserts
  <2> QED
    BY <1>1, <2>1 DEF IInv, Tables, Types
<1>3. ASSUME NEW j \in RowIds, Elapse(j) PROVE rows'[i] = rows[i]
  BY <1>1, <1>3 DEF Elapse, IInv, Tables, Types
<1>4. ASSUME NEW h \in HookIds, DeleteWebhook(h) PROVE rows'[i] = rows[i]
  <2>1. hooks[rows[i].hook] # Null /\ hooks[rows[i].hook].number = n
    BY <1>1 DEF Sound, RowsHome
  <2>2. Stays(rows[i].hook)
    BY <1>1, <2>1, LivesStep
  <2>3. hooks'[h] = Null
    BY <1>4 DEF DeleteWebhook, IInv, Tables, Types
  <2>4. rows[i].hook # h
    BY <2>2, <2>3 DEF Stays
  <2> QED
    BY <1>4, <2>4 DEF DeleteWebhook
<1>5. CASE DeleteOldDeliveries
  <2>1. PICK D \in SUBSET {j \in RowIds : Settled(rows[j])} :
          rows' = [j \in RowIds |-> IF j \in D THEN Null ELSE rows[j]]
    BY <1>5 DEF DeleteOldDeliveries
  <2>2. i \notin D
    BY <1>1, DispatchAssumption DEF DispatchAssumption, Settled
  <2> QED
    BY <2>1, <2>2
<1> QED
  BY <1>2, <1>3, <1>4, <1>5, RowsStep

LEMMA NextHeld == IInv /\ Compact /\ Sound /\ Held /\ [Next]_vars => Held'
<1> SUFFICES ASSUME IInv, Compact, Sound, Held, [Next]_vars PROVE Held'
  OBVIOUS
<1>1. ASSUME NEW f \in flights, RecordResultError(f) PROVE Held'
  <2>1. flights' \subseteq flights /\ UNCHANGED <<rows, hooks, made, snd>>
    BY <1>1 DEF RecordResultError, tables, history
  <2> QED
    BY <2>1, SenderHolds DEF Held, HeldRows
<1>2. CASE Sends
  BY <1>1, <1>2, DueDeliveriesHolds, GetWebhookByIDHolds, StartAttemptHolds, PostHolds,
     SweepHolds DEF Sends
<1>3. CASE \E f \in flights : RecordDeliveryResult(f)
  BY <1>3, ResultHolds
<1>4. CASE ~ Sends /\ ~ \E f \in flights : RecordDeliveryResult(f)
  <2>1. UNCHANGED <<snd, flights>>
    BY <1>4, RowsStep DEF Inserts, Elapse, DeleteWebhook, DeleteOldDeliveries, send
  <2> QED
    BY <1>4, <2>1, DueStays, HeldStays
<1> QED
  BY <1>2, <1>3, <1>4

THEOREM Holding == Spec => []Held
<1>1. Init => Held
  <2> SUFFICES ASSUME Init PROVE Held
    OBVIOUS
  <2>1. snd.todo = {} /\ snd.cur = Null /\ flights = {} /\ \A h \in HookIds : snd.loaded[h] = Null
    BY WaitingType DEF Init
  <2> QED
    BY <2>1 DEF Held, HeldRows, HeldNext, AttemptKeepsItsRow
<1> QED
  BY <1>1, NextHeld, Invariance, Compactness, Soundness, PTL DEF Spec

(***************************************************************************)
(* While an attempt is under way and its webhook exists, it posts to that  *)
(* webhook and its row stays the one it was read from, so the UPDATE by id *)
(* meets that row - through retries, pruning, shutdowns and crashes, and   *)
(* whatever other webhooks are deleted and made meanwhile.                 *)
(***************************************************************************)
THEOREM AttemptsKeepRows == Spec => []AttemptKeepsItsRow
<1>1. Held => AttemptKeepsItsRow
  BY DEF Held
<1> QED
  BY <1>1, Holding, PTL

-----------------------------------------------------------------------------
(* What is reported, also when webhooks are deleted at any moment.         *)

Answered == \A f \in flights : f.result = "ok" => f.pair \in accepted

LEMMA NextAnswered == IInv /\ Answered /\ [Next]_vars => Answered'
<1> SUFFICES ASSUME IInv, Answered, [Next]_vars PROVE Answered'
  OBVIOUS
<1>1. ASSUME accepted \subseteq accepted',
             \A f \in flights' : f.result = "ok" => f \in flights \/ f.pair \in accepted'
      PROVE  Answered'
  BY <1>1 DEF Answered
<1>2. ASSUME NEW f \in flights, Post(f) PROVE Answered'
  <2>1. PICK ok \in BOOLEAN, got \in BOOLEAN :
          /\ ok => got
          /\ flights' = (flights \ {f}) \cup {[f EXCEPT !.result = IF ok THEN "ok" ELSE "error"]}
          /\ accepted' = IF got THEN accepted \cup {f.pair} ELSE accepted
    BY <1>2 DEF Post
  <2> DEFINE g == [f EXCEPT !.result = IF ok THEN "ok" ELSE "error"]
  <2>2. g.pair = f.pair /\ (g.result = "ok" => ok)
    BY DEF IInv, Batch, Flight
  <2> HIDE DEF g
  <2>3. flights' = (flights \ {f}) \cup {g}
    BY <2>1 DEF g
  <2> QED
    BY <1>1, <2>1, <2>2, <2>3
<1>3. CASE StartAttempt
  <2> DEFINE f == [id |-> snd.cur.row.id, pair |-> snd.cur.row.pair,
                   n |-> snd.cur.row.attempt + 1, to |-> snd.cur.to, result |-> "posting"]
  <2>1. flights' = flights \cup {f} /\ f.result # "ok" /\ UNCHANGED accepted
    BY <1>3 DEF StartAttempt, history
  <2> HIDE DEF f
  <2> QED
    BY <1>1, <2>1
<1>4. CASE Sends /\ ~ StartAttempt /\ ~ \E f \in flights : Post(f)
  <2>1. flights' \subseteq flights /\ UNCHANGED accepted
    BY <1>4 DEF Sends, DueDeliveries, DueDeliveriesError, GetWebhookByID, GetWebhookByIDError,
       FinishBatch, Wake, Ticker, Restart, Crash, Restarted, RecordResultError, history
  <2> QED
    BY <1>1, <2>1
<1>5. CASE ~ Sends
  <2>1. flights' \subseteq flights /\ UNCHANGED accepted
    BY <1>5, RowsStep DEF Inserts, RecordDeliveryResult, Elapse, DeleteWebhook,
       DeleteOldDeliveries, send, history
  <2> QED
    BY <1>1, <2>1
<1> QED
  BY <1>2, <1>3, <1>4, <1>5 DEF Sends

Reported ==
    \A i \in RowIds : Delivered(rows'[i]) /\ ~ Delivered(rows[i]) =>
        \E f \in flights : /\ f.id = i /\ f.pair \in accepted
                           /\ rows[i].pair = f.pair \/ ~ Lives(f.pair.hook)

LEMMA StepReported ==
    ASSUME IInv, Compact, Held, Answered, [Next]_vars
    PROVE  Reported
<1>1. rows \in [RowIds -> Delivery \cup {Null}]
  BY DEF IInv, Tables, Types
<1>2. ASSUME \A i \in RowIds : Delivered(rows'[i]) => Delivered(rows[i]) PROVE Reported
  BY <1>2 DEF Reported
<1>3. ASSUME NEW h, NEW n, Inserts(h, n) PROVE Reported
  <2> DEFINE new == [hook |-> h, pair |-> [event |-> n, hook |-> hooks[h].number],
                     attempt |-> 0, next |-> "due", delivered |-> FALSE]
  <2>1. NewId(rows) \in RowIds /\ rows' = [rows EXCEPT ![NewId(rows)] = new] /\ ~ new.delivered
    BY <1>3, InsertedRow DEF IInv, Inserts
  <2> HIDE DEF new
  <2>2. \A i \in RowIds : rows'[i] = new \/ rows'[i] = rows[i]
    BY <1>1, <2>1
  <2> QED
    BY <1>2, <2>1, <2>2 DEF Delivered
<1>4. ASSUME NEW f \in flights, RecordDeliveryResult(f) PROVE Reported
  <2>1. rows' = IF rows[f.id] = Null THEN rows
                ELSE [rows EXCEPT ![f.id] = Outcome(f, rows[f.id])]
    BY <1>4 DEF RecordDeliveryResult
  <2>2. f.id \in RowIds
    BY HeldTypes DEF IInv
  <2>3. CASE rows[f.id] = Null
    BY <1>2, <2>1, <2>3
  <2>4. CASE rows[f.id] # Null
    <3> DEFINE new == Outcome(f, rows[f.id])
    <3>1. new.delivered => f.result = "ok"
      BY <1>1, <2>2, <2>4 DEF Outcome, Delivery
    <3> HIDE DEF new
    <3>2. rows'[f.id] = new /\ \A i \in RowIds : i # f.id => rows'[i] = rows[i]
      BY <1>1, <2>1, <2>2, <2>4 DEF new
    <3>3. new.delivered => f.pair \in accepted
      BY <3>1 DEF Answered
    <3>4. Lives(f.pair.hook) => rows[f.id].pair = f.pair
      BY DEF Held, AttemptKeepsItsRow
    <3> QED
      BY <3>2, <3>3, <3>4 DEF Reported, Delivered
  <2> QED
    BY <2>3, <2>4
<1>5. ASSUME NEW i \in RowIds, Elapse(i) PROVE Reported
  <2>1. rows[i] # Null /\ rows' = [rows EXCEPT ![i].next = "due"]
    BY <1>5 DEF Elapse
  <2>2. rows'[i].delivered = rows[i].delivered /\ \A j \in RowIds : j # i => rows'[j] = rows[j]
    BY <1>1, <2>1 DEF Delivery
  <2> QED
    BY <1>2, <2>1, <2>2 DEF Delivered
<1>6. CASE DeleteOldDeliveries \/ \E h \in HookIds : DeleteWebhook(h)
  <2>1. \A i \in RowIds : rows'[i] # Null => rows'[i] = rows[i]
    BY <1>6 DEF DeleteOldDeliveries, DeleteWebhook
  <2> QED
    BY <1>2, <2>1 DEF Delivered
<1>7. CASE UNCHANGED rows
  BY <1>2, <1>7
<1> QED
  BY <1>3, <1>4, <1>5, <1>6, <1>7, RowsStep

(***************************************************************************)
(* RecordDeliveryResult (db/webhooks.go:284-303), for any number of        *)
(* webhooks deleted at any moment: only an attempt its receiver accepted   *)
(* marks a delivery as delivered, and it marks its own, unless its webhook *)
(* was deleted while the post was out.                                     *)
(***************************************************************************)
THEOREM DeliveredIsTrue == Spec => DeliveredByAnAttempt
<1>1. Init => Answered
  BY DEF Init, Answered
<1>2. IInv /\ Answered /\ [Next]_vars => Answered'
  BY NextAnswered
<1>3. IInv /\ Compact /\ Held /\ Answered /\ [Next]_vars => [Reported]_vars
  BY StepReported
<1> QED
  BY <1>1, <1>2, <1>3, Invariance, Compactness, Holding, PTL
     DEF Spec, DeliveredByAnAttempt, Reported

-----------------------------------------------------------------------------
(***************************************************************************)
(* When only webhooks at rest are deleted, the sender holds nothing for a  *)
(* webhook that is gone.                                                   *)
(***************************************************************************)
DeletesAtRest == "delete" \notin Offered

Engaged == {d.pair.hook : d \in snd.todo}
           \cup {n \in Nat : snd.cur # Null /\ snd.cur.row.pair.hook = n}
           \cup {f.pair.hook : f \in flights}

Attached == \A n \in Engaged : Lives(n)

(* What a sweep lists belongs to webhooks; nothing else is new to hold. *)
LEMMA EngagedStep ==
    ASSUME IInv, Sound, [Next]_vars
    PROVE  \A n \in Engaged' : n \in Engaged \/ (Lives(n) /\ UNCHANGED hooks)
<1>1. ASSUME \A d \in snd'.todo : d \in snd.todo,
             snd'.cur # Null => snd'.cur = snd.cur \/ snd'.cur.row \in snd.todo,
             flights' \subseteq flights
      PROVE  Engaged' \subseteq Engaged
  <2>1. \A d \in snd.todo : d.pair.hook \in Nat
    BY HeldTypes DEF IInv
  <2> QED
    BY <1>1, <2>1 DEF Engaged
<1>2. CASE DueDeliveries
  <2> DEFINE claim(i) == [id |-> i, hook |-> rows[i].hook, pair |-> rows[i].pair,
                          attempt |-> rows[i].attempt]
  <2>1. snd.pc = "list" /\ UNCHANGED <<hooks, flights>>
    BY <1>2 DEF DueDeliveries, tables
  <2>2. flights = {} /\ snd.cur = Null /\ snd \in SndType
    BY <2>1 DEF IInv, Batch
  <2>3. CASE snd' = Waiting
    <3>1. snd'.todo = {} /\ snd'.cur = Null
      BY <2>3, WaitingType
    <3> QED
      BY <2>1, <2>2, <3>1, <1>1
  <2>4. ASSUME NEW B \in SUBSET {i \in RowIds : Due(rows[i])},
               snd' = [snd EXCEPT !.pc = "batch", !.full = Cardinality(B) >= SweepBatch,
                                  !.todo = {claim(i) : i \in B}]
        PROVE  \A n \in Engaged' : Lives(n)
    <3>1. \A i \in B : claim(i).pair = rows[i].pair
      OBVIOUS
    <3> HIDE DEF claim
    <3>2. snd'.todo = {claim(i) : i \in B} /\ snd'.cur = Null
      BY <2>2, <2>4 DEF SndType
    <3>3. \A i \in B : rows[i] # Null /\ rows[i].hook \in HookIds
      BY DEF Due, IInv, Tables, Types, Delivery
    <3>4. \A i \in B : Lives(rows[i].pair.hook)
      BY <3>3 DEF Lives, Sound, RowsHome
    <3> QED
      BY <2>1, <2>2, <3>1, <3>2, <3>4 DEF Engaged
  <2> QED
    BY <1>2, <2>1, <2>3, <2>4 DEF DueDeliveries
<1>3. CASE GetWebhookByID \/ GetWebhookByIDError
  <2>1. snd \in SndType /\ flights' = flights
    BY <1>3 DEF IInv, Batch, GetWebhookByID, GetWebhookByIDError
  <2>2. PICK d \in snd.todo :
          \/ snd' = [snd EXCEPT !.todo = snd.todo \ {d}]
          \/ snd' = [snd EXCEPT !.todo = snd.todo \ {d},
                                !.cur = [row |-> d, to |-> snd.loaded[d.hook]]]
          \/ snd' = [snd EXCEPT !.todo = snd.todo \ {d},
                                !.cur = [row |-> d, to |-> hooks[d.hook].number],
                                !.loaded[d.hook] = hooks[d.hook].number]
    BY <1>3 DEF GetWebhookByID, GetWebhookByIDError
  <2>3. snd'.todo = snd.todo \ {d} /\ (snd'.cur = snd.cur \/ snd'.cur.row = d)
    <3>1. CASE snd' = [snd EXCEPT !.todo = snd.todo \ {d}]
      BY <2>1, <3>1 DEF SndType
    <3>2. CASE snd' = [snd EXCEPT !.todo = snd.todo \ {d},
                                  !.cur = [row |-> d, to |-> snd.loaded[d.hook]]]
      BY <2>1, <3>2 DEF SndType
    <3>3. CASE snd' = [snd EXCEPT !.todo = snd.todo \ {d},
                                  !.cur = [row |-> d, to |-> hooks[d.hook].number],
                                  !.loaded[d.hook] = hooks[d.hook].number]
      BY <2>1, <3>3 DEF SndType
    <3> QED
      BY <2>2, <3>1, <3>2, <3>3
  <2> QED
    BY <2>1, <2>3, <1>1
<1>4. CASE StartAttempt
  <2> DEFINE f == [id |-> snd.cur.row.id, pair |-> snd.cur.row.pair,
                   n |-> snd.cur.row.attempt + 1, to |-> snd.cur.to, result |-> "posting"]
  <2>1. snd.cur # Null /\ flights' = flights \cup {f} /\ snd' = [snd EXCEPT !.cur = Null]
    BY <1>4 DEF StartAttempt
  <2>2. f.pair = snd.cur.row.pair
    OBVIOUS
  <2> HIDE DEF f
  <2>3. snd'.todo = snd.todo /\ snd'.cur = Null /\ snd.cur.row.pair.hook \in Nat
    BY <2>1, HeldTypes DEF IInv, Batch, SndType
  <2>4. f.pair.hook \in Engaged
    BY <2>1, <2>2, <2>3 DEF Engaged
  <2> QED
    BY <2>1, <2>3, <2>4 DEF Engaged
<1>5. ASSUME NEW f \in flights, Post(f) PROVE Engaged' \subseteq Engaged
  <2>1. PICK r \in {"ok", "error"} : flights' = (flights \ {f}) \cup {[f EXCEPT !.result = r]}
    BY <1>5 DEF Post
  <2> DEFINE g == [f EXCEPT !.result = r]
  <2>2. g.pair = f.pair
    BY DEF IInv, Batch, Flight
  <2> HIDE DEF g
  <2>3. flights' = (flights \ {f}) \cup {g} /\ UNCHANGED snd
    BY <1>5, <2>1 DEF g, Post
  <2> QED
    BY <2>2, <2>3 DEF Engaged
<1>6. CASE FinishBatch \/ Wake \/ Ticker \/ DueDeliveriesError \/ Restart \/ Crash
  <2>1. snd' \in {Waiting, Listing} /\ flights' \subseteq flights
    BY <1>6 DEF FinishBatch, Wake, Ticker, DueDeliveriesError, Restart, Crash, Restarted
  <2>2. snd'.todo = {} /\ snd'.cur = Null
    BY <2>1, WaitingType
  <2> QED
    BY <2>1, <2>2, <1>1
<1>7. CASE \E f \in flights : RecordResultError(f) \/ RecordDeliveryResult(f)
  BY <1>1, <1>7 DEF RecordResultError, RecordDeliveryResult
<1>8. CASE UNCHANGED send
  BY <1>1, <1>8 DEF send
<1>9. CASE Sends
  BY <1>2, <1>3, <1>4, <1>5, <1>6, <1>7, <1>9 DEF Sends
<1>10. CASE ~ Sends
  BY <1>7, <1>8, <1>10, RowsStep DEF Inserts, Elapse, DeleteWebhook, DeleteOldDeliveries
<1> QED
  BY <1>9, <1>10

LEMMA NextAttached ==
    ASSUME DeletesAtRest, IInv, Sound, Held, Attached, [Next]_vars
    PROVE  Attached'
<1>1. ASSUME NEW h \in HookIds, DeleteWebhook(h) PROVE Attached'
  <2>1. AtRest(h) /\ UNCHANGED <<snd, flights>> /\ hooks[h] # Null
    BY <1>1 DEF DeletesAtRest, DeleteWebhook, send
  <2>2. \A g \in HookIds : g # h => hooks'[g] = hooks[g]
    BY <1>1 DEF DeleteWebhook, IInv, Tables, Types
  <2>3. Engaged' = Engaged
    BY <2>1 DEF Engaged
  <2>4. ASSUME NEW n, Lives(n), n # hooks[h].number PROVE Lives(n)'
    BY <2>2, <2>4 DEF Lives
  <2>5. ASSUME NEW d, d.hook \in HookIds, Mine(d), d.hook # h PROVE d.pair.hook # hooks[h].number
    BY <2>1, <2>5 DEF Mine, IInv, Tables, Numbers, HookNumbers
  <2>6. ASSUME NEW d \in snd.todo PROVE d.pair.hook # hooks[h].number
    <3>1. d.pair.hook \in Engaged
      BY DEF Engaged
    <3>2. Mine(d) /\ d.hook \in HookIds
      BY <3>1, HeldTypes DEF Attached, Held, HeldRows, IInv
    <3> QED
      BY <2>1, <2>5, <3>2 DEF AtRest
  <2>7. ASSUME snd.cur # Null PROVE snd.cur.row.pair.hook # hooks[h].number
    <3>1. snd.cur.row.pair.hook \in Engaged
      BY <2>7, HeldTypes DEF Engaged, IInv
    <3>2. Mine(snd.cur.row) /\ snd.cur.row.hook \in HookIds
      BY <2>7, <3>1, HeldTypes DEF Attached, Held, HeldNext, IInv
    <3> QED
      BY <2>1, <2>5, <2>7, <3>2 DEF AtRest
  <2>8. \A n \in Engaged : n # hooks[h].number
    BY <2>1, <2>6, <2>7 DEF Engaged, AtRest
  <2> QED
    BY <2>3, <2>4, <2>8 DEF Attached
<1>2. CASE \A h \in HookIds : ~ DeleteWebhook(h)
  <2>1. \A n : Lives(n) => Lives(n)'
    BY <1>2, HooksStep DEF Lives, Stays
  <2> QED
    BY <2>1, EngagedStep DEF Attached
<1> QED
  BY <1>1, <1>2

THEOREM Attachment == DeletesAtRest => (Spec => []Attached)
<1> SUFFICES ASSUME DeletesAtRest PROVE Spec => []Attached
  OBVIOUS
<1>1. Init => Attached
  <2> SUFFICES ASSUME Init PROVE Attached
    OBVIOUS
  <2>1. snd.todo = {} /\ snd.cur = Null /\ flights = {}
    BY WaitingType DEF Init
  <2> QED
    BY <2>1 DEF Attached, Engaged
<1>2. IInv /\ Sound /\ Held /\ Attached /\ [Next]_vars => Attached'
  BY NextAttached
<1> QED
  BY <1>1, <1>2, Invariance, Soundness, Holding, PTL DEF Spec

(* Then the attempts under way are those their rows ask for. *)
OwnRows == \A f \in flights : /\ f.to = f.pair.hook
                              /\ Due(rows[f.id])
                              /\ rows[f.id].pair = f.pair
                              /\ rows[f.id].attempt + 1 = f.n

LEMMA AttachedOwn == Held /\ Attached => OwnRows
  BY DEF Held, Attached, Engaged, OwnRows, AttemptKeepsItsRow

(***************************************************************************)
(* An attempt posts to the webhook its delivery was queued for, as long as *)
(* an operator deletes only webhooks at rest: the one way in which         *)
(* RightReceiver fails is a deletion in the middle of a batch.             *)
(***************************************************************************)
THEOREM ReceiverIsRight == DeletesAtRest => (Spec => []RightReceiver)
<1>1. Held /\ Attached => RightReceiver
  BY AttachedOwn DEF OwnRows, RightReceiver
<1> QED
  BY <1>1, Holding, Attachment, PTL

-----------------------------------------------------------------------------
(* The types of what IInv does not speak of. *)

Rest ==
    /\ wake \in BOOLEAN /\ tested \in BOOLEAN /\ stopping \in BOOLEAN
    /\ faults \in 0 .. MaxFaults
    /\ owed \subseteq Pair /\ accepted \subseteq Pair
    /\ IsFiniteSet(flights) /\ Cardinality(flights) <= MaxConcurrent

LEMMA NextFlights ==
    ASSUME IInv, Rest, [Next]_vars
    PROVE  IsFiniteSet(flights') /\ Cardinality(flights') <= MaxConcurrent
<1>1. Cardinality(flights) \in Nat /\ MaxConcurrent \in Nat
  BY FS_CardinalityType, Bounds DEF Rest
<1>2. ASSUME flights' \subseteq flights
      PROVE  IsFiniteSet(flights') /\ Cardinality(flights') <= MaxConcurrent
  <2>1. IsFiniteSet(flights') /\ Cardinality(flights') <= Cardinality(flights)
    BY <1>2, FS_Subset DEF Rest
  <2>2. Cardinality(flights') \in Nat
    BY <2>1, FS_CardinalityType
  <2> QED
    BY <2>1, <2>2, <1>1 DEF Rest
<1>3. CASE StartAttempt
  <2>1. PICK f : flights' = flights \cup {f}
    BY <1>3 DEF StartAttempt
  <2>2. /\ IsFiniteSet(flights')
        /\ Cardinality(flights') \in {Cardinality(flights), Cardinality(flights) + 1}
    BY <2>1, FS_AddElement DEF Rest
  <2>3. Cardinality(flights) < MaxConcurrent
    BY <1>3 DEF StartAttempt
  <2> QED
    BY <2>2, <2>3, <1>1
<1>4. ASSUME NEW f \in flights, Post(f)
      PROVE  IsFiniteSet(flights') /\ Cardinality(flights') <= MaxConcurrent
  <2>1. PICK g : flights' = (flights \ {f}) \cup {g}
    BY <1>4 DEF Post
  <2>2. IsFiniteSet(flights \ {f}) /\ Cardinality(flights \ {f}) = Cardinality(flights) - 1
    BY <1>4, FS_RemoveElement DEF Rest
  <2> DEFINE S == flights \ {f}
  <2> HIDE DEF S
  <2>3. /\ IsFiniteSet(flights')
        /\ Cardinality(flights') \in {Cardinality(flights) - 1, Cardinality(flights)}
    <3>1. IsFiniteSet(S) /\ Cardinality(S) = Cardinality(flights) - 1 /\ flights' = S \cup {g}
      BY <2>1, <2>2 DEF S
    <3>2. /\ IsFiniteSet(S \cup {g})
          /\ Cardinality(S \cup {g}) = IF g \in S THEN Cardinality(S) ELSE Cardinality(S) + 1
      BY <3>1, FS_AddElement
    <3> QED
      BY <1>1, <3>1, <3>2
  <2> QED
    BY <2>3, <1>1 DEF Rest
<1>5. CASE Sends /\ ~ StartAttempt /\ ~ \E f \in flights : Post(f)
  <2>1. flights' \subseteq flights
    BY <1>5 DEF Sends, DueDeliveries, DueDeliveriesError, GetWebhookByID, GetWebhookByIDError,
       FinishBatch, Wake, Ticker, Restart, Crash, Restarted, RecordResultError
  <2> QED
    BY <2>1, <1>2
<1>6. CASE ~ Sends
  <2>1. flights' \subseteq flights
    BY <1>6, RowsStep DEF Inserts, RecordDeliveryResult, Elapse, DeleteWebhook,
       DeleteOldDeliveries, send
  <2> QED
    BY <2>1, <1>2
<1> QED
  BY <1>3, <1>4, <1>5, <1>6 DEF Sends

LEMMA NextAccepted ==
    ASSUME IInv, Rest, [Next]_vars
    PROVE  accepted' \subseteq Pair
<1>1. ASSUME NEW f \in flights, Post(f) PROVE accepted' \subseteq Pair
  BY <1>1 DEF Post, Rest, IInv, Batch, Flight
<1>2. CASE Sends /\ ~ \E f \in flights : Post(f)
  BY <1>2 DEF Sends, DueDeliveries, DueDeliveriesError, GetWebhookByID, GetWebhookByIDError,
     StartAttempt, FinishBatch, Wake, Ticker, Restart, Crash, Restarted, RecordResultError,
     history, Rest
<1>3. CASE ~ Sends
  BY <1>3, RowsStep DEF Inserts, RecordDeliveryResult, Elapse, DeleteWebhook,
     DeleteOldDeliveries, history, Rest
<1> QED
  BY <1>1, <1>2, <1>3

LEMMA NextOwed ==
    ASSUME IInv, Rest, [Next]_vars
    PROVE  owed' \subseteq Pair
<1>1. CASE ListWebhooks
  <2>1. rec.event \in Event /\ \A h \in Interested(rec.event) : hooks[h] \in Hook
    BY <1>1 DEF ListWebhooks, Interested, IInv, Tables, Types, Outstanding
  <2>2. owed' = owed \cup {[event |-> rec.event.number, hook |-> hooks[h].number] :
                             h \in Interested(rec.event)}
    BY <1>1 DEF ListWebhooks
  <2> QED
    BY <2>1, <2>2 DEF Rest, Event, Hook, Pair
<1>2. CASE ~ ListWebhooks
  BY <1>2 DEF Next, Operator, Recorder, Sender, Failures, CreateWebhook, Notify, Test, TestNudge,
     SetWebhookEnabled, DeleteWebhook, TestWebhook, TakeEvent, EnqueueDelivery, Nudge,
     DueDeliveries, GetWebhookByID, StartAttempt, FinishBatch, Wake, Ticker, Post,
     RecordDeliveryResult, TestError, RecordError, DueDeliveriesError, GetWebhookByIDError,
     RecordResultError, Shutdown, Restart, Crash, Restarted, Elapse, DeleteOldDeliveries,
     vars, history, Rest
<1> QED
  BY <1>1, <1>2

LEMMA NextFlags ==
    ASSUME IInv, Rest, [Next]_vars
    PROVE  wake' \in BOOLEAN /\ tested' \in BOOLEAN /\ stopping' \in BOOLEAN
<1>1. rec.queued \in BOOLEAN /\ wake \in BOOLEAN /\ tested \in BOOLEAN /\ stopping \in BOOLEAN
  BY DEF IInv, Outstanding, Rest
<1> QED
  BY <1>1 DEF Next, Operator, Recorder, Sender, Failures, CreateWebhook, Notify, Test, TestNudge,
     SetWebhookEnabled, DeleteWebhook, TestWebhook, TakeEvent, ListWebhooks, EnqueueDelivery,
     Nudge, DueDeliveries, GetWebhookByID, StartAttempt, FinishBatch, Wake, Ticker, Post,
     RecordDeliveryResult, TestError, RecordError, DueDeliveriesError, GetWebhookByIDError,
     RecordResultError, Shutdown, Restart, Crash, Restarted, Elapse, DeleteOldDeliveries, vars

LEMMA NextFaults ==
    ASSUME IInv, Rest, [Next]_vars
    PROVE  faults' \in 0 .. MaxFaults
<1>1. faults \in 0 .. MaxFaults /\ MaxFaults \in Nat
  BY DispatchAssumption DEF DispatchAssumption, Rest
<1>2. ASSUME NEW k, Fault(k) PROVE faults' \in 0 .. MaxFaults
  BY <1>1, <1>2 DEF Fault
<1>3. CASE UNCHANGED faults
  BY <1>1, <1>3
<1>4. CASE Failures
  BY <1>2, <1>3, <1>4 DEF Failures, TestError, RecordError, DueDeliveriesError,
     GetWebhookByIDError, RecordResultError, Shutdown, Restart, Crash
<1>5. CASE ~ Failures
  BY <1>3, <1>5 DEF Next, Operator, Recorder, Sender, CreateWebhook, Notify, Test, TestNudge,
     SetWebhookEnabled, DeleteWebhook, TestWebhook, TakeEvent, ListWebhooks, EnqueueDelivery,
     Nudge, DueDeliveries, GetWebhookByID, StartAttempt, FinishBatch, Wake, Ticker, Post,
     RecordDeliveryResult, Elapse, DeleteOldDeliveries, vars
<1> QED
  BY <1>4, <1>5

LEMMA InitRest == Init => Rest
<1>1. 0 \in 0 .. MaxFaults /\ MaxConcurrent \in Nat
  BY DispatchAssumption DEF DispatchAssumption
<1>2. IsFiniteSet({}) /\ Cardinality({}) = 0
  BY FS_EmptySet
<1>3. 0 <= MaxConcurrent
  BY <1>1
<1> QED
  BY <1>1, <1>2, <1>3 DEF Init, Rest

LEMMA NextRest == IInv /\ Rest /\ [Next]_vars => Rest'
  BY NextFlights, NextAccepted, NextOwed, NextFlags, NextFaults DEF Rest

(***************************************************************************)
(* Every variable keeps its type: the queue and the posts in flight within *)
(* their bounds, attempts within the schedule.                             *)
(***************************************************************************)
THEOREM TypeCorrect == Spec => []TypeOK
<1>1. IInv /\ Rest => TypeOK
  BY DEF IInv, Tables, Types, Outstanding, Batch, SndType, Rest, TypeOK
<1> QED
  BY <1>1, InitRest, NextRest, Invariance, PTL DEF Spec

-----------------------------------------------------------------------------
(***************************************************************************)
(* What the table r, with w the pairs written, shows of a pair: the state  *)
(* and the attempts of DeliveryLedger.                                     *)
(***************************************************************************)
Where(r, p) == {i \in RowIds : r[i] # Null /\ r[i].pair = p}
Stage(row) == IF row.delivered THEN "delivered" ELSE IF row.next = Null THEN "gaveup" ELSE "pending"
StageOf(r, w, p) ==
    IF Where(r, p) = {} THEN IF p \in w THEN "dropped" ELSE "none"
    ELSE Stage(r[CHOOSE i \in Where(r, p) : TRUE])
TriedOf(r, p) == IF Where(r, p) = {} THEN 0 ELSE r[CHOOSE i \in Where(r, p) : TRUE].attempt

States(r, w) == [p \in Pair |-> StageOf(r, w, p)]
Tried(r) == [p \in Pair |-> TriedOf(r, p)]

Gone == {n \in 1 .. made : ~ Lives(n)}

LEMMA LedgerStep ==
    Ledger!Next <=>
       \/ \E p \in Pair :
             /\ States(rows, written)[p] = "none"
             /\ p.hook \notin Gone
             /\ States(rows', written') = [States(rows, written) EXCEPT ![p] = "pending"]
             /\ Tried(rows') = Tried(rows) /\ Gone' = Gone
       \/ \E p \in Pair :
             /\ States(rows, written)[p] = "pending"
             /\ Tried(rows)[p] < Tries
             /\ Tried(rows') = [Tried(rows) EXCEPT ![p] = @ + 1]
             /\ \/ States(rows', written') = [States(rows, written) EXCEPT ![p] = "delivered"]
                \/ Tried(rows')[p] < Tries /\ States(rows', written') = States(rows, written)
                \/ /\ Tried(rows')[p] = Tries
                   /\ States(rows', written') = [States(rows, written) EXCEPT ![p] = "gaveup"]
             /\ Gone' = Gone
       \/ \E S \in SUBSET Pair :
             /\ \A p \in S : States(rows, written)[p] \in {"delivered", "gaveup"}
             /\ States(rows', written') =
                  [p \in Pair |-> IF p \in S THEN "dropped" ELSE States(rows, written)[p]]
             /\ Tried(rows') = [p \in Pair |-> IF p \in S THEN 0 ELSE Tried(rows)[p]]
             /\ Gone' = Gone
       \/ \E n \in 1 .. MaxHooks :
             LET S == {p \in Pair : p.hook = n /\ States(rows, written)[p] # "none"}
             IN  /\ n \notin Gone /\ Gone' = Gone \cup {n}
                 /\ States(rows', written') =
                      [p \in Pair |-> IF p \in S THEN "dropped" ELSE States(rows, written)[p]]
                 /\ Tried(rows') = [p \in Pair |-> IF p \in S THEN 0 ELSE Tried(rows)[p]]
  BY DEF Ledger!Next, Ledger!Record, Ledger!Attempt, Ledger!Drop, Ledger!Forget, Ledger!Dropped,
     Ledger!Pairs, Pair, Gone, States, Tried, StageOf, TriedOf, Where, Stage, StateOf, RowOf

LEMMA LedgerAttempt ==
    ASSUME NEW p \in Pair, States(rows, written)[p] = "pending", Tried(rows)[p] < Tries,
           Tried(rows') = [Tried(rows) EXCEPT ![p] = @ + 1], Gone' = Gone,
           \/ States(rows', written') = [States(rows, written) EXCEPT ![p] = "delivered"]
           \/ Tried(rows')[p] < Tries /\ States(rows', written') = States(rows, written)
           \/ /\ Tried(rows')[p] = Tries
              /\ States(rows', written') = [States(rows, written) EXCEPT ![p] = "gaveup"]
    PROVE  Ledger!Next
  BY LedgerStep

LEMMA LedgerForget ==
    ASSUME NEW n \in 1 .. MaxHooks, n \notin Gone, Gone' = Gone \cup {n},
           NEW S, S = {p \in Pair : p.hook = n /\ States(rows, written)[p] # "none"},
           States(rows', written') =
             [p \in Pair |-> IF p \in S THEN "dropped" ELSE States(rows, written)[p]],
           Tried(rows') = [p \in Pair |-> IF p \in S THEN 0 ELSE Tried(rows)[p]]
    PROVE  Ledger!Next
  BY LedgerStep

(* Only a deletion takes a webhook away. *)
LEMMA GoneStays ==
    ASSUME IInv, Sound, [Next]_vars, \A h \in HookIds : ~ DeleteWebhook(h)
    PROVE  Gone' = Gone
<1>1. /\ made \in Nat /\ made' \in Nat /\ made <= made'
      /\ \A n \in Nat : n <= made /\ Lives(n)' => Lives(n)
  BY LivesStep
<1>2. \A n \in Nat : Lives(n) => Lives(n)'
  BY HooksStep DEF Lives, Stays
<1>3. made' = made \/ (made' = made + 1 /\ \A n : n = made + 1 => Lives(n)')
  BY HooksStep DEF Lives
<1>4. \A n \in 1 .. made' : n \in Nat /\ (n \in 1 .. made \/ (n = made + 1 /\ made' = made + 1))
  BY <1>1, <1>3
<1>5. \A n \in 1 .. made : n \in Nat /\ n <= made /\ n \in 1 .. made'
  BY <1>1
<1> QED
  BY <1>2, <1>1, <1>3, <1>4, <1>5 DEF Gone

OnlyRow(r, p, i) == Where(r, p) = {i}

(* A pair with one row is in the state of the row. *)
LEMMA StageHere ==
    ASSUME NEW r, NEW w, NEW i, NEW p, OnlyRow(r, p, i)
    PROVE  StageOf(r, w, p) = Stage(r[i]) /\ TriedOf(r, p) = r[i].attempt
<1>1. (CHOOSE j \in {i} : TRUE) = i
  OBVIOUS
<1> QED
  BY <1>1 DEF OnlyRow, StageOf, TriedOf

(* A pair whose row neither comes nor goes nor moves on stays as it was. *)
LEMMA StageSame ==
    ASSUME NEW r, NEW w, NEW s, NEW v, NEW p, p \in w <=> p \in v,
           Where(s, p) = Where(r, p),
           \A i \in Where(r, p) : Stage(s[i]) = Stage(r[i]) /\ s[i].attempt = r[i].attempt
    PROVE  StageOf(s, v, p) = StageOf(r, w, p) /\ TriedOf(s, p) = TriedOf(r, p)
<1>1. CASE Where(r, p) = {}
  BY <1>1 DEF StageOf, TriedOf
<1>2. CASE Where(r, p) # {}
  <2> DEFINE c == CHOOSE i \in Where(r, p) : TRUE
  <2>1. c \in Where(r, p)
    BY <1>2
  <2> QED
    BY <1>2, <2>1 DEF StageOf, TriedOf
<1> QED
  BY <1>1, <1>2

LEMMA InsertMaps ==
    ASSUME IInv, IInv', Compact, NEW h, NEW n, Inserts(h, n), Gone' = Gone
    PROVE  Ledger!Next
<1> DEFINE x == NewId(rows)
           p == [event |-> n, hook |-> hooks[h].number]
           new == [hook |-> h, pair |-> p, attempt |-> 0, next |-> "due", delivered |-> FALSE]
<1>1. /\ x \in RowIds /\ rows[x] = Null /\ rows' = [rows EXCEPT ![x] = new]
      /\ written' = written \cup {p} /\ p \in Pair /\ p \notin written
  BY InsertedRow DEF IInv, Inserts
<1>2. new # Null /\ Stage(new) = "pending" /\ new.attempt = 0 /\ new.pair = p
  <2>1. new \in Delivery
    BY <1>1, Bounds DEF Inserts, Delivery
  <2> QED
    BY <2>1, RowAssumption, DispatchAssumption DEF DispatchAssumption, Stage
<1> HIDE DEF x, p, new
<1>3. /\ rows'[x] = new
      /\ \A i \in RowIds : i # x => rows'[i] = rows[i]
  BY <1>1 DEF IInv, Tables, Types
<1>4. Where(rows, p) = {}
  BY <1>1 DEF Where, IInv, Tables, Numbers, RowNumbers
<1>5. StageOf(rows, written, p) = "none" /\ TriedOf(rows, p) = 0
  BY <1>1, <1>4 DEF StageOf, TriedOf
<1>6. StageOf(rows', written', p) = "pending" /\ TriedOf(rows', p) = 0
  <2>1. \A j \in RowIds : rows'[j] # Null /\ rows'[j].pair = p => j = x
    BY <1>1, <1>2, <1>3 DEF IInv, Tables, Numbers, RowNumbers
  <2>2. rows'[x] # Null /\ rows'[x].pair = p
    BY <1>2, <1>3
  <2>3. OnlyRow(rows', p, x)
    BY <1>1, <2>1, <2>2 DEF OnlyRow, Where
  <2>4. StageOf(rows', written', p) = Stage(rows'[x]) /\ TriedOf(rows', p) = rows'[x].attempt
    BY <2>3, StageHere
  <2> QED
    BY <1>2, <1>3, <2>4
<1>7. ASSUME NEW q \in Pair, q # p
      PROVE  /\ StageOf(rows', written', q) = StageOf(rows, written, q)
             /\ TriedOf(rows', q) = TriedOf(rows, q)
  <2>1. Where(rows', q) = Where(rows, q)
    BY <1>1, <1>2, <1>3, <1>7 DEF Where
  <2>2. \A i \in Where(rows, q) : rows'[i] = rows[i]
    BY <1>1, <1>3 DEF Where
  <2>3. q \in written <=> q \in written'
    BY <1>1, <1>7
  <2> QED
    BY <2>1, <2>2, <2>3, StageSame
<1>8. States(rows', written') = [States(rows, written) EXCEPT ![p] = "pending"]
  BY <1>1, <1>6, <1>7 DEF States
<1>9. Tried(rows') = Tried(rows)
  BY <1>5, <1>6, <1>7 DEF Tried
<1>10. States(rows, written)[p] = "none" /\ p.hook \notin Gone
  BY <1>1, <1>5 DEF States, Gone, Lives, Inserts, p
<1> QED
  BY <1>1, <1>8, <1>9, <1>10, LedgerStep

LEMMA ResultMaps ==
    ASSUME IInv, OwnRows, NEW f \in flights, RecordDeliveryResult(f), Gone' = Gone
    PROVE  Ledger!Next
<1> DEFINE row == rows[f.id]
           new == Outcome(f, row)
           p == f.pair
<1>1. /\ f \in Flight /\ f.id \in RowIds /\ p \in Pair
      /\ row # Null /\ row \in Delivery /\ row.pair = p /\ row.next = "due" /\ ~ row.delivered
      /\ row.attempt + 1 = f.n
  BY HeldTypes DEF IInv, OwnRows, Due, Tables, Types, Batch, Flight
<1>2. row.attempt \in Nat /\ row.attempt <= Retries
  <2>1. row.next # Null
    BY <1>1, DispatchAssumption DEF DispatchAssumption
  <2> QED
    BY <1>1, <2>1 DEF IInv, Tables, Numbers, RowNumbers, Delivery
<1>3. /\ rows' = [rows EXCEPT ![f.id] = new] /\ f.result \in {"ok", "error"}
      /\ written' = written
  BY <1>1 DEF RecordDeliveryResult, Flight, history
<1>4. new.pair = p /\ new.attempt = f.n
  BY <1>1 DEF Outcome, Delivery
<1>5. Stage(new) = IF f.result = "ok" THEN "delivered"
                   ELSE IF f.n <= Retries THEN "pending" ELSE "gaveup"
  BY <1>1, <1>3, DispatchAssumption DEF DispatchAssumption, Outcome, Delivery, Stage, NextRetry
<1>6. Stage(row) = "pending"
  BY <1>1, DispatchAssumption DEF DispatchAssumption, Stage
<1>7. new # Null
  <2>1. f.n \in 0 .. Tries /\ (f.result = "ok") \in BOOLEAN
    BY <1>1, Bounds DEF Flight
  <2>2. NextRetry(f) \in {"due", "later", Null}
    BY DEF NextRetry
  <2>3. new \in Delivery
    BY <1>1, <2>1, <2>2 DEF Outcome, Delivery
  <2> QED
    BY <2>3, RowAssumption
<1> HIDE DEF row, new, p
<1>8. /\ rows'[f.id] = new /\ rows[f.id] = row
      /\ \A i \in RowIds : i # f.id => rows'[i] = rows[i]
  BY <1>1, <1>3 DEF IInv, Tables, Types, row
<1>9. \A j \in RowIds : rows[j] # Null /\ rows[j].pair = p => j = f.id
  BY <1>1, <1>8 DEF IInv, Tables, Numbers, RowNumbers
<1>10. StageOf(rows, written, p) = "pending" /\ TriedOf(rows, p) = row.attempt
  <2>1. OnlyRow(rows, p, f.id)
    BY <1>1, <1>8, <1>9 DEF OnlyRow, Where
  <2> QED
    BY <2>1, <1>6, <1>8, StageHere
<1>11. StageOf(rows', written', p) = Stage(new) /\ TriedOf(rows', p) = f.n
  <2>1. \A j \in RowIds : rows'[j] # Null /\ rows'[j].pair = p => j = f.id
    BY <1>8, <1>9
  <2>2. OnlyRow(rows', p, f.id)
    BY <2>1, <1>1, <1>4, <1>7, <1>8 DEF OnlyRow, Where
  <2> QED
    BY <2>2, <1>4, <1>8, StageHere
<1>12. ASSUME NEW q \in Pair, q # p
       PROVE  /\ StageOf(rows', written', q) = StageOf(rows, written, q)
              /\ TriedOf(rows', q) = TriedOf(rows, q)
  <2>1. Where(rows', q) = Where(rows, q) /\ \A i \in Where(rows, q) : rows'[i] = rows[i]
    BY <1>1, <1>4, <1>8, <1>12 DEF Where
  <2>2. \A i \in Where(rows, q) : Stage(rows'[i]) = Stage(rows[i]) /\ rows'[i].attempt = rows[i].attempt
    BY <2>1
  <2>3. q \in written <=> q \in written'
    BY <1>3
  <2> QED
    BY <2>1, <2>2, <2>3, StageSame
<1>13. States(rows', written') = [States(rows, written) EXCEPT ![p] = Stage(new)]
  BY <1>1, <1>11, <1>12 DEF States
<1>14. Tried(rows)[p] = row.attempt /\ Tried(rows')[p] = f.n /\ States(rows, written)[p] = "pending"
  BY <1>1, <1>10, <1>11 DEF Tried, States
<1>15. Tried(rows') = [Tried(rows) EXCEPT ![p] = @ + 1]
  BY <1>1, <1>10, <1>11, <1>12 DEF Tried
<1>16. row.attempt < Tries /\ (f.n <= Retries => f.n < Tries) /\ (~ (f.n <= Retries) => f.n = Tries)
  BY <1>1, <1>2, Bounds
<1>17. Stage(new) = "pending" => States(rows', written') = States(rows, written)
  BY <1>10, <1>13 DEF States
<1>18. \/ States(rows', written') = [States(rows, written) EXCEPT ![p] = "delivered"]
       \/ Tried(rows')[p] < Tries /\ States(rows', written') = States(rows, written)
       \/ /\ Tried(rows')[p] = Tries
          /\ States(rows', written') = [States(rows, written) EXCEPT ![p] = "gaveup"]
  BY <1>5, <1>13, <1>14, <1>16, <1>17
<1>19. Tried(rows)[p] < Tries
  BY <1>14, <1>16
<1> QED
  BY <1>1, <1>14, <1>15, <1>18, <1>19, LedgerAttempt

LEMMA PruneMaps ==
    ASSUME IInv, DeleteOldDeliveries, Gone' = Gone
    PROVE  Ledger!Next
<1>1. PICK D \in SUBSET {i \in RowIds : Settled(rows[i])} :
        rows' = [i \in RowIds |-> IF i \in D THEN Null ELSE rows[i]]
  BY DEF DeleteOldDeliveries
<1>2. written' = written
  BY DEF DeleteOldDeliveries, history
<1> DEFINE S == {rows[i].pair : i \in D}
<1>3. \A i \in D : i \in RowIds /\ rows[i] # Null /\ rows[i].pair \in written
                   /\ Stage(rows[i]) \in {"delivered", "gaveup"}
  BY DEF Settled, Stage, IInv, Tables, Numbers, RowNumbers
<1>4. \A i \in D : \A j \in RowIds : rows[j] # Null /\ rows[j].pair = rows[i].pair => j = i
  BY <1>3 DEF IInv, Tables, Numbers, RowNumbers
<1>5. S \subseteq written /\ S \in SUBSET Pair
  BY <1>3 DEF IInv, Tables, Types
<1>6. ASSUME NEW p \in S
      PROVE  /\ StageOf(rows, written, p) \in {"delivered", "gaveup"}
             /\ StageOf(rows', written', p) = "dropped" /\ TriedOf(rows', p) = 0
  <2>1. PICK i \in D : p = rows[i].pair
    BY <1>6
  <2>2. StageOf(rows, written, p) = Stage(rows[i])
    <3>1. OnlyRow(rows, p, i)
      BY <1>3, <1>4, <2>1 DEF OnlyRow, Where
    <3> QED
      BY <3>1, StageHere
  <2>3. Where(rows', p) = {}
    BY <1>1, <1>4, <2>1 DEF Where
  <2> QED
    BY <1>2, <1>3, <1>5, <2>1, <2>2, <2>3 DEF StageOf, TriedOf
<1>7. ASSUME NEW q \in Pair \ S
      PROVE  /\ StageOf(rows', written', q) = StageOf(rows, written, q)
             /\ TriedOf(rows', q) = TriedOf(rows, q)
  <2>1. Where(rows', q) = Where(rows, q) /\ \A i \in Where(rows, q) : rows'[i] = rows[i]
    BY <1>1, <1>7 DEF Where
  <2>2. \A i \in Where(rows, q) : Stage(rows'[i]) = Stage(rows[i]) /\ rows'[i].attempt = rows[i].attempt
    BY <2>1
  <2>3. q \in written <=> q \in written'
    BY <1>2
  <2> QED
    BY <2>1, <2>2, <2>3, StageSame
<1> HIDE DEF S
<1>8. \A p \in S : States(rows, written)[p] \in {"delivered", "gaveup"}
  BY <1>5, <1>6 DEF States
<1>9. States(rows', written') =
        [p \in Pair |-> IF p \in S THEN "dropped" ELSE States(rows, written)[p]]
  BY <1>5, <1>6, <1>7 DEF States
<1>10. Tried(rows') = [p \in Pair |-> IF p \in S THEN 0 ELSE Tried(rows)[p]]
  BY <1>5, <1>6, <1>7 DEF Tried
<1> QED
  BY <1>5, <1>8, <1>9, <1>10, LedgerStep

LEMMA ElapseMaps ==
    ASSUME IInv, NEW i \in RowIds, Elapse(i)
    PROVE  States(rows', written') = States(rows, written) /\ Tried(rows') = Tried(rows)
<1>1. /\ rows[i] # Null /\ rows[i].next = "later" /\ rows' = [rows EXCEPT ![i].next = "due"]
      /\ written' = written
  BY DEF Elapse, history
<1>2. rows[i] \in Delivery /\ rows \in [RowIds -> Delivery \cup {Null}]
  BY <1>1 DEF IInv, Tables, Types
<1>3. /\ rows'[i] # Null /\ rows'[i].pair = rows[i].pair /\ rows'[i].attempt = rows[i].attempt
      /\ rows'[i].next = "due" /\ rows'[i].delivered = rows[i].delivered
      /\ \A j \in RowIds : j # i => rows'[j] = rows[j]
  <2>1. rows'[i] \in Delivery
    BY <1>1, <1>2 DEF Delivery
  <2> QED
    BY <1>1, <1>2, <2>1, RowAssumption DEF Delivery
<1>4. Stage(rows'[i]) = Stage(rows[i])
  BY <1>1, <1>3, DispatchAssumption DEF DispatchAssumption, Stage
<1>5. ASSUME NEW p \in Pair
      PROVE  /\ StageOf(rows', written', p) = StageOf(rows, written, p)
             /\ TriedOf(rows', p) = TriedOf(rows, p)
  <2>1. Where(rows', p) = Where(rows, p)
    BY <1>1, <1>3 DEF Where
  <2>2. \A j \in Where(rows, p) : Stage(rows'[j]) = Stage(rows[j]) /\ rows'[j].attempt = rows[j].attempt
    BY <1>3, <1>4 DEF Where
  <2>3. p \in written <=> p \in written'
    BY <1>1
  <2> QED
    BY <2>1, <2>2, <2>3, StageSame
<1> QED
  BY <1>5 DEF States, Tried

(* The rows of a deleted webhook are those of its number, and go with it.  *)
LEMMA DeleteMaps ==
    ASSUME IInv, Sound, NEW h \in HookIds, DeleteWebhook(h)
    PROVE  Ledger!Next
<1>0. PICK n : n = hooks[h].number
  OBVIOUS
<1> DEFINE S == {p \in Pair : p.hook = n /\ States(rows, written)[p] # "none"}
<1>1. /\ hooks[h] # Null /\ hooks' = [hooks EXCEPT ![h] = Null]
      /\ rows' = [i \in RowIds |-> IF rows[i] # Null /\ rows[i].hook = h THEN Null ELSE rows[i]]
      /\ UNCHANGED <<made, written>>
  BY DEF DeleteWebhook, history
<1>2. /\ n \in 1 .. MaxHooks /\ n \in 1 .. made
      /\ \A g \in HookIds : hooks[g] # Null /\ hooks[g].number = n => g = h
  <2>1. n \in 1 .. MaxHooks /\ n <= made /\ made \in Nat
    BY <1>0, <1>1, Bounds DEF IInv, Tables, Types, Numbers, HookNumbers, Hook
  <2> QED
    BY <1>0, <1>1, <2>1 DEF IInv, Tables, Numbers, HookNumbers
<1>3. hooks'[h] = Null /\ \A g \in HookIds : g # h => hooks'[g] = hooks[g]
  BY <1>1 DEF IInv, Tables, Types
<1>4. n \notin Gone /\ Gone' = Gone \cup {n}
  <2>1. Lives(n) /\ ~ Lives(n)'
    BY <1>0, <1>1, <1>2, <1>3 DEF Lives
  <2>2. \A m : m # n => (Lives(m) <=> Lives(m)')
    BY <1>0, <1>1, <1>3 DEF Lives
  <2> QED
    BY <1>1, <1>2, <2>1, <2>2 DEF Gone
<1>5. \A i \in RowIds : rows[i] # Null => (rows[i].hook = h <=> rows[i].pair.hook = n)
  <2>1. \A i \in RowIds : rows[i] # Null => rows[i].hook \in HookIds
    BY DEF IInv, Tables, Types, Delivery
  <2> QED
    BY <1>0, <1>2, <2>1 DEF Sound, RowsHome
<1>6. ASSUME NEW p \in Pair, p.hook = n
      PROVE  /\ StageOf(rows', written', p) =
                  IF StageOf(rows, written, p) = "none" THEN "none" ELSE "dropped"
             /\ TriedOf(rows', p) = 0
             /\ StageOf(rows, written, p) = "none" => TriedOf(rows, p) = 0
  <2>1. Where(rows', p) = {}
    BY <1>1, <1>5, <1>6 DEF Where
  <2>2. Where(rows, p) # {} => p \in written
    BY DEF Where, IInv, Tables, Numbers, RowNumbers
  <2>3. CASE Where(rows, p) = {}
    BY <1>1, <2>1, <2>3 DEF StageOf, TriedOf
  <2>4. CASE Where(rows, p) # {}
    BY <1>1, <2>1, <2>2, <2>4 DEF StageOf, TriedOf, Stage
  <2> QED
    BY <2>3, <2>4
<1>7. ASSUME NEW q \in Pair, q.hook # n
      PROVE  /\ StageOf(rows', written', q) = StageOf(rows, written, q)
             /\ TriedOf(rows', q) = TriedOf(rows, q)
  <2>1. Where(rows', q) = Where(rows, q) /\ \A i \in Where(rows, q) : rows'[i] = rows[i]
    BY <1>1, <1>5, <1>7 DEF Where
  <2>2. \A i \in Where(rows, q) : Stage(rows'[i]) = Stage(rows[i]) /\ rows'[i].attempt = rows[i].attempt
    BY <2>1
  <2>3. q \in written <=> q \in written'
    BY <1>1
  <2> QED
    BY <2>1, <2>2, <2>3, StageSame
<1>8. \A p \in Pair : States(rows, written)[p] = StageOf(rows, written, p)
                    /\ Tried(rows)[p] = TriedOf(rows, p)
  BY DEF States, Tried
<1>9. \A p \in Pair : p \in S <=> p.hook = n /\ StageOf(rows, written, p) # "none"
  BY <1>8
<1>10. S = {p \in Pair : p.hook = n /\ States(rows, written)[p] # "none"}
  OBVIOUS
<1> HIDE DEF S
<1>11. States(rows', written') =
         [p \in Pair |-> IF p \in S THEN "dropped" ELSE States(rows, written)[p]]
  BY <1>6, <1>7, <1>8, <1>9 DEF States
<1>12. Tried(rows') = [p \in Pair |-> IF p \in S THEN 0 ELSE Tried(rows)[p]]
  BY <1>6, <1>7, <1>8, <1>9 DEF Tried
<1> QED
  BY <1>2, <1>4, <1>10, <1>11, <1>12, LedgerForget

(***************************************************************************)
(* The table keeps the promise of DeliveryLedger: a delivery is recorded   *)
(* once, its attempts are counted one by one up to the schedule, nothing   *)
(* is recorded after its outcome, nothing is pruned before it, and a       *)
(* deleted webhook takes its records along and gets no more - through      *)
(* retries, shutdowns, crashes and failed statements, for any number of    *)
(* webhooks and events, as long as only webhooks at rest are deleted.      *)
(***************************************************************************)
THEOREM Refinement == DeletesAtRest => (Spec => KeepsLedger)
<1> SUFFICES ASSUME DeletesAtRest PROVE Spec => KeepsLedger
  OBVIOUS
<1>1. Init => Ledger!Init
  BY DEF Init, Ledger!Init, Ledger!Pairs, Pair, StateOf, RowOf
<1>2. IInv /\ IInv' /\ Compact /\ Sound /\ Held /\ Attached /\ [Next]_vars
        => [Ledger!Next]_Ledger!vars
  <2> SUFFICES ASSUME IInv, IInv', Compact, Sound, Held, Attached, [Next]_vars, ~ Ledger!Next
               PROVE  UNCHANGED Ledger!vars
    OBVIOUS
  <2>1. \A h \in HookIds : ~ DeleteWebhook(h)
    BY DeleteMaps
  <2>2. Gone' = Gone
    BY <2>1, GoneStays
  <2>3. (\E i \in RowIds : Elapse(i)) \/ UNCHANGED <<rows, written>>
    BY <2>1, <2>2, AttachedOwn, RowsStep, InsertMaps, ResultMaps, PruneMaps
  <2>4. States(rows', written') = States(rows, written) /\ Tried(rows') = Tried(rows)
    BY <2>3, ElapseMaps
  <2> QED
    BY <2>2, <2>4
       DEF Ledger!vars, Gone, States, Tried, StageOf, TriedOf, Where, Stage, StateOf, RowOf
<1> QED
  BY <1>1, <1>2, Invariance, Compactness, Soundness, Holding, Attachment, PTL
     DEF Spec, KeepsLedger, Ledger!Spec

-----------------------------------------------------------------------------
(***************************************************************************)
(* The nudge.  Until something fails, a row nobody has tried is covered by *)
(* the sweep under way, or a nudge is pending or about to be given; or an  *)
(* event was cut short, and then it left a pair that nobody will write.    *)
(***************************************************************************)
Fresh(i) == Due(rows[i]) /\ rows[i].attempt = 0

Nudging == wake \/ tested \/ (rec.pc = "enqueue" /\ rec.queued)

Covered(i) == \/ snd.pc = "list"
              \/ snd.pc = "batch" /\ snd.full
              \/ \E d \in snd.todo : d.id = i /\ d.hook = rows[i].hook
              \/ snd.cur # Null /\ snd.cur.row.id = i
              \/ \E f \in flights : f.id = i

Calm == \A i \in RowIds : Fresh(i) => Nudging \/ Covered(i)

(* Event n is on its way to the table. *)
Busy(n) == \/ \E k \in 1 .. Len(queue) : queue[k].number = n
           \/ rec.pc # "idle" /\ rec.event.number = n
           \/ panel # Null /\ panel.event = n

Lost == \E q \in Pair : q \in owed /\ q \notin written /\ q.event <= events /\ ~ Busy(q.event)

(* What the recorder listed webhook h for. *)
Promised(h, q) ==
    /\ q \notin written /\ q.event = rec.event.number /\ q.hook <= made
    /\ \A g \in HookIds \ {h} : hooks[g] # Null => hooks[g].number # q.hook

Promises == rec.pc = "enqueue" => \A h \in rec.todo : \E q \in owed : Promised(h, q)

Alert == /\ ~ stopping
         /\ Promises
         /\ Lost \/ Calm

(* Nothing but a new event becomes busy; what is written was busy. *)
LEMMA BusyStep ==
    ASSUME IInv, [Next]_vars
    PROVE  /\ events <= events' /\ owed \subseteq owed'
           /\ \A n \in Nat : n <= events /\ Busy(n)' => Busy(n)
           /\ \A q \in written' : q \in written \/ Busy(q.event)
<1>1. events \in Nat
  BY Bounds DEF IInv, Tables, Types
<1>2. CASE Notify
  <2>1. /\ events' = events + 1 /\ UNCHANGED <<rec, panel, owed, written>>
        /\ \E e \in Envs, ty \in EventTypes :
              queue' = IF Len(queue) < QueueSize
                       THEN Append(queue, [env |-> e, type |-> ty, number |-> events + 1])
                       ELSE queue
    BY <1>2 DEF Notify
  <2>2. PICK e \in Envs, ty \in EventTypes :
          queue' = queue \/ queue' = Append(queue, [env |-> e, type |-> ty, number |-> events + 1])
    BY <2>1
  <2> DEFINE ev == [env |-> e, type |-> ty, number |-> events + 1]
  <2>3. queue \in Seq(Event) /\ ev \in Event /\ ev.number = events + 1
    BY <1>1, <1>2, Bounds DEF Notify, IInv, Outstanding, Event
  <2>4. queue' = queue \/ queue' = Append(queue, ev)
    BY <2>2
  <2> HIDE DEF ev
  <2>5. \A k \in 1 .. Len(queue') : (k \in 1 .. Len(queue) /\ queue'[k] = queue[k]) \/ queue'[k] = ev
    BY <2>3, <2>4
  <2>6. \A n \in Nat : n <= events => n # ev.number
    BY <1>1, <2>3
  <2>7. events <= events'
    BY <1>1, <2>1
  <2> QED
    BY <2>1, <2>5, <2>6, <2>7 DEF Busy
<1>3. CASE TakeEvent
  <2>1. /\ queue # <<>> /\ queue' = Tail(queue) /\ rec' = [Nothing EXCEPT !.pc = "taken", !.event = Head(queue)]
        /\ UNCHANGED <<panel, events, owed, written>>
    BY <1>3 DEF TakeEvent, history
  <2>2. queue \in Seq(Event)
    BY DEF IInv, Outstanding
  <2>3. /\ \A k \in 1 .. Len(queue') : k + 1 \in 1 .. Len(queue) /\ queue'[k] = queue[k + 1]
        /\ 1 \in 1 .. Len(queue) /\ Head(queue) = queue[1]
    BY <2>1, <2>2
  <2>4. rec'.event = queue[1]
    BY <2>1, <2>3 DEF Nothing
  <2> QED
    BY <1>1, <2>1, <2>3, <2>4 DEF Busy
<1>4. CASE ListWebhooks
  <2>1. /\ rec.pc = "taken"
        /\ rec' = Nothing \/ rec' = [rec EXCEPT !.pc = "enqueue", !.todo = Interested(rec.event)]
        /\ UNCHANGED <<queue, panel, events, written>> /\ owed \subseteq owed'
    BY <1>4 DEF ListWebhooks
  <2>2. rec'.pc = "idle" \/ rec'.event = rec.event
    BY <2>1, NothingType DEF IInv, Outstanding
  <2> QED
    BY <1>1, <2>1, <2>2 DEF Busy
<1>5. CASE EnqueueDelivery
  <2>1. PICK h \in rec.todo :
          IF hooks[h] # Null
          THEN /\ Inserted(h, rec.event.number)
               /\ rec' = [rec EXCEPT !.todo = @ \ {h}, !.queued = TRUE]
          ELSE rec' = Nothing /\ UNCHANGED <<rows, written>>
    BY <1>5 DEF EnqueueDelivery
  <2>2. rec.pc = "enqueue" /\ UNCHANGED <<queue, panel, events, owed>>
    BY <1>5 DEF EnqueueDelivery
  <2>3. rec'.pc = "idle" \/ rec'.event = rec.event
    BY <2>1, NothingType DEF IInv, Outstanding
  <2>4. \A q \in written' : q \in written \/ q.event = rec.event.number
    BY <2>1 DEF Inserted
  <2> QED
    BY <1>1, <2>2, <2>3, <2>4 DEF Busy
<1>6. CASE TestWebhook(panel'.id) /\ panel'.id \in HookIds
  <2>1. /\ panel'.event = events + 1 /\ events' = events + 1
        /\ UNCHANGED <<queue, rec, owed, written>>
    BY <1>6 DEF TestWebhook, record
  <2>2. events <= events' /\ \A n \in Nat : n <= events => n # events + 1
    BY <1>1, <2>1
  <2> QED
    BY <2>1, <2>2 DEF Busy
<1>7. CASE Test
  <2>1. panel # Null /\ panel' = Null /\ UNCHANGED <<queue, rec, events, owed>>
    BY <1>7 DEF Test, record
  <2>2. \A q \in written' : q \in written \/ q.event = panel.event
    BY <1>7 DEF Test, Inserted
  <2> QED
    BY <1>1, <2>1, <2>2 DEF Busy
<1>8. ASSUME UNCHANGED <<events, owed, written>>,
             queue' = queue \/ queue' = <<>>,
             rec' = rec \/ rec' = Nothing,
             panel' = panel \/ panel' = Null
      PROVE  /\ events <= events' /\ owed \subseteq owed'
             /\ \A n \in Nat : n <= events /\ Busy(n)' => Busy(n)
             /\ \A q \in written' : q \in written \/ Busy(q.event)
  <2>1. rec' = rec \/ rec'.pc = "idle"
    BY <1>8, NothingType
  <2>2. \A k \in 1 .. Len(queue') : k \in 1 .. Len(queue) /\ queue'[k] = queue[k]
    BY <1>8
  <2> QED
    BY <1>1, <1>8, <2>1, <2>2 DEF Busy
<1>9. CASE CreateWebhook \/ \E h \in HookIds : SetWebhookEnabled(h) \/ DeleteWebhook(h)
  BY <1>8, <1>9 DEF CreateWebhook, SetWebhookEnabled, DeleteWebhook, record, history
<1>10. CASE Nudge \/ TestNudge \/ TestError \/ RecordError
  BY <1>8, <1>10 DEF Nudge, TestNudge, TestError, RecordError, record, history
<1>11. CASE Sender
  BY <1>8, <1>11 DEF Sender, DueDeliveries, GetWebhookByID, StartAttempt, FinishBatch, Wake, Ticker,
     Post, RecordDeliveryResult, record, history
<1>12. CASE Failures /\ ~ TestError /\ ~ RecordError
  BY <1>8, <1>12 DEF Failures, DueDeliveriesError, GetWebhookByIDError, RecordResultError,
     Shutdown, Restart, Crash, Restarted, record, history
<1>13. CASE DeleteOldDeliveries \/ (\E i \in RowIds : Elapse(i)) \/ UNCHANGED vars
  BY <1>8, <1>13 DEF DeleteOldDeliveries, Elapse, vars, record, history
<1>14. \A h \in HookIds : TestWebhook(h) => TestWebhook(panel'.id) /\ panel'.id \in HookIds
  BY DEF TestWebhook
<1> QED
  BY <1>2, <1>3, <1>4, <1>5, <1>6, <1>7, <1>9, <1>10, <1>11, <1>12, <1>13, <1>14
     DEF Next, Operator, Recorder, Failures

LEMMA LostStays == IInv /\ Lost /\ [Next]_vars => Lost'
<1> SUFFICES ASSUME IInv, Lost, [Next]_vars PROVE Lost'
  OBVIOUS
<1>1. PICK q \in Pair : q \in owed /\ q \notin written /\ q.event <= events /\ ~ Busy(q.event)
  BY DEF Lost
<1>2. q.event \in Nat /\ events \in Nat /\ events' \in Nat
  <2>1. q.event \in Nat /\ events \in Nat
    BY Bounds DEF Pair, IInv, Tables, Types
  <2>2. IInv'
    BY NextIInv
  <2>3. events' \in Nat
    BY <2>2, Bounds DEF IInv, Tables, Types
  <2> QED
    BY <2>1, <2>3
<1>3. q \in owed' /\ q \notin written' /\ events <= events' /\ ~ Busy(q.event)'
  BY <1>1, <1>2, BusyStep
<1>4. q.event <= events'
  BY <1>1, <1>2, <1>3
<1> QED
  BY <1>3, <1>4 DEF Lost

-----------------------------------------------------------------------------
(* The promises of the recorder's list. *)

LEMMA PromisesKept ==
    ASSUME Promises, UNCHANGED <<rec, written>>, owed \subseteq owed', made <= made',
           made \in Nat, made' \in Nat, \A q \in owed : q.hook \in Nat,
           \A h \in HookIds : hooks'[h] # Null =>
              \/ hooks[h] # Null /\ hooks'[h].number = hooks[h].number
              \/ hooks'[h].number \in Nat /\ hooks'[h].number > made
    PROVE  Promises'
<1> SUFFICES ASSUME rec.pc = "enqueue", NEW h \in rec.todo
             PROVE  \E q \in owed' : Promised(h, q)'
  BY DEF Promises
<1>1. PICK q \in owed : Promised(h, q)
  BY DEF Promises
<1>2. q.hook <= made /\ q.hook \in Nat /\ q.hook <= made'
  BY <1>1 DEF Promised
<1>3. \A g \in HookIds \ {h} : hooks'[g] # Null => hooks'[g].number # q.hook
  BY <1>1, <1>2 DEF Promised
<1>4. Promised(h, q)'
  BY <1>1, <1>2, <1>3 DEF Promised
<1> QED
  BY <1>4

LEMMA ListPromises == IInv /\ Rest /\ ListWebhooks => Promises'
<1> SUFFICES ASSUME IInv, Rest, ListWebhooks PROVE Promises'
  OBVIOUS
<1>1. /\ rec.pc = "taken"
      /\ rec' = Nothing \/ rec' = [rec EXCEPT !.pc = "enqueue", !.todo = Interested(rec.event)]
      /\ owed' = owed \cup {[event |-> rec.event.number, hook |-> hooks[h].number] :
                              h \in Interested(rec.event)}
      /\ UNCHANGED <<hooks, made, written>>
  BY DEF ListWebhooks, tables
<1>2. CASE rec' = Nothing
  BY <1>2, NothingType DEF Promises
<1>3. CASE rec' = [rec EXCEPT !.pc = "enqueue", !.todo = Interested(rec.event)]
  <2>1. rec'.event = rec.event /\ rec'.todo = Interested(rec.event)
    BY <1>3 DEF IInv, Outstanding
  <2>2. Unwritten(rec.event.number)
    BY <1>1 DEF IInv, Outstanding
  <2> SUFFICES ASSUME NEW h \in Interested(rec.event)
               PROVE  \E q \in owed' : Promised(h, q)'
    BY <2>1 DEF Promises
  <2>3. PICK q \in owed' : q.event = rec.event.number /\ q.hook = hooks[h].number
    <3> DEFINE p == [event |-> rec.event.number, hook |-> hooks[h].number]
    <3>1. p \in owed'
      BY <1>1
    <3>2. p.event = rec.event.number /\ p.hook = hooks[h].number
      OBVIOUS
    <3> HIDE DEF p
    <3> QED
      BY <3>1, <3>2
  <2>4. h \in HookIds /\ hooks[h] # Null
    BY DEF Interested
  <2>5. q.hook <= made /\ \A g \in HookIds \ {h} : hooks[g] # Null => hooks[g].number # q.hook
    BY <2>3, <2>4 DEF IInv, Tables, Numbers, HookNumbers
  <2>6. q \notin written
    BY <2>2, <2>3 DEF Unwritten
  <2>7. Promised(h, q)'
    BY <1>1, <2>1, <2>3, <2>5, <2>6 DEF Promised
  <2> QED
    BY <2>3, <2>7
<1> QED
  BY <1>1, <1>2, <1>3

(* One promise is kept by an INSERT, or all are off. *)
LEMMA EnqueuePromises ==
    ASSUME IInv, Promises, NEW h \in rec.todo, EnqueueDelivery, hooks[h] # Null,
           Inserted(h, rec.event.number), rec' = [rec EXCEPT !.todo = @ \ {h}, !.queued = TRUE]
    PROVE  Promises'
<1> DEFINE pair == [event |-> rec.event.number, hook |-> hooks[h].number]
<1>1. /\ rec.pc = "enqueue" /\ UNCHANGED <<hooks, made, owed>> /\ written' = written \cup {pair}
      /\ pair.hook = hooks[h].number /\ h \in HookIds
  BY DEF EnqueueDelivery, Inserted, IInv, Outstanding
<1>2. rec'.event = rec.event /\ rec'.todo = rec.todo \ {h}
  BY DEF IInv, Outstanding
<1> HIDE DEF pair
<1> SUFFICES ASSUME NEW g \in rec.todo, g # h
             PROVE  \E q \in owed' : Promised(g, q)'
  BY <1>2 DEF Promises
<1>3. PICK q \in owed : Promised(g, q)
  BY <1>1 DEF Promises
<1>4. q # pair
  BY <1>1, <1>3 DEF Promised
<1>5. Promised(g, q)'
  BY <1>1, <1>2, <1>3, <1>4 DEF Promised
<1> QED
  BY <1>1, <1>5

LEMMA TestPromises == IInv /\ Promises /\ Test => Promises'
<1> SUFFICES ASSUME IInv, Promises, Test PROVE Promises'
  OBVIOUS
<1>1. /\ panel # Null /\ UNCHANGED <<hooks, rec, made, owed>>
      /\ \A q \in written' : q \in written \/ q.event = panel.event
  BY DEF Test, Inserted, record
<1> SUFFICES ASSUME rec.pc = "enqueue", NEW h \in rec.todo
             PROVE  \E q \in owed' : Promised(h, q)'
  BY <1>1 DEF Promises
<1>2. PICK q \in owed : Promised(h, q)
  BY DEF Promises
<1>3. q.event # panel.event
  BY <1>1, <1>2 DEF Promised, IInv, Outstanding
<1>4. Promised(h, q)'
  BY <1>1, <1>2, <1>3 DEF Promised
<1> QED
  BY <1>1, <1>4

-----------------------------------------------------------------------------
(* The rows that the sweep covers. *)

LEMMA CalmKept ==
    ASSUME Calm, UNCHANGED send, Nudging => Nudging',
           \A i \in RowIds : Fresh(i)' => Fresh(i) /\ rows'[i].hook = rows[i].hook
    PROVE  Calm'
<1> SUFFICES ASSUME NEW i \in RowIds, Fresh(i)' PROVE Nudging' \/ Covered(i)'
  BY DEF Calm
<1>1. Fresh(i) /\ rows'[i].hook = rows[i].hook
  OBVIOUS
<1>2. Nudging \/ Covered(i)
  BY <1>1 DEF Calm
<1> QED
  BY <1>1, <1>2 DEF Covered, send

(* The sender moves and no row does. *)
LEMMA CalmSends ==
    ASSUME Calm, UNCHANGED rows, Nudging => Nudging',
           \A i \in RowIds : Fresh(i) /\ Covered(i) => Nudging' \/ Covered(i)'
    PROVE  Calm'
  BY DEF Calm, Fresh

LEMMA ResultCalm == ASSUME IInv, Calm, NEW f \in flights, RecordDeliveryResult(f) PROVE Calm'
<1>1. /\ rows' = IF rows[f.id] = Null THEN rows
                 ELSE [rows EXCEPT ![f.id] = Outcome(f, rows[f.id])]
      /\ flights' = flights \ {f} /\ UNCHANGED <<wake, tested, rec, snd>>
  BY DEF RecordDeliveryResult, record
<1>2. f.id \in RowIds /\ f.n # 0
  BY DEF IInv, Batch, Flight
<1>3. rows[f.id] # Null => rows'[f.id].attempt # 0
  <2> SUFFICES ASSUME rows[f.id] # Null PROVE rows'[f.id].attempt # 0
    OBVIOUS
  <2>1. rows[f.id] \in Delivery /\ rows'[f.id] = Outcome(f, rows[f.id])
    BY <1>1, <1>2 DEF IInv, Tables, Types
  <2> QED
    BY <2>1, <1>2 DEF Outcome, Delivery
<1>4. \A i \in RowIds : i # f.id => rows'[i] = rows[i]
  BY <1>1 DEF IInv, Tables, Types
<1>5. ~ Fresh(f.id)'
  BY <1>1, <1>3 DEF Fresh, Due
<1> SUFFICES ASSUME NEW i \in RowIds, Fresh(i)' PROVE Nudging' \/ Covered(i)'
  BY DEF Calm
<1>6. i # f.id /\ rows'[i] = rows[i] /\ Fresh(i)
  <2>1. i # f.id
    <3> SUFFICES ASSUME i = f.id PROVE FALSE
      OBVIOUS
    <3>1. rows'[i].attempt = 0 /\ rows'[i] # Null
      BY DEF Fresh, Due
    <3>2. rows[f.id] # Null
      BY <1>1, <3>1
    <3> QED
      BY <1>3, <3>1, <3>2
  <2> QED
    BY <2>1, <1>4 DEF Fresh
<1>7. Nudging \/ Covered(i)
  BY <1>6 DEF Calm
<1> QED
  BY <1>1, <1>6, <1>7 DEF Nudging, Covered

LEMMA DueDeliveriesCalm == ASSUME IInv, Calm, ~ stopping, DueDeliveries PROVE Calm'
<1> DEFINE due == {i \in RowIds : Due(rows[i])}
           claim(i) == [id |-> i, hook |-> rows[i].hook, pair |-> rows[i].pair,
                        attempt |-> rows[i].attempt]
<1>1. UNCHANGED <<rows, wake, tested, rec>> /\ snd.pc = "list" /\ snd \in SndType
  BY DEF DueDeliveries, tables, record, IInv, Batch
<1>2. CASE due = {}
  <2>1. \A i \in RowIds : ~ Fresh(i)'
    BY <1>1, <1>2 DEF Fresh
  <2> QED
    BY <2>1 DEF Calm
<1>3. ASSUME NEW B \in SUBSET due, B # due => Cardinality(B) = SweepBatch,
             snd' = [snd EXCEPT !.pc = "batch", !.full = Cardinality(B) >= SweepBatch,
                                !.todo = {claim(i) : i \in B}]
      PROVE  Calm'
  <2>1. snd'.pc = "batch" /\ snd'.todo = {claim(i) : i \in B} /\ snd'.full = (Cardinality(B) >= SweepBatch)
    BY <1>1, <1>3 DEF SndType
  <2>2. CASE B # due
    <3>1. snd'.full
      <4>1. Cardinality(B) = SweepBatch /\ SweepBatch \in Nat
        BY <2>2, <1>3, Bounds
      <4>2. Cardinality(B) >= SweepBatch
        BY <4>1
      <4> QED
        BY <2>1, <4>2
    <3> QED
      BY <2>1, <3>1 DEF Calm, Covered
  <2>3. CASE B = due
    <3> SUFFICES ASSUME NEW i \in RowIds, Fresh(i)' PROVE Covered(i)'
      BY DEF Calm
    <3>1. i \in B
      BY <1>1, <2>3 DEF Fresh
    <3>2. claim(i).id = i /\ claim(i).hook = rows[i].hook
      OBVIOUS
    <3>3. claim(i) \in snd'.todo
      BY <2>1, <3>1
    <3> HIDE DEF claim
    <3> QED
      BY <1>1, <3>2, <3>3 DEF Covered
  <2> QED
    BY <2>2, <2>3
<1> QED
  BY <1>2, <1>3 DEF DueDeliveries

LEMMA GetWebhookByIDCalm == ASSUME IInv, Sound, Calm, ~ stopping, GetWebhookByID PROVE Calm'
<1>1. /\ snd.pc = "batch" /\ snd.cur = Null /\ snd \in SndType
      /\ UNCHANGED <<rows, wake, tested, rec, flights>>
  BY DEF GetWebhookByID, tables, record, IInv, Batch
<1>2. PICK d \in snd.todo :
        \/ /\ snd.loaded[d.hook] # Null
           /\ snd' = [snd EXCEPT !.todo = snd.todo \ {d},
                                 !.cur = [row |-> d, to |-> snd.loaded[d.hook]]]
        \/ /\ hooks[d.hook] = Null
           /\ snd' = [snd EXCEPT !.todo = snd.todo \ {d}]
        \/ /\ hooks[d.hook] # Null
           /\ snd' = [snd EXCEPT !.todo = snd.todo \ {d},
                                 !.cur = [row |-> d, to |-> hooks[d.hook].number],
                                 !.loaded[d.hook] = hooks[d.hook].number]
  BY DEF GetWebhookByID
<1>3. snd'.pc = snd.pc /\ snd'.full = snd.full /\ snd'.todo = snd.todo \ {d}
  BY <1>1, <1>2 DEF SndType
<1>4. hooks[d.hook] = Null \/ (snd'.cur # Null /\ snd'.cur.row = d)
  <2>1. d \in Claimed /\ d.hook \in HookIds
    BY <1>1 DEF SndType, Claimed
  <2>2. ASSUME NEW w \in 1 .. MaxHooks, snd'.cur = [row |-> d, to |-> w]
        PROVE  snd'.cur # Null /\ snd'.cur.row = d
    <3>1. snd'.cur \in Sending
      BY <2>1, <2>2 DEF Sending
    <3> QED
      BY <2>2, <3>1, RowAssumption
  <2>3. CASE /\ snd.loaded[d.hook] # Null
             /\ snd' = [snd EXCEPT !.todo = snd.todo \ {d},
                                   !.cur = [row |-> d, to |-> snd.loaded[d.hook]]]
    <3>1. snd.loaded[d.hook] \in 1 .. MaxHooks
      BY <2>1, <2>3 DEF IInv, Batch
    <3>2. snd'.cur = [row |-> d, to |-> snd.loaded[d.hook]]
      BY <1>1, <2>3 DEF SndType
    <3> QED
      BY <2>2, <3>1, <3>2
  <2>4. CASE /\ hooks[d.hook] # Null
             /\ snd' = [snd EXCEPT !.todo = snd.todo \ {d},
                                   !.cur = [row |-> d, to |-> hooks[d.hook].number],
                                   !.loaded[d.hook] = hooks[d.hook].number]
    <3>1. hooks[d.hook].number \in 1 .. MaxHooks
      BY <2>1, <2>4 DEF IInv, Tables, Types, Hook
    <3>2. snd'.cur = [row |-> d, to |-> hooks[d.hook].number]
      BY <1>1, <2>4 DEF SndType
    <3> QED
      BY <2>2, <3>1, <3>2
  <2> QED
    BY <1>2, <2>3, <2>4
<1>5. ASSUME NEW i \in RowIds, Fresh(i), d.id = i, d.hook = rows[i].hook
      PROVE  Covered(i)'
  <2>1. hooks[d.hook] # Null
    BY <1>5 DEF Sound, RowsHome, Fresh, Due
  <2> QED
    BY <1>4, <1>5, <2>1 DEF Covered
<1>6. ASSUME NEW i \in RowIds, Fresh(i), Covered(i)
      PROVE  Covered(i)'
  BY <1>1, <1>3, <1>5, <1>6 DEF Covered
<1> QED
  BY <1>1, <1>6, CalmSends DEF Nudging

LEMMA StartAttemptCalm == ASSUME IInv, Calm, StartAttempt PROVE Calm'
<1> DEFINE f == [id |-> snd.cur.row.id, pair |-> snd.cur.row.pair,
                 n |-> snd.cur.row.attempt + 1, to |-> snd.cur.to, result |-> "posting"]
<1>1. /\ flights' = flights \cup {f} /\ snd' = [snd EXCEPT !.cur = Null]
      /\ UNCHANGED <<rows, wake, tested, rec>>
  BY DEF StartAttempt, tables, record
<1>2. snd'.pc = snd.pc /\ snd'.full = snd.full /\ snd'.todo = snd.todo
  BY <1>1 DEF IInv, Batch, SndType
<1>3. f \in flights' /\ f.id = snd.cur.row.id /\ flights \subseteq flights'
  BY <1>1
<1> HIDE DEF f
<1>4. ASSUME NEW i \in RowIds, Covered(i) PROVE Covered(i)'
  BY <1>1, <1>2, <1>3, <1>4 DEF Covered
<1> QED
  BY <1>1, <1>4, CalmSends DEF Nudging

LEMMA PostCalm == ASSUME IInv, Calm, NEW f \in flights, Post(f) PROVE Calm'
<1>1. PICK r : flights' = (flights \ {f}) \cup {[f EXCEPT !.result = r]}
  BY DEF Post
<1>2. UNCHANGED <<rows, wake, tested, rec, snd>>
  BY DEF Post, tables, record
<1> DEFINE g == [f EXCEPT !.result = r]
<1>3. g.id = f.id /\ g \in flights'
  BY <1>1 DEF IInv, Batch, Flight
<1>4. \A e \in flights : e # f => e \in flights'
  BY <1>1
<1> HIDE DEF g
<1>5. ASSUME NEW i \in RowIds, Covered(i) PROVE Covered(i)'
  BY <1>2, <1>3, <1>4, <1>5 DEF Covered
<1> QED
  BY <1>2, <1>5, CalmSends DEF Nudging

LEMMA FinishBatchCalm == ASSUME IInv, Calm, FinishBatch PROVE Calm'
<1>1. /\ snd.pc = "batch" /\ snd.todo = {} /\ snd.cur = Null /\ flights = {}
      /\ snd' = IF snd.full THEN Listing ELSE Waiting
      /\ UNCHANGED <<rows, wake, tested, rec>>
  BY DEF FinishBatch, tables, record
<1>2. snd.full => snd'.pc = "list"
  BY <1>1 DEF Listing
<1>3. ASSUME NEW i \in RowIds, Covered(i) PROVE Covered(i)'
  BY <1>1, <1>2, <1>3 DEF Covered
<1> QED
  BY <1>1, <1>3, CalmSends DEF Nudging

LEMMA WakeCalm == Wake \/ Ticker => Calm'
<1> SUFFICES ASSUME Wake \/ Ticker PROVE Calm'
  OBVIOUS
<1>1. snd'.pc = "list"
  <2>1. Listing.pc = "list"
    BY DEF Waiting, Listing
  <2> QED
    BY <2>1 DEF Wake, Ticker
<1> QED
  BY <1>1 DEF Calm, Covered

(* The recorder. *)

LEMMA TestCalm == IInv /\ Calm /\ Test => Calm'
<1> SUFFICES ASSUME IInv, Calm, Test PROVE Calm'
  OBVIOUS
<1>1. UNCHANGED <<wake, rec, send>> /\ (tested' = TRUE \/ UNCHANGED <<rows, tested>>)
  BY DEF Test, record
<1>2. CASE tested' = TRUE
  BY <1>2 DEF Calm, Nudging
<1>3. CASE UNCHANGED <<rows, tested>>
  BY <1>1, <1>3, CalmKept DEF Nudging, Fresh
<1> QED
  BY <1>1, <1>2, <1>3

LEMMA EnqueueCalm ==
    ASSUME IInv, Rest, Promises, Lost \/ Calm, EnqueueDelivery
    PROVE  Promises' /\ (Lost' \/ Calm')
<1>1. PICK h \in rec.todo :
        IF hooks[h] # Null
        THEN /\ Inserted(h, rec.event.number)
             /\ rec' = [rec EXCEPT !.todo = @ \ {h}, !.queued = TRUE]
        ELSE rec' = Nothing /\ UNCHANGED <<rows, written>>
  BY DEF EnqueueDelivery
<1>2. /\ rec.pc = "enqueue" /\ rec.event \in Event
      /\ UNCHANGED <<hooks, queue, panel, events, owed>>
  BY DEF EnqueueDelivery, IInv, Outstanding
<1>3. CASE hooks[h] # Null
  <2>1. Promises'
    BY <1>1, <1>3, EnqueuePromises
  <2>2. rec'.pc = "enqueue" /\ rec'.queued
    BY <1>1, <1>2, <1>3 DEF IInv, Outstanding
  <2> QED
    BY <2>1, <2>2 DEF Calm, Nudging
<1>4. CASE hooks[h] = Null
  <2>1. rec'.pc = "idle" /\ UNCHANGED written
    BY <1>1, <1>4, NothingType
  <2>2. PICK q \in owed : Promised(h, q)
    BY <1>2 DEF Promises
  <2>3. q \notin written /\ q.event = rec.event.number
    BY <2>2 DEF Promised
  <2>4. rec.event.number <= events
    BY <1>2 DEF IInv, Outstanding
  <2>5. /\ \A k \in 1 .. Len(queue) : queue[k].number # rec.event.number
        /\ panel # Null => rec.event.number # panel.event
    BY <1>2 DEF IInv, Outstanding
  <2>6. ~ Busy(q.event)'
    BY <1>2, <2>1, <2>3, <2>5 DEF Busy
  <2>7. q \in Pair
    BY DEF Rest
  <2>8. q \in owed' /\ q \notin written' /\ q.event <= events'
    BY <1>2, <2>1, <2>3, <2>4
  <2> QED
    BY <2>1, <2>6, <2>7, <2>8 DEF Promises, Lost
<1> QED
  BY <1>1, <1>3, <1>4

Watch == faults = 0 => Alert

(* A fault is counted, and none has been. *)
LEMMA FaultCounts ==
    ASSUME Rest, faults' = 0, NEW k, Fault(k)
    PROVE  FALSE
  BY DispatchAssumption DEF DispatchAssumption, Fault, Rest

LEMMA FaultsStay ==
    ASSUME Rest, [Next]_vars, faults' = 0, faults # 0
    PROVE  FALSE
<1>1. faults' # faults
  OBVIOUS
<1>2. \A k : ~ Fault(k)
  BY FaultCounts
<1> QED
  BY <1>1, <1>2 DEF Next, Operator, Recorder, Sender, Failures, CreateWebhook, Notify, Test, TestNudge,
     SetWebhookEnabled, DeleteWebhook, TestWebhook, TakeEvent, ListWebhooks, EnqueueDelivery,
     Nudge, DueDeliveries, GetWebhookByID, StartAttempt, FinishBatch, Wake, Ticker, Post,
     RecordDeliveryResult, TestError, RecordError, DueDeliveriesError, GetWebhookByIDError,
     RecordResultError, Shutdown, Restart, Crash, Restarted, Elapse, DeleteOldDeliveries, vars

LEMMA NextWatch ==
    IInv /\ Compact /\ Rest /\ Sound /\ Watch /\ [Next]_vars => Watch'
<1> SUFFICES ASSUME IInv, Compact, Rest, Sound, Watch, [Next]_vars, faults' = 0
             PROVE  Alert'
  BY DEF Watch
<1>1. faults = 0 /\ ~ stopping /\ Promises /\ (Lost \/ Calm) /\ \A k : ~ Fault(k)
  BY FaultsStay, FaultCounts DEF Watch, Alert
<1>2. /\ made \in Nat /\ made + 1 \in Nat
      /\ \A q \in owed : q \in Pair /\ q.hook \in Nat
  BY Bounds DEF IInv, Tables, Types, Rest, Pair
<1>3. Lost => Lost'
  BY LostStays
<1>4. ASSUME UNCHANGED <<hooks, rec, written, owed, made>> PROVE Promises'
  BY <1>1, <1>2, <1>4, PromisesKept
<1>5. ASSUME UNCHANGED <<hooks, rows, wake, tested, rec, written, owed, made, stopping, send>> PROVE Alert'
  BY <1>1, <1>3, <1>4, <1>5, CalmKept DEF Alert, Nudging, Fresh
<1>6. CASE Operator
  <2>1. CASE CreateWebhook
    <3>1. /\ made' = made + 1 /\ UNCHANGED <<rows, wake, tested, rec, send, written, owed, stopping>>
          /\ \E row : row.number = made + 1 /\ hooks' = [hooks EXCEPT ![NewId(hooks)] = row]
      <4>1. PICK e \in Envs, s \in Subscriptions :
              hooks' = [hooks EXCEPT ![NewId(hooks)] =
                          [env |-> e, subs |-> s, enabled |-> TRUE, number |-> made + 1]]
        BY <2>1 DEF CreateWebhook
      <4>2. [env |-> e, subs |-> s, enabled |-> TRUE, number |-> made + 1].number = made + 1
        OBVIOUS
      <4>3. /\ made' = made + 1
            /\ UNCHANGED <<rows, wake, tested, rec, send, written, owed, stopping>>
        BY <2>1 DEF CreateWebhook, record
      <4> QED
        BY <4>1, <4>2, <4>3
    <3>2. \A h \in HookIds : hooks'[h] # Null =>
            \/ hooks[h] # Null /\ hooks'[h].number = hooks[h].number
            \/ hooks'[h].number = made + 1
      BY <3>1 DEF IInv, Tables, Types
    <3>3. made <= made + 1 /\ made + 1 > made
      BY <1>2
    <3>4. Promises'
      BY <1>1, <1>2, <3>1, <3>2, <3>3, PromisesKept
    <3> QED
      BY <1>1, <1>3, <3>1, <3>4, CalmKept DEF Alert, Nudging, Fresh
  <2>2. ASSUME NEW h \in HookIds, SetWebhookEnabled(h) PROVE Alert'
    <3>1. /\ hooks[h] # Null /\ hooks' = [hooks EXCEPT ![h].enabled = ~ @]
          /\ UNCHANGED <<rows, wake, tested, rec, send, made, written, owed, stopping>>
      BY <2>2 DEF SetWebhookEnabled, record, history
    <3>2. \A g \in HookIds : hooks'[g] # Null =>
            hooks[g] # Null /\ hooks'[g].number = hooks[g].number
      BY <3>1 DEF IInv, Tables, Types, Hook
    <3>3. Promises'
      BY <1>1, <1>2, <3>1, <3>2, PromisesKept
    <3> QED
      BY <1>1, <1>3, <3>1, <3>3, CalmKept DEF Alert, Nudging, Fresh
  <2>3. ASSUME NEW h \in HookIds, DeleteWebhook(h) PROVE Alert'
    <3>1. /\ hooks' = [hooks EXCEPT ![h] = Null]
          /\ rows' = [i \in RowIds |-> IF rows[i] # Null /\ rows[i].hook = h THEN Null ELSE rows[i]]
          /\ UNCHANGED <<wake, tested, rec, send, made, written, owed, stopping>>
      BY <2>3 DEF DeleteWebhook, record, history
    <3>2. \A g \in HookIds : hooks'[g] # Null => hooks'[g] = hooks[g]
      BY <3>1 DEF IInv, Tables, Types
    <3>3. \A i \in RowIds : Fresh(i)' => rows'[i] = rows[i] /\ Fresh(i)
      BY <3>1 DEF Fresh, Due
    <3>4. Promises'
      BY <1>1, <1>2, <3>1, <3>2, PromisesKept
    <3> QED
      BY <1>1, <1>3, <3>1, <3>3, <3>4, CalmKept DEF Alert, Nudging
  <2>4. CASE Notify \/ \E h \in HookIds : TestWebhook(h)
    BY <1>5, <2>4 DEF Notify, TestWebhook, tables, record
  <2>5. CASE Test
    <3>1. stopping' = stopping
      BY <2>5 DEF Test
    <3> QED
      BY <1>1, <1>3, <2>5, <3>1, TestPromises, TestCalm DEF Alert
  <2>6. CASE TestNudge
    <3>1. wake' = TRUE /\ UNCHANGED <<hooks, rec, written, owed, made, stopping>>
      BY <2>6 DEF TestNudge, tables, record, history
    <3> QED
      BY <1>1, <1>3, <1>4, <3>1 DEF Alert, Calm, Nudging
  <2> QED
    BY <1>6, <2>1, <2>2, <2>3, <2>4, <2>5, <2>6 DEF Operator
<1>7. CASE Recorder
  <2>1. CASE TakeEvent
    <3>1. /\ rec.pc = "idle" /\ rec'.pc = "taken"
          /\ UNCHANGED <<rows, wake, tested, send, stopping>>
      BY <2>1 DEF TakeEvent, Nothing, tables, history
    <3> QED
      BY <1>1, <1>3, <3>1, CalmKept DEF Alert, Promises, Nudging, Fresh
  <2>2. CASE ListWebhooks
    <3>1. rec.pc = "taken" /\ UNCHANGED <<rows, wake, tested, send, stopping>>
      BY <2>2 DEF ListWebhooks, tables
    <3>2. Promises'
      BY <2>2, ListPromises
    <3> QED
      BY <1>1, <1>3, <3>1, <3>2, CalmKept DEF Alert, Nudging, Fresh
  <2>3. CASE EnqueueDelivery
    <3>1. stopping' = stopping
      BY <2>3 DEF EnqueueDelivery
    <3> QED
      BY <1>1, <2>3, <3>1, EnqueueCalm DEF Alert
  <2>4. CASE Nudge
    <3>1. /\ wake' = (wake \/ rec.queued) /\ rec' = Nothing
          /\ UNCHANGED <<rows, tested, send, stopping>>
      BY <2>4 DEF Nudge, tables
    <3>2. rec'.pc = "idle"
      BY <3>1, NothingType
    <3>3. Promises'
      BY <3>2 DEF Promises
    <3>4. Nudging => Nudging'
      BY <3>1 DEF Nudging
    <3> QED
      BY <1>1, <1>3, <3>1, <3>3, <3>4, CalmKept DEF Alert, Fresh
  <2> QED
    BY <1>7, <2>1, <2>2, <2>3, <2>4 DEF Recorder
<1>8. CASE Sender
  <2>1. UNCHANGED <<hooks, rec, written, owed, made, stopping>>
    BY <1>8 DEF Sender, DueDeliveries, GetWebhookByID, StartAttempt, FinishBatch, Wake, Ticker,
       Post, RecordDeliveryResult, tables, record, history
  <2>2. Calm => Calm'
    BY <1>1, <1>8, DueDeliveriesCalm, GetWebhookByIDCalm, StartAttemptCalm, FinishBatchCalm,
       WakeCalm, PostCalm, ResultCalm DEF Sender
  <2> QED
    BY <1>1, <1>3, <1>4, <2>1, <2>2 DEF Alert
<1>9. CASE Failures
  BY <1>1, <1>9 DEF Failures, TestError, RecordError, DueDeliveriesError, GetWebhookByIDError,
     RecordResultError, Shutdown, Restart, Crash
<1>10. ASSUME NEW i \in RowIds, Elapse(i) PROVE Alert'
  <2>1. /\ rows[i] # Null /\ rows[i].next = "later" /\ rows' = [rows EXCEPT ![i].next = "due"]
        /\ UNCHANGED <<hooks, wake, tested, rec, send, made, written, owed, stopping>>
    BY <1>10 DEF Elapse, record, history
  <2>2. rows'[i].attempt = rows[i].attempt /\ \A j \in RowIds : j # i => rows'[j] = rows[j]
    BY <2>1 DEF IInv, Tables, Types, Delivery
  <2>3. ~ Fresh(i)'
    BY <2>1, <2>2 DEF Sound, Fresh
  <2>4. \A j \in RowIds : Fresh(j)' => Fresh(j) /\ rows'[j].hook = rows[j].hook
    <3> SUFFICES ASSUME NEW j \in RowIds, Fresh(j)' PROVE Fresh(j) /\ rows'[j].hook = rows[j].hook
      OBVIOUS
    <3>1. CASE j = i
      BY <3>1, <2>3 DEF Fresh
    <3>2. CASE j # i
      BY <3>2, <2>2 DEF Fresh
    <3> QED
      BY <3>1, <3>2
  <2> QED
    BY <1>1, <1>3, <1>4, <2>1, <2>4, CalmKept DEF Alert, Nudging
<1>11. CASE DeleteOldDeliveries
  <2>1. /\ \A i \in RowIds : rows'[i] = Null \/ rows'[i] = rows[i]
        /\ UNCHANGED <<hooks, wake, tested, rec, send, made, written, owed, stopping>>
    BY <1>11 DEF DeleteOldDeliveries, record, history
  <2>2. \A i \in RowIds : Fresh(i)' => Fresh(i) /\ rows'[i].hook = rows[i].hook
    BY <2>1 DEF Fresh, Due
  <2> QED
    BY <1>1, <1>3, <1>4, <2>1, <2>2, CalmKept DEF Alert, Nudging
<1>12. CASE UNCHANGED vars
  BY <1>5, <1>12 DEF vars, send
<1>13. CASE \E i \in RowIds : Elapse(i)
  BY <1>10, <1>13
<1>14. CASE Next
  BY <1>6, <1>7, <1>8, <1>9, <1>11, <1>13, <1>14 DEF Next
<1> QED
  BY <1>1, <1>12, <1>14

(***************************************************************************)
(* A nudge is not lost: with recorder and tests at rest and the sender     *)
(* waiting, a delivery nobody has tried has woken it - for any number of   *)
(* webhooks, events and batches, with webhooks deleted and ids given out   *)
(* again.                                                                  *)
(***************************************************************************)
THEOREM NudgesArrive == Spec => []NudgeNotLost
<1>1. Init => Rest /\ Watch
  <2> SUFFICES ASSUME Init PROVE Rest /\ Watch
    OBVIOUS
  <2>1. \A i \in RowIds : rows[i] = Null
    BY DEF Init
  <2>2. \A i \in RowIds : ~ Fresh(i)
    BY <2>1 DEF Fresh, Due
  <2>3. Promises /\ ~ stopping
    BY NothingType DEF Init, Promises
  <2> QED
    BY <2>2, <2>3, InitRest DEF Watch, Alert, Calm
<1>2. IInv /\ Rest /\ [Next]_vars => Rest'
  BY NextRest
<1>3. Watch /\ IInv => NudgeNotLost
  <2> SUFFICES ASSUME Watch, IInv, faults = 0, owed \subseteq written, rec.pc = "idle", ~ tested,
                      snd.pc = "wait", NEW i \in RowIds, Due(rows[i]), rows[i].attempt = 0
               PROVE  wake
    BY DEF NudgeNotLost
  <2>1. ~ Lost
    BY DEF Lost
  <2>2. Nudging \/ Covered(i)
    BY <2>1 DEF Watch, Alert, Calm, Fresh
  <2>3. ~ Covered(i)
    BY DEF Covered, IInv, Batch
  <2> QED
    BY <2>2, <2>3 DEF Nudging
<1> QED
  BY <1>1, <1>2, <1>3, NextWatch, Invariance, Compactness, Soundness, PTL DEF Spec
-----------------------------------------------------------------------------
(***************************************************************************)
(* Until something fails every delivery owed is written, or the recorder   *)
(* is about to write it, for a webhook that cannot go meanwhile.           *)
(***************************************************************************)
Serving ==
    /\ ~ stopping
    /\ \A h \in rec.todo : hooks[h] # Null
    /\ \A p \in owed :
          \/ p \in written
          \/ /\ rec.pc = "enqueue"
             /\ \E h \in rec.todo : p = [event |-> rec.event.number, hook |-> hooks[h].number]

(* What is not the recorder's leaves it be. *)
LEMMA ServingStays ==
    ASSUME DeletesAtRest, IInv, Sound, Serving, [Next]_vars,
           UNCHANGED <<rec, owed, stopping>>, written \subseteq written'
    PROVE  Serving'
<1>1. rec.todo \subseteq HookIds
  BY DEF IInv, Outstanding
<1>2. ASSUME NEW h \in HookIds, DeleteWebhook(h)
      PROVE  h \notin rec.todo /\ \A g \in HookIds : g # h => hooks'[g] = hooks[g]
  BY <1>2 DEF DeletesAtRest, DeleteWebhook, AtRest, IInv, Tables, Types
<1>3. \A h \in rec.todo : Stays(h)
  BY <1>1, <1>2, HooksStep DEF Serving, Stays
<1> QED
  BY <1>3 DEF Serving, Stays

LEMMA NextServing ==
    ASSUME DeletesAtRest, IInv, Rest, Sound, Serving, [Next]_vars, faults = 0, faults' = 0
    PROVE  Serving'
<1>1. ~ stopping /\ \A k : ~ Fault(k)
  BY FaultCounts DEF Serving
<1>2. CASE Test
  BY <1>2, ServingStays DEF Test, Inserted, record
<1>3. CASE Operator /\ ~ Test
  BY <1>3, ServingStays DEF Operator, CreateWebhook, Notify, SetWebhookEnabled, DeleteWebhook,
     TestWebhook, TestNudge, record, history
<1>4. CASE TakeEvent
  <2>1. /\ rec.pc = "idle" /\ rec' = [Nothing EXCEPT !.pc = "taken", !.event = Head(queue)]
        /\ UNCHANGED <<hooks, owed, written, stopping>>
    BY <1>4 DEF TakeEvent, tables, history
  <2>2. rec'.todo = {}
    BY <2>1 DEF Nothing
  <2> QED
    BY <2>1, <2>2 DEF Serving
<1>5. CASE ListWebhooks
  <2> DEFINE todo == Interested(rec.event)
  <2>1. /\ rec.pc = "taken" /\ UNCHANGED <<hooks, written, stopping>>
        /\ rec' = IF todo = {} THEN Nothing ELSE [rec EXCEPT !.pc = "enqueue", !.todo = todo]
        /\ owed' = owed \cup {[event |-> rec.event.number, hook |-> hooks[h].number] : h \in todo}
    BY <1>5 DEF ListWebhooks, tables
  <2>2. \A h \in todo : hooks[h] # Null
    BY DEF Interested
  <2>3. owed \subseteq written
    BY <2>1 DEF Serving
  <2> HIDE DEF todo
  <2>4. CASE todo = {}
    <3>1. rec'.todo = {} /\ owed' \subseteq written'
      BY <2>1, <2>3, <2>4, NothingType
    <3> QED
      BY <1>1, <2>1, <3>1 DEF Serving
  <2>5. CASE todo # {}
    <3>1. rec'.todo = todo /\ rec'.pc = "enqueue" /\ rec'.event = rec.event
      BY <2>1, <2>5 DEF IInv, Outstanding
    <3> QED
      BY <1>1, <2>1, <2>2, <2>3, <3>1 DEF Serving
  <2> QED
    BY <2>4, <2>5
<1>6. CASE EnqueueDelivery
  <2>1. PICK h \in rec.todo :
          IF hooks[h] # Null
          THEN /\ Inserted(h, rec.event.number)
               /\ rec' = [rec EXCEPT !.todo = @ \ {h}, !.queued = TRUE]
          ELSE rec' = Nothing /\ UNCHANGED <<rows, written>>
    BY <1>6 DEF EnqueueDelivery
  <2> DEFINE pair == [event |-> rec.event.number, hook |-> hooks[h].number]
  <2>2. /\ rec.pc = "enqueue" /\ UNCHANGED <<hooks, owed, stopping>>
        /\ written' = written \cup {pair}
        /\ rec' = [rec EXCEPT !.todo = @ \ {h}, !.queued = TRUE]
    BY <1>6, <2>1 DEF EnqueueDelivery, Inserted, Serving
  <2>3. rec'.pc = "enqueue" /\ rec'.event = rec.event /\ rec'.todo = rec.todo \ {h}
    BY <2>2 DEF IInv, Outstanding
  <2> QED
    BY <2>2, <2>3 DEF Serving
<1>7. CASE Nudge
  <2>1. rec.todo = {} /\ rec' = Nothing /\ UNCHANGED <<hooks, owed, written, stopping>>
    BY <1>7 DEF Nudge, tables, history
  <2> QED
    BY <2>1, NothingType DEF Serving
<1>8. CASE Sender
  BY <1>8, ServingStays DEF Sender, DueDeliveries, GetWebhookByID, StartAttempt, FinishBatch, Wake,
     Ticker, Post, RecordDeliveryResult, record, history
<1>9. CASE Failures
  BY <1>1, <1>9 DEF Failures, TestError, RecordError, DueDeliveriesError, GetWebhookByIDError,
     RecordResultError, Shutdown, Restart, Crash
<1>10. CASE (\E i \in RowIds : Elapse(i)) \/ DeleteOldDeliveries \/ UNCHANGED vars
  BY <1>10, ServingStays DEF Elapse, DeleteOldDeliveries, vars, record, history
<1> QED
  BY <1>2, <1>3, <1>4, <1>5, <1>6, <1>7, <1>8, <1>9, <1>10 DEF Next, Recorder

(***************************************************************************)
(* Once the recorder is done with an event, no webhook it listed has been  *)
(* left out, unless a statement failed or the process stopped - as long as *)
(* only webhooks at rest are deleted: a webhook deleted while its event is *)
(* written out costs those after it their deliveries.                      *)
(***************************************************************************)
THEOREM AllServed == DeletesAtRest => (Spec => []AllHooksServed)
<1> SUFFICES ASSUME DeletesAtRest PROVE Spec => []AllHooksServed
  OBVIOUS
<1>1. Init => Rest /\ (faults = 0 => Serving)
  <2>1. Init => Serving
    BY NothingType DEF Init, Serving
  <2> QED
    BY <2>1, InitRest
<1>2. IInv /\ Sound /\ Rest /\ (faults = 0 => Serving) /\ [Next]_vars
        => Rest' /\ (faults = 0 => Serving)'
  BY NextRest, NextServing, FaultsStay
<1>3. (faults = 0 => Serving) => AllHooksServed
  BY DEF Serving, AllHooksServed
<1> QED
  BY <1>1, <1>2, <1>3, Invariance, Soundness, PTL DEF Spec

-----------------------------------------------------------------------------
(* The steps a batch still takes: for a row it has listed, to load its     *)
(* webhook, to start the attempt, to post and to record what came of it.   *)
Posting == {f \in flights : f.result = "posting"}
WorkLeft == 4 * Cardinality(snd.todo) + (IF snd.cur = Null THEN 0 ELSE 3)
            + Cardinality(flights) + Cardinality(Posting)

FewSteps == IsFiniteSet(snd.todo) /\ WorkLeft <= 4 * SweepBatch

BatchGoesOn ==
    snd.pc = "batch" /\ <<snd, flights>>' # <<snd, flights>> =>
        IF snd'.pc = "batch" THEN WorkLeft' < WorkLeft ELSE WorkLeft = 0 \/ Restarted

BatchesEnd == [](WorkLeft \in 0 .. 4 * SweepBatch) /\ [][BatchGoesOn]_vars

LEMMA WorkCounts ==
    ASSUME Rest, IsFiniteSet(snd.todo)
    PROVE  /\ Cardinality(snd.todo) \in Nat /\ Cardinality(flights) \in Nat
           /\ IsFiniteSet(Posting) /\ Cardinality(Posting) \in Nat
           /\ WorkLeft \in Nat
<1>1. IsFiniteSet(flights) /\ Posting \in SUBSET flights
  BY DEF Rest, Posting
<1>2. IsFiniteSet(Posting)
  BY <1>1, FS_Subset
<1>3. Cardinality(snd.todo) \in Nat /\ Cardinality(flights) \in Nat /\ Cardinality(Posting) \in Nat
  BY <1>1, <1>2, FS_CardinalityType
<1>4. (IF snd.cur = Null THEN 0 ELSE 3) \in Nat
  OBVIOUS
<1> QED
  BY <1>2, <1>3, <1>4 DEF WorkLeft

LEMMA RestingWork ==
    ASSUME snd.todo = {}, snd.cur = Null, flights = {}
    PROVE  IsFiniteSet(snd.todo) /\ WorkLeft = 0
<1>1. Posting = {}
  BY DEF Posting
<1> QED
  BY <1>1, FS_EmptySet DEF WorkLeft

(* What a sweep lists is a batch at most. *)
LEMMA BatchSized ==
    ASSUME IInv, NEW B \in SUBSET RowIds, Cardinality(B) <= SweepBatch,
           NEW T, T = {[id |-> i, hook |-> rows[i].hook, pair |-> rows[i].pair,
                        attempt |-> rows[i].attempt] : i \in B}
    PROVE  IsFiniteSet(T) /\ Cardinality(T) <= SweepBatch
<1> DEFINE claim(i) == [id |-> i, hook |-> rows[i].hook, pair |-> rows[i].pair,
                        attempt |-> rows[i].attempt]
           s == [i \in B |-> claim(i)]
<1>1. IsFiniteSet(B)
  <2>1. MaxHooks * MaxEvents \in Int
    BY Bounds
  <2>2. IsFiniteSet(RowIds)
    BY <2>1, FS_Interval DEF RowIds
  <2> QED
    BY <2>2, FS_Subset
<1>2. s \in Surjection(B, T)
  BY DEF Surjection
<1>3. IsFiniteSet(T) /\ Cardinality(T) <= Cardinality(B)
  BY <1>1, <1>2, FS_Surjection
<1>4. Cardinality(T) \in Nat /\ Cardinality(B) \in Nat
  BY <1>1, <1>3, FS_CardinalityType
<1> QED
  BY <1>3, <1>4, Bounds

(* Loading a webhook takes a row from the batch, ... *)
LEMMA LoadWork ==
    ASSUME IInv, Rest, FewSteps, GetWebhookByID \/ GetWebhookByIDError
    PROVE  snd'.pc = "batch" /\ IsFiniteSet(snd'.todo) /\ WorkLeft' < WorkLeft
<1>1. PICK d \in snd.todo : /\ snd.cur = Null /\ snd.pc = "batch" /\ flights' = flights
                            /\ snd'.todo = snd.todo \ {d} /\ snd'.pc = "batch"
  <2>1. snd \in SndType
    BY DEF IInv, Batch
  <2> QED
    BY <2>1 DEF GetWebhookByID, GetWebhookByIDError, SndType, send
<1>2. /\ IsFiniteSet(snd'.todo)
      /\ Cardinality(snd'.todo) = Cardinality(snd.todo) - 1
  BY <1>1, FS_RemoveElement DEF FewSteps
<1>3. Posting' = Posting
  BY <1>1 DEF Posting
<1>4. PICK n \in {0, 3} : n = IF snd'.cur = Null THEN 0 ELSE 3
  OBVIOUS
<1>5. WorkLeft' = 4 * (Cardinality(snd.todo) - 1) + n + Cardinality(flights) + Cardinality(Posting)
  BY <1>1, <1>2, <1>3, <1>4 DEF WorkLeft
<1>6. WorkLeft = 4 * Cardinality(snd.todo) + 0 + Cardinality(flights) + Cardinality(Posting)
  BY <1>1 DEF WorkLeft
<1> QED
  BY <1>1, <1>2, <1>4, <1>5, <1>6, WorkCounts DEF FewSteps

(* ... starting an attempt a place among the posts, ... *)
LEMMA StartWork ==
    ASSUME IInv, Rest, FewSteps, StartAttempt
    PROVE  snd'.pc = "batch" /\ IsFiniteSet(snd'.todo) /\ WorkLeft' < WorkLeft
<1>1. PICK f : flights' = flights \cup {f} /\ f.result = "posting"
  <2> DEFINE g == [id |-> snd.cur.row.id, pair |-> snd.cur.row.pair,
                   n |-> snd.cur.row.attempt + 1, to |-> snd.cur.to, result |-> "posting"]
  <2>1. flights' = flights \cup {g} /\ g.result = "posting"
    BY DEF StartAttempt
  <2> QED
    BY <2>1
<1>2. snd.cur # Null /\ snd'.cur = Null /\ snd'.todo = snd.todo /\ snd'.pc = "batch"
  BY DEF StartAttempt, IInv, Batch, SndType
<1>3. Posting' = Posting \cup {f}
  BY <1>1 DEF Posting
<1>4. /\ Cardinality(flights') \in {Cardinality(flights), Cardinality(flights) + 1}
      /\ Cardinality(Posting') \in {Cardinality(Posting), Cardinality(Posting) + 1}
  BY <1>1, <1>3, FS_AddElement, WorkCounts DEF Rest, FewSteps
<1>5. WorkLeft' = 4 * Cardinality(snd.todo) + 0 + Cardinality(flights') + Cardinality(Posting')
  BY <1>2 DEF WorkLeft
<1>6. WorkLeft = 4 * Cardinality(snd.todo) + 3 + Cardinality(flights) + Cardinality(Posting)
  BY <1>2 DEF WorkLeft
<1> QED
  BY <1>2, <1>4, <1>5, <1>6, WorkCounts DEF FewSteps

(* ... a post that comes back is one less to wait for, ... *)
LEMMA PostWork ==
    ASSUME IInv, Rest, FewSteps, NEW f \in flights, Post(f)
    PROVE  UNCHANGED snd /\ WorkLeft' < WorkLeft
<1>1. PICK r \in {"ok", "error"} : flights' = (flights \ {f}) \cup {[f EXCEPT !.result = r]}
  BY DEF Post
<1>2. f \in Posting /\ UNCHANGED snd
  BY DEF Post, Posting
<1> DEFINE g == [f EXCEPT !.result = r]
<1>3. g.result # "posting"
  BY DEF IInv, Batch, Flight
<1> HIDE DEF g
<1>4. Posting' = Posting \ {f}
  BY <1>1, <1>3 DEF Posting, g
<1>5. Cardinality(Posting') = Cardinality(Posting) - 1
  BY <1>2, <1>4, WorkCounts, FS_RemoveElement DEF FewSteps
<1>6. Cardinality(flights') <= Cardinality(flights) /\ Cardinality(flights') \in Nat
  <2> DEFINE S == flights \ {f}
  <2>1. IsFiniteSet(S) /\ Cardinality(S) = Cardinality(flights) - 1
    BY FS_RemoveElement DEF Rest
  <2>2. flights' = S \cup {g}
    BY <1>1 DEF g
  <2> HIDE DEF S
  <2>3. /\ IsFiniteSet(S \cup {g})
        /\ Cardinality(S \cup {g}) \in {Cardinality(S), Cardinality(S) + 1}
    BY <2>1, FS_AddElement
  <2>4. Cardinality(flights) \in Nat /\ Cardinality(S \cup {g}) \in Nat
    BY <2>3, FS_CardinalityType DEF Rest
  <2> QED
    BY <2>1, <2>2, <2>3, <2>4
<1>7. PICK n \in {0, 3} : n = IF snd.cur = Null THEN 0 ELSE 3
  OBVIOUS
<1>8. WorkLeft' = 4 * Cardinality(snd.todo) + n + Cardinality(flights') + Cardinality(Posting')
  BY <1>2, <1>7 DEF WorkLeft
<1>9. WorkLeft = 4 * Cardinality(snd.todo) + n + Cardinality(flights) + Cardinality(Posting)
  BY <1>7 DEF WorkLeft
<1> QED
  BY <1>2, <1>5, <1>6, <1>7, <1>8, <1>9, WorkCounts DEF FewSteps

(* ... and recording its result, or failing to, ends the attempt. *)
LEMMA RecordWork ==
    ASSUME IInv, Rest, FewSteps, NEW f \in flights, RecordDeliveryResult(f) \/ RecordResultError(f)
    PROVE  UNCHANGED snd /\ WorkLeft' < WorkLeft
<1>1. UNCHANGED snd /\ flights' = flights \ {f} /\ f.result # "posting"
  BY DEF RecordDeliveryResult, RecordResultError
<1>2. Posting' = Posting
  BY <1>1 DEF Posting
<1>3. Cardinality(flights') = Cardinality(flights) - 1
  BY <1>1, FS_RemoveElement DEF Rest
<1>4. PICK n \in {0, 3} : n = IF snd.cur = Null THEN 0 ELSE 3
  OBVIOUS
<1>5. WorkLeft' = 4 * Cardinality(snd.todo) + n + (Cardinality(flights) - 1) + Cardinality(Posting)
  BY <1>1, <1>2, <1>3, <1>4 DEF WorkLeft
<1>6. WorkLeft = 4 * Cardinality(snd.todo) + n + Cardinality(flights) + Cardinality(Posting)
  BY <1>4 DEF WorkLeft
<1> QED
  BY <1>1, <1>4, <1>5, <1>6, WorkCounts DEF FewSteps

(* Nothing else touches a batch but its end, the next one and a restart. *)
LEMMA BatchStep ==
    ASSUME IInv, Rest, FewSteps, [Next]_vars
    PROVE  FewSteps' /\ BatchGoesOn
<1>1. WorkLeft \in Nat /\ SweepBatch \in Nat
  BY WorkCounts, Bounds DEF FewSteps
<1>2. ASSUME snd.pc = "batch", snd'.pc = "batch", IsFiniteSet(snd'.todo), WorkLeft' < WorkLeft,
             Rest'
      PROVE  FewSteps' /\ BatchGoesOn
  <2>1. WorkLeft' \in Nat
    <3>1. IsFiniteSet(flights') /\ Posting' \in SUBSET flights'
      BY <1>2 DEF Rest, Posting
    <3>2. IsFiniteSet(Posting')
      BY <3>1, FS_Subset
    <3>3. /\ Cardinality(snd'.todo) \in Nat /\ Cardinality(flights') \in Nat
          /\ Cardinality(Posting') \in Nat
      BY <1>2, <3>1, <3>2, FS_CardinalityType
    <3>4. (IF snd'.cur = Null THEN 0 ELSE 3) \in Nat
      OBVIOUS
    <3> QED
      BY <3>3, <3>4 DEF WorkLeft
  <2> QED
    BY <1>1, <1>2, <2>1 DEF FewSteps, BatchGoesOn
<1>3. Rest'
  BY NextRest
<1>4. CASE GetWebhookByID \/ GetWebhookByIDError
  <2>1. snd.pc = "batch"
    BY <1>4 DEF GetWebhookByID, GetWebhookByIDError
  <2> QED
    BY <1>2, <1>3, <1>4, <2>1, LoadWork
<1>5. CASE StartAttempt
  <2>1. snd.pc = "batch"
    BY <1>5 DEF StartAttempt, IInv, Batch
  <2> QED
    BY <1>2, <1>3, <1>5, <2>1, StartWork
<1>6. CASE \E f \in flights : Post(f) \/ RecordDeliveryResult(f) \/ RecordResultError(f)
  <2>1. UNCHANGED snd /\ WorkLeft' < WorkLeft
    BY <1>6, PostWork, RecordWork
  <2>2. snd.pc = "batch"
    BY <1>6 DEF IInv, Batch
  <2> QED
    BY <1>2, <1>3, <2>1, <2>2 DEF FewSteps
<1>7. ASSUME snd'.todo = {}, snd'.cur = Null, flights' = {}
      PROVE  FewSteps'
  <2>1. Posting' = {}
    BY <1>7 DEF Posting
  <2> QED
    BY <1>1, <1>7, <2>1, FS_EmptySet DEF FewSteps, WorkLeft
<1>8. CASE FinishBatch \/ Restart \/ Crash
  <2>1. snd'.pc # "batch" /\ snd'.todo = {} /\ snd'.cur = Null /\ flights' = {}
    BY <1>8 DEF FinishBatch, Restart, Crash, Restarted, Listing, Waiting
  <2>2. CASE FinishBatch
    BY <1>7, <2>1, <2>2, RestingWork DEF FinishBatch, BatchGoesOn
  <2>3. CASE Restart \/ Crash
    BY <1>7, <2>1, <2>3 DEF Restart, Crash, BatchGoesOn
  <2> QED
    BY <1>8, <2>2, <2>3
<1>9. CASE DueDeliveries
  <2>1. snd.pc = "list" /\ flights' = flights /\ flights = {} /\ snd.cur = Null /\ snd \in SndType
    BY <1>9 DEF DueDeliveries, IInv, Batch
  <2>2. CASE snd' = Waiting
    BY <1>7, <2>1, <2>2 DEF Waiting, BatchGoesOn
  <2>3. CASE snd' # Waiting
    <3>1. PICK B \in SUBSET RowIds :
            /\ Cardinality(B) <= SweepBatch
            /\ snd' = [snd EXCEPT !.pc = "batch", !.full = Cardinality(B) >= SweepBatch,
                                  !.todo = {[id |-> i, hook |-> rows[i].hook,
                                             pair |-> rows[i].pair,
                                             attempt |-> rows[i].attempt] : i \in B}]
      BY <1>9, <2>3 DEF DueDeliveries
    <3>2. /\ snd'.cur = Null
          /\ snd'.todo = {[id |-> i, hook |-> rows[i].hook, pair |-> rows[i].pair,
                           attempt |-> rows[i].attempt] : i \in B}
      BY <2>1, <3>1 DEF SndType
    <3>3. IsFiniteSet(snd'.todo) /\ Cardinality(snd'.todo) <= SweepBatch
      BY <3>1, <3>2, BatchSized
    <3>4. flights' = {} /\ Posting' = {}
      BY <2>1 DEF Posting
    <3>5. WorkLeft' = 4 * Cardinality(snd'.todo) + 0 + 0 + 0
      BY <3>2, <3>4, FS_EmptySet DEF WorkLeft
    <3>6. Cardinality(snd'.todo) \in Nat
      BY <3>3, FS_CardinalityType
    <3> QED
      BY <1>1, <2>1, <3>3, <3>5, <3>6 DEF FewSteps, BatchGoesOn
  <2> QED
    BY <2>2, <2>3
<1>10. CASE DueDeliveriesError \/ Wake \/ Ticker
  <2>1. snd.pc # "batch" /\ flights' = {} /\ snd'.todo = {} /\ snd'.cur = Null
    BY <1>10 DEF DueDeliveriesError, Wake, Ticker, Waiting, Listing, IInv, Batch, send
  <2> QED
    BY <1>7, <2>1 DEF BatchGoesOn
<1>11. CASE UNCHANGED send
  BY <1>11 DEF send, FewSteps, WorkLeft, Posting, BatchGoesOn
<1>12. CASE ~ Sends /\ ~ \E f \in flights : RecordDeliveryResult(f)
  <2>1. UNCHANGED send
    BY <1>12, RowsStep DEF Inserts, Elapse, DeleteWebhook, DeleteOldDeliveries
  <2> QED
    BY <1>11, <2>1
<1> QED
  BY <1>4, <1>5, <1>6, <1>8, <1>9, <1>10, <1>12 DEF Sends

(***************************************************************************)
(* A batch ends: every step within it, a failed statement's too, lowers    *)
(* the steps it has left, at most four for each row listed; no other step  *)
(* of the system raises them; and sweep returns only when none are left or *)
(* the process is gone.  This is what lets the next sweep begin, and a     *)
(* retry be looked for at all.                                             *)
(***************************************************************************)
THEOREM SweepsReturn == Spec => BatchesEnd
<1>1. Init => Rest /\ FewSteps
  <2>1. Init => snd.todo = {} /\ snd.cur = Null /\ flights = {}
    BY DEF Init, Listing, Waiting
  <2> QED
    BY <2>1, InitRest, RestingWork, Bounds DEF FewSteps
<1>2. IInv /\ Rest /\ FewSteps /\ [Next]_vars => Rest' /\ FewSteps' /\ [BatchGoesOn]_vars
  BY NextRest, BatchStep
<1>3. Rest /\ FewSteps => WorkLeft \in 0 .. 4 * SweepBatch
  BY WorkCounts, Bounds DEF FewSteps
<1> QED
  BY <1>1, <1>2, <1>3, Invariance, PTL DEF Spec, BatchesEnd
=============================================================================
