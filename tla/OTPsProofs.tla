----------------------------- MODULE OTPsProofs -----------------------------
(***************************************************************************)
(* What OTPs promises for every number of codes, requests, subjects,       *)
(* ceilings and faults.  IInv says why: a stored row counts exactly the    *)
(* wrong guesses and the acceptance that were answered (Booked), and a     *)
(* request waits with a time no later than the clock (Holds).              *)
(***************************************************************************)
EXTENDS OTPs, TLAPS

(* What a request holds by the time its transaction starts.                *)
Holds(c) ==
    LET r == req[c]
    IN  /\ r.pc \in {"queued", "readback"} => r.op \in Ops /\ r.env \in Envs
        /\ r.pc = "queued" /\ r.op # "delete" => r.ts \in Nat /\ r.ts <= now
        /\ Executing(c, "generate") =>
              r.subject \in Subjects /\ r.max \in Ceilings /\ r.expires \in Nat
        /\ Executing(c, "validate") => r.subject \in Subjects
        /\ Executing(c, "revoke") \/ Executing(c, "delete") \/ r.pc = "readback"
              => r.otp \in Otps

Requests ==
    /\ now \in Nat
    /\ req \in [Clients -> Request]
    /\ \A c \in Clients : Holds(c)

Booked(o) ==
    /\ rows[o] # Null =>
          /\ o \in issued
          /\ rows[o].attempts = guesses[o]
          /\ rows[o].max = ceiling[o]
          /\ accepted[o] = IF rows[o].consumed = Null THEN 0 ELSE 1
    /\ o \notin issued => guesses[o] = 0 /\ ceiling[o] = 0 /\ accepted[o] = 0
    /\ guesses[o] <= ceiling[o]

BooksTyped ==
    /\ rows \in [Otps -> Row \cup {Null}]
    /\ issued \in SUBSET Otps
    /\ ceiling \in [Otps -> Nat]
    /\ guesses \in [Otps -> Nat]
    /\ accepted \in [Otps -> Nat]

Books ==
    /\ BooksTyped
    /\ \A o \in Otps : Booked(o)
    /\ AtMostOneLive

Rest ==
    /\ faults \in Nat
    /\ sweep \in [phase: {"idle", "codes"}, at: Nat \cup {Null}, batch: Nat]
    /\ sweep.phase = "codes" => sweep.at \in Nat /\ sweep.at <= now

IInv == Requests /\ Books /\ Rest

-----------------------------------------------------------------------------
(***************************************************************************)
(* statusPredicate (db/otps.go) mirrors otp.StatusOf on every row and at   *)
(* every time.                                                             *)
(***************************************************************************)
THEOREM PredicateMirrorsStatus ==
    ASSUME NEW row \in Row, NEW ts \in Nat, NEW s \in Statuses
    PROVE  StatusPredicate(s, row, ts) <=> StatusOf(row, ts) = s
  BY NullAssumption DEF Row, Statuses, StatusPredicate, StatusOf

(***************************************************************************)
(* The condition the statements of GenerateOTP and ValidateOTP share       *)
(* matches exactly the codes of the subject that StatusOf calls active.    *)
(***************************************************************************)
THEOREM LiveIsActive ==
    ASSUME NEW row \in Row, NEW env, NEW subject, NEW ts \in Nat, row # Null
    PROVE  Live(row, env, subject, ts) <=> /\ row.env = env /\ row.subject = subject
                                           /\ StatusOf(row, ts) = "active"
  BY NullAssumption DEF Row, Live, InEnv, StatusOf

LEMMA IdleIsRequest == Idle \in Request /\ Idle.pc = "idle"
  BY DEF Idle, Request

LEMMA InitIInv == Init => IInv
<1> SUFFICES ASSUME Init PROVE IInv
  OBVIOUS
<1>1. Requests
  BY IdleIsRequest DEF Init, Requests, Holds, Executing
<1>2. Books
  BY DEF Init, Books, BooksTyped, Booked, AtMostOneLive
<1>3. Rest
  BY DEF Init, Rest, NotSweeping
<1> QED
  BY <1>1, <1>2, <1>3 DEF IInv

-----------------------------------------------------------------------------
(* The requests.                                                           *)

(* A step that moves request c alone, to new. *)
Goes(c, new) ==
    /\ new \in Request
    /\ req' = [req EXCEPT ![c] = new]

LEMMA Gone ==
    ASSUME Requests, NEW c \in Clients, NEW new, Goes(c, new)
    PROVE  /\ req' \in [Clients -> Request]
           /\ req'[c] = new
           /\ \A d \in Clients \ {c} : req'[d] = req[d]
           /\ req[c] \in Request
  BY DEF Requests, Goes

(* One that does not move holds what it held. *)
LEMMA StillHolds ==
    ASSUME Requests, NEW d \in Clients, req'[d] = req[d], now' \in Nat, now <= now'
    PROVE  Holds(d)'
<1>1. Holds(d) /\ now \in Nat
  BY DEF Requests
<1> QED
  BY <1>1 DEF Holds, Executing

LEMMA RequestStep ==
    ASSUME Requests, NEW c \in Clients, NEW new, Goes(c, new), UNCHANGED now, Holds(c)'
    PROVE  Requests'
<1>1. now \in Nat /\ now' = now
  BY DEF Requests
<1>2. ASSUME NEW d \in Clients PROVE Holds(d)'
  BY <1>1, Gone, StillHolds
<1> QED
  BY <1>1, <1>2, Gone DEF Requests

(* A request that is answered holds nothing. *)
LEMMA DoneStep ==
    ASSUME Requests, NEW c \in Clients, NEW new, Goes(c, new), new.pc \in {"done", "idle"},
           UNCHANGED now
    PROVE  Requests'
<1>1. Holds(c)'
  BY Gone DEF Holds, Executing
<1> QED
  BY <1>1, RequestStep

LEMMA HandedGoes ==
    ASSUME Requests, NEW c \in Clients, NEW a \in Answers, NEW o \in Otps \cup {Null},
           Handed(c, a, o)
    PROVE  \E new \in Request : Goes(c, new) /\ new.pc = "done" /\ new.answer = a /\ new.otp = o
<1> DEFINE new == [Idle EXCEPT !.pc = "done", !.answer = a, !.otp = o]
<1>1. new \in Request /\ new.pc = "done" /\ new.answer = a /\ new.otp = o
  BY DEF Request, Idle
<1> QED
  BY <1>1 DEF Handed, Goes

LEMMA HandedStep ==
    ASSUME Requests, NEW c \in Clients, NEW a \in Answers, NEW o \in Otps \cup {Null},
           Handed(c, a, o), UNCHANGED now
    PROVE  Requests'
  BY HandedGoes, DoneStep

LEMMA AnswerStep ==
    ASSUME Requests, NEW c \in Clients, NEW a \in Answers, Answer(c, a), UNCHANGED now
    PROVE  Requests'
  BY HandedStep DEF Answer

LEMMA QueueStep ==
    ASSUME Requests, NEW c \in Clients, NEW r \in Request, Queue(c, r), Holds(c)'
    PROVE  Requests'
<1>1. Goes(c, r) /\ UNCHANGED now
  BY DEF Queue, Goes
<1> QED
  BY <1>1, RequestStep

(* No request moves, or all are lost. *)
LEMMA RequestsKept ==
    ASSUME Requests, now' \in Nat, now <= now',
           UNCHANGED req \/ req' = [c \in Clients |-> Idle]
    PROVE  Requests'
<1>1. CASE UNCHANGED req
  <2>1. ASSUME NEW d \in Clients PROVE Holds(d)'
    BY <1>1, StillHolds
  <2> QED
    BY <1>1, <2>1 DEF Requests
<1>2. CASE req' = [c \in Clients |-> Idle]
  BY <1>2, IdleIsRequest DEF Requests, Holds, Executing
<1> QED
  BY <1>1, <1>2

-----------------------------------------------------------------------------
(* The arrival of the requests.                                            *)

LEMMA AskingType ==
    ASSUME Requests, NEW op \in Ops
    PROVE  /\ Asking(op) \in Request
           /\ Asking(op).pc = "queued" /\ Asking(op).op = op /\ Asking(op).ts = now
  BY DEF Requests, Asking, Idle, Request

LEMMA GenerateRequestStep ==
    ASSUME Requests, NEW c \in Clients, GenerateRequest(c)
    PROVE  Requests'
<1>1. PICK e \in Envs, s \in Subjects, m \in Ceilings, ttl \in TTLs, asked \in 0 .. now :
        Queue(c, [Asking("generate") EXCEPT !.env = e, !.subject = s,
                                            !.max = m, !.expires = asked + ttl])
  BY DEF GenerateRequest
<1> DEFINE r == [Asking("generate") EXCEPT !.env = e, !.subject = s,
                                           !.max = m, !.expires = asked + ttl]
<1>2. now \in Nat /\ asked + ttl \in Nat /\ m \in Nat
  BY OTPsAssumption DEF OTPsAssumption, Requests
<1>3. /\ r \in Request /\ r.pc = "queued" /\ r.op = "generate" /\ r.ts = now
      /\ r.env = e /\ r.subject = s /\ r.max = m /\ r.expires = asked + ttl
  <2>1. /\ Asking("generate") \in Request /\ Asking("generate").pc = "queued"
        /\ Asking("generate").op = "generate" /\ Asking("generate").ts = now
    BY AskingType DEF Ops
  <2> HIDE DEF Asking
  <2> QED
    BY <1>2, <2>1 DEF Request
<1> HIDE DEF r
<1>4. Queue(c, r)
  BY <1>1 DEF r
<1>5. req'[c] = r /\ UNCHANGED now
  BY <1>4 DEF Queue, Requests
<1>6. Holds(c)'
  BY <1>2, <1>3, <1>5 DEF Holds, Executing, Ops
<1> QED
  BY <1>3, <1>4, <1>6, QueueStep

LEMMA OtherRequestStep ==
    ASSUME Requests, issued \in SUBSET Otps, NEW c \in Clients,
           ValidateRequest(c) \/ RevokeRequest(c) \/ DeleteRequest(c)
    PROVE  Requests'
<1>1. ASSUME NEW r \in Request, Queue(c, r), r.pc = "queued", r.env \in Envs,
             \/ r.op = "validate" /\ r.ts = now /\ r.subject \in Subjects
             \/ r.op = "revoke" /\ r.ts = now /\ r.otp \in Otps
             \/ r.op = "delete" /\ r.otp \in Otps
      PROVE  Requests'
  <2>1. req'[c] = r /\ UNCHANGED now /\ now \in Nat
    BY <1>1 DEF Queue, Requests
  <2>2. Holds(c)'
    BY <1>1, <2>1 DEF Holds, Executing, Ops
  <2> QED
    BY <1>1, <2>2, QueueStep
<1>2. CASE ValidateRequest(c)
  <2>1. PICK e \in Envs, s \in Subjects, k \in Guesses :
          Queue(c, [Asking("validate") EXCEPT !.env = e, !.subject = s, !.code = k])
    BY <1>2 DEF ValidateRequest
  <2> DEFINE r == [Asking("validate") EXCEPT !.env = e, !.subject = s, !.code = k]
  <2>2. /\ r \in Request /\ r.pc = "queued" /\ r.op = "validate" /\ r.ts = now
        /\ r.env = e /\ r.subject = s /\ r.code = k
    <3>1. Asking("validate") \in Request /\ Asking("validate").pc = "queued"
          /\ Asking("validate").op = "validate" /\ Asking("validate").ts = now
      BY AskingType DEF Ops
    <3> HIDE DEF Asking
    <3> QED
      BY <3>1 DEF Request
  <2> QED
    BY <1>1, <2>1, <2>2
<1>3. CASE RevokeRequest(c)
  <2>1. PICK e \in Envs, o \in issued : Queue(c, [Asking("revoke") EXCEPT !.env = e, !.otp = o])
    BY <1>3 DEF RevokeRequest
  <2> DEFINE r == [Asking("revoke") EXCEPT !.env = e, !.otp = o]
  <2>2. /\ r \in Request /\ r.pc = "queued" /\ r.op = "revoke" /\ r.ts = now
        /\ r.env = e /\ r.otp = o
    <3>1. Asking("revoke") \in Request /\ Asking("revoke").pc = "queued"
          /\ Asking("revoke").op = "revoke" /\ Asking("revoke").ts = now
      BY AskingType DEF Ops
    <3> HIDE DEF Asking
    <3> QED
      BY <3>1 DEF Request
  <2> QED
    BY <1>1, <2>1, <2>2
<1>4. CASE DeleteRequest(c)
  <2>1. PICK e \in Envs, o \in issued :
          Queue(c, [Asking("delete") EXCEPT !.env = e, !.otp = o, !.ts = Null])
    BY <1>4 DEF DeleteRequest
  <2> DEFINE r == [Asking("delete") EXCEPT !.env = e, !.otp = o, !.ts = Null]
  <2>2. r \in Request /\ r.pc = "queued" /\ r.op = "delete" /\ r.env = e /\ r.otp = o
    <3>1. Asking("delete") \in Request /\ Asking("delete").pc = "queued"
          /\ Asking("delete").op = "delete"
      BY AskingType DEF Ops
    <3> HIDE DEF Asking
    <3> QED
      BY <3>1 DEF Request
  <2> QED
    BY <1>1, <2>1, <2>2
<1> QED
  BY <1>2, <1>3, <1>4

-----------------------------------------------------------------------------
(* The table and its books.                                                *)

(***************************************************************************)
(* What every step but an insert may do to a code: remove it, or leave it  *)
(* as it is, accepted, charged or revoked - never livelier than before.    *)
(***************************************************************************)
NoLivelier(old, new) ==
    /\ new.env = old.env /\ new.subject = old.subject /\ new.max = old.max
    /\ new.expires = old.expires /\ new.created = old.created
    /\ new.attempts >= old.attempts
    /\ old.consumed # Null => new.consumed # Null
    /\ old.revoked # Null => new.revoked # Null

LEMMA NoLivelierActive ==
    ASSUME NEW old \in Row, NEW new \in Row, NoLivelier(old, new),
           NEW ts \in Nat, NEW later \in Nat, ts <= later,
           StatusOf(new, later) = "active"
    PROVE  StatusOf(old, ts) = "active"
  BY NullAssumption DEF Row, NoLivelier, StatusOf

LEMMA LiveKept ==
    ASSUME AtMostOneLive, now \in Nat, now' \in Nat, now <= now',
           rows \in [Otps -> Row \cup {Null}], rows' \in [Otps -> Row \cup {Null}],
           \A o \in Otps : rows'[o] # Null => rows[o] # Null /\ NoLivelier(rows[o], rows'[o])
    PROVE  AtMostOneLive'
<1> SUFFICES ASSUME NEW o \in Otps, NEW p \in Otps, rows'[o] # Null, rows'[p] # Null,
                    StatusOf(rows'[o], now') = "active", StatusOf(rows'[p], now') = "active",
                    rows'[o].env = rows'[p].env, rows'[o].subject = rows'[p].subject
             PROVE  o = p
  BY DEF AtMostOneLive
<1>1. ASSUME NEW x \in {o, p}
      PROVE  /\ rows[x] # Null /\ rows[x] \in Row /\ NoLivelier(rows[x], rows'[x])
             /\ StatusOf(rows[x], now) = "active"
  <2>1. rows[x] \in Row /\ rows'[x] \in Row /\ NoLivelier(rows[x], rows'[x]) /\ rows[x] # Null
    OBVIOUS
  <2> QED
    BY <2>1, NoLivelierActive
<1>2. rows[o].env = rows[p].env /\ rows[o].subject = rows[p].subject
  BY <1>1 DEF NoLivelier
<1> QED
  BY <1>1, <1>2 DEF AtMostOneLive

LEMMA BooksKept == Books /\ UNCHANGED <<now, rows, history>> => Books'
  BY DEF Books, BooksTyped, Booked, AtMostOneLive, history

(* The clock only makes codes less live. *)
LEMMA BooksLater ==
    ASSUME Books, now \in Nat, now' = now + 1, UNCHANGED <<rows, history>>
    PROVE  Books'
<1>1. BooksTyped' /\ \A o \in Otps : Booked(o)'
  BY DEF Books, BooksTyped, Booked, history
<1>2. \A o \in Otps : rows'[o] # Null => rows[o] # Null /\ NoLivelier(rows[o], rows'[o])
  BY DEF Books, BooksTyped, NoLivelier, Row
<1> QED
  BY <1>1, <1>2, LiveKept DEF Books, BooksTyped

(* Rows go, or are revoked; nothing is counted. *)
LEMMA BooksClose ==
    ASSUME Books, UNCHANGED <<now, history>>, now \in Nat,
           rows' \in [Otps -> Row \cup {Null}],
           \A o \in Otps : rows'[o] # Null =>
               /\ rows[o] # Null
               /\ NoLivelier(rows[o], rows'[o])
               /\ rows'[o].attempts = rows[o].attempts
               /\ rows'[o].consumed = rows[o].consumed
    PROVE  Books'
<1>1. BooksTyped'
  BY DEF Books, BooksTyped, history
<1>2. ASSUME NEW o \in Otps PROVE Booked(o)'
  BY DEF Books, Booked, NoLivelier, history
<1> QED
  BY <1>1, <1>2, LiveKept DEF Books, BooksTyped

-----------------------------------------------------------------------------
(* The transactions.                                                       *)

LEMMA ExecutingHolds ==
    ASSUME IInv, NEW c \in Clients, req[c].pc = "queued"
    PROVE  /\ Holds(c) /\ now \in Nat /\ req[c].env \in Envs /\ req[c] \in Request
           /\ req[c].op # "delete" => req[c].ts \in Nat /\ req[c].ts <= now
  BY DEF IInv, Requests, Holds

(* A code that is active now is live for a caller who asked earlier.       *)
LEMMA ActiveIsLive ==
    ASSUME NEW row \in Row, row # Null, NEW ts \in Nat, NEW later \in Nat, ts <= later,
           StatusOf(row, later) = "active"
    PROVE  Live(row, row.env, row.subject, ts)
  BY NullAssumption DEF Row, StatusOf, Live, InEnv

(* The row GenerateOTP inserts. *)
LEMMA NewRowTyped ==
    ASSUME IInv, NEW c \in Clients, Executing(c, "generate"), NEW k \in Digits
    PROVE  /\ NewRow(req[c], k) \in Row /\ NewRow(req[c], k) # Null
           /\ NewRow(req[c], k).env = req[c].env /\ NewRow(req[c], k).subject = req[c].subject
           /\ NewRow(req[c], k).attempts = 0 /\ NewRow(req[c], k).max = req[c].max
           /\ NewRow(req[c], k).consumed = Null /\ NewRow(req[c], k).revoked = Null
           /\ NewRow(req[c], k).created = req[c].ts /\ NewRow(req[c], k).expires = req[c].expires
           /\ req[c].max \in Ceilings /\ req[c].max \in Nat \ {0}
<1>1. /\ req[c].env \in Envs /\ req[c].subject \in Subjects /\ req[c].max \in Ceilings
      /\ req[c].expires \in Nat /\ req[c].ts \in Nat
  BY ExecutingHolds DEF Executing, Holds
<1>2. req[c].max \in Nat \ {0}
  BY <1>1, OTPsAssumption DEF OTPsAssumption
<1>3. NewRow(req[c], k) \in Row
  BY <1>1, <1>2 DEF NewRow, Row
<1> QED
  BY <1>1, <1>2, <1>3, RowAssumption DEF NewRow

LEMMA GenerateOTPStep ==
    ASSUME IInv, NEW c \in Clients, GenerateOTP(c)
    PROVE  IInv'
<1> DEFINE r == req[c]
<1>1. /\ Executing(c, "generate") /\ r.ts \in Nat /\ r.ts <= now /\ now \in Nat
      /\ UNCHANGED <<now, sweep, faults, guesses, accepted>>
  BY ExecutingHolds DEF GenerateOTP, Executing
<1>2. Rest'
  BY <1>1 DEF IInv, Rest
<1>3. ASSUME NEW o \in Newest(LiveFor(r)), Handed(c, "reused", o),
             UNCHANGED <<rows, issued, ceiling>>
      PROVE  IInv'
  <2>1. o \in Otps
    BY <1>3 DEF Newest, LiveFor
  <2>2. Requests'
    BY <1>1, <1>3, <2>1, HandedStep DEF IInv, Answers
  <2>3. Books'
    BY <1>1, <1>3, BooksKept DEF IInv, history
  <2> QED
    BY <1>2, <2>2, <2>3 DEF IInv
<1>4. ASSUME LiveFor(r) = {}, NEW x \in Otps \ issued, NEW k \in Digits,
             rows' = [rows EXCEPT ![x] = NewRow(r, k)],
             issued' = issued \cup {x},
             ceiling' = [ceiling EXCEPT ![x] = r.max],
             Handed(c, "issued", x)
      PROVE  IInv'
  <2> DEFINE row == NewRow(r, k)
  <2>1. /\ row \in Row /\ row.env = r.env /\ row.subject = r.subject /\ row.attempts = 0
        /\ row.max = r.max /\ row.consumed = Null /\ r.max \in Nat
    BY <1>1, NewRowTyped
  <2>2. Requests'
    BY <1>1, <1>4, HandedStep DEF IInv, Answers
  <2>3. rows' = [rows EXCEPT ![x] = row]
    BY <1>4
  <2> HIDE DEF row
  <2>4. BooksTyped'
    BY <1>1, <1>4, <2>1, <2>3 DEF IInv, Books, BooksTyped
  <2>5. /\ rows'[x] = row /\ ceiling'[x] = r.max
        /\ \A o \in Otps \ {x} : rows'[o] = rows[o] /\ ceiling'[o] = ceiling[o]
    BY <1>4, <2>3 DEF IInv, Books, BooksTyped
  <2>6. ASSUME NEW o \in Otps PROVE Booked(o)'
    <3>1. Booked(o)
      BY DEF IInv, Books
    <3>2. CASE o = x
      <4>1. guesses'[o] = 0 /\ accepted'[o] = 0
        BY <1>1, <1>4, <3>1, <3>2 DEF Booked
      <4> QED
        BY <1>4, <2>1, <2>5, <3>2, <4>1 DEF Booked
    <3>3. CASE o # x
      BY <1>1, <1>4, <2>5, <3>1, <3>3 DEF Booked
    <3> QED
      BY <3>2, <3>3
  <2>7. AtMostOneLive'
    <3>1. ASSUME NEW o \in Otps \ {x}, rows'[o] # Null, StatusOf(rows'[o], now') = "active",
                 rows'[o].env = r.env, rows'[o].subject = r.subject
          PROVE  FALSE
      <4>1. rows[o] \in Row /\ rows[o] = rows'[o] /\ now' = now
        BY <1>1, <2>5, <3>1 DEF IInv, Books, BooksTyped
      <4>2. Live(rows[o], r.env, r.subject, r.ts)
        BY <1>1, <3>1, <4>1, ActiveIsLive
      <4> QED
        BY <1>4, <4>2 DEF LiveFor
    <3>2. AtMostOneLive /\ now' = now
      BY <1>1 DEF IInv, Books
    <3> QED
      BY <2>1, <2>5, <3>1, <3>2 DEF AtMostOneLive
  <2>8. Books'
    BY <2>4, <2>6, <2>7 DEF Books
  <2> QED
    BY <1>2, <2>2, <2>8 DEF IInv
<1> QED
  BY <1>3, <1>4 DEF GenerateOTP

(* What a validation reads is one set: the codes it may accept or charge   *)
(* are those StatusOf calls active at its time.                            *)
LEMMA LiveForTyped ==
    ASSUME IInv, NEW c \in Clients, Executing(c, "validate")
    PROVE  /\ LiveFor(req[c]) \subseteq Otps /\ Right(req[c]) \subseteq LiveFor(req[c])
           /\ Guessed(req[c]) = LiveFor(req[c])
           /\ \A o \in LiveFor(req[c]) :
                 /\ rows[o] \in Row /\ rows[o] # Null
                 /\ rows[o].consumed = Null /\ rows[o].revoked = Null
                 /\ rows[o].attempts < rows[o].max
                 /\ rows[o].env = req[c].env /\ rows[o].subject = req[c].subject
                 /\ StatusOf(rows[o], req[c].ts) = "active"
<1>1. req[c].ts \in Nat /\ rows \in [Otps -> Row \cup {Null}]
  BY ExecutingHolds DEF IInv, Books, BooksTyped, Executing
<1>2. ASSUME NEW o \in Otps
      PROVE  o \in LiveFor(req[c]) <=> o \in Guessed(req[c])
  <2>1. CASE rows[o] = Null
    BY <2>1 DEF LiveFor, Guessed, Live, InEnv
  <2>2. CASE rows[o] # Null
    BY <1>1, <2>2, LiveIsActive DEF LiveFor, Guessed
  <2> QED
    BY <2>1, <2>2
<1>3. Guessed(req[c]) = LiveFor(req[c])
  BY <1>2 DEF LiveFor, Guessed
<1>4. ASSUME NEW o \in LiveFor(req[c])
      PROVE  /\ rows[o] \in Row /\ rows[o] # Null
             /\ rows[o].consumed = Null /\ rows[o].revoked = Null
             /\ rows[o].attempts < rows[o].max
             /\ rows[o].env = req[c].env /\ rows[o].subject = req[c].subject
  BY <1>1 DEF LiveFor, Live, InEnv
<1> QED
  BY <1>3, <1>4 DEF LiveFor, Right, Guessed

LEMMA ValidateOTPStep ==
    ASSUME IInv, NEW c \in Clients, ValidateOTP(c)
    PROVE  IInv'
<1> DEFINE r == req[c]
           live == LiveFor(r)
           right == Right(r)
<1>1. /\ Executing(c, "validate") /\ r.ts \in Nat /\ r.ts <= now /\ now \in Nat
      /\ UNCHANGED <<now, sweep, faults, issued, ceiling>>
  BY ExecutingHolds DEF ValidateOTP, Executing
<1>2. Rest'
  BY <1>1 DEF IInv, Rest
<1>3. BooksTyped /\ (\A o \in Otps : Booked(o)) /\ AtMostOneLive
  BY DEF IInv, Books
<1>4. /\ live \subseteq Otps /\ right \subseteq live /\ Guessed(r) = live
      /\ \A o \in live :
            /\ rows[o] \in Row /\ rows[o] # Null
            /\ rows[o].consumed = Null /\ rows[o].revoked = Null
            /\ rows[o].attempts < rows[o].max
  BY <1>1, LiveForTyped
<1> HIDE DEF live, right
<1>5. CASE /\ rows' = [o \in Otps |-> IF o \in right THEN [rows[o] EXCEPT !.consumed = r.ts]
                                                        ELSE rows[o]]
           /\ accepted' = [o \in Otps |-> accepted[o] + (IF o \in right THEN 1 ELSE 0)]
           /\ Answer(c, "valid")
           /\ UNCHANGED guesses
  <2>1. Requests'
    <3>1. "valid" \in Answers
      BY DEF Answers
    <3> QED
      BY <1>1, <1>5, <3>1, AnswerStep DEF IInv
  <2>2. ASSUME NEW o \in right
        PROVE  /\ rows'[o] \in Row /\ rows'[o].consumed = r.ts
               /\ NoLivelier(rows[o], rows'[o])
               /\ rows'[o].attempts = rows[o].attempts
    <3>1. rows[o] \in Row /\ rows'[o] = [rows[o] EXCEPT !.consumed = r.ts]
      BY <1>4, <1>5
    <3> QED
      BY <1>1, <3>1, NullAssumption DEF Row, NoLivelier
  <2>3. ASSUME NEW o \in Otps \ right PROVE rows'[o] = rows[o] /\ accepted'[o] = accepted[o]
    BY <1>3, <1>5 DEF BooksTyped
  <2>4. BooksTyped'
    <3>1. \A o \in Otps : rows'[o] \in Row \cup {Null}
      BY <1>3, <2>2, <2>3 DEF BooksTyped
    <3>2. rows' \in [Otps -> Row \cup {Null}] /\ accepted' \in [Otps -> Nat]
      BY <1>3, <1>5, <3>1 DEF BooksTyped
    <3> QED
      BY <1>1, <1>3, <1>5, <3>2 DEF BooksTyped
  <2>5. ASSUME NEW o \in Otps PROVE Booked(o)'
    <3>1. CASE o \in right
      <4>1. Booked(o) /\ rows[o] # Null /\ rows[o].consumed = Null
        BY <1>3, <1>4, <3>1
      <4>2. /\ accepted[o] = 0 /\ o \in issued /\ guesses[o] <= ceiling[o]
            /\ rows[o].attempts = guesses[o] /\ rows[o].max = ceiling[o]
        BY <4>1 DEF Booked
      <4>3. accepted'[o] = 1
        BY <1>5, <3>1, <4>2
      <4>4. /\ rows'[o].consumed # Null /\ rows'[o].max = rows[o].max
            /\ rows'[o].attempts = rows[o].attempts
        BY <1>1, <2>2, <3>1, NullAssumption DEF NoLivelier
      <4> QED
        BY <1>1, <1>5, <4>2, <4>3, <4>4 DEF Booked
    <3>2. CASE o \notin right
      BY <1>1, <1>3, <1>5, <2>3, <3>2 DEF Booked
    <3> QED
      BY <3>1, <3>2
  <2>6. \A o \in Otps : rows'[o] # Null => rows[o] # Null /\ NoLivelier(rows[o], rows'[o])
    <3> SUFFICES ASSUME NEW o \in Otps, rows'[o] # Null
                 PROVE  rows[o] # Null /\ NoLivelier(rows[o], rows'[o])
      OBVIOUS
    <3>1. CASE o \in right
      BY <1>4, <2>2, <3>1
    <3>2. CASE o \notin right
      BY <1>3, <2>3, <3>2 DEF BooksTyped, NoLivelier, Row
    <3> QED
      BY <3>1, <3>2
  <2>7. AtMostOneLive'
    BY <1>1, <1>3, <2>4, <2>6, LiveKept DEF BooksTyped
  <2> QED
    BY <1>2, <2>1, <2>4, <2>5, <2>7 DEF IInv, Books
<1>6. CASE /\ rows' = [o \in Otps |-> IF o \in live THEN Charged(rows[o]) ELSE rows[o]]
           /\ guesses' = [o \in Otps |-> guesses[o] + (IF o \in Guessed(r) THEN 1 ELSE 0)]
           /\ Answer(c, "invalid_code")
           /\ UNCHANGED accepted
  <2>1. Requests'
    <3>1. "invalid_code" \in Answers
      BY DEF Answers
    <3> QED
      BY <1>1, <1>6, <3>1, AnswerStep DEF IInv
  <2>2. ASSUME NEW o \in live
        PROVE  /\ rows'[o] \in Row /\ rows'[o].consumed = Null
               /\ NoLivelier(rows[o], rows'[o])
               /\ rows'[o].attempts = rows[o].attempts + 1
    <3>1. /\ rows[o] \in Row /\ rows'[o] = [rows[o] EXCEPT !.attempts = @ + 1]
          /\ rows[o].consumed = Null
      BY <1>4, <1>6 DEF Charged
    <3> QED
      BY <3>1 DEF Row, NoLivelier
  <2>3. ASSUME NEW o \in Otps \ live PROVE rows'[o] = rows[o] /\ guesses'[o] = guesses[o]
    BY <1>3, <1>4, <1>6 DEF BooksTyped
  <2>4. BooksTyped'
    <3>1. \A o \in Otps : rows'[o] \in Row \cup {Null}
      BY <1>3, <2>2, <2>3 DEF BooksTyped
    <3>2. rows' \in [Otps -> Row \cup {Null}] /\ guesses' \in [Otps -> Nat]
      BY <1>3, <1>6, <3>1 DEF BooksTyped
    <3> QED
      BY <1>1, <1>3, <1>6, <3>2 DEF BooksTyped
  <2>5. ASSUME NEW o \in Otps PROVE Booked(o)'
    <3>1. CASE o \in live
      <4>1. /\ guesses'[o] = guesses[o] + 1 /\ guesses[o] = rows[o].attempts
            /\ rows[o].attempts < rows[o].max /\ ceiling[o] = rows[o].max
            /\ accepted[o] = 0 /\ o \in issued /\ rows[o].attempts \in Nat
            /\ rows[o].max \in Nat
        BY <1>3, <1>4, <1>6, <3>1 DEF Booked, BooksTyped, Row
      <4> QED
        BY <1>1, <1>6, <2>2, <3>1, <4>1 DEF Booked, NoLivelier
    <3>2. CASE o \notin live
      BY <1>1, <1>3, <1>6, <2>3, <3>2 DEF Booked
    <3> QED
      BY <3>1, <3>2
  <2>6. \A o \in Otps : rows'[o] # Null => rows[o] # Null /\ NoLivelier(rows[o], rows'[o])
    <3> SUFFICES ASSUME NEW o \in Otps, rows'[o] # Null
                 PROVE  rows[o] # Null /\ NoLivelier(rows[o], rows'[o])
      OBVIOUS
    <3>1. CASE o \in live
      BY <1>4, <2>2, <3>1
    <3>2. CASE o \notin live
      BY <1>3, <2>3, <3>2 DEF BooksTyped, NoLivelier, Row
    <3> QED
      BY <3>1, <3>2
  <2>7. AtMostOneLive'
    BY <1>1, <1>3, <2>4, <2>6, LiveKept DEF BooksTyped
  <2> QED
    BY <1>2, <2>1, <2>4, <2>5, <2>7 DEF IInv, Books
<1> QED
  BY <1>5, <1>6 DEF ValidateOTP, live, right

(* One row is revoked or removed. *)
LEMMA CloseOne ==
    ASSUME IInv, NEW c \in Clients, NEW o \in Otps, rows[o] # Null,
           Answer(c, "ok"), UNCHANGED <<now, sweep, faults, history>>,
           \/ rows' = [rows EXCEPT ![o] = Null]
           \/ \E ts \in Nat : rows' = [rows EXCEPT ![o].revoked = ts]
    PROVE  IInv'
<1>1. /\ rows \in [Otps -> Row \cup {Null}] /\ rows[o] \in Row /\ now \in Nat
      /\ \A p \in Otps \ {o} : rows'[p] = rows[p]
  BY DEF IInv, Books, BooksTyped, Requests
<1>2. rows'[o] \in Row \cup {Null} /\ (rows'[o] # Null =>
        /\ NoLivelier(rows[o], rows'[o])
        /\ rows'[o].attempts = rows[o].attempts /\ rows'[o].consumed = rows[o].consumed)
  <2>1. CASE rows' = [rows EXCEPT ![o] = Null]
    BY <1>1, <2>1
  <2>2. ASSUME NEW ts \in Nat, rows' = [rows EXCEPT ![o].revoked = ts]
        PROVE  /\ rows'[o] \in Row
               /\ NoLivelier(rows[o], rows'[o])
               /\ rows'[o].attempts = rows[o].attempts
               /\ rows'[o].consumed = rows[o].consumed
    <3>1. rows'[o] = [rows[o] EXCEPT !.revoked = ts]
      BY <1>1, <2>2
    <3> QED
      BY <1>1, <3>1, NullAssumption DEF Row, NoLivelier
  <2> QED
    BY <2>1, <2>2
<1>3. ASSUME NEW p \in Otps, rows'[p] # Null
      PROVE  /\ rows[p] # Null /\ NoLivelier(rows[p], rows'[p])
             /\ rows'[p].attempts = rows[p].attempts /\ rows'[p].consumed = rows[p].consumed
  <2>1. CASE p = o
    BY <1>2, <1>3, <2>1
  <2>2. CASE p # o
    BY <1>1, <1>3, <2>2 DEF NoLivelier, Row
  <2> QED
    BY <2>1, <2>2
<1>4. rows' \in [Otps -> Row \cup {Null}]
  BY <1>1, <1>2
<1>5. Books'
  BY <1>1, <1>3, <1>4, BooksClose DEF IInv
<1>6. Requests'
  <2>1. "ok" \in Answers
    BY DEF Answers
  <2> QED
    BY <2>1, AnswerStep DEF IInv, history
<1> QED
  BY <1>5, <1>6 DEF IInv, Rest

(* A request that is answered and changes nothing. *)
LEMMA AnswerOnly ==
    ASSUME IInv, NEW c \in Clients, NEW a \in Answers, Answer(c, a),
           UNCHANGED <<now, rows, sweep, history>>, faults' \in Nat
    PROVE  IInv'
<1>1. Requests'
  BY AnswerStep DEF IInv, history
<1>2. Books'
  BY BooksKept DEF IInv
<1> QED
  BY <1>1, <1>2 DEF IInv, Rest

LEMMA RevokeOTPStep ==
    ASSUME IInv, NEW c \in Clients, RevokeOTP(c)
    PROVE  IInv'
<1> DEFINE r == req[c]
<1>1. /\ Executing(c, "revoke") /\ Holds(c) /\ r.ts \in Nat /\ r \in Request /\ r.env \in Envs
      /\ req \in [Clients -> Request]
      /\ UNCHANGED <<now, sweep, faults, history>> /\ r.otp \in Otps
  BY ExecutingHolds DEF RevokeOTP, Executing, Holds, IInv, Requests
<1>2. CASE Revocable(rows[r.otp], r.env) /\ rows' = [rows EXCEPT ![r.otp].revoked = r.ts]
           /\ Answer(c, "ok")
  BY <1>1, <1>2, CloseOne DEF Revocable, InEnv
<1>3. CASE req' = [req EXCEPT ![c].pc = "readback", ![c].ts = Null] /\ UNCHANGED rows
  <2> DEFINE new == [r EXCEPT !.pc = "readback", !.ts = Null]
  <2>1. /\ new \in Request /\ new.pc = "readback" /\ new.op = "revoke"
        /\ new.otp = r.otp /\ new.env = r.env
    BY <1>1 DEF Request, Executing
  <2>2. Goes(c, new)
    BY <1>1, <1>3, <2>1 DEF Goes
  <2> HIDE DEF new
  <2>3. Holds(c)'
    BY <1>1, <2>1, <2>2, Gone DEF IInv, Holds, Executing, Ops
  <2>4. Requests'
    BY <1>1, <2>2, <2>3, RequestStep DEF IInv
  <2> QED
    BY <1>1, <1>3, <2>4, BooksKept DEF IInv, Rest
<1> QED
  BY <1>2, <1>3 DEF RevokeOTP

LEMMA DeleteOTPStep ==
    ASSUME IInv, NEW c \in Clients, DeleteOTP(c)
    PROVE  IInv'
<1> DEFINE r == req[c]
<1>1. /\ Executing(c, "delete") /\ r.otp \in Otps
      /\ UNCHANGED <<now, sweep, faults, history>> /\ faults \in Nat
  BY ExecutingHolds DEF DeleteOTP, Executing, Holds, IInv, Rest
<1>2. CASE InEnv(rows[r.otp], r.env) /\ rows' = [rows EXCEPT ![r.otp] = Null] /\ Answer(c, "ok")
  BY <1>1, <1>2, CloseOne DEF InEnv
<1>3. CASE Answer(c, "not_found") /\ UNCHANGED rows
  <2>1. "not_found" \in Answers
    BY DEF Answers
  <2> QED
    BY <1>1, <1>3, <2>1, AnswerOnly
<1> QED
  BY <1>2, <1>3 DEF DeleteOTP

-----------------------------------------------------------------------------
(* The sweep, the clock and the faults.                                    *)

LEMMA StartSweepStep ==
    ASSUME IInv, StartSweep
    PROVE  IInv'
<1>1. now \in Nat /\ sweep' = [phase |-> "codes", at |-> now, batch |-> 0]
      /\ UNCHANGED <<now, rows, req, faults, history>>
  BY DEF IInv, Requests, StartSweep
<1>2. Requests'
  BY <1>1, RequestsKept DEF IInv, history
<1>3. Books'
  BY <1>1, BooksKept DEF IInv
<1> QED
  BY <1>1, <1>2, <1>3 DEF IInv, Rest

LEMMA DeleteDeadOTPsStep ==
    ASSUME IInv, DeleteDeadOTPs
    PROVE  IInv'
<1>1. PICK D \in Batches({o \in Otps : LongDead(rows[o], sweep.at - OTPRetention)}) :
        /\ rows' = [o \in Otps |-> IF o \in D THEN Null ELSE rows[o]]
        /\ sweep' = IF Drained(D, sweep.batch) THEN NotSweeping
                                              ELSE [sweep EXCEPT !.batch = @ + 1]
        /\ UNCHANGED <<now, req, faults, history>>
  BY DEF DeleteDeadOTPs
<1>2. now \in Nat /\ rows \in [Otps -> Row \cup {Null}]
  BY DEF IInv, Requests, Books, BooksTyped
<1>3. Requests'
  BY <1>1, <1>2, RequestsKept DEF IInv, history
<1>4. rows' \in [Otps -> Row \cup {Null}]
  BY <1>1, <1>2
<1>5. ASSUME NEW o \in Otps, rows'[o] # Null
      PROVE  /\ rows[o] # Null /\ NoLivelier(rows[o], rows'[o])
             /\ rows'[o].attempts = rows[o].attempts /\ rows'[o].consumed = rows[o].consumed
  BY <1>1, <1>2, <1>5 DEF NoLivelier, Row
<1>6. Books'
  BY <1>1, <1>2, <1>4, <1>5, BooksClose DEF IInv
<1>7. Rest'
  <2>1. Rest
    BY DEF IInv
  <2>2. CASE sweep' = NotSweeping
    BY <1>1, <2>1, <2>2 DEF Rest, NotSweeping
  <2>3. CASE sweep' = [sweep EXCEPT !.batch = @ + 1]
    BY <1>1, <2>1, <2>3 DEF Rest
  <2> QED
    BY <1>1, <2>2, <2>3
<1> QED
  BY <1>3, <1>6, <1>7 DEF IInv

LEMMA FaultStep ==
    ASSUME IInv, DrainError \/ Crash
    PROVE  IInv'
<1>1. /\ UNCHANGED <<now, rows, history>> /\ sweep' = NotSweeping /\ faults' = faults + 1
      /\ UNCHANGED req \/ req' = [c \in Clients |-> Idle]
      /\ now \in Nat /\ faults \in Nat
  BY DEF DrainError, Crash, IInv, Requests, Rest
<1>2. Requests'
  BY <1>1, RequestsKept DEF IInv, history
<1>3. Books'
  BY <1>1, BooksKept DEF IInv
<1> QED
  BY <1>1, <1>2, <1>3 DEF IInv, Rest, NotSweeping

LEMMA TickStep ==
    ASSUME IInv, Tick
    PROVE  IInv'
<1>1. now \in Nat /\ now' = now + 1 /\ UNCHANGED <<rows, req, sweep, faults, history>>
  BY DEF Tick, IInv, Requests
<1>2. Requests'
  BY <1>1, RequestsKept DEF IInv, history
<1>3. Books'
  BY <1>1, BooksLater DEF IInv
<1>4. Rest'
  BY <1>1 DEF IInv, Rest
<1> QED
  BY <1>2, <1>3, <1>4 DEF IInv

LEMMA StutterStep ==
    ASSUME IInv, UNCHANGED vars
    PROVE  IInv'
<1>1. UNCHANGED <<now, rows, req, sweep, faults, history>> /\ now \in Nat
  BY DEF vars, history, IInv, Requests
<1>2. Requests'
  BY <1>1, RequestsKept DEF IInv, history
<1> QED
  BY <1>1, <1>2, BooksKept DEF IInv, Rest

LEMMA ArriveStep ==
    ASSUME IInv, NEW c \in Clients, Arrive(c)
    PROVE  IInv'
<1>1. UNCHANGED <<now, rows, sweep, faults, history>>
  <2>1. \E r : Queue(c, r)
    BY DEF Arrive, GenerateRequest, ValidateRequest, RevokeRequest, DeleteRequest
  <2> QED
    BY <2>1 DEF Queue
<1>2. Requests'
  BY GenerateRequestStep, OtherRequestStep DEF Arrive, IInv, Books, BooksTyped
<1> QED
  BY <1>1, <1>2, BooksKept DEF IInv, Rest

LEMMA ServeStep ==
    ASSUME IInv, NEW c \in Clients, Serve(c)
    PROVE  IInv'
<1>1. CASE ReadBack(c)
  <2>1. PICK a \in {"ok", "not_found"} : Answer(c, a)
    BY <1>1 DEF ReadBack
  <2> QED
    BY <1>1, <2>1, AnswerOnly DEF ReadBack, Answers, IInv, Rest
<1>2. CASE Reply(c)
  <2>1. Goes(c, Idle) /\ UNCHANGED <<now, rows, sweep, faults, history>>
    BY <1>2, IdleIsRequest DEF Reply, Goes
  <2>2. Requests'
    BY <2>1, IdleIsRequest, DoneStep DEF IInv, history
  <2> QED
    BY <2>1, <2>2, BooksKept DEF IInv, Rest
<1> QED
  BY <1>1, <1>2, GenerateOTPStep, ValidateOTPStep, RevokeOTPStep, DeleteOTPStep DEF Serve

LEMMA FailStep ==
    ASSUME IInv, NEW c \in Clients, Fail(c)
    PROVE  IInv'
  BY AnswerOnly DEF Fail, Answers, IInv, Rest

LEMMA NextIInv == IInv /\ [Next]_vars => IInv'
  BY ArriveStep, ServeStep, FailStep, StartSweepStep, DeleteDeadOTPsStep, FaultStep, TickStep,
     StutterStep DEF Next

LEMMA Invariance == Spec => []IInv
<1> QED
  BY InitIInv, NextIInv, PTL DEF Spec

(***************************************************************************)
(* Every variable keeps its type: what GenerateOTP and the UPDATEs store   *)
(* are rows, with counts that are never negative.                          *)
(***************************************************************************)
THEOREM TypeCorrect == Spec => []TypeOK
<1>1. IInv => TypeOK
  BY DEF IInv, Requests, Books, BooksTyped, Rest, TypeOK
<1> QED
  BY <1>1, Invariance, PTL

(***************************************************************************)
(* GenerateOTP (db/otps.go:59-114): at most one code is live for an        *)
(* environment, a type and an identifier, however many requests race.      *)
(***************************************************************************)
THEOREM OneLive == Spec => []AtMostOneLive
<1>1. IInv => AtMostOneLive
  BY DEF IInv, Books
<1> QED
  BY <1>1, Invariance, PTL

(***************************************************************************)
(* ValidateOTP (db/otps.go:144-195): no code is guessed at more often than *)
(* its ceiling allows.                                                     *)
(***************************************************************************)
THEOREM CeilingNeverPassed == Spec => []CeilingHolds
<1>1. IInv => CeilingHolds
  BY DEF IInv, Books, Booked, CeilingHolds
<1> QED
  BY <1>1, Invariance, PTL
=============================================================================
