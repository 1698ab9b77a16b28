--------------------------- MODULE OTPsLedgerProofs ---------------------------
(***************************************************************************)
(* What a step of OTPs may do to the codes, for every instance: it keeps   *)
(* the promise of OTPLedger, it never moves a code's status back, a        *)
(* validation touches only its own subject, the sweep nothing active.      *)
(***************************************************************************)
EXTENDS OTPsProofs

(***************************************************************************)
(* The ways a step changes the table.                                      *)
(***************************************************************************)
Issues(c, o, k) ==
    /\ Executing(c, "generate")
    /\ LiveFor(req[c]) = {}
    /\ o \notin issued
    /\ rows' = [rows EXCEPT ![o] = NewRow(req[c], k)]
    /\ issued' = issued \cup {o}
    /\ ceiling' = [ceiling EXCEPT ![o] = req[c].max]
    /\ UNCHANGED <<now, guesses, accepted>>

Accepts(c) ==
    /\ Executing(c, "validate")
    /\ rows' = [o \in Otps |-> IF o \in Right(req[c])
                              THEN [rows[o] EXCEPT !.consumed = req[c].ts] ELSE rows[o]]
    /\ accepted' = [o \in Otps |-> accepted[o] + (IF o \in Right(req[c]) THEN 1 ELSE 0)]
    /\ UNCHANGED <<now, issued, ceiling, guesses>>

Charges(c) ==
    /\ Executing(c, "validate")
    /\ rows' = [o \in Otps |-> IF o \in LiveFor(req[c]) THEN Charged(rows[o]) ELSE rows[o]]
    /\ guesses' = [o \in Otps |-> guesses[o] + (IF o \in Guessed(req[c]) THEN 1 ELSE 0)]
    /\ UNCHANGED <<now, issued, ceiling, accepted>>

Revokes(c) ==
    /\ Executing(c, "revoke")
    /\ req[c].otp \in Otps /\ req[c].ts \in Nat
    /\ rows[req[c].otp] # Null
    /\ rows' = [rows EXCEPT ![req[c].otp].revoked = req[c].ts]
    /\ UNCHANGED <<now, history>>

Removes(S) ==
    /\ S \subseteq {o \in Otps : rows[o] # Null}
    /\ rows' = [o \in Otps |-> IF o \in S THEN Null ELSE rows[o]]
    /\ UNCHANGED <<now, history>>

Sweeps == DeleteDeadOTPs /\ \E S \in SUBSET Otps : Removes(S)

LEMMA RowsStep ==
    ASSUME IInv, [Next]_vars
    PROVE  \/ \E c \in Clients, o \in Otps, k \in Digits : Issues(c, o, k)
           \/ \E c \in Clients : Accepts(c) \/ Charges(c) \/ Revokes(c)
           \/ \E c \in Clients : DeleteOTP(c) /\ Removes({req[c].otp})
           \/ Sweeps
           \/ UNCHANGED <<rows, history>> /\ now' \in {now, now + 1}
<1>1. rows \in [Otps -> Row \cup {Null}] /\ now \in Nat
  BY DEF IInv, Books, BooksTyped, Requests
<1>2. ASSUME NEW c \in Clients, GenerateOTP(c)
      PROVE  (\E o \in Otps, k \in Digits : Issues(c, o, k)) \/ UNCHANGED <<now, rows, history>>
  BY <1>2 DEF GenerateOTP, Issues, history
<1>3. ASSUME NEW c \in Clients, ValidateOTP(c) PROVE Accepts(c) \/ Charges(c)
  BY <1>3 DEF ValidateOTP, Accepts, Charges
<1>4. ASSUME NEW c \in Clients, RevokeOTP(c)
      PROVE  Revokes(c) \/ UNCHANGED <<now, rows, history>>
  <2>1. req[c].otp \in Otps /\ req[c].ts \in Nat
    BY <1>4, ExecutingHolds DEF RevokeOTP, Executing, Holds
  <2> QED
    BY <1>4, <2>1 DEF RevokeOTP, Revokes, Revocable, InEnv
<1>5. ASSUME NEW c \in Clients, DeleteOTP(c)
      PROVE  Removes({req[c].otp}) \/ UNCHANGED <<now, rows, history>>
  <2>1. req[c].otp \in Otps
    BY <1>5, ExecutingHolds DEF DeleteOTP, Executing, Holds
  <2> QED
    BY <1>1, <1>5, <2>1 DEF DeleteOTP, Removes, InEnv
<1>6. ASSUME DeleteDeadOTPs PROVE Sweeps
  <2>1. PICK D \in Batches({o \in Otps : LongDead(rows[o], sweep.at - OTPRetention)}) :
          /\ rows' = [o \in Otps |-> IF o \in D THEN Null ELSE rows[o]]
          /\ UNCHANGED <<now, req, faults, history>>
    BY <1>6 DEF DeleteDeadOTPs
  <2>2. D \subseteq {o \in Otps : LongDead(rows[o], sweep.at - OTPRetention)}
    BY DEF Batches
  <2> QED
    BY <1>6, <2>1, <2>2 DEF Sweeps, Removes, LongDead
<1>7. ASSUME NEW c \in Clients, Arrive(c) PROVE UNCHANGED <<now, rows, history>>
  <2>1. \E r : Queue(c, r)
    BY <1>7 DEF Arrive, GenerateRequest, ValidateRequest, RevokeRequest, DeleteRequest
  <2> QED
    BY <2>1 DEF Queue
<1>8. ASSUME NEW c \in Clients, ReadBack(c) \/ Reply(c) \/ Fail(c)
      PROVE  UNCHANGED <<now, rows, history>>
  BY <1>8 DEF ReadBack, Reply, Fail
<1>9. StartSweep \/ DrainError \/ Crash \/ UNCHANGED vars => UNCHANGED <<now, rows, history>>
  BY DEF StartSweep, DrainError, Crash, vars, history
<1>10. Tick => UNCHANGED <<rows, history>> /\ now' = now + 1
  BY DEF Tick
<1> QED
  BY <1>2, <1>3, <1>4, <1>5, <1>6, <1>7, <1>8, <1>9, <1>10 DEF Next, Serve

-----------------------------------------------------------------------------
(* The refinement. *)

LEMMA Typed ==
    ASSUME IInv
    PROVE  BooksTyped /\ \A o \in Otps : Booked(o)
  BY DEF IInv, Books

(* A code a validation finds live is open in the ledger. *)
LEMMA LiveIsOpen ==
    ASSUME IInv, NEW c \in Clients, Executing(c, "validate")
    PROVE  LiveFor(req[c]) \subseteq Ledger!Open
<1> SUFFICES ASSUME NEW o \in LiveFor(req[c]) PROVE o \in Ledger!Open
  OBVIOUS
<1>1. /\ o \in Otps /\ rows[o] # Null
      /\ rows[o].consumed = Null /\ rows[o].revoked = Null /\ rows[o].attempts < rows[o].max
  BY LiveForTyped
<1>2. o \in issued /\ rows[o].attempts = guesses[o] /\ rows[o].max = ceiling[o] /\ accepted[o] = 0
  BY <1>1, Typed DEF Booked
<1> QED
  BY <1>1, <1>2 DEF Ledger!Open, Closed

LEMMA IssueMaps ==
    ASSUME IInv, NEW c \in Clients, NEW o \in Otps, NEW k \in Digits, Issues(c, o, k)
    PROVE  Ledger!Next
<1> DEFINE row == NewRow(req[c], k)
<1>1. /\ o \in Otps \ issued /\ row # Null /\ row.revoked = Null /\ req[c].max \in Ceilings
  BY NewRowTyped DEF Issues
<1>2. rows' = [rows EXCEPT ![o] = row] /\ issued' = issued \cup {o}
  BY DEF Issues
<1> HIDE DEF row
<1>3. Closed' = Closed
  BY <1>1, <1>2, Typed DEF BooksTyped, Closed
<1> QED
  BY <1>1, <1>3 DEF Issues, Ledger!Next, Ledger!Issue

LEMMA AcceptMaps ==
    ASSUME IInv, NEW c \in Clients, Accepts(c)
    PROVE  Ledger!Next
<1> DEFINE S == Right(req[c])
<1>1. Executing(c, "validate") /\ S \subseteq Ledger!Open /\ S \subseteq Otps
      /\ S \subseteq LiveFor(req[c])
  BY LiveForTyped, LiveIsOpen DEF Accepts
<1>2. ASSUME NEW o \in S PROVE accepted[o] = 0 /\ rows[o] \in Row
  BY <1>1, <1>2, LiveForTyped DEF Ledger!Open
<1>3. accepted' = [o \in Otps |-> IF o \in S THEN 1 ELSE accepted[o]]
  BY <1>1, <1>2, Typed DEF Accepts, BooksTyped
<1>4. Closed' = Closed
  <2>1. ASSUME NEW o \in Otps
        PROVE  (rows'[o] = Null \/ rows'[o].revoked # Null)
                 <=> (rows[o] = Null \/ rows[o].revoked # Null)
    <3>1. CASE o \in S
      <4>1. rows'[o] = [rows[o] EXCEPT !.consumed = req[c].ts] /\ rows[o] # Null
        BY <1>1, <3>1, LiveForTyped DEF Accepts
      <4>2. rows'[o] \in Row
        BY <1>1, <1>2, <3>1, <4>1, ExecutingHolds DEF Row, Executing
      <4> QED
        BY <1>2, <3>1, <4>1, <4>2, RowAssumption DEF Row
    <3>2. CASE o \notin S
      BY <3>2 DEF Accepts
    <3> QED
      BY <3>1, <3>2
  <2> QED
    BY <2>1, Typed DEF Closed, Accepts, BooksTyped
<1> QED
  BY <1>1, <1>3, <1>4 DEF Accepts, Ledger!Next, Ledger!Accept

LEMMA ChargeMaps ==
    ASSUME IInv, NEW c \in Clients, Charges(c)
    PROVE  Ledger!Next
<1> DEFINE S == LiveFor(req[c])
<1>1. Executing(c, "validate") /\ S \subseteq Ledger!Open /\ S \subseteq Otps /\ Guessed(req[c]) = S
  BY LiveForTyped, LiveIsOpen DEF Charges
<1>2. ASSUME NEW o \in S PROVE rows[o] \in Row /\ rows[o] # Null
  BY <1>1, <1>2, LiveForTyped
<1>3. guesses' = [o \in Otps |-> IF o \in S THEN guesses[o] + 1 ELSE guesses[o]]
  BY <1>1, Typed DEF Charges, BooksTyped
<1>4. Closed' = Closed
  <2>1. ASSUME NEW o \in Otps
        PROVE  (rows'[o] = Null \/ rows'[o].revoked # Null)
                 <=> (rows[o] = Null \/ rows[o].revoked # Null)
    <3>1. CASE o \in S
      <4>1. rows'[o] = [rows[o] EXCEPT !.attempts = @ + 1]
        BY <1>1, <3>1 DEF Charges, Charged
      <4>2. rows'[o] \in Row
        BY <1>2, <3>1, <4>1 DEF Row
      <4> QED
        BY <1>2, <3>1, <4>1, <4>2, RowAssumption DEF Row
    <3>2. CASE o \notin S
      BY <3>2 DEF Charges
    <3> QED
      BY <3>1, <3>2
  <2> QED
    BY <2>1, Typed DEF Closed, Charges, BooksTyped
<1> QED
  BY <1>1, <1>3, <1>4 DEF Charges, Ledger!Next, Ledger!Guess

LEMMA RevokeMaps ==
    ASSUME IInv, NEW c \in Clients, Revokes(c)
    PROVE  Ledger!Next
<1> DEFINE o == req[c].otp
<1>1. /\ o \in Otps /\ rows[o] \in Row /\ rows[o] # Null /\ o \in issued /\ req[c].ts \in Nat
      /\ rows \in [Otps -> Row \cup {Null}] /\ issued \subseteq Otps
  BY Typed DEF Revokes, BooksTyped, Booked
<1>2. rows'[o] = [rows[o] EXCEPT !.revoked = req[c].ts] /\ rows'[o].revoked = req[c].ts
      /\ \A p \in Otps \ {o} : rows'[p] = rows[p]
  BY <1>1 DEF Revokes, Row
<1>3. Closed' = Closed \cup {o}
  BY <1>1, <1>2, NullAssumption DEF Revokes, Closed, history
<1> QED
  BY <1>1, <1>3 DEF Revokes, history, Ledger!Next, Ledger!Close

LEMMA RemoveMaps ==
    ASSUME IInv, NEW S, Removes(S)
    PROVE  Ledger!Next
<1>1. S \subseteq issued /\ S \in SUBSET Otps /\ issued \subseteq Otps
  BY Typed DEF Removes, Booked, BooksTyped
<1>2. Closed' = Closed \cup S
  BY <1>1 DEF Removes, Closed, history
<1> QED
  BY <1>1, <1>2 DEF Removes, history, Ledger!Next, Ledger!Close

(***************************************************************************)
(* GenerateOTP, ValidateOTP, RevokeOTP, DeleteOTP and the clean-up keep    *)
(* the promise of OTPLedger: a code is accepted once, never after its      *)
(* ceiling was reached, never once it is revoked or gone.                  *)
(***************************************************************************)
THEOREM Refinement == Spec => KeepsLedger
<1>1. Init => Ledger!Init
  BY DEF Init, Ledger!Init, Closed
<1>2. IInv /\ [Next]_vars => [Ledger!Next]_Ledger!vars
  <2> SUFFICES ASSUME IInv, [Next]_vars, ~ Ledger!Next PROVE UNCHANGED Ledger!vars
    OBVIOUS
  <2>1. UNCHANGED <<rows, history>>
    BY RowsStep, IssueMaps, AcceptMaps, ChargeMaps, RevokeMaps, RemoveMaps DEF Sweeps
  <2> QED
    BY <2>1 DEF Ledger!vars, history, Closed
<1> QED
  BY <1>1, <1>2, Invariance, PTL DEF Spec, KeepsLedger, Ledger!Spec

-----------------------------------------------------------------------------
(* The order of the statuses.                                              *)

LEMMA Ranks ==
    /\ Rank["active"] = 0 /\ Rank["locked"] = 1 /\ Rank["expired"] = 2
    /\ Rank["consumed"] = 3 /\ Rank["revoked"] = 4
  BY DEF Rank, Statuses

(* A row that is nowhere livelier and not younger has a status no earlier. *)
LEMMA StatusForward ==
    ASSUME NEW old \in Row, NEW new \in Row, NoLivelier(old, new),
           NEW ts \in Nat, NEW later \in Nat, ts <= later
    PROVE  Rank[StatusOf(old, ts)] <= Rank[StatusOf(new, later)]
  BY Ranks, NullAssumption DEF Row, NoLivelier, StatusOf

LEMMA NeverLivelier ==
    ASSUME IInv, [Next]_vars, NEW o \in Otps, rows[o] # Null, rows'[o] # Null
    PROVE  rows[o] \in Row /\ rows'[o] \in Row /\ NoLivelier(rows[o], rows'[o])
<1>1. rows[o] \in Row /\ rows'[o] \in Row
  BY NextIInv DEF IInv, Books, BooksTyped
<1>2. CASE rows'[o] = rows[o]
  BY <1>1, <1>2 DEF Row, NoLivelier
<1>3. ASSUME NEW c \in Clients, NEW x \in Otps, NEW k \in Digits, Issues(c, x, k)
      PROVE  rows'[o] = rows[o]
  BY <1>3, Typed DEF Issues, BooksTyped, Booked
<1>4. ASSUME NEW c \in Clients, Accepts(c), rows'[o] # rows[o]
      PROVE  NoLivelier(rows[o], rows'[o])
  <2>1. rows'[o] = [rows[o] EXCEPT !.consumed = req[c].ts] /\ req[c].ts \in Nat
    BY <1>4, ExecutingHolds DEF Accepts, Executing
  <2> QED
    BY <1>1, <2>1, NullAssumption DEF Row, NoLivelier
<1>5. ASSUME NEW c \in Clients, Charges(c), rows'[o] # rows[o]
      PROVE  NoLivelier(rows[o], rows'[o])
  <2>1. rows'[o] = [rows[o] EXCEPT !.attempts = @ + 1]
    BY <1>5 DEF Charges, Charged
  <2> QED
    BY <1>1, <2>1 DEF Row, NoLivelier
<1>6. ASSUME NEW c \in Clients, Revokes(c), rows'[o] # rows[o]
      PROVE  NoLivelier(rows[o], rows'[o])
  <2>1. rows'[o] = [rows[o] EXCEPT !.revoked = req[c].ts] /\ req[c].ts \in Nat
    BY <1>6, Typed DEF Revokes, BooksTyped
  <2> QED
    BY <1>1, <2>1, NullAssumption DEF Row, NoLivelier
<1>7. ASSUME NEW S, Removes(S) PROVE rows'[o] = rows[o]
  BY <1>7 DEF Removes
<1> QED
  BY <1>1, <1>2, <1>3, <1>4, <1>5, <1>6, <1>7, RowsStep DEF Sweeps

StatusKept ==
    \A o \in Otps : rows[o] # Null /\ rows'[o] # Null =>
        Rank[StatusOf(rows[o], now)] <= Rank[StatusOf(rows'[o], now')]

(* otp.StatusOf over time: no step of any operation moves a status back.   *)
THEOREM StatusNeverBack == Spec => StatusMovesForward
<1>1. IInv /\ [Next]_vars => [StatusKept]_vars
  <2> SUFFICES ASSUME IInv, [Next]_vars, NEW o \in Otps, rows[o] # Null, rows'[o] # Null
               PROVE  Rank[StatusOf(rows[o], now)] <= Rank[StatusOf(rows'[o], now')]
    BY DEF StatusKept
  <2>1. now \in Nat /\ now' \in Nat /\ now <= now'
    <3>1. now' \in {now, now + 1}
      BY RowsStep DEF Issues, Accepts, Charges, Revokes, Removes, Sweeps
    <3> QED
      BY <3>1 DEF IInv, Requests
  <2> QED
    BY <2>1, NeverLivelier, StatusForward
<1> QED
  BY <1>1, Invariance, PTL DEF Spec, StatusMovesForward, StatusKept

-----------------------------------------------------------------------------
(* What a validation, and what the sweep, may touch.                       *)

OwnSubject ==
    \A c \in Clients : Executing(c, "validate") /\ ~ Executing(c, "validate")' =>
        \A o \in Otps : rows'[o] # rows[o] =>
            rows[o].env = req[c].env /\ rows[o].subject = req[c].subject

(* A request is moved on by its own steps, or lost in a crash. *)
LEMMA OwnSteps ==
    ASSUME IInv, Next, NEW c \in Clients, Executing(c, "validate"), ~ Executing(c, "validate")'
    PROVE  ValidateOTP(c) \/ UNCHANGED rows
<1>1. req \in [Clients -> Request]
  BY DEF IInv, Requests
<1>2. ASSUME NEW d \in Clients, NEW a, NEW o, Handed(d, a, o) PROVE d = c
  BY <1>1, <1>2 DEF Handed, Executing
<1>3. ASSUME NEW d \in Clients, Arrive(d) PROVE UNCHANGED rows
  <2>1. \E r : Queue(d, r)
    BY <1>3 DEF Arrive, GenerateRequest, ValidateRequest, RevokeRequest, DeleteRequest
  <2> QED
    BY <2>1 DEF Queue
<1>4. ASSUME NEW d \in Clients, ReadBack(d) \/ Reply(d) \/ Fail(d) PROVE UNCHANGED rows
  BY <1>4 DEF ReadBack, Reply, Fail
<1>5. ASSUME NEW d \in Clients, ValidateOTP(d) PROVE d = c
  BY <1>2, <1>5 DEF ValidateOTP, Answer
<1>6. ASSUME NEW d \in Clients, GenerateOTP(d) PROVE UNCHANGED rows
  BY <1>2, <1>6 DEF GenerateOTP, Executing
<1>7. ASSUME NEW d \in Clients, RevokeOTP(d) \/ DeleteOTP(d) PROVE UNCHANGED rows
  BY <1>2, <1>7 DEF RevokeOTP, DeleteOTP, Executing, Answer
<1>8. DeleteDeadOTPs => UNCHANGED req
  BY DEF DeleteDeadOTPs
<1>9. StartSweep \/ DrainError \/ Crash \/ Tick => UNCHANGED rows
  BY DEF StartSweep, DrainError, Crash, Tick
<1> QED
  BY <1>3, <1>4, <1>5, <1>6, <1>7, <1>8, <1>9 DEF Next, Serve, Executing

(***************************************************************************)
(* ValidateOTP (db/otps.go:144-195): a guess accepts and charges only      *)
(* codes of its own environment, type and identifier.                      *)
(***************************************************************************)
THEOREM OthersUntouched == Spec => OwnSubjectOnly
<1>1. IInv /\ [Next]_vars => [OwnSubject]_vars
  <2> SUFFICES ASSUME IInv, Next, NEW c \in Clients,
                      Executing(c, "validate"), ~ Executing(c, "validate")',
                      NEW o \in Otps, rows'[o] # rows[o]
               PROVE  rows[o].env = req[c].env /\ rows[o].subject = req[c].subject
    BY DEF OwnSubject, vars, Executing
  <2>1. ValidateOTP(c)
    BY OwnSteps
  <2>2. o \in LiveFor(req[c])
    <3>1. \A d \in Otps : d \notin Right(req[c]) => rows'[d] = rows[d]
            \/ d \in LiveFor(req[c])
      BY <2>1 DEF ValidateOTP
    <3> QED
      BY <3>1, LiveForTyped
  <2> QED
    BY <2>2, LiveForTyped
<1> QED
  BY <1>1, Invariance, PTL DEF Spec, OwnSubjectOnly, OwnSubject

SparesActive ==
    \A o \in Otps : rows[o] # Null /\ rows'[o] = Null /\ UNCHANGED req =>
        StatusOf(rows[o], now) # "active"

LEMMA LongDeadNotActive ==
    ASSUME NEW row \in Row, NEW at \in Nat, NEW ts \in Nat, at <= ts,
           LongDead(row, at - OTPRetention)
    PROVE  StatusOf(row, ts) # "active"
  BY NullAssumption, OTPsAssumption DEF Row, LongDead, StatusOf, OTPsAssumption

(***************************************************************************)
(* DeleteDeadOTPs (db/otps.go:431-444): the clean-up never removes a code  *)
(* that could still be accepted.                                           *)
(***************************************************************************)
THEOREM SweepSparesActive == Spec => CleanUpSparesActive
<1>1. IInv /\ [Next]_vars => [SparesActive]_vars
  <2> SUFFICES ASSUME IInv, [Next]_vars, NEW o \in Otps,
                      rows[o] # Null, rows'[o] = Null, UNCHANGED req
               PROVE  StatusOf(rows[o], now) # "active"
    BY DEF SparesActive
  <2>1. rows[o] \in Row /\ now \in Nat /\ rows' \in [Otps -> Row \cup {Null}] /\ o \in issued
    BY NextIInv, Typed DEF IInv, Requests, Books, BooksTyped, Booked
  <2>2. ASSUME NEW c \in Clients, DeleteOTP(c) PROVE FALSE
    <3>1. \E a : Answer(c, a)
      BY <2>2 DEF DeleteOTP
    <3> QED
      BY <2>2, <3>1 DEF DeleteOTP, Answer, Handed, Executing, Idle, IInv, Requests
  <2>3. ASSUME NEW c \in Clients, NEW x \in Otps, NEW k \in Digits, Issues(c, x, k) PROVE FALSE
    BY <2>1, <2>3, Typed DEF Issues, BooksTyped
  <2>4. ASSUME NEW c \in Clients, Accepts(c) PROVE FALSE
    <3>1. rows'[o] = [rows[o] EXCEPT !.consumed = req[c].ts] /\ req[c].ts \in Nat
      BY <2>1, <2>4, ExecutingHolds DEF Accepts, Executing
    <3>2. rows'[o] \in Row
      BY <2>1, <3>1 DEF Row
    <3> QED
      BY <3>2, RowAssumption
  <2>5. ASSUME NEW c \in Clients, Charges(c) PROVE FALSE
    <3>1. rows'[o] = [rows[o] EXCEPT !.attempts = @ + 1]
      BY <2>1, <2>5 DEF Charges, Charged
    <3>2. rows'[o] \in Row
      BY <2>1, <3>1 DEF Row
    <3> QED
      BY <3>2, RowAssumption
  <2>6. ASSUME NEW c \in Clients, Revokes(c) PROVE FALSE
    <3>1. rows'[o] = [rows[o] EXCEPT !.revoked = req[c].ts] /\ req[c].ts \in Nat
      BY <2>1, <2>6, Typed DEF Revokes, BooksTyped
    <3>2. rows'[o] \in Row
      BY <2>1, <3>1 DEF Row
    <3> QED
      BY <3>2, RowAssumption
  <2>7. DeleteDeadOTPs
    BY <2>2, <2>3, <2>4, <2>5, <2>6, RowsStep DEF Sweeps
  <2>8. PICK D \in Batches({x \in Otps : LongDead(rows[x], sweep.at - OTPRetention)}) :
          rows' = [x \in Otps |-> IF x \in D THEN Null ELSE rows[x]]
    BY <2>7 DEF DeleteDeadOTPs
  <2>9. LongDead(rows[o], sweep.at - OTPRetention)
    BY <2>1, <2>8, RowAssumption DEF Batches
  <2>10. sweep.at \in Nat /\ sweep.at <= now
    BY <2>7 DEF DeleteDeadOTPs, IInv, Rest
  <2> QED
    BY <2>1, <2>9, <2>10, LongDeadNotActive
<1> QED
  BY <1>1, Invariance, PTL DEF Spec, CleanUpSparesActive, SparesActive

-----------------------------------------------------------------------------
(* Which code a caller is handed.                                          *)

Unused(row) == row.consumed = Null /\ row.revoked = Null /\ row.attempts < row.max

SamePair(a, b) == a.env = b.env /\ a.subject = b.subject

(***************************************************************************)
(* The lifetimes of the unused codes of an environment, a type and an      *)
(* identifier do not overlap, expired ones included: what is live for a    *)
(* caller, however old the time it read, is told apart by created_at,      *)
(* except for the codes that had expired when they were created.           *)
(***************************************************************************)
Spans ==
    /\ \A o \in Otps : rows[o] # Null => rows[o].created <= now
    /\ \A o, p \in Otps :
          /\ o # p /\ rows[o] # Null /\ rows[p] # Null
          /\ SamePair(rows[o], rows[p]) /\ Unused(rows[o]) /\ Unused(rows[p])
          => rows[o].expires <= rows[p].created \/ rows[p].expires <= rows[o].created

LEMMA SpansKept ==
    ASSUME IInv, Spans, now' \in Nat, now <= now', rows' \in [Otps -> Row \cup {Null}],
           \A o \in Otps : rows'[o] # Null => rows[o] # Null /\ NoLivelier(rows[o], rows'[o])
    PROVE  Spans'
<1>1. now \in Nat /\ rows \in [Otps -> Row \cup {Null}]
  BY DEF IInv, Requests, Books, BooksTyped
<1>2. ASSUME NEW o \in Otps, rows'[o] # Null
      PROVE  /\ rows[o] # Null /\ rows[o] \in Row /\ rows'[o] \in Row
             /\ rows'[o].created = rows[o].created /\ rows'[o].expires = rows[o].expires
             /\ rows'[o].env = rows[o].env /\ rows'[o].subject = rows[o].subject
             /\ Unused(rows'[o]) => Unused(rows[o])
  <2>1. rows[o] \in Row /\ rows'[o] \in Row /\ NoLivelier(rows[o], rows'[o]) /\ rows[o] # Null
    BY <1>1, <1>2
  <2> QED
    BY <2>1 DEF NoLivelier, Unused, Row
<1>3. ASSUME NEW o \in Otps, rows'[o] # Null
      PROVE  rows'[o].created <= now'
  <2>1. rows[o].created \in Nat /\ rows[o].created <= now
    BY <1>2, <1>3 DEF Spans, Row
  <2> QED
    BY <1>1, <1>2, <1>3, <2>1
<1>4. ASSUME NEW o \in Otps, NEW p \in Otps, o # p, rows'[o] # Null, rows'[p] # Null,
             SamePair(rows'[o], rows'[p]), Unused(rows'[o]), Unused(rows'[p])
      PROVE  rows'[o].expires <= rows'[p].created \/ rows'[p].expires <= rows'[o].created
  BY <1>2, <1>4 DEF Spans, SamePair
<1> QED
  BY <1>3, <1>4 DEF Spans

(* A code is issued only when every unused one of its pair has run out by  *)
(* the time the request read, which is the time it is created at.          *)
LEMMA SpansIssue ==
    ASSUME IInv, Spans, NEW c \in Clients, NEW x \in Otps, NEW k \in Digits, Issues(c, x, k)
    PROVE  Spans'
<1> DEFINE row == NewRow(req[c], k)
           ts == req[c].ts
<1>1. /\ row \in Row /\ row.created = ts
      /\ row.env = req[c].env /\ row.subject = req[c].subject
      /\ ts \in Nat /\ ts <= now /\ now' = now
      /\ rows \in [Otps -> Row \cup {Null}]
  BY NewRowTyped, ExecutingHolds DEF IInv, Issues, Executing, Books, BooksTyped
<1>2. rows'[x] = row /\ \A o \in Otps \ {x} : rows'[o] = rows[o]
  BY <1>1 DEF Issues
<1> HIDE DEF row
<1>3. ASSUME NEW o \in Otps \ {x}, rows[o] # Null, SamePair(rows[o], row), Unused(rows[o])
      PROVE  rows[o].expires <= row.created
  <2>1. ~ Live(rows[o], req[c].env, req[c].subject, ts)
    BY DEF Issues, LiveFor
  <2>2. rows[o] \in Row
    BY <1>1, <1>3
  <2>3. ~ (rows[o].expires > ts)
    BY <1>1, <1>3, <2>1 DEF Live, InEnv, SamePair, Unused
  <2> QED
    BY <1>1, <2>2, <2>3 DEF Row
<1> HIDE DEF ts
<1>4. \A o \in Otps : rows'[o] # Null => rows'[o].created <= now'
  BY <1>1, <1>2 DEF Spans
<1>5. ASSUME NEW o \in Otps, NEW p \in Otps, o # p, rows'[o] # Null, rows'[p] # Null,
             SamePair(rows'[o], rows'[p]), Unused(rows'[o]), Unused(rows'[p])
      PROVE  rows'[o].expires <= rows'[p].created \/ rows'[p].expires <= rows'[o].created
  <2>1. CASE o = x
    BY <1>2, <1>3, <1>5, <2>1 DEF SamePair
  <2>2. CASE p = x
    BY <1>2, <1>3, <1>5, <2>2 DEF SamePair
  <2>3. CASE o # x /\ p # x
    BY <1>2, <1>5, <2>3 DEF Spans
  <2> QED
    BY <2>1, <2>2, <2>3
<1> QED
  BY <1>4, <1>5 DEF Spans

LEMMA SpansStep ==
    ASSUME IInv, Spans, [Next]_vars
    PROVE  Spans'
<1>1. CASE \E c \in Clients, x \in Otps, k \in Digits : Issues(c, x, k)
  BY <1>1, SpansIssue
<1>2. CASE ~ \E c \in Clients, x \in Otps, k \in Digits : Issues(c, x, k)
  <2>1. now \in Nat /\ now' \in {now, now + 1}
    BY RowsStep DEF Issues, Accepts, Charges, Revokes, Removes, Sweeps, IInv, Requests
  <2>2. rows \in [Otps -> Row \cup {Null}] /\ rows' \in [Otps -> Row \cup {Null}]
    BY NextIInv DEF IInv, Books, BooksTyped
  <2>3. ASSUME NEW o \in Otps, rows'[o] # Null PROVE rows[o] # Null
    <3>1. ASSUME NEW c \in Clients, Accepts(c) PROVE rows[o] # Null
      BY <2>3, <3>1, LiveForTyped DEF Accepts
    <3>2. ASSUME NEW c \in Clients, Charges(c) PROVE rows[o] # Null
      BY <2>3, <3>2, LiveForTyped DEF Charges
    <3>3. ASSUME NEW c \in Clients, Revokes(c) PROVE rows[o] # Null
      BY <2>2, <2>3, <3>3 DEF Revokes
    <3>4. ASSUME NEW S, Removes(S) PROVE rows[o] # Null
      BY <2>3, <3>4 DEF Removes
    <3> QED
      BY <1>2, <2>3, <3>1, <3>2, <3>3, <3>4, RowsStep DEF Sweeps
  <2>4. \A o \in Otps : rows'[o] # Null => rows[o] # Null /\ NoLivelier(rows[o], rows'[o])
    BY <2>3, NeverLivelier
  <2> QED
    BY <2>1, <2>2, <2>4, SpansKept
<1> QED
  BY <1>1, <1>2

(* A code that is active now is the newest of those live for a caller,     *)
(* unless the newest had expired when it was created.                      *)
LEMMA NewestIsActive ==
    ASSUME IInv, Spans, NEW c \in Clients, Executing(c, "generate"),
           NEW o \in Newest(LiveFor(req[c])), rows[o].created < rows[o].expires,
           NEW p \in Otps, rows[p] # Null, rows[p].env = req[c].env, rows[p].subject = req[c].subject,
           StatusOf(rows[p], now) = "active"
    PROVE  p = o
<1> DEFINE ts == req[c].ts
<1>1. /\ ts \in Nat /\ ts <= now /\ now \in Nat
      /\ rows \in [Otps -> Row \cup {Null}]
  BY ExecutingHolds DEF IInv, Books, BooksTyped, Executing
<1>2. o \in Otps /\ Live(rows[o], req[c].env, req[c].subject, ts)
  BY DEF Newest, LiveFor
<1>3. rows[p] \in Row /\ rows[o] \in Row /\ rows[o] # Null
  BY <1>1, <1>2 DEF Live, InEnv
<1>4. p \in LiveFor(req[c])
  BY <1>1, <1>3, ActiveIsLive DEF LiveFor
<1>5. rows[p].created <= rows[o].created
  BY <1>4 DEF Newest
<1>6. Unused(rows[p]) /\ Unused(rows[o]) /\ rows[p].expires > now /\ SamePair(rows[o], rows[p])
  BY <1>1, <1>2, <1>3 DEF StatusOf, Live, InEnv, Unused, SamePair, Row
<1>7. rows[o].created <= now
  BY <1>2, <1>3 DEF Spans
<1>8. o # p => rows[o].expires <= rows[p].created \/ rows[p].expires <= rows[o].created
  BY <1>2, <1>3, <1>6 DEF Spans
<1> QED
  BY <1>1, <1>3, <1>5, <1>6, <1>7, <1>8 DEF Row

LEMMA ReusedIsLive ==
    ASSUME IInv, Spans, NEW c \in Clients, Executing(c, "generate"),
           NEW o \in Newest(LiveFor(req[c])), req'[c].otp = o, UNCHANGED <<now, rows>>
    PROVE  HandsOver(c)
<1>1. Live(rows[o], req[c].env, req[c].subject, req[c].ts)
  BY DEF Newest, LiveFor
<1> QED
  BY <1>1, NewestIsActive DEF HandsOver, Live, InEnv

LEMMA IssuedIsLive ==
    ASSUME IInv, NEW c \in Clients, NEW x \in Otps, NEW k \in Digits, Issues(c, x, k),
           req'[c].otp = x
    PROVE  HandsOver(c)
<1> DEFINE row == NewRow(req[c], k)
<1>1. /\ row # Null /\ row.env = req[c].env /\ row.subject = req[c].subject
      /\ req[c].ts \in Nat /\ req[c].ts <= now /\ now' = now /\ now \in Nat
      /\ rows \in [Otps -> Row \cup {Null}]
  BY NewRowTyped, ExecutingHolds DEF IInv, Issues, Executing, Books, BooksTyped
<1>2. rows'[x] = row /\ \A o \in Otps \ {x} : rows'[o] = rows[o]
  BY <1>1 DEF Issues
<1>3. ASSUME NEW p \in Otps \ {x}, rows[p] # Null, rows[p].env = req[c].env,
             rows[p].subject = req[c].subject, StatusOf(rows[p], now) = "active"
      PROVE  FALSE
  <2>1. rows[p] \in Row
    BY <1>1, <1>3
  <2>2. Live(rows[p], req[c].env, req[c].subject, req[c].ts)
    BY <1>1, <1>3, <2>1, ActiveIsLive
  <2> QED
    BY <2>2 DEF Issues, LiveFor
<1> HIDE DEF row
<1> QED
  BY <1>1, <1>2, <1>3 DEF HandsOver

(* Only its own transaction answers a request for a code with one. *)
LEMMA OwnGenerate ==
    ASSUME IInv, Next, NEW c \in Clients, Executing(c, "generate"),
           req'[c].pc = "done", req'[c].answer \in {"issued", "reused"}
    PROVE  GenerateOTP(c)
<1>1. req \in [Clients -> Request] /\ req[c].pc = "queued" /\ req[c].op = "generate"
  BY DEF IInv, Requests, Executing
<1>2. ASSUME NEW d \in Clients, NEW a, NEW o, Handed(d, a, o)
      PROVE  d = c /\ req'[c].answer = a
  BY <1>1, <1>2 DEF Handed, Idle
<1>3. ASSUME NEW d \in Clients, Arrive(d) PROVE FALSE
  <2>1. \E r : Queue(d, r)
    BY <1>3 DEF Arrive, GenerateRequest, ValidateRequest, RevokeRequest, DeleteRequest
  <2> QED
    BY <1>1, <2>1 DEF Queue
<1>4. ASSUME NEW d \in Clients, GenerateOTP(d) PROVE d = c
  BY <1>1, <1>2, <1>4 DEF GenerateOTP
<1>5. ASSUME NEW d \in Clients, ValidateOTP(d) \/ RevokeOTP(d) \/ DeleteOTP(d) PROVE FALSE
  BY <1>1, <1>2, <1>5 DEF ValidateOTP, RevokeOTP, DeleteOTP, Executing, Answer
<1>6. ASSUME NEW d \in Clients, ReadBack(d) \/ Reply(d) \/ Fail(d) PROVE FALSE
  BY <1>1, <1>2, <1>6 DEF ReadBack, Reply, Fail, Answer, Idle
<1>7. ~ DeleteDeadOTPs /\ ~ StartSweep /\ ~ DrainError /\ ~ Tick
  BY <1>1 DEF DeleteDeadOTPs, StartSweep, DrainError, Tick
<1>8. ~ Crash
  BY <1>1 DEF Crash, Idle
<1> QED
  BY <1>3, <1>4, <1>5, <1>6, <1>7, <1>8 DEF Next, Serve

(***************************************************************************)
(* GenerateOTP (db/otps.go:59-114): the code a caller is handed, new or    *)
(* reused, is its own, and whatever the request waited for, no other code  *)
(* of its identifier is live when it is handed over: "they must receive    *)
(* the code they were already given".  Only a code that had expired when   *)
(* it was created (the handler fixes the expiry, api/otp.go:120, before    *)
(* the method reads created_at) may come before a live one.                *)
(***************************************************************************)
THEOREM HandsOutTheLive == Spec => HandedTheLive
<1>1. Init => Spans
  BY DEF Init, Spans
<1>2. IInv /\ Spans /\ [Next]_vars => Spans'
  BY SpansStep
<1>3. IInv /\ Spans /\ [Next]_vars =>
        [\A c \in Clients :
            /\ Executing(c, "generate")
            /\ req'[c].pc = "done" /\ req'[c].answer \in {"issued", "reused"}
            => HandsOver(c)]_vars
  <2> SUFFICES ASSUME IInv, Spans, Next, NEW c \in Clients, Executing(c, "generate"),
                      req'[c].pc = "done", req'[c].answer \in {"issued", "reused"}
               PROVE  HandsOver(c)
    OBVIOUS
  <2>1. GenerateOTP(c) /\ req \in [Clients -> Request]
    BY OwnGenerate DEF IInv, Requests
  <2>2. ASSUME NEW o \in Newest(LiveFor(req[c])), Handed(c, "reused", o), UNCHANGED rows
        PROVE  HandsOver(c)
    <3>1. req'[c].otp = o
      BY <2>1, <2>2 DEF Handed, Idle
    <3>2. UNCHANGED <<now, rows>>
      BY <2>1, <2>2 DEF GenerateOTP
    <3> QED
      BY <3>1, <3>2, ReusedIsLive
  <2>3. ASSUME LiveFor(req[c]) = {}, NEW o \in Otps \ issued, NEW k \in Digits,
               rows' = [rows EXCEPT ![o] = NewRow(req[c], k)],
               issued' = issued \cup {o},
               ceiling' = [ceiling EXCEPT ![o] = req[c].max],
               Handed(c, "issued", o)
        PROVE  HandsOver(c)
    <3>1. Issues(c, o, k)
      BY <2>1, <2>3 DEF Issues, GenerateOTP
    <3>2. req'[c].otp = o
      BY <2>1, <2>3 DEF Handed, Idle
    <3> QED
      BY <3>1, <3>2, IssuedIsLive
  <2> QED
    BY <2>1, <2>2, <2>3 DEF GenerateOTP
<1> QED
  BY Invariance, <1>1, <1>2, <1>3, PTL DEF Spec, HandedTheLive
=============================================================================
