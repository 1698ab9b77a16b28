--------------------------- MODULE ListingProofs ----------------------------
(***************************************************************************)
(* Proofs about Limits and Listing: which lifetimes are granted, in a word *)
(* of any size, and what a walk through the pages shows, for any number of *)
(* rows, page sizes and filters.                                           *)
(***************************************************************************)
EXTENDS Listing, FiniteSetTheorems, FunctionTheorems, TLAPS

-----------------------------------------------------------------------------
(* Arithmetic.                                                             *)

(* A number that fits is stored as it is. *)
LEMMA WrapFits ==
    ASSUME NEW x \in 0 .. MaxInt
    PROVE  Wrap(x) = x
<1>1. x + MaxInt + 1 \in 0 .. 2 * (MaxInt + 1) - 1 /\ MaxInt \in Nat
  BY LimitsAssumption DEF LimitsAssumption
<1>2. (x + MaxInt + 1) % (2 * (MaxInt + 1)) = x + MaxInt + 1
  BY <1>1
<1> QED
  BY <1>1, <1>2 DEF Wrap

(* What integer division says of the product. *)
LEMMA Quotient ==
    ASSUME NEW a \in Nat, NEW b \in Nat \ {0}, NEW q \in Nat
    PROVE  /\ a \div b \in Nat
           /\ q <= a \div b <=> q * b <= a
  OBVIOUS

LEMMA Multiple ==
    ASSUME NEW q \in Nat, NEW b \in Nat \ {0}
    PROVE  q * b \in Nat /\ (q * b) \div b = q
  OBVIOUS

-----------------------------------------------------------------------------
(* Limits.                                                                 *)

(* The effective ceiling is positive, never above the absolute one, and    *)
(* never above a configured one that is usable.                            *)
THEOREM CeilingInBounds ==
    ASSUME NEW maxTTL \in Int
    PROVE  /\ Ceiling(NewLimits(maxTTL)) \in 1 .. AbsoluteMaxTTL
           /\ maxTTL > 0 => Ceiling(NewLimits(maxTTL)) <= maxTTL
  BY LimitsAssumption DEF LimitsAssumption, Ceiling, NewLimits

(* limits.go:82-84: for every number of seconds, however absurd, what      *)
(* ValidateTTL grants is the very lifetime that was asked for, positive    *)
(* and under the ceiling; and it refuses nothing that would have been.     *)
THEOREM ValidateTTLExact ==
    ASSUME NEW seconds \in Int64, NEW ceiling \in 1 .. AbsoluteMaxTTL
    PROVE  IF seconds > 0 /\ seconds * Second <= ceiling
           THEN ValidateTTL(seconds, ceiling) = seconds * Second
           ELSE ValidateTTL(seconds, ceiling) = Null
<1>1. /\ Second \in Nat \ {0}
      /\ ceiling \in Nat
      /\ MaxInt \in Nat
      /\ ceiling <= MaxInt
      /\ seconds \in Int
  BY LimitsAssumption DEF LimitsAssumption, Int64
<1>2. CASE seconds > 0 /\ seconds * Second <= ceiling
  <2>1. seconds \in Nat
    BY <1>1, <1>2
  <2>2. seconds <= ceiling \div Second
    BY <1>1, <1>2, <2>1, Quotient
  <2>3. seconds * Second \in 0 .. MaxInt
    BY <1>1, <1>2, <2>1, Multiple
  <2> QED
    BY <1>2, <2>2, WrapFits, <2>3 DEF ValidateTTL
<1>3. CASE ~ (seconds > 0 /\ seconds * Second <= ceiling)
  <2>1. seconds > 0 => ~ (seconds <= ceiling \div Second)
    BY <1>1, <1>3, Quotient
  <2> QED
    BY <1>3, <2>1 DEF ValidateTTL
<1> QED
  BY <1>2, <1>3

(* ttl.go:89-106, "this is conservative": for every number and unit, what  *)
(* Parse grants is n * unit seconds, and it refuses exactly what is not    *)
(* positive, has an unknown unit, or would have been over the ceiling.     *)
THEOREM ParseExact ==
    ASSUME NEW n \in Int64, NEW unit \in Units, NEW ceiling \in 1 .. AbsoluteMaxTTL
    PROVE  IF n > 0 /\ n * unit * Second <= ceiling
           THEN Parse(n, unit, ceiling) = n * unit * Second
           ELSE Parse(n, unit, ceiling) = Null
<1> DEFINE top == ceiling \div Second
<1>1. /\ Second \in Nat \ {0}
      /\ unit \in Nat \ {0}
      /\ ceiling \in Nat
      /\ MaxInt \in Nat
      /\ ceiling <= MaxInt
      /\ n \in Int
  BY LimitsAssumption DEF LimitsAssumption, Int64
<1>2. top \in Nat
  BY <1>1, Quotient
<1>3. ASSUME n > 0
      PROVE  /\ n * unit \in Nat
             /\ n <= top \div unit <=> n * unit <= top
             /\ n * unit <= top <=> n * unit * Second <= ceiling
             /\ n * unit <= n * unit * Second
  <2>1. n \in Nat
    BY <1>1, <1>3
  <2>2. n * unit \in Nat
    BY <1>1, <2>1, Multiple
  <2>3. n <= top \div unit <=> n * unit <= top
    BY <1>1, <1>2, <2>1, Quotient
  <2>4. n * unit <= top <=> n * unit * Second <= ceiling
    BY <1>1, <2>2, Quotient
  <2>5. ASSUME NEW m \in Nat
        PROVE  m <= m * Second
    <3> HIDE DEF top
    <3> QED
      BY <1>1
  <2> QED
    BY <2>2, <2>3, <2>4, <2>5
<1>4. CASE n > 0 /\ n * unit * Second <= ceiling
  <2>1. n * unit * Second \in Nat
    BY <1>1, <1>3, <1>4, Multiple
  <2>2. n * unit \in 0 .. MaxInt /\ n * unit * Second \in 0 .. MaxInt
    BY <1>1, <1>3, <1>4, <2>1
  <2>3. Wrap(n * unit) = n * unit /\ Wrap(n * unit * Second) = n * unit * Second
    BY <2>2, WrapFits
  <2>4. n >= 1 /\ n <= top \div unit
    BY <1>1, <1>3, <1>4
  <2> QED
    BY <1>4, <2>3, <2>4 DEF Parse
<1>5. CASE ~ (n > 0 /\ n * unit * Second <= ceiling)
  <2>1. n >= 1 => ~ (n <= top \div unit)
    BY <1>1, <1>3, <1>5
  <2>2. Parse(n, unit, ceiling) = Null
    BY <2>1 DEF Parse
  <2> QED
    BY <1>5, <2>2
<1> QED
  BY <1>4, <1>5

-----------------------------------------------------------------------------
(* Lifetimes of stored rows.                                               *)

LEMMA GrantedFits ==
    ASSUME NEW d \in Granted
    PROVE  /\ d \div Second \in Nat \ {0}
           /\ d \div Second <= MaxLifetime \div Second
           /\ d \div Second <= AbsoluteMaxTTL \div Second
<1>1. /\ Second \in Nat \ {0}
      /\ MaxLifetime \in 1 .. AbsoluteMaxTTL
      /\ AbsoluteMaxTTL \in Nat
  BY LimitsAssumption, ListingAssumption, CeilingInBounds
     DEF LimitsAssumption, ListingAssumption, MaxLifetime, Int64
<1>2. PICK q \in Nat \ {0} : d = q * Second /\ d <= MaxLifetime
  <2>1. CASE \E n \in Amounts : d = ValidateTTL(n, MaxLifetime) /\ d # Null
    <3>1. PICK n \in Amounts : d = ValidateTTL(n, MaxLifetime) /\ d # Null
      BY <2>1
    <3>2. n \in Int64 /\ n \in Int
      BY ListingAssumption, LimitsAssumption DEF ListingAssumption, LimitsAssumption, Int64
    <3>3. n > 0 /\ n * Second <= MaxLifetime /\ d = n * Second
      BY <1>1, <3>1, <3>2, ValidateTTLExact
    <3> QED
      BY <3>2, <3>3
  <2>2. CASE \E n \in Amounts, u \in Units : d = Parse(n, u, MaxLifetime) /\ d # Null
    <3>1. PICK n \in Amounts, u \in Units : d = Parse(n, u, MaxLifetime) /\ d # Null
      BY <2>2
    <3>2. n \in Int64 /\ n \in Int /\ u \in Nat \ {0}
      BY ListingAssumption, LimitsAssumption DEF ListingAssumption, LimitsAssumption, Int64
    <3>3. n > 0 /\ n * u * Second <= MaxLifetime /\ d = n * u * Second
      BY <1>1, <3>1, <3>2, ParseExact
    <3>4. n * u \in Nat \ {0}
      BY <3>2, <3>3
    <3> QED
      BY <3>3, <3>4
  <2> QED
    BY <2>1, <2>2 DEF Granted
<1>3. d \div Second = q
  BY <1>1, <1>2, Multiple
<1>4. q <= MaxLifetime \div Second /\ q <= AbsoluteMaxTTL \div Second
  BY <1>1, <1>2, Quotient
<1> QED
  BY <1>3, <1>4

-----------------------------------------------------------------------------
(* The inductive invariant.                                                *)

(* i was asked for and its row is written, or was: it never appears again. *)
Issued(i) == asked[i] # Null /\ write[i].pc = "idle"

Fits(i, expires) ==
    /\ expires > asked[i]
    /\ expires <= asked[i] + AbsoluteMaxTTL \div Second
    /\ expires <= asked[i] + MaxLifetime \div Second

(* Every creation under way was asked for, and carries a granted lifetime. *)
Creating ==
    \A i \in Ids : write[i].pc # "idle" =>
        asked[i] # Null /\ rows[i] = Null /\ Fits(i, write[i].expires)

(* So does every row. *)
Stored == \A i \in Ids : rows[i] # Null => Issued(i) /\ Fits(i, rows[i].expires)

(***************************************************************************)
(* A walk between its pages has shown no row that still stands after its   *)
(* cursor, and of the rows that lasted it has shown all others.            *)
(***************************************************************************)
Progress ==
    walk.pc \in {"ask", "query"} =>
        /\ walk.cursor = Null => walk.shown = {}
        /\ \A i \in walk.shown : Issued(i) /\ (rows[i] # Null => ~ After(i, walk.cursor))
        /\ walk.cursor # Null =>
              \A i \in walk.lasting : Issued(i)
        /\ \A i \in walk.lasting \ walk.shown : rows[i] # Null => After(i, walk.cursor)

IInv == TypeOK /\ Creating /\ Stored /\ Progress /\ NeverShownTwice /\ LastingRowsShown

LEMMA InitIInv == Init => IInv
<1> SUFFICES ASSUME Init PROVE IInv
  OBVIOUS
<1>1. TypeOK
  <2>1. walk \in Walk
    BY DEF Init, NoWalk, Walk, Filters, Cursor
  <2>2. rows \in [Ids -> Row \cup {Null}] /\ asked \in [Ids -> Nat \cup {Null}]
    BY DEF Init
  <2>3. write \in [Ids -> Writing]
    BY DEF Init, NotWriting, Writing
  <2> QED
    BY <2>1, <2>2, <2>3 DEF Init, TypeOK
<1>2. Creating /\ Stored
  BY DEF Init, Creating, Stored, NotWriting
<1>3. Progress /\ NeverShownTwice /\ LastingRowsShown
  BY DEF Init, Progress, NeverShownTwice, LastingRowsShown, NoWalk
<1> QED
  BY <1>1, <1>2, <1>3 DEF IInv

(***************************************************************************)
(* What a step that leaves the walk alone may do: a row appears only where *)
(* its id was being written, a row there was keeps its place, and an id    *)
(* that was issued stays so.                                               *)
(***************************************************************************)
Beside ==
    /\ UNCHANGED walk
    /\ \A i \in Ids : rows'[i] # Null => \/ write[i].pc # "idle"
                                         \/ rows[i] # Null /\ rows'[i].created = rows[i].created
    /\ \A i \in Ids : Issued(i) => Issued(i)'

LEMMA BesideProgress ==
    ASSUME TypeOK, Progress, NeverShownTwice, LastingRowsShown, Beside
    PROVE  (Progress /\ NeverShownTwice /\ LastingRowsShown)'
<1>1. (NeverShownTwice /\ LastingRowsShown)'
  BY DEF Beside, NeverShownTwice, LastingRowsShown
<1>2. walk.shown \subseteq Ids /\ walk.lasting \subseteq Ids
  BY DEF TypeOK, Walk
<1>3. ASSUME NEW i \in Ids, Issued(i), rows'[i] # Null
      PROVE  rows[i] # Null /\ rows'[i].created = rows[i].created
  BY <1>3 DEF Beside, Issued
<1>4. ASSUME NEW i \in Ids, Issued(i), rows'[i] # Null
      PROVE  After(i, walk.cursor)' <=> After(i, walk.cursor)
  BY <1>3, <1>4 DEF Beside, After
<1>5. Progress'
  <2> SUFFICES ASSUME walk.pc \in {"ask", "query"}
               PROVE  Progress'
    BY DEF Progress, Beside
  <2>1. (walk.cursor = Null => walk.shown = {})'
    BY DEF Beside, Progress
  <2>2. ASSUME NEW i \in walk.shown
        PROVE  (Issued(i) /\ (rows[i] # Null => ~ After(i, walk.cursor)))'
    BY <1>2, <1>3, <1>4 DEF Beside, Progress
  <2>3. ASSUME walk.cursor # Null, NEW i \in walk.lasting
        PROVE  Issued(i)'
    BY <2>3, <1>2 DEF Beside, Progress
  <2>4. ASSUME NEW i \in walk.lasting \ walk.shown, rows'[i] # Null
        PROVE  After(i, walk.cursor)'
    <3>1. CASE walk.cursor = Null
      BY <3>1 DEF After, Beside
    <3>2. CASE walk.cursor # Null
      BY <3>2, <2>4, <1>2, <1>3, <1>4 DEF Progress
    <3> QED
      BY <3>1, <3>2
  <2> QED
    BY <2>1, <2>2, <2>3, <2>4 DEF Progress, Beside
<1> QED
  BY <1>1, <1>5

-----------------------------------------------------------------------------
(* One lemma per action that changes rows.                                 *)

LEMMA RowFacts ==
    ASSUME TypeOK, NEW i \in Ids
    PROVE  /\ rows[i] # Null => rows[i] \in Row
           /\ Null \notin Row
           /\ asked[i] # Null => asked[i] \in Nat
           /\ now \in Nat
           /\ Null \notin Nat
  BY RowAssumption, LimitsAssumption DEF TypeOK, RowAssumption, LimitsAssumption

LEMMA CreateRequestStep ==
    ASSUME IInv, NEW i \in Ids, CreateRequest(i)
    PROVE  IInv'
<1>1. PICK d \in Granted :
        /\ asked[i] = Null
        /\ asked' = [asked EXCEPT ![i] = now]
        /\ write' = [write EXCEPT ![i].pc = "clock", ![i].expires = now + d \div Second]
        /\ UNCHANGED <<now, rows, walk>>
  BY DEF CreateRequest
<1> DEFINE n == d \div Second
<1>2. n \in Nat \ {0} /\ n <= MaxLifetime \div Second /\ n <= AbsoluteMaxTTL \div Second
  BY GrantedFits
<1>3. write' = [write EXCEPT ![i].pc = "clock", ![i].expires = now + n]
  BY <1>1
<1> HIDE DEF n
<1>4. now \in Nat /\ Null \notin Nat
  BY RowFacts DEF IInv
<1>5. write[i].pc = "idle" /\ rows[i] = Null
  BY <1>1 DEF IInv, Creating, Stored, Issued
<1>6. TypeOK'
  <2>1. write[i] \in Writing
    BY DEF IInv, TypeOK
  <2>2. [write[i] EXCEPT !.pc = "clock", !.expires = now + n] \in Writing
    <3>1. now + n \in Int
      BY <1>2, <1>4
    <3>2. "clock" \in {"idle", "clock", "queued"}
      OBVIOUS
    <3> HIDE DEF n
    <3> QED
      BY ONLY <2>1, <3>1, <3>2 DEF Writing
  <2>3. write' \in [Ids -> Writing]
    BY <2>1, <2>2, <1>3 DEF IInv, TypeOK
  <2>4. asked' \in [Ids -> Nat \cup {Null}]
    BY <1>1, <1>4 DEF IInv, TypeOK
  <2> QED
    BY <1>1, <2>3, <2>4 DEF IInv, TypeOK
<1>7. /\ MaxLifetime \div Second \in Int
      /\ AbsoluteMaxTTL \div Second \in Int
  BY LimitsAssumption, ListingAssumption, CeilingInBounds
     DEF LimitsAssumption, ListingAssumption, MaxLifetime, Int64
<1>8. write'[i] = [write[i] EXCEPT !.pc = "clock", !.expires = now + n] /\ asked'[i] = now
  BY <1>1, <1>3 DEF IInv, TypeOK
<1>9. Fits(i, write[i].expires)'
  BY <1>2, <1>4, <1>7, <1>8 DEF Fits, IInv, TypeOK, Writing
<1>10. \A j \in Ids \ {i} : write'[j] = write[j] /\ asked'[j] = asked[j]
  BY <1>1, <1>3 DEF IInv, TypeOK
<1>11. Creating'
  <2> SUFFICES ASSUME NEW j \in Ids, write'[j].pc # "idle"
               PROVE  (asked[j] # Null /\ rows[j] = Null /\ Fits(j, write[j].expires))'
    BY DEF Creating
  <2>1. CASE j = i
    BY <2>1, <1>1, <1>4, <1>5, <1>8, <1>9
  <2>2. CASE j # i
    BY <2>2, <1>1, <1>10 DEF IInv, Creating, Fits
  <2> QED
    BY <2>1, <2>2
<1>12. Stored'
  BY <1>1, <1>5, <1>10 DEF IInv, Stored, Issued, Fits
<1>13. Beside
  BY <1>1, <1>10 DEF Beside, Issued
<1> QED
  BY <1>6, <1>11, <1>12, <1>13, BesideProgress DEF IInv

LEMMA StampCreatedStep ==
    ASSUME IInv, NEW i \in Ids, StampCreated(i)
    PROVE  IInv'
<1>1. TypeOK'
  BY DEF IInv, TypeOK, StampCreated, Writing
<1>2. /\ write'[i] = [write[i] EXCEPT !.pc = "queued", !.created = now]
      /\ \A j \in Ids \ {i} : write'[j] = write[j]
      /\ UNCHANGED <<rows, walk, asked>>
      /\ write[i].pc = "clock"
      /\ write[i] \in Writing
  BY DEF IInv, TypeOK, StampCreated
<1>3. write'[i].expires = write[i].expires /\ write'[i].pc # "idle"
  BY <1>2 DEF Writing
<1>4. Creating'
  BY <1>2, <1>3 DEF IInv, Creating, Fits
<1>5. Stored'
  BY <1>2, <1>3 DEF IInv, Stored, Issued, Fits
<1>6. Beside
  BY <1>2, <1>3 DEF Beside, Issued
<1> QED
  BY <1>1, <1>4, <1>5, <1>6, BesideProgress DEF IInv

LEMMA InsertStep ==
    ASSUME IInv, NEW i \in Ids, Insert(i)
    PROVE  IInv'
<1> DEFINE row == [created |-> write[i].created, expires |-> write[i].expires, settled |-> "no"]
<1>1. row \in Row
  BY DEF IInv, TypeOK, Writing, Row
<1>2. /\ rows'[i] = row
      /\ write'[i] = NotWriting
      /\ \A j \in Ids \ {i} : write'[j] = write[j] /\ rows'[j] = rows[j]
      /\ UNCHANGED <<now, walk, asked>>
      /\ write[i].pc = "queued"
  BY DEF IInv, TypeOK, Insert
<1>3. TypeOK'
  BY <1>1, <1>2 DEF IInv, TypeOK, Insert, Writing, NotWriting
<1>4. Creating'
  BY <1>2 DEF IInv, Creating, Fits, NotWriting
<1>5. Stored'
  BY <1>2 DEF IInv, Creating, Stored, Issued, Fits, NotWriting
<1>6. Beside
  BY <1>2 DEF IInv, Beside, Issued, NotWriting
<1> QED
  BY <1>3, <1>4, <1>5, <1>6, BesideProgress DEF IInv

LEMMA SettleStep ==
    ASSUME IInv, NEW i \in Ids, Settle(i)
    PROVE  IInv'
<1>1. rows[i] \in Row /\ Null \notin Row
  BY RowFacts DEF IInv, Settle
<1>2. PICK how \in {"used", "ended"} : rows' = [rows EXCEPT ![i].settled = how]
  BY DEF Settle
<1>3. /\ rows'[i] = [rows[i] EXCEPT !.settled = how]
      /\ \A j \in Ids \ {i} : rows'[j] = rows[j]
      /\ UNCHANGED <<now, write, walk, asked>>
      /\ rows[i] # Null
  BY <1>2 DEF IInv, TypeOK, Settle
<1>4. rows'[i] \in Row /\ rows'[i].created = rows[i].created /\ rows'[i].expires = rows[i].expires
  BY <1>1, <1>3 DEF Row
<1>5. TypeOK'
  BY <1>1, <1>2, <1>3, <1>4 DEF IInv, TypeOK
<1>6. Creating'
  BY <1>3 DEF IInv, Creating, Fits
<1>7. Stored'
  BY <1>3, <1>4 DEF IInv, Stored, Issued, Fits
<1>8. Beside
  BY <1>3, <1>4 DEF Beside, Issued
<1> QED
  BY <1>5, <1>6, <1>7, <1>8, BesideProgress DEF IInv

LEMMA DeleteStep ==
    ASSUME IInv, NEW i \in Ids, Delete(i)
    PROVE  IInv'
<1>1. /\ rows'[i] = Null
      /\ \A j \in Ids \ {i} : rows'[j] = rows[j]
      /\ UNCHANGED <<now, write, walk, asked>>
  BY DEF IInv, TypeOK, Delete
<1>2. TypeOK'
  BY <1>1 DEF IInv, TypeOK, Delete
<1>3. Creating' /\ Stored'
  BY <1>1 DEF IInv, Creating, Stored, Issued, Fits
<1>4. Beside
  BY <1>1 DEF Beside, Issued
<1> QED
  BY <1>2, <1>3, <1>4, BesideProgress DEF IInv

-----------------------------------------------------------------------------
(* The order of the rows.                                                  *)

LEMMA Order ==
    ASSUME TypeOK, NEW i \in Ids, NEW j \in Ids, NEW k \in Ids,
           rows[i] # Null, rows[j] # Null, rows[k] # Null
    PROVE  /\ Before(i, j) \/ Before(j, i) \/ i = j
           /\ ~ Before(i, i)
           /\ Before(i, j) /\ Before(j, k) => Before(i, k)
<1>1. rows[i] \in Row /\ rows[j] \in Row /\ rows[k] \in Row
  BY RowFacts
<1>2. Ids \subseteq Nat
  BY ListingAssumption DEF ListingAssumption
<1> QED
  BY <1>1, <1>2 DEF Before, Row

(* A cursor made of a row stands where that row does. *)
LEMMA AfterRow ==
    ASSUME TypeOK, NEW i \in Ids, NEW j \in Ids, rows[i] # Null, rows[j] # Null
    PROVE  After(j, [created |-> rows[i].created, id |-> i]) <=> Before(i, j)
<1> DEFINE cursor == [created |-> rows[i].created, id |-> i]
<1>1. rows[i] \in Row /\ rows[j] \in Row
  BY RowFacts
<1>2. cursor \in [created : Nat, id : Ids]
  BY <1>1 DEF Row
<1>3. cursor # Null
  BY <1>2, RowAssumption DEF RowAssumption
<1>4. cursor.created = rows[i].created /\ cursor.id = i
  OBVIOUS
<1>5. Ids \subseteq Nat
  BY ListingAssumption DEF ListingAssumption
<1> HIDE DEF cursor
<1>6. After(j, cursor) <=> Before(i, j)
  BY <1>1, <1>3, <1>4, <1>5 DEF After, Before, Row
<1> QED
  BY <1>6 DEF cursor

(* What stands after a row that stands after the cursor, is after it too. *)
LEMMA AfterCursor ==
    ASSUME TypeOK, NEW i \in Ids, NEW j \in Ids, rows[i] # Null, rows[j] # Null,
           NEW cursor \in Cursor, After(i, cursor), Before(i, j)
    PROVE  After(j, cursor)
<1>1. rows[i] \in Row /\ rows[j] \in Row
  BY RowFacts
<1>2. Ids \subseteq Nat
  BY ListingAssumption DEF ListingAssumption
<1>3. CASE cursor = Null
  BY <1>3 DEF After
<1>4. CASE cursor \in [created : Nat, id : Ids]
  <2>1. cursor.created \in Nat /\ cursor.id \in Nat /\ cursor # Null
    BY <1>2, <1>4, RowAssumption DEF RowAssumption
  <2> QED
    BY <1>1, <1>2, <2>1 DEF After, Before, Row
<1> QED
  BY <1>3, <1>4 DEF Cursor

(* The first rows of S: none outside stands before one of them. *)
LEMMA TopIsFirst ==
    ASSUME TypeOK, NEW S \in SUBSET {i \in Ids : rows[i] # Null}, NEW limit \in Nat,
           NEW i \in Top(S, limit), NEW j \in S \ Top(S, limit)
    PROVE  Before(i, j)
<1> DEFINE Ahead(x) == {y \in S : Before(y, x)}
<1>1. i \in S /\ j \in S /\ i \in Ids /\ j \in Ids /\ rows[i] # Null /\ rows[j] # Null
  BY DEF Top
<1>2. SUFFICES ASSUME Before(j, i) PROVE FALSE
  BY <1>1, Order DEF Top
<1>3. Ahead(j) \subseteq Ahead(i)
  <2> SUFFICES ASSUME NEW y \in S, Before(y, j) PROVE Before(y, i)
    OBVIOUS
  <2> QED
    BY <1>1, <1>2, Order
<1>4. IsFiniteSet(Ahead(i)) /\ IsFiniteSet(Ahead(j))
  <2>1. IsFiniteSet(Ids) /\ Ahead(i) \subseteq Ids /\ Ahead(j) \subseteq Ids
    BY ListingAssumption DEF ListingAssumption
  <2> QED
    BY <2>1, FS_Subset
<1>5. Cardinality(Ahead(j)) <= Cardinality(Ahead(i))
  BY <1>3, <1>4, FS_Subset
<1>6. Cardinality(Ahead(i)) \in Nat /\ Cardinality(Ahead(j)) \in Nat
  BY <1>4, FS_CardinalityType
<1>7. Cardinality(Ahead(i)) < limit
  BY DEF Top
<1>8. Cardinality(Ahead(j)) < limit
  BY <1>5, <1>6, <1>7
<1>9. j \in Top(S, limit)
  BY <1>1, <1>8 DEF Top
<1> QED
  BY <1>9

-----------------------------------------------------------------------------
(* One lemma per action of the caller.                                     *)

(* The caller's steps leave the table alone. *)
LEMMA TableStays ==
    ASSUME IInv, UNCHANGED <<rows, write, asked>>
    PROVE  Creating' /\ Stored'
  BY DEF IInv, Creating, Stored, Issued, Fits

LEMMA StartWalkStep ==
    ASSUME IInv, StartWalk
    PROVE  IInv'
<1>1. PICK f \in Filters : walk' = [NoWalk EXCEPT !.pc = "ask", !.filter = f]
  BY DEF StartWalk
<1>2. /\ walk'.pc = "ask" /\ walk'.filter = f /\ walk'.cursor = Null
      /\ walk'.shown = {} /\ walk'.again = {} /\ walk'.lasting = Ids
      /\ walk' \in Walk
  BY <1>1 DEF NoWalk, Walk, Cursor, Filters
<1>3. TypeOK'
  BY <1>2 DEF IInv, TypeOK, StartWalk
<1>4. (Progress /\ NeverShownTwice /\ LastingRowsShown)'
  BY <1>2 DEF Progress, NeverShownTwice, LastingRowsShown, After
<1>5. Creating' /\ Stored'
  BY TableStays DEF StartWalk
<1> QED
  BY <1>3, <1>4, <1>5 DEF IInv

LEMMA AskPageStep ==
    ASSUME IInv, AskPage
    PROVE  IInv'
<1>1. PICK n \in Asked : walk' = [walk EXCEPT !.pc = "query", !.ts = now,
                                              !.limit = ResolveLimit(n)]
  BY DEF AskPage
<1>2. ResolveLimit(n) \in Nat /\ now \in Nat
  BY ListingAssumption, LimitsAssumption
     DEF ListingAssumption, LimitsAssumption, ResolveLimit, Int64, IInv, TypeOK
<1>3. /\ walk'.pc = "query" /\ walk'.cursor = walk.cursor
      /\ walk'.shown = walk.shown /\ walk'.again = walk.again /\ walk'.lasting = walk.lasting
      /\ walk' \in Walk
  BY <1>1, <1>2 DEF IInv, TypeOK, Walk
<1>4. TypeOK'
  BY <1>3 DEF IInv, TypeOK, AskPage
<1>5. Progress'
  BY <1>3 DEF IInv, Progress, AskPage, Issued, After
<1>6. (NeverShownTwice /\ LastingRowsShown)'
  BY <1>3 DEF IInv, NeverShownTwice, LastingRowsShown
<1>7. Creating' /\ Stored'
  BY TableStays DEF AskPage
<1> QED
  BY <1>4, <1>5, <1>6, <1>7 DEF IInv

LEMMA LeaveStep ==
    ASSUME IInv, Leave
    PROVE  IInv'
<1>1. walk' = NoWalk /\ walk'.pc = "idle" /\ walk'.again = {}
  BY DEF Leave, NoWalk
<1>2. walk' \in Walk
  BY <1>1 DEF NoWalk, Walk, Cursor, Filters
<1>3. TypeOK'
  BY <1>2 DEF IInv, TypeOK, Leave
<1>4. (Progress /\ NeverShownTwice /\ LastingRowsShown)'
  BY <1>1 DEF Progress, NeverShownTwice, LastingRowsShown
<1>5. Creating' /\ Stored'
  BY TableStays DEF Leave
<1> QED
  BY <1>3, <1>4, <1>5 DEF IInv

(***************************************************************************)
(* A page: what it shows stood after the cursor, so none of it was shown;  *)
(* the new cursor is the last row shown, so what is not shown of what was  *)
(* found stands after it.                                                  *)
(***************************************************************************)
LEMMA ListPageStep ==
    ASSUME IInv, ListPage
    PROVE  IInv'
<1> DEFINE S == {i \in Selected : After(i, walk.cursor)}
           Shown == Top(S, walk.limit)
<1>1. PICK next \in NextCursor(S, walk.limit) :
        walk' = [walk EXCEPT
                   !.pc = IF next = Null THEN "end" ELSE "ask",
                   !.cursor = next,
                   !.ts = 0, !.limit = 0,
                   !.shown = @ \cup Shown,
                   !.again = @ \cup (walk.shown \cap Shown),
                   !.lasting = @ \cap Selected]
  BY DEF ListPage
<1>2. /\ walk.pc = "query"
      /\ UNCHANGED <<now, rows, write, asked>>
      /\ walk \in Walk
  BY DEF IInv, TypeOK, ListPage
<1>3. /\ S \in SUBSET {i \in Ids : rows[i] # Null}
      /\ Selected \subseteq {i \in Ids : rows[i] # Null}
      /\ Shown \subseteq S
      /\ walk.limit \in Nat
  BY <1>2 DEF Selected, Top, Walk
<1>4. \/ next = Null /\ Shown = S
      \/ \E i \in Shown : /\ next = [created |-> rows[i].created, id |-> i]
                          /\ \A j \in Shown : j = i \/ Before(j, i)
  BY DEF NextCursor
<1>5. next \in Cursor
  <2>1. CASE next = Null
    BY <2>1 DEF Cursor
  <2>2. ASSUME NEW i \in Shown, next = [created |-> rows[i].created, id |-> i]
        PROVE  next \in Cursor
    <3>1. i \in Ids /\ rows[i] # Null
      BY <1>3
    <3>2. rows[i] \in Row
      BY <3>1, RowFacts DEF IInv
    <3> QED
      BY <3>1, <3>2, <2>2 DEF Cursor, Row
  <2> QED
    BY <1>4, <2>1, <2>2
<1> HIDE DEF S, Shown
<1>6. /\ walk'.pc = IF next = Null THEN "end" ELSE "ask"
      /\ walk'.cursor = next
      /\ walk'.shown = walk.shown \cup Shown
      /\ walk'.again = walk.again \cup (walk.shown \cap Shown)
      /\ walk'.lasting = walk.lasting \cap Selected
  BY <1>1, <1>2 DEF Walk
<1>7. walk' \in Walk
  BY <1>1, <1>2, <1>3, <1>5 DEF Walk
<1>8. TypeOK'
  BY <1>2, <1>7 DEF IInv, TypeOK
<1>9. /\ walk.cursor = Null => walk.shown = {}
      /\ \A i \in walk.shown : Issued(i) /\ (rows[i] # Null => ~ After(i, walk.cursor))
      /\ walk.cursor # Null => \A i \in walk.lasting : Issued(i)
      /\ \A i \in walk.lasting \ walk.shown : rows[i] # Null => After(i, walk.cursor)
  BY <1>2 DEF IInv, Progress
<1>10. walk.shown \cap Shown = {}
  BY <1>3, <1>9 DEF S
<1>11. NeverShownTwice'
  BY <1>6, <1>10 DEF IInv, NeverShownTwice
<1>12. \A i \in walk'.lasting \ walk.shown : i \in S
  BY <1>3, <1>6, <1>9 DEF S
<1>13. CASE next = Null /\ Shown = S
  <2>1. LastingRowsShown'
    BY <1>6, <1>12, <1>13 DEF LastingRowsShown
  <2>2. Progress'
    BY <1>6, <1>13 DEF Progress
  <2> QED
    BY <1>8, <1>11, <2>1, <2>2, <1>2, TableStays DEF IInv
<1>14. ASSUME NEW l \in Shown, next = [created |-> rows[l].created, id |-> l],
              \A j \in Shown : j = l \/ Before(j, l)
       PROVE  IInv'
  <2>1. l \in Ids /\ rows[l] # Null /\ l \in S
    BY <1>3
  <2>2. next # Null
    <3>1. rows[l] \in Row
      BY <2>1, RowFacts DEF IInv
    <3>2. next \in [created : Nat, id : Ids]
      BY <2>1, <3>1, <1>14 DEF Row
    <3> QED
      BY <3>2, RowAssumption DEF RowAssumption
  <2>3. walk'.pc = "ask"
    BY <1>6, <2>2
  <2>4. LastingRowsShown'
    BY <2>3 DEF LastingRowsShown
  <2>5. ASSUME NEW i \in Ids, rows[i] # Null
        PROVE  After(i, next) <=> Before(l, i)
    BY <2>1, <2>5, <1>14, AfterRow DEF IInv
  <2>6. ASSUME NEW i \in walk'.shown
        PROVE  (Issued(i) /\ (rows[i] # Null => ~ After(i, walk.cursor)))'
    <3>1. CASE i \in Shown
      <4>1. i \in Ids /\ rows[i] # Null
        BY <3>1, <1>3
      <4>2. Issued(i)
        BY <4>1 DEF IInv, Stored
      <4>3. ~ Before(l, i)
        BY <3>1, <4>1, <2>1, <1>14, Order DEF IInv
      <4>4. ~ After(i, next)
        BY <4>1, <4>3, <2>5
      <4> QED
        BY <4>2, <4>4, <1>2, <1>6 DEF Issued, After
    <3>2. CASE i \in walk.shown
      <4>1. i \in Ids
        BY <3>2, <1>2 DEF Walk
      <4>2. ASSUME rows[i] # Null, After(i, next)
            PROVE  FALSE
        <5>1. Before(l, i)
          BY <4>1, <4>2, <2>5
        <5>2. After(l, walk.cursor) /\ walk.cursor \in Cursor
          BY <2>1, <1>2 DEF S, Walk
        <5>3. After(i, walk.cursor)
          BY <4>1, <4>2, <5>1, <5>2, <2>1, AfterCursor DEF IInv
        <5> QED
          BY <5>3, <4>2, <3>2, <1>9
      <4> QED
        BY <4>2, <3>2, <1>9, <1>2, <1>6 DEF Issued, After
    <3> QED
      BY <2>6, <3>1, <3>2, <1>6
  <2>7. ASSUME NEW i \in walk'.lasting
        PROVE  Issued(i)'
    <3>1. i \in Ids /\ rows[i] # Null
      BY <1>3, <1>6
    <3> QED
      BY <3>1, <1>2 DEF IInv, Stored, Issued
  <2>8. ASSUME NEW i \in walk'.lasting \ walk'.shown
        PROVE  After(i, walk.cursor)'
    <3>1. i \in S \ Shown
      BY <1>6, <1>12
    <3>2. i \in Ids /\ rows[i] # Null
      BY <3>1, <1>3
    <3>3. Before(l, i)
      BY <3>1, <1>3, TopIsFirst DEF IInv, Shown
    <3>4. After(i, next)
      BY <3>2, <3>3, <2>5
    <3> QED
      BY <3>4, <1>2, <1>6 DEF After
  <2>9. Progress'
    BY <2>2, <2>6, <2>7, <2>8, <1>6 DEF Progress
  <2> QED
    BY <1>8, <1>11, <2>4, <2>9, <1>2, TableStays DEF IInv
<1> QED
  BY <1>4, <1>13, <1>14

-----------------------------------------------------------------------------
(* The theorems.                                                           *)

LEMMA NextIInv == IInv /\ [Next]_vars => IInv'
<1> SUFFICES ASSUME IInv, [Next]_vars PROVE IInv'
  OBVIOUS
<1>1. ASSUME NEW i \in Ids, CreateRequest(i) PROVE IInv'
  BY <1>1, CreateRequestStep
<1>2. ASSUME NEW i \in Ids, StampCreated(i) PROVE IInv'
  BY <1>2, StampCreatedStep
<1>3. ASSUME NEW i \in Ids, Insert(i) PROVE IInv'
  BY <1>3, InsertStep
<1>4. ASSUME NEW i \in Ids, Settle(i) PROVE IInv'
  BY <1>4, SettleStep
<1>5. ASSUME NEW i \in Ids, Delete(i) PROVE IInv'
  BY <1>5, DeleteStep
<1>6. CASE StartWalk
  BY <1>6, StartWalkStep
<1>7. CASE AskPage
  BY <1>7, AskPageStep
<1>8. CASE ListPage
  BY <1>8, ListPageStep
<1>9. CASE Leave
  BY <1>9, LeaveStep
<1>10. CASE Tick
  <2>1. TypeOK'
    BY <1>10 DEF IInv, TypeOK, Tick
  <2>2. Creating' /\ Stored'
    BY <1>10, TableStays DEF Tick
  <2>3. Beside
    BY <1>10 DEF Beside, Tick, Issued
  <2> QED
    BY <2>1, <2>2, <2>3, BesideProgress DEF IInv
<1>11. CASE UNCHANGED vars
  <2>1. TypeOK'
    BY <1>11 DEF IInv, TypeOK, vars
  <2>2. Creating' /\ Stored'
    BY <1>11, TableStays DEF vars
  <2>3. Beside
    BY <1>11 DEF Beside, vars, Issued
  <2> QED
    BY <2>1, <2>2, <2>3, BesideProgress DEF IInv
<1> QED
  BY <1>1, <1>2, <1>3, <1>4, <1>5, <1>6, <1>7, <1>8, <1>9, <1>10, <1>11 DEF Next, NextPage

(* The inductive invariant holds in every reachable state. *)
THEOREM Invariance == Spec => []IInv
  BY InitIInv, NextIInv, PTL DEF Spec

(* Every variable keeps its type. *)
THEOREM TypeCorrect == Spec => []TypeOK
<1>1. IInv => TypeOK
  BY DEF IInv
<1> QED
  BY <1>1, Invariance, PTL

(* No row is on two pages of one walk (ListTokens, ListOTPs), for any      *)
(* number of rows, filters and page sizes, whatever happens in between.    *)
THEOREM ShownOnce == Spec => []NeverShownTwice
<1>1. IInv => NeverShownTwice
  BY DEF IInv
<1> QED
  BY <1>1, Invariance, PTL

(* A walk that reached its end has shown every row that was there and      *)
(* matched at each of its queries.                                         *)
THEOREM NoneSkipped == Spec => []LastingRowsShown
<1>1. IInv => LastingRowsShown
  BY DEF IInv
<1> QED
  BY <1>1, Invariance, PTL

(* A stored row expires after it was asked for and within the ceilings,    *)
(* for every number a caller can send and every width of the integers.     *)
THEOREM LifetimesWithinCeiling == Spec => []LifetimesFit
<1>1. IInv => LifetimesFit
  BY DEF IInv, Stored, Fits, LifetimesFit
<1> QED
  BY <1>1, Invariance, PTL

-----------------------------------------------------------------------------
(***************************************************************************)
(* The size of a page.  The rows of S can be counted off in their order:   *)
(* as many stand before a row as its place says, and every place is taken. *)
(***************************************************************************)
Ahead(S, i) == {j \in S : Before(j, i)}
Place(S) == [i \in S |-> Cardinality(Ahead(S, i))]

LEMMA CountUpTo ==
    ASSUME NEW n \in Nat
    PROVE  IsFiniteSet(0 .. n - 1) /\ Cardinality(0 .. n - 1) = n
<1>1. 0 \in Int /\ n - 1 \in Int
  OBVIOUS
<1>2. IsFiniteSet(0 .. n - 1) /\ Cardinality(0 .. n - 1) = IF 0 > n - 1 THEN 0 ELSE n - 1 - 0 + 1
  BY <1>1, FS_Interval
<1> QED
  BY <1>2

LEMMA Places ==
    ASSUME TypeOK, NEW S \in SUBSET {i \in Ids : rows[i] # Null}
    PROVE  /\ IsFiniteSet(S) /\ Cardinality(S) \in Nat
           /\ Place(S) \in Bijection(S, 0 .. Cardinality(S) - 1)
           /\ \A i, j \in S : Before(i, j) => Place(S)[i] < Place(S)[j]
<1> DEFINE n == Cardinality(S)
<1>1. IsFiniteSet(S) /\ n \in Nat
  BY ListingAssumption, FS_Subset, FS_CardinalityType DEF ListingAssumption
<1>2. \A i \in S : /\ IsFiniteSet(Ahead(S, i)) /\ Cardinality(Ahead(S, i)) \in Nat
                   /\ Ahead(S, i) \subseteq S /\ i \notin Ahead(S, i)
  <2> SUFFICES ASSUME NEW i \in S
               PROVE  /\ IsFiniteSet(Ahead(S, i)) /\ Cardinality(Ahead(S, i)) \in Nat
                      /\ Ahead(S, i) \subseteq S /\ i \notin Ahead(S, i)
    OBVIOUS
  <2>1. Ahead(S, i) \subseteq S /\ i \notin Ahead(S, i)
    BY Order DEF Ahead
  <2> QED
    BY <1>1, <2>1, FS_Subset, FS_CardinalityType
<1>3. ASSUME NEW i \in S PROVE Cardinality(Ahead(S, i)) \in 0 .. n - 1
  <2>1. Ahead(S, i) \in SUBSET S /\ Ahead(S, i) # S /\ Cardinality(Ahead(S, i)) \in Nat
    BY <1>2
  <2>2. Cardinality(Ahead(S, i)) <= n /\ Cardinality(Ahead(S, i)) # n
    BY <1>1, <2>1, FS_Subset
  <2> QED
    BY <1>1, <2>1, <2>2
<1>4. ASSUME NEW i \in S, NEW j \in S, Before(i, j)
      PROVE  Cardinality(Ahead(S, i)) < Cardinality(Ahead(S, j))
  <2>1. Ahead(S, i) \subseteq Ahead(S, j)
    BY <1>4, Order DEF Ahead
  <2>2. i \in Ahead(S, j) /\ i \notin Ahead(S, i)
    BY <1>2, <1>4 DEF Ahead
  <2>3. Cardinality(Ahead(S, i)) <= Cardinality(Ahead(S, j)) /\ Cardinality(Ahead(S, i)) # Cardinality(Ahead(S, j))
    BY <1>2, <2>1, <2>2, FS_Subset
  <2> QED
    BY <1>2, <2>3
<1>5. Place(S) \in [S -> 0 .. n - 1] /\ \A i \in S : Place(S)[i] = Cardinality(Ahead(S, i))
  BY <1>3 DEF Place
<1>6. \A i, j \in S : Place(S)[i] = Place(S)[j] => i = j
  <2> SUFFICES ASSUME NEW i \in S, NEW j \in S, i # j PROVE Place(S)[i] # Place(S)[j]
    OBVIOUS
  <2>1. Before(i, j) \/ Before(j, i)
    BY Order
  <2> QED
    BY <1>2, <1>4, <1>5, <2>1
<1>7. Place(S) \in Injection(S, 0 .. n - 1)
  BY <1>5, <1>6, Fun_IsInj
<1>8. IsFiniteSet(0 .. n - 1) /\ Cardinality(0 .. n - 1) = n
  BY <1>1, CountUpTo
<1>9. Place(S) \in Surjection(S, 0 .. n - 1)
  BY <1>7, <1>8, FS_Injection
<1> QED
  BY <1>1, <1>4, <1>5, <1>7, <1>9 DEF Bijection

(* A page is full, unless it is all there is; and a full one has a last row. *)
LEMMA TopFull ==
    ASSUME TypeOK, NEW S \in SUBSET {i \in Ids : rows[i] # Null},
           NEW limit \in Nat \ {0}, Top(S, limit) # S
    PROVE  /\ IsFiniteSet(Top(S, limit)) /\ Cardinality(Top(S, limit)) = limit
           /\ \E i \in Top(S, limit) : \A j \in Top(S, limit) : j = i \/ Before(j, i)
<1> DEFINE n == Cardinality(S)
           T == Top(S, limit)
           r == Place(S)
<1>1. /\ n \in Nat /\ r \in [S -> 0 .. n - 1]
      /\ \A i, j \in S : r[i] = r[j] => i = j
      /\ \A k \in 0 .. n - 1 : \E i \in S : r[i] = k
      /\ \A i, j \in S : Before(i, j) => r[i] < r[j]
  <2>1. /\ n \in Nat /\ r \in Bijection(S, 0 .. n - 1)
        /\ \A i, j \in S : Before(i, j) => r[i] < r[j]
    BY Places
  <2> HIDE DEF n, r
  <2>2. /\ r \in [S -> 0 .. n - 1]
        /\ \A i, j \in S : r[i] = r[j] => i = j
        /\ \A k \in 0 .. n - 1 : \E i \in S : r[i] = k
    BY <2>1 DEF Bijection, Injection, Surjection, IsInjective
  <2> QED
    BY <2>1, <2>2
<1>2. T \subseteq S /\ \A i \in S : i \in T <=> r[i] < limit
  BY DEF Top, Place, Ahead
<1> HIDE DEF n, T, r
<1>3. limit <= n - 1
  <2>1. PICK i \in S : ~ (r[i] < limit)
    BY <1>2 DEF T
  <2>2. r[i] \in 0 .. n - 1
    BY <1>1
  <2> QED
    BY <1>1, <2>1, <2>2
<1> DEFINE g == [k \in 0 .. limit - 1 |-> CHOOSE i \in S : r[i] = k]
<1>4. \A k \in 0 .. limit - 1 : g[k] \in T /\ r[g[k]] = k
  <2> SUFFICES ASSUME NEW k \in 0 .. limit - 1 PROVE g[k] \in T /\ r[g[k]] = k
    OBVIOUS
  <2>1. k \in 0 .. n - 1 /\ k < limit
    BY <1>1, <1>3
  <2>2. \E i \in S : r[i] = k
    BY <1>1, <2>1
  <2>3. g[k] \in S /\ r[g[k]] = k
    BY <2>2
  <2> QED
    BY <1>2, <2>1, <2>3
<1>5. \A i \in T : r[i] \in 0 .. limit - 1 /\ g[r[i]] = i
  <2> SUFFICES ASSUME NEW i \in T PROVE r[i] \in 0 .. limit - 1 /\ g[r[i]] = i
    OBVIOUS
  <2>1. r[i] \in 0 .. n - 1 /\ r[i] < limit
    BY <1>1, <1>2
  <2>2. r[i] \in 0 .. limit - 1
    BY <1>1, <2>1
  <2>3. g[r[i]] \in T /\ r[g[r[i]]] = r[i]
    BY <1>4, <2>2
  <2> QED
    BY <1>1, <1>2, <2>2, <2>3
<1>6. g \in [0 .. limit - 1 -> T]
  BY <1>4
<1> HIDE DEF g
<1>7. g \in Bijection(0 .. limit - 1, T)
  <2>1. \A k, l \in 0 .. limit - 1 : g[k] = g[l] => k = l
    BY <1>4
  <2>2. \A i \in T : \E k \in 0 .. limit - 1 : g[k] = i
    BY <1>5
  <2> QED
    BY <1>6, <2>1, <2>2, Fun_IsBij
<1>8. IsFiniteSet(T) /\ Cardinality(T) = limit
  <2>1. IsFiniteSet(0 .. limit - 1) /\ Cardinality(0 .. limit - 1) = limit
    BY CountUpTo
  <2>2. ExistsBijection(0 .. limit - 1, T)
    BY <1>7 DEF ExistsBijection
  <2> QED
    BY <2>1, <2>2, FS_Bijection
<1>9. \E i \in T : \A j \in T : j = i \/ Before(j, i)
  <2>1. limit - 1 \in 0 .. limit - 1
    OBVIOUS
  <2>2. g[limit - 1] \in T /\ r[g[limit - 1]] = limit - 1
    BY <1>4, <2>1
  <2>3. ASSUME NEW j \in T, j # g[limit - 1] PROVE Before(j, g[limit - 1])
    <3>1. r[j] \in 0 .. limit - 1 /\ ~ (limit - 1 < r[j])
      BY <1>5
    <3>2. ~ Before(g[limit - 1], j)
      BY <1>1, <1>2, <2>2, <3>1
    <3>3. j \in Ids /\ rows[j] # Null /\ g[limit - 1] \in Ids /\ rows[g[limit - 1]] # Null
      BY <1>2, <2>2
    <3> QED
      BY <2>3, <3>2, <3>3, Order
  <2> QED
    BY <2>2, <2>3
<1> QED
  BY <1>8, <1>9 DEF T

LEMMA CursorThere ==
    ASSUME TypeOK, NEW S \in SUBSET {i \in Ids : rows[i] # Null}, NEW limit \in Nat \ {0}
    PROVE  NextCursor(S, limit) # {}
<1> DEFINE cursor(i) == [created |-> rows[i].created, id |-> i]
           Last == {i \in Top(S, limit) : \A j \in Top(S, limit) : j = i \/ Before(j, i)}
<1>1. CASE Top(S, limit) = S
  BY <1>1 DEF NextCursor
<1>2. CASE Top(S, limit) # S
  <2>1. PICK i \in Last : TRUE
    BY <1>2, TopFull
  <2>2. cursor(i) \in {cursor(k) : k \in Last}
    BY <2>1
  <2>3. NextCursor(S, limit) = {cursor(k) : k \in Last}
    BY <1>2 DEF NextCursor
  <2> QED
    BY <2>2, <2>3
<1> QED
  BY <1>1, <1>2

(* A query asks for at least one row. *)
Asking == walk.pc = "query" => walk.limit \in Nat \ {0}

LEMMA NoWalkIdle ==
    /\ NoWalk.pc = "idle" /\ NoWalk.cursor = Null
    /\ \A f \in Filters : LET w == [NoWalk EXCEPT !.pc = "ask", !.filter = f]
                          IN  w.pc = "ask" /\ w.cursor = Null
<1>1. NoWalk \in Walk
  BY DEF NoWalk, Walk, Filters, Cursor
<1>2. NoWalk.pc = "idle" /\ NoWalk.cursor = Null
  BY DEF NoWalk
<1> QED
  BY <1>1, <1>2 DEF Walk

LEMMA NextAsking == TypeOK /\ Asking /\ [Next]_vars => Asking'
<1> SUFFICES ASSUME TypeOK, Asking, [Next]_vars PROVE Asking'
  OBVIOUS
<1>1. walk \in Walk
  BY DEF TypeOK
<1>2. CASE UNCHANGED walk
  BY <1>2 DEF Asking
<1>3. CASE AskPage
  <2>1. PICK n \in Asked : walk' = [walk EXCEPT !.pc = "query", !.ts = now,
                                               !.limit = ResolveLimit(n)]
    BY <1>3 DEF AskPage
  <2>2. ResolveLimit(n) \in Nat \ {0}
    BY LimitsAssumption, ListingAssumption
       DEF LimitsAssumption, ListingAssumption, ResolveLimit, Int64
  <2> QED
    BY <1>1, <2>1, <2>2 DEF Walk, Asking
<1>4. CASE ListPage
  <2>1. PICK next : walk'.pc = IF next = Null THEN "end" ELSE "ask"
    BY <1>1, <1>4 DEF ListPage, Walk
  <2>2. walk'.pc # "query"
    BY <2>1
  <2> QED
    BY <2>2 DEF Asking
<1>5. CASE StartWalk \/ Leave
  <2>1. walk'.pc \in {"ask", "idle"}
    BY <1>5, NoWalkIdle DEF StartWalk, Leave
  <2> QED
    BY <2>1 DEF Asking
<1> QED
  BY <1>2, <1>3, <1>4, <1>5 DEF Next, NextPage, CreateRequest, StampCreated, Insert, Settle,
     Delete, Tick, vars

THEOREM AlwaysAsking == Spec => []Asking
<1>1. Init => Asking
  BY NoWalkIdle DEF Init, Asking
<1> QED
  BY <1>1, NextAsking, TypeCorrect, PTL DEF Spec

(***************************************************************************)
(* A page that hands out a cursor is full, and all its rows are new to the *)
(* walk (the extra row of ListTokens and ListOTPs is what decides): so no  *)
(* walk asks for more pages than there are rows to show.                   *)
(***************************************************************************)
FullPage == walk.pc = "query" /\ walk'.pc = "ask" =>
                Cardinality(walk'.shown) = Cardinality(walk.shown) + walk.limit

THEOREM PagesFull == Spec => [][FullPage]_vars
<1>1. IInv /\ Asking /\ [Next]_vars => [FullPage]_vars
  <2> SUFFICES ASSUME IInv, Asking, Next, walk.pc = "query", walk'.pc = "ask"
               PROVE  Cardinality(walk'.shown) = Cardinality(walk.shown) + walk.limit
    BY DEF FullPage
  <2>1. ListPage
    <3>1. ~ StartWalk /\ ~ AskPage
      BY DEF StartWalk, AskPage
    <3>2. ~ Leave
      BY NoWalkIdle DEF Leave
    <3>3. walk' # walk
      OBVIOUS
    <3> QED
      BY <3>1, <3>2, <3>3
         DEF Next, NextPage, CreateRequest, StampCreated, Insert, Settle, Delete, Tick
  <2> DEFINE S == {i \in Selected : After(i, walk.cursor)}
             T == Top(S, walk.limit)
  <2>2. PICK next \in NextCursor(S, walk.limit) :
          /\ walk'.pc = IF next = Null THEN "end" ELSE "ask"
          /\ walk'.shown = walk.shown \cup T
          /\ walk'.again = walk.again \cup (walk.shown \cap T)
    <3>1. walk \in Walk
      BY DEF IInv, TypeOK
    <3> QED
      BY <2>1, <3>1 DEF ListPage, Walk
  <2>3. T # S
    BY <2>2 DEF NextCursor
  <2>4. S \in SUBSET {i \in Ids : rows[i] # Null} /\ walk.limit \in Nat \ {0}
    BY DEF Selected, Asking
  <2>5. IsFiniteSet(T) /\ Cardinality(T) = walk.limit
    BY <2>3, <2>4, TopFull DEF IInv
  <2>6. IsFiniteSet(walk.shown) /\ Cardinality(walk.shown) \in Nat
    BY ListingAssumption, FS_Subset, FS_CardinalityType DEF ListingAssumption, IInv, TypeOK, Walk
  <2>7. walk.shown \cap T = {}
    <3>1. IInv'
      BY NextIInv
    <3> QED
      BY <2>2, <3>1 DEF IInv, NeverShownTwice
  <2> HIDE DEF T
  <2>8. Cardinality(walk.shown \cup T) = Cardinality(walk.shown) + Cardinality(T) - 0
    BY <2>5, <2>6, <2>7, FS_Union, FS_EmptySet
  <2> QED
    BY <2>2, <2>4, <2>5, <2>6, <2>8
<1> QED
  BY <1>1, Invariance, AlwaysAsking, PTL DEF Spec

(***************************************************************************)
(* A query is always answered: a page that is not the last has a last row  *)
(* for the cursor to name.                                                 *)
(***************************************************************************)
THEOREM AnswersExist ==
    Spec => [](walk.pc = "query" =>
                 NextCursor({i \in Selected : After(i, walk.cursor)}, walk.limit) # {})
<1>1. IInv /\ Asking => (walk.pc = "query" =>
          NextCursor({i \in Selected : After(i, walk.cursor)}, walk.limit) # {})
  <2> SUFFICES ASSUME IInv, Asking, walk.pc = "query"
               PROVE  NextCursor({i \in Selected : After(i, walk.cursor)}, walk.limit) # {}
    OBVIOUS
  <2>1. /\ {i \in Selected : After(i, walk.cursor)} \in SUBSET {i \in Ids : rows[i] # Null}
        /\ walk.limit \in Nat \ {0}
    BY DEF Selected, Asking
  <2> QED
    BY <2>1, CursorThere DEF IInv
<1> QED
  BY <1>1, Invariance, AlwaysAsking, PTL

-----------------------------------------------------------------------------
(***************************************************************************)
(* Loading more.  How the table changes beside a walk: a row appears with  *)
(* the created_at its request waited with, and a request that starts to    *)
(* wait has just read the clock.                                           *)
(***************************************************************************)
Stamped ==
    /\ UNCHANGED walk
    /\ \A i \in Ids : rows'[i] # Null =>
          \/ rows[i] # Null /\ rows'[i].created = rows[i].created
          \/ write[i].pc = "queued" /\ rows'[i].created = write[i].created
    /\ \A i \in Ids : write'[i].pc = "queued" =>
          \/ write[i].pc = "queued" /\ write'[i].created = write[i].created
          \/ write'[i].created = now

LEMMA NextStamped ==
    ASSUME TypeOK, Next, UNCHANGED walk, ~ NextPage
    PROVE  Stamped
<1>1. ASSUME NEW i \in Ids, CreateRequest(i) PROVE Stamped
  <2>1. PICK d \in Granted :
          /\ write' = [write EXCEPT ![i].pc = "clock", ![i].expires = now + d \div Second]
          /\ rows' = rows
    BY <1>1 DEF CreateRequest
  <2>2. write'[i].pc = "clock" /\ \A j \in Ids \ {i} : write'[j] = write[j]
    BY <2>1 DEF TypeOK, Writing
  <2> QED
    BY <2>1, <2>2 DEF Stamped
<1>2. ASSUME NEW i \in Ids, StampCreated(i) PROVE Stamped
  <2>1. write'[i].created = now /\ \A j \in Ids \ {i} : write'[j] = write[j]
    BY <1>2 DEF StampCreated, TypeOK, Writing
  <2> QED
    BY <1>2, <2>1 DEF Stamped, StampCreated
<1>3. ASSUME NEW i \in Ids, Insert(i) PROVE Stamped
  <2>1. /\ write[i].pc = "queued" /\ rows'[i].created = write[i].created
        /\ write'[i].pc = "idle"
        /\ \A j \in Ids \ {i} : write'[j] = write[j] /\ rows'[j] = rows[j]
    BY <1>3 DEF Insert, TypeOK, NotWriting
  <2> QED
    BY <2>1 DEF Stamped
<1>4. ASSUME NEW i \in Ids, Settle(i) PROVE Stamped
  <2>1. rows[i] \in Row
    BY <1>4, RowFacts DEF Settle
  <2>2. /\ rows[i] # Null /\ rows'[i].created = rows[i].created /\ write' = write
        /\ \A j \in Ids \ {i} : rows'[j] = rows[j]
    BY <1>4, <2>1 DEF Settle, TypeOK, Row
  <2> QED
    BY <2>2 DEF Stamped
<1>5. ASSUME NEW i \in Ids, Delete(i) PROVE Stamped
  BY <1>5 DEF Delete, TypeOK, Stamped
<1>6. CASE Tick \/ StartWalk \/ Leave
  BY <1>6 DEF Tick, StartWalk, Leave, Stamped
<1> QED
  BY <1>1, <1>2, <1>3, <1>4, <1>5, <1>6 DEF Next

(* Whatever is created, deleted and settled beside it, a walk whose        *)
(* cursor's second is over has no more rows to come than before.           *)
LEMMA StampedLeft ==
    ASSUME TypeOK, TypeOK', Stamped, walk.cursor # Null, walk.cursor.created < now
    PROVE  Left' \subseteq Left
<1>1. /\ walk.cursor.created \in Nat /\ walk.cursor.id \in Nat /\ now \in Nat
      /\ walk' = walk /\ Ids \subseteq Nat
  BY ListingAssumption DEF TypeOK, Walk, Cursor, Stamped, ListingAssumption
<1>2. \A i \in Ids : write[i].created \in Nat /\ write'[i].created \in Nat
  BY DEF TypeOK, Writing
<1>3. \A i \in Ids : rows'[i] # Null => rows'[i].created \in Nat
  BY DEF TypeOK, Row
<1>4. ASSUME NEW i \in Ids, rows'[i] # Null, After(i, walk.cursor)'
      PROVE  i \in Left
  <2>1. \/ rows'[i].created < walk.cursor.created
        \/ rows'[i].created = walk.cursor.created /\ i < walk.cursor.id
    BY <1>1, <1>4 DEF After
  <2>2. CASE rows[i] # Null /\ rows'[i].created = rows[i].created
    BY <2>1, <2>2 DEF After, Left
  <2>3. CASE write[i].pc = "queued" /\ rows'[i].created = write[i].created
    <3>1. write[i].created <= walk.cursor.created
      BY <1>1, <1>2, <2>1, <2>3
    <3> QED
      BY <2>3, <3>1 DEF Left
  <2> QED
    BY <1>4, <2>2, <2>3 DEF Stamped
<1>5. ASSUME NEW i \in Ids, write'[i].pc = "queued", write'[i].created <= walk.cursor.created
      PROVE  i \in Left
  <2>1. write'[i].created # now
    BY <1>1, <1>2, <1>5
  <2> QED
    BY <1>5, <2>1 DEF Stamped, Left
<1> QED
  BY <1>1, <1>4, <1>5 DEF Left

(* A page that is not the last moves the cursor down to its last row. *)
LEMMA PageNarrows ==
    ASSUME IInv, ListPage, walk.cursor # Null, walk'.cursor # Null
    PROVE  Left' \subseteq Left /\ Left' # Left
<1> DEFINE S == {i \in Selected : After(i, walk.cursor)}
           cursor(i) == [created |-> rows[i].created, id |-> i]
<1>1. /\ UNCHANGED <<rows, write>>
      /\ walk \in Walk /\ walk.cursor \in [created: Nat, id: Ids]
      /\ TypeOK
  BY DEF IInv, TypeOK, ListPage, Walk, Cursor
<1>2. walk'.cursor \in NextCursor(S, walk.limit)
  BY <1>1 DEF ListPage, Walk
<1>3. PICK l \in S : walk'.cursor = cursor(l)
  BY <1>2 DEF NextCursor, Top
<1>4. l \in Ids /\ rows[l] # Null /\ After(l, walk.cursor)
  BY <1>3 DEF Selected
<1>5. rows[l] \in Row
  BY <1>1, <1>4, RowFacts
<1>6. /\ walk.cursor.created \in Nat /\ walk.cursor.id \in Nat
      /\ walk'.cursor.created = rows[l].created /\ rows[l].created \in Nat
      /\ walk'.cursor.id = l
  <2>1. walk.cursor.created \in Nat /\ walk.cursor.id \in Nat
    BY <1>1, ListingAssumption DEF ListingAssumption
  <2>2. walk'.cursor.created = rows[l].created /\ walk'.cursor.id = l
    BY <1>3
  <2>3. rows[l].created \in Nat
    BY <1>5 DEF Row
  <2> QED
    BY <2>1, <2>2, <2>3
<1>7. rows[l].created <= walk.cursor.created
  BY <1>4, <1>6 DEF After
<1>8. ASSUME NEW i \in Ids, rows[i] # Null
      PROVE  After(i, walk'.cursor) <=> Before(l, i)
  BY <1>1, <1>3, <1>4, <1>8, AfterRow
<1>9. \A i \in Ids : After(i, walk.cursor)' <=> After(i, walk'.cursor)
  BY <1>1 DEF After
<1>10. Left' \subseteq Left
  <2>1. ASSUME NEW i \in Ids, rows[i] # Null, After(i, walk'.cursor)
        PROVE  After(i, walk.cursor)
    BY <1>1, <1>4, <1>8, <2>1, AfterCursor DEF Cursor
  <2>2. \A i \in Ids : write[i].created \in Nat
    BY <1>1 DEF TypeOK, Writing
  <2> QED
    BY <1>1, <1>6, <1>7, <1>9, <2>1, <2>2 DEF Left
<1>11. l \in Left
  BY <1>4 DEF Left
<1>12. l \notin Left'
  <2>1. ~ After(l, walk'.cursor)
    BY <1>1, <1>4, <1>8, Order
  <2>2. write[l].pc # "queued"
    BY <1>4 DEF IInv, Stored, Issued
  <2> QED
    BY <1>1, <1>9, <2>1, <2>2 DEF Left
<1> QED
  BY <1>10, <1>11, <1>12

(* Loading more comes to an end (ListTokens, ListOTPs): once the second of *)
(* the cursor is over, what is left to show only shrinks, and every page   *)
(* takes something from it, for any number of rows and requests.           *)
THEOREM WalksNarrow == Spec => WalkNarrows
<1> DEFINE Narrower ==
             walk.cursor # Null /\ walk.cursor.created < now /\ walk'.cursor # Null =>
               /\ Left' \subseteq Left
               /\ walk.pc = "query" /\ walk'.pc = "ask" => Left' # Left
<1>1. IInv /\ [Next]_vars => [Narrower]_vars
  <2> SUFFICES ASSUME IInv, Next, walk.cursor # Null, walk.cursor.created < now,
                      walk'.cursor # Null
               PROVE  /\ Left' \subseteq Left
                      /\ walk.pc = "query" /\ walk'.pc = "ask" => Left' # Left
    OBVIOUS
  <2>1. TypeOK /\ TypeOK' /\ walk \in Walk
    BY NextIInv DEF IInv, TypeOK
  <2>2. CASE ListPage
    BY <2>2, PageNarrows
  <2>3. CASE AskPage
    <3>1. UNCHANGED <<rows, write>> /\ walk'.cursor = walk.cursor /\ walk'.pc = "query"
      BY <2>1, <2>3 DEF AskPage, Walk
    <3> QED
      BY <3>1 DEF Left, After
  <2>4. CASE UNCHANGED walk /\ ~ NextPage
    BY <2>1, <2>4, NextStamped, StampedLeft
  <2>5. CASE StartWalk \/ Leave
    BY <2>5, NoWalkIdle DEF StartWalk, Leave
  <2> QED
    BY <2>2, <2>3, <2>4, <2>5
       DEF Next, NextPage, CreateRequest, StampCreated, Insert, Settle, Delete, Tick
<1> QED
  BY <1>1, Invariance, PTL DEF Spec, WalkNarrows
=============================================================================
