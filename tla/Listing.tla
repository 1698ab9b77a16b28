------------------------------ MODULE Listing -------------------------------
(***************************************************************************)
(* Paging through a table that changes: ListTokens and ListOTPs            *)
(* (internal/db/tokens.go, internal/db/otps.go) as the panel's "Load more" *)
(* and the management API call them, while rows are created with the       *)
(* lifetimes of Limits, settled, deleted, and expire.                      *)
(*                                                                         *)
(* The two tables page in the same way, so one stands for both.  A row     *)
(* keeps what a walk can tell apart: its place in the order (created_at    *)
(* and id), its expiry, and how it was settled, if it was: "ended" if it   *)
(* was revoked or consumed, which is its status for ever, "used" if its    *)
(* uses or its guesses are used up, which is its status until it expires.  *)
(* Rows of another environment and rows a search does not match are never  *)
(* selected, and are left out.                                             *)
(***************************************************************************)
EXTENDS Limits, FiniteSets

CONSTANTS
    Ids,           \* ids the generator may draw; they compare as SQLite compares text
    MaxTTL,        \* TOKENZY_MAX_TTL, as a duration
    Amounts,       \* the numbers callers ask for, any int64
    DefaultLimit,  \* the page size where none is asked for
    MaxLimit,      \* the largest page
    Asked,         \* the page sizes callers ask for
    MaxTime        \* bound: the clock stops here

ASSUME ListingAssumption ==
    /\ Ids \subseteq Nat
    /\ IsFiniteSet(Ids)
    /\ MaxTTL \in Int64
    /\ Amounts \subseteq Int64
    /\ DefaultLimit \in Nat \ {0}
    /\ MaxLimit \in Nat \ {0}
    /\ Asked \subseteq Int64
    /\ MaxTime \in Nat

Filters == {"", "active", "expired", "used", "ended"}

Row == [created: Nat, expires: Int, settled: {"no", "used", "ended"}]

ASSUME RowAssumption == Null \notin Row /\ Null \notin [created: Nat, id: Ids]

VARIABLES
    now,     \* the wall clock
    rows,    \* the table: a Row, or Null where there is none
    write,   \* what the request that creates each row has decided so far
    walk,    \* a caller going through the pages
    asked    \* history: when the request for each id read the clock, or Null

vars == <<now, rows, write, walk, asked>>

(***************************************************************************)
(* A create request has computed the expiry ("clock") and then created_at  *)
(* ("queued") and waits for the write connection.                          *)
(***************************************************************************)
Writing == [pc: {"idle", "clock", "queued"}, created: Nat, expires: Int]

NotWriting == [pc |-> "idle", created |-> 0, expires |-> 0]

(***************************************************************************)
(* A position in the order (created_at DESC, id DESC); Null is the empty   *)
(* cursor, which means the top in a request.                               *)
(***************************************************************************)
Cursor == [created: Nat, id: Ids] \cup {Null}

(***************************************************************************)
(* A walk: the caller is about to ask for a page ("ask"), the page's       *)
(* condition holds the time ts and its query is to run ("query"), or the   *)
(* last answer carried no cursor ("end").  Three histories: the rows that  *)
(* were in an answer, those that were in two, and those that every query   *)
(* so far has found in the table and matching the filter.                  *)
(***************************************************************************)
Walk == [pc: {"idle", "ask", "query", "end"}, filter: Filters, cursor: Cursor,
         ts: Nat, limit: Nat, shown: SUBSET Ids, again: SUBSET Ids, lasting: SUBSET Ids]

NoWalk == [pc |-> "idle", filter |-> "", cursor |-> Null, ts |-> 0, limit |-> 0,
           shown |-> {}, again |-> {}, lasting |-> Ids]

TypeOK ==
    /\ now \in Nat
    /\ rows \in [Ids -> Row \cup {Null}]
    /\ write \in [Ids -> Writing]
    /\ walk \in Walk
    /\ asked \in [Ids -> Nat \cup {Null}]

Init ==
    /\ now = 0
    /\ rows = [i \in Ids |-> Null]
    /\ write = [i \in Ids |-> NotWriting]
    /\ walk = NoWalk
    /\ asked = [i \in Ids |-> Null]

-----------------------------------------------------------------------------
(* Rows come and go.                                                       *)

MaxLifetime == Ceiling(NewLimits(MaxTTL))

(* The lifetimes that are granted: to machines, and to the panel's form. *)
Granted == ({ValidateTTL(n, MaxLifetime) : n \in Amounts}
             \cup {Parse(n, u, MaxLifetime) : n \in Amounts, u \in Units}) \ {Null}

(***************************************************************************)
(* createToken: the lifetime is granted, an id is drawn (never twice), and *)
(* time.Now().Add(ttl).Unix() is the expiry.  A refusal changes nothing.   *)
(***************************************************************************)
CreateRequest(i) ==
    \E d \in Granted :
        /\ asked[i] = Null
        /\ asked' = [asked EXCEPT ![i] = now]
        /\ write' = [write EXCEPT ![i].pc = "clock", ![i].expires = now + d \div Second]
        /\ UNCHANGED <<now, rows, walk>>

(* CreateToken, GenerateOTP: created_at is a reading of its own. *)
StampCreated(i) ==
    /\ write[i].pc = "clock"
    /\ write' = [write EXCEPT ![i].pc = "queued", ![i].created = now]
    /\ UNCHANGED <<now, rows, walk, asked>>

(* The INSERT: the row appears where its created_at puts it, not on top. *)
Insert(i) ==
    /\ write[i].pc = "queued"
    /\ rows' = [rows EXCEPT ![i] = [created |-> write[i].created,
                                    expires |-> write[i].expires, settled |-> "no"]]
    /\ write' = [write EXCEPT ![i] = NotWriting]
    /\ UNCHANGED <<now, walk, asked>>

(* Used up, revoked or consumed: the row keeps its place. *)
Settle(i) ==
    /\ rows[i] # Null
    /\ \/ /\ rows[i].settled = "no"
          /\ rows' = [rows EXCEPT ![i].settled = "used"]
       \/ /\ rows[i].settled # "ended"
          /\ rows' = [rows EXCEPT ![i].settled = "ended"]
    /\ UNCHANGED <<now, write, walk, asked>>

(* By a request, or by the clean-up job. *)
Delete(i) ==
    /\ rows[i] # Null
    /\ rows' = [rows EXCEPT ![i] = Null]
    /\ UNCHANGED <<now, write, walk, asked>>

Tick ==
    /\ now < MaxTime
    /\ now' = now + 1
    /\ UNCHANGED <<rows, write, walk, asked>>

-----------------------------------------------------------------------------
(* One page.                                                               *)

(* The caller's limit: absent or not positive, or cut off at the maximum. *)
ResolveLimit(limit) ==
    IF limit <= 0 THEN DefaultLimit ELSE IF limit > MaxLimit THEN MaxLimit ELSE limit

(* The status predicate at time ts. *)
Matches(row, filter, ts) ==
    CASE filter = ""        -> TRUE
      [] filter = "ended"   -> row.settled = "ended"
      [] filter = "expired" -> row.settled # "ended" /\ row.expires <= ts
      [] filter = "used"    -> row.settled = "used" /\ row.expires > ts
      [] filter = "active"  -> row.settled = "no" /\ row.expires > ts

(* i stands before j: it is newer, or as new with the greater id. *)
Before(i, j) == \/ rows[i].created > rows[j].created
                \/ rows[i].created = rows[j].created /\ i > j

(* Slips in the keyset condition: rows of the cursor's second skipped, the *)
(* cursor's own row taken again, or the comparison the wrong way round.    *)
After_WholeSecond(i, cursor) == cursor = Null \/ rows[i].created < cursor.created
After_Inclusive(i, cursor) ==
    \/ cursor = Null
    \/ rows[i].created < cursor.created
    \/ rows[i].created = cursor.created /\ i <= cursor.id

After_Newer(i, cursor) ==
    \/ cursor = Null
    \/ rows[i].created > cursor.created
    \/ rows[i].created = cursor.created /\ i > cursor.id

(* Strictly after the cursor. *)
After(i, cursor) ==
    \/ cursor = Null
    \/ rows[i].created < cursor.created
    \/ rows[i].created = cursor.created /\ i < cursor.id

(* The rows a query's WHERE selects but for the cursor. *)
Selected == {i \in Ids : rows[i] # Null /\ Matches(rows[i], walk.filter, walk.ts)}

(* ORDER BY ... LIMIT: the first rows of S. *)
Top(S, limit) == {i \in S : Cardinality({j \in S : Before(j, i)}) < limit}

(***************************************************************************)
(* The cursor handed out with Top(S, limit): none if the extra row was not *)
(* there, or else the last row shown.                                      *)
(***************************************************************************)
NextCursor(S, limit) ==
    IF Top(S, limit) = S THEN {Null}
    ELSE {[created |-> rows[i].created, id |-> i] :
            i \in {i \in Top(S, limit) : \A j \in Top(S, limit) : j = i \/ Before(j, i)}}

-----------------------------------------------------------------------------
(* The caller.                                                             *)

(* The page is opened, or the listing asked for from the top. *)
StartWalk ==
    /\ walk.pc = "idle"
    /\ \E f \in Filters : walk' = [NoWalk EXCEPT !.pc = "ask", !.filter = f]
    /\ UNCHANGED <<now, rows, write, asked>>

(***************************************************************************)
(* A page is asked for, with the filter and the cursor of the last answer: *)
(* the status predicate takes the time before the query has a connection.  *)
(***************************************************************************)
AskPage ==
    /\ walk.pc = "ask"
    /\ \E n \in Asked : walk' = [walk EXCEPT !.pc = "query", !.ts = now,
                                             !.limit = ResolveLimit(n)]
    /\ UNCHANGED <<now, rows, write, asked>>

(* The query, one snapshot, and its answer. *)
ListPage ==
    LET S == {i \in Selected : After(i, walk.cursor)}
    IN  /\ walk.pc = "query"
        /\ \E next \in NextCursor(S, walk.limit) :
             walk' = [walk EXCEPT
                        !.pc = IF next = Null THEN "end" ELSE "ask",
                        !.cursor = next,
                        !.ts = 0, !.limit = 0,
                        !.shown = @ \cup Top(S, walk.limit),
                        !.again = @ \cup (walk.shown \cap Top(S, walk.limit)),
                        !.lasting = @ \cap Selected]
        /\ UNCHANGED <<now, rows, write, asked>>

(* The caller leaves, before the end or after it. *)
Leave ==
    /\ walk.pc # "idle"
    /\ walk' = NoWalk
    /\ UNCHANGED <<now, rows, write, asked>>

NextPage == AskPage \/ ListPage

Next ==
    \/ \E i \in Ids : CreateRequest(i) \/ StampCreated(i) \/ Insert(i) \/ Settle(i) \/ Delete(i)
    \/ Tick \/ StartWalk \/ NextPage \/ Leave

Spec == Init /\ [][Next]_vars

-----------------------------------------------------------------------------
(* Properties.                                                             *)

(***************************************************************************)
(* No row is on two pages of one walk, whatever is created, settled and    *)
(* deleted between the pages and although many rows share a second.        *)
(***************************************************************************)
NeverShownTwice == walk.again = {}

(***************************************************************************)
(* A walk that reached the end has shown every row that was there and      *)
(* matched the filter at each of its queries, also when rows before it,    *)
(* or the very row the cursor names, were deleted meanwhile.               *)
(***************************************************************************)
LastingRowsShown == walk.pc = "end" => walk.lasting \subseteq walk.shown

(***************************************************************************)
(* What a walk may still show: the rows after its cursor, and those whose  *)
(* request has read the clock, early enough to appear there, and waits     *)
(* for the write connection.                                               *)
(***************************************************************************)
Left ==
    {i \in Ids : \/ rows[i] # Null /\ After(i, walk.cursor)
                 \/ write[i].pc = "queued" /\ write[i].created <= walk.cursor.created}

(***************************************************************************)
(* Loading more comes to an end although rows are created all the time:    *)
(* the cursor only moves down, so once its second is over no request, new  *)
(* or under way, adds to what the walk may still show, and every page that *)
(* is not the last takes something away.                                   *)
(***************************************************************************)
WalkNarrows ==
    [][walk.cursor # Null /\ walk.cursor.created < now /\ walk'.cursor # Null =>
         /\ Left' \subseteq Left
         /\ walk.pc = "query" /\ walk'.pc = "ask" => Left' # Left]_vars

(***************************************************************************)
(* Whatever number a caller asks for, a row that is stored expires later   *)
(* than the moment it was asked for and no later than the ceiling after    *)
(* it: no product of the conversion wraps around and slips through.        *)
(***************************************************************************)
LifetimesFit ==
    \A i \in Ids : rows[i] # Null =>
        /\ rows[i].expires > asked[i]
        /\ rows[i].expires <= asked[i] + AbsoluteMaxTTL \div Second
        /\ rows[i].expires <= asked[i] + MaxLifetime \div Second
=============================================================================
