------------------------------ MODULE Sessions ------------------------------
(***************************************************************************)
(* The sessions of the admin panel: signing in, the check in front of      *)
(* every page, signing out, and the janitor that removes what expired      *)
(* (internal/auth/session.go, internal/db/users.go, loginSubmit and logout *)
(* in internal/ui/ui.go, startSessionJanitor in main.go), on top of the    *)
(* processes of Startup, which come and go and change passwords.           *)
(***************************************************************************)
EXTENDS Startup

CONSTANTS
    SessionIds,  \* ids NewSessionID may draw
    Clients,     \* requests being served at the same time
    SessionTTL,  \* how long a session lasts
    MaxTime      \* bound: the clock stops here

ASSUME SessionsAssumption ==
    /\ Null \notin SessionIds
    /\ SessionTTL \in Nat \ {0}
    /\ MaxTime \in Nat

VARIABLES
    now,       \* the wall clock
    sessions,  \* the sessions table: a row, or Null
    req,       \* what each request in flight has read and has left to do
    janitor,   \* the time each server's janitor read for its DELETE, or Null
    deadline,  \* history: the expiry each id was drawn with, or Null
    cookies,   \* history: the ids that reached a browser
    ended      \* history: the ids whose sign-out cleared the cookie

panel == <<now, sessions, req, janitor, deadline, cookies, ended>>
vars == <<database, proc, faults, panel>>

Row == [user: Names, expires: Nat]

ASSUME RowAssumption == Null \notin Row /\ Null \notin Nat

(***************************************************************************)
(* A request, served by process proc, with a session id and what it read:  *)
(*   "lookup"  sign-in: to read the account and verify the password        *)
(*   "start"   sign-in: to draw an id and compute the expiry               *)
(*   "insert"  sign-in: to store the session                               *)
(*   "get"     a page: to read the session                                 *)
(*   "check"   a page: to compare the expiry it read with the clock        *)
(*   "drop"    a page: to delete the session it found expired              *)
(*   "user"    a page: to read the account of the session                  *)
(*   "handler" a page: past the check, its handler runs                    *)
(*   "end"     sign-out: to delete the session                             *)
(* late is a history: the session was over when the request came.          *)
(***************************************************************************)
Request == [pc: {"idle", "lookup", "start", "insert", "get", "check", "drop", "user",
                 "handler", "end"},
            proc: Procs \cup {Null}, admin: Admin \cup {Null},
            sid: SessionIds \cup {Null}, row: Row \cup {Null}, late: BOOLEAN]

Idle == [pc |-> "idle", proc |-> Null, admin |-> Null, sid |-> Null, row |-> Null, late |-> FALSE]

TypeOK ==
    /\ StartupTypeOK
    /\ now \in Nat
    /\ sessions \in [SessionIds -> Row \cup {Null}]
    /\ req \in [Clients -> Request]
    /\ janitor \in [Servers -> Nat \cup {Null}]
    /\ deadline \in [SessionIds -> Nat \cup {Null}]
    /\ cookies \in SUBSET SessionIds
    /\ ended \in SUBSET SessionIds

Init ==
    /\ StartupInit
    /\ now = 0
    /\ sessions = [s \in SessionIds |-> Null]
    /\ req = [c \in Clients |-> Idle]
    /\ janitor = [p \in Servers |-> Null]
    /\ deadline = [s \in SessionIds |-> Null]
    /\ cookies = {}
    /\ ended = {}

-----------------------------------------------------------------------------
At(c, pc) == req[c].pc = pc

Continue(c, pc) == req' = [req EXCEPT ![c].pc = pc]

Answer(c) == req' = [req EXCEPT ![c] = Idle]

NoBoot == UNCHANGED <<database, proc, faults>>

-----------------------------------------------------------------------------
(* Signing in.                                                             *)

LoginRequest(c) ==
    /\ At(c, "idle")
    /\ \E p \in Servers, a \in Admin :
         /\ Serving(p)
         /\ req' = [req EXCEPT ![c] = [Idle EXCEPT !.pc = "lookup", !.proc = p, !.admin = a]]
    /\ NoBoot /\ UNCHANGED <<now, sessions, janitor, deadline, cookies, ended>>

(* GetUserByUsername, and VerifyPassword against the hash it returned. *)
Lookup(c) ==
    /\ At(c, "lookup")
    /\ IF users[req[c].admin.name] = req[c].admin.password THEN Continue(c, "start") ELSE Answer(c)
    /\ NoBoot /\ UNCHANGED <<now, sessions, janitor, deadline, cookies, ended>>

(* Sessions.Start: an id of 256 random bits, taken never to be drawn twice. *)
DrawSession(c) ==
    /\ At(c, "start")
    /\ \E s \in SessionIds :
         /\ deadline[s] = Null
         /\ deadline' = [deadline EXCEPT ![s] = now + SessionTTL]
         /\ req' = [req EXCEPT ![c].pc = "insert", ![c].sid = s, ![c].admin = Null,
                               ![c].row = [user |-> req[c].admin.name,
                                           expires |-> now + SessionTTL]]
    /\ NoBoot /\ UNCHANGED <<now, sessions, janitor, cookies, ended>>

(* The answer with the cookie may be lost on its way to the browser. *)
CreateSession(c) ==
    /\ At(c, "insert")
    /\ sessions' = [sessions EXCEPT ![req[c].sid] = req[c].row]
    /\ cookies' \in {cookies, cookies \cup {req[c].sid}}
    /\ Answer(c)
    /\ NoBoot /\ UNCHANGED <<now, janitor, deadline, ended>>

-----------------------------------------------------------------------------
(* A page behind RequireLogin.                                             *)

(* Signed out by an answered request, or past the expiry it began with. *)
Over(s) == s \in ended \/ deadline[s] < now

PageRequest(c) ==
    /\ At(c, "idle")
    /\ \E p \in Servers, s \in cookies :
         /\ Serving(p)
         /\ req' = [req EXCEPT ![c] = [Idle EXCEPT !.pc = "get", !.proc = p, !.sid = s,
                                                   !.late = Over(s)]]
    /\ NoBoot /\ UNCHANGED <<now, sessions, janitor, deadline, cookies, ended>>

GetSession(c) ==
    /\ At(c, "get")
    /\ IF sessions[req[c].sid] = Null THEN Answer(c)
       ELSE req' = [req EXCEPT ![c].pc = "check", ![c].row = sessions[req[c].sid]]
    /\ NoBoot /\ UNCHANGED <<now, sessions, janitor, deadline, cookies, ended>>

(* A slip: the janitor is trusted to have removed what expired. *)
Expired_Never(row, ts) == FALSE

(* A session still opens in the very second it expires. *)
Expired(row, ts) == row.expires < ts

CheckExpiry(c) ==
    /\ At(c, "check")
    /\ Continue(c, IF Expired(req[c].row, now) THEN "drop" ELSE "user")
    /\ NoBoot /\ UNCHANGED <<now, sessions, janitor, deadline, cookies, ended>>

(* Best effort: the browser is sent to the login page even if it fails. *)
DropSession(c) ==
    /\ At(c, "drop")
    /\ sessions' \in {sessions, [sessions EXCEPT ![req[c].sid] = Null]}
    /\ Answer(c)
    /\ NoBoot /\ UNCHANGED <<now, janitor, deadline, cookies, ended>>

GetUser(c) ==
    /\ At(c, "user")
    /\ IF users[req[c].row.user] = Null THEN Answer(c)
       ELSE req' = [req EXCEPT ![c].pc = "handler", ![c].row = Null]
    /\ NoBoot /\ UNCHANGED <<now, sessions, janitor, deadline, cookies, ended>>

Handle(c) ==
    /\ At(c, "handler")
    /\ Answer(c)
    /\ NoBoot /\ UNCHANGED <<now, sessions, janitor, deadline, cookies, ended>>

-----------------------------------------------------------------------------
(* Signing out.                                                            *)

LogoutRequest(c) ==
    /\ At(c, "idle")
    /\ \E p \in Servers, s \in cookies :
         /\ Serving(p)
         /\ req' = [req EXCEPT ![c] = [Idle EXCEPT !.pc = "end", !.proc = p, !.sid = s]]
    /\ NoBoot /\ UNCHANGED <<now, sessions, janitor, deadline, cookies, ended>>

(* If the DELETE fails the cookie is not cleared and the session stays. *)
EndSession(c) ==
    /\ At(c, "end")
    /\ sessions' = [sessions EXCEPT ![req[c].sid] = Null]
    /\ ended' = ended \cup {req[c].sid}
    /\ Answer(c)
    /\ NoBoot /\ UNCHANGED <<now, janitor, deadline, cookies>>

(* A statement of the request fails, or its caller hangs up before it: no  *)
(* page, no session, or no sign-out.                                       *)
Fail(c) ==
    /\ req[c].pc \in {"lookup", "insert", "get", "user", "end"}
    /\ faults < MaxFaults
    /\ faults' = faults + 1
    /\ Answer(c)
    /\ UNCHANGED <<database, proc, now, sessions, janitor, deadline, cookies, ended>>

-----------------------------------------------------------------------------
(* The janitor: now() is read, then the DELETE waits for the connection.   *)

Wake(p) ==
    /\ Serving(p)
    /\ janitor[p] = Null
    /\ janitor' = [janitor EXCEPT ![p] = now]
    /\ NoBoot /\ UNCHANGED <<now, sessions, req, deadline, cookies, ended>>

(* Slips: the last second counts as over, or the lifetime is added twice.  *)
Prunable_LastSecond(row, ts) == row # Null /\ row.expires <= ts
Prunable_TwiceTTL(row, ts) == row # Null /\ row.expires + SessionTTL < ts

(* WHERE of the DELETE. *)
Prunable(row, ts) == row # Null /\ row.expires < ts

(* A DELETE that fails is logged, and the loop goes on. *)
DeleteExpiredSessions(p) ==
    /\ janitor[p] # Null
    /\ \/ /\ sessions' = [s \in SessionIds |-> IF Prunable(sessions[s], janitor[p])
                                              THEN Null ELSE sessions[s]]
          /\ UNCHANGED faults
       \/ /\ faults < MaxFaults
          /\ faults' = faults + 1
          /\ UNCHANGED sessions
    /\ janitor' = [janitor EXCEPT ![p] = Null]
    /\ UNCHANGED <<database, proc, now, req, deadline, cookies, ended>>

-----------------------------------------------------------------------------
(* A process exits with its requests and its janitor. *)
StopPanel(p) ==
    /\ Stop(p)
    /\ req' = [c \in Clients |-> IF req[c].proc = p THEN Idle ELSE req[c]]
    /\ janitor' = [q \in Servers |-> IF q = p THEN Null ELSE janitor[q]]
    /\ UNCHANGED <<now, sessions, deadline, cookies, ended>>

Tick ==
    /\ now < MaxTime
    /\ now' = now + 1
    /\ NoBoot /\ UNCHANGED <<sessions, req, janitor, deadline, cookies, ended>>

Arrive(c) == LoginRequest(c) \/ PageRequest(c) \/ LogoutRequest(c)

Serve(c) == \/ Lookup(c) \/ DrawSession(c) \/ CreateSession(c)
            \/ GetSession(c) \/ CheckExpiry(c) \/ DropSession(c) \/ GetUser(c) \/ Handle(c)
            \/ EndSession(c)

Janitor(p) == Wake(p) \/ DeleteExpiredSessions(p)

BootStep(p) == Boot(p) /\ UNCHANGED panel
ShellStep(p) == (StartShell(p) \/ Shell(p)) /\ UNCHANGED panel

Next == \/ \E c \in Clients : Arrive(c) \/ Serve(c) \/ Fail(c)
        \/ \E p \in Servers : BootStep(p) \/ Janitor(p)
        \/ \E p \in Shells : ShellStep(p) \/ BootStep(p)
        \/ \E p \in Procs : StopPanel(p)
        \/ Tick

Spec == Init /\ [][Next]_vars

(***************************************************************************)
(* A server is started again after every exit (restart: unless-stopped)    *)
(* and goes on to serve; its janitor is a loop over a ticker.  The shells, *)
(* the browsers and the clock owe nothing.                                 *)
(***************************************************************************)
FairSpec == /\ Spec
            /\ \A p \in Servers : WF_vars(BootStep(p)) /\ WF_vars(Janitor(p))

-----------------------------------------------------------------------------
(* Properties.                                                             *)

(***************************************************************************)
(* A page runs only for a session that was not over when the request came: *)
(* not one whose sign-out had been answered, not one past its expiry -     *)
(* although the row is read once and used three steps later, and restarts, *)
(* the janitor and other requests of the same browser come between.        *)
(***************************************************************************)
ServedOnlyWhenLive == \A c \in Clients : At(c, "handler") => ~ req[c].late

(***************************************************************************)
(* Nobody is signed out early: a session leaves the table only when its    *)
(* expiry has passed, as the check in front of the pages counts it, or by  *)
(* a sign-out of its own.                                                  *)
(***************************************************************************)
NoEarlySignOut ==
    [][\A s \in SessionIds : sessions[s] # Null /\ sessions'[s] = Null =>
         \/ Expired(sessions[s], now)
         \/ \E c \in Clients : At(c, "end") /\ req[c].sid = s]_vars

(* The password of an account changes only by ResetOnly, in every step. *)
PasswordKept == [][ResetOnly]_vars

(***************************************************************************)
(* Sessions that expired go, also when the process that would remove them  *)
(* is stopped or its DELETE comes a moment too early.                      *)
(***************************************************************************)
ExpiredSessionsGo ==
    \A s \in SessionIds : sessions[s] # Null /\ sessions[s].expires < now ~> sessions[s] = Null
=============================================================================
