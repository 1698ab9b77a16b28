--------------------------- MODULE SessionsProofs ---------------------------
(***************************************************************************)
(* Proofs about Startup and Sessions: the schema, the passwords and the    *)
(* sessions, for any number of processes, accounts, requests and sessions. *)
(***************************************************************************)
EXTENDS Sessions, TLAPS

(***************************************************************************)
(* The processes.  One that looks at a migration has all those before it   *)
(* behind it; one that creates or sets knows what; only a shell sets a     *)
(* password, and only if it was told to.                                   *)
(***************************************************************************)
Migrating ==
    /\ recorded = schema
    /\ \E k \in 0 .. Files : schema = 1 .. k
    /\ \A p \in Procs :
          LET f == proc[p].file
          IN  /\ proc[p].pc = "check" => f \in 1 .. Files + 1 /\ 1 .. f - 1 \subseteq schema
              /\ proc[p].pc = "apply" => f \in 1 .. Files /\ 1 .. f - 1 \subseteq schema
              /\ PastMigrate(p) => schema = 1 .. Files

Told ==
    \A p \in Procs :
        /\ p \in Shells /\ proc[p].pc # "off" => proc[p].admin \in Admin
        /\ proc[p].pc = "create" => EnvAdmin # Null
        /\ proc[p].pc \in {"insert", "set"} => p \in Shells
        /\ proc[p].pc = "set" => proc[p].reset
        /\ proc[p].pc \in {"count", "seed", "lookup", "create", "serving"} => p \in Servers

BootInv == StartupTypeOK /\ Migrating /\ Told

LEMMA InitBootInv == Init => BootInv
<1> SUFFICES ASSUME Init PROVE BootInv
  OBVIOUS
<1> USE DEF Init, StartupInit
<1>1. Off \in Process /\ Off.pc = "off"
  BY DEF Off, Process
<1>2. StartupTypeOK
  BY <1>1, StartupAssumption DEF StartupAssumption, StartupTypeOK
<1>3. Migrating
  <2>1. schema = 1 .. 0 /\ 0 \in 0 .. Files
    BY StartupAssumption DEF StartupAssumption
  <2> QED
    BY <1>1, <2>1 DEF Migrating, PastMigrate
<1>4. Told
  BY <1>1 DEF Told
<1> QED
  BY <1>2, <1>3, <1>4 DEF BootInv

(* A step of one process: it alone moves, to a record of the right type.   *)
Moves(p, new) ==
    /\ new \in Process
    /\ proc' = [proc EXCEPT ![p] = new]

LEMMA Moved ==
    ASSUME BootInv, NEW p \in Procs, NEW new, Moves(p, new)
    PROVE  /\ proc' \in [Procs -> Process]
           /\ proc'[p] = new
           /\ \A q \in Procs \ {p} : proc'[q] = proc[q]
           /\ proc[p] \in Process
  BY DEF BootInv, StartupTypeOK, Moves

LEMMA OffIsProcess == Off \in Process /\ Off.pc = "off"
  BY DEF Off, Process

(* Moving on within the program changes nothing but the counter. *)
LEMMA BecomeMoves ==
    ASSUME BootInv, NEW p \in Procs,
           NEW pc \in {"off", "check", "apply", "count", "seed", "lookup", "create", "serving",
                       "insert", "set"},
           Become(p, pc)
    PROVE  /\ Moves(p, [proc[p] EXCEPT !.pc = pc])
           /\ proc'[p].pc = pc /\ proc'[p].file = proc[p].file
           /\ proc'[p].admin = proc[p].admin /\ proc'[p].reset = proc[p].reset
<1>1. proc \in [Procs -> Process] /\ proc[p] \in Process
  BY DEF BootInv, StartupTypeOK
<1>2. [proc[p] EXCEPT !.pc = pc] \in Process
  BY <1>1 DEF Process
<1> QED
  BY <1>1, <1>2 DEF Become, Moves, Process

LEMMA ExitMoves ==
    ASSUME NEW p \in Procs, Exit(p)
    PROVE  Moves(p, Off)
  BY OffIsProcess DEF Exit, Moves

(***************************************************************************)
(* What a step of p must show to keep the invariant, when the schema does  *)
(* not change: where p goes, the invariant holds of p.                     *)
(***************************************************************************)
Placed(p) ==
    LET f == proc[p].file
    IN  /\ proc[p].pc = "check" => f \in 1 .. Files + 1 /\ 1 .. f - 1 \subseteq schema
        /\ proc[p].pc = "apply" => f \in 1 .. Files /\ 1 .. f - 1 \subseteq schema
        /\ PastMigrate(p) => schema = 1 .. Files
        /\ p \in Shells /\ proc[p].pc # "off" => proc[p].admin \in Admin
        /\ proc[p].pc = "create" => EnvAdmin # Null
        /\ proc[p].pc \in {"insert", "set"} => p \in Shells
        /\ proc[p].pc = "set" => proc[p].reset
        /\ proc[p].pc \in {"count", "seed", "lookup", "create", "serving"} => p \in Servers

LEMMA PlacedAll == BootInv <=> /\ StartupTypeOK
                               /\ recorded = schema
                               /\ \E k \in 0 .. Files : schema = 1 .. k
                               /\ \A p \in Procs : Placed(p)
  BY DEF BootInv, Migrating, Told, Placed

LEMMA StepKeepsBoot ==
    ASSUME BootInv, NEW p \in Procs, NEW new, Moves(p, new),
           UNCHANGED <<schema, recorded>>,
           projects' \in BOOLEAN,
           users' \in [Names -> Passwords \cup {Null}],
           faults' \in Nat,
           Placed(p)'
    PROVE  BootInv'
<1>1. StartupTypeOK'
  BY Moved DEF BootInv, StartupTypeOK
<1>2. \A q \in Procs : Placed(q)'
  <2> SUFFICES ASSUME NEW q \in Procs, q # p PROVE Placed(q)'
    OBVIOUS
  <2>1. proc'[q] = proc[q] /\ schema' = schema
    BY Moved
  <2> QED
    BY <2>1, PlacedAll DEF Placed, PastMigrate
<1>3. (recorded = schema /\ \E k \in 0 .. Files : schema = 1 .. k)'
  BY PlacedAll
<1> QED
  BY <1>1, <1>2, <1>3, PlacedAll DEF BootInv, Migrating, Told, Placed

-----------------------------------------------------------------------------
(* One lemma per action of Startup.                                        *)

LEMMA BootTypes ==
    ASSUME BootInv
    PROVE  /\ projects \in BOOLEAN
           /\ users \in [Names -> Passwords \cup {Null}]
           /\ faults \in Nat
           /\ proc \in [Procs -> Process]
           /\ Files \in Nat
  BY StartupAssumption DEF BootInv, StartupTypeOK, StartupAssumption

LEMMA StartServerStep ==
    ASSUME BootInv, NEW p \in Servers, StartServer(p)
    PROVE  BootInv'
<1> DEFINE new == [Off EXCEPT !.pc = "check", !.file = 1, !.admin = EnvAdmin]
<1>1. p \in Procs /\ p \notin Shells
  BY StartupAssumption DEF StartupAssumption, Procs
<1>2. new \in Process /\ new.pc = "check" /\ new.file = 1
  BY OffIsProcess, StartupAssumption DEF StartupAssumption, Process
<1>3. Moves(p, new)
  BY <1>2 DEF StartServer, Moves
<1> HIDE DEF new
<1>4. Placed(p)'
  BY <1>1, <1>2, <1>3, Moved, BootTypes DEF Placed, PastMigrate
<1> QED
  BY <1>1, <1>3, <1>4, BootTypes, StepKeepsBoot DEF StartServer, database

LEMMA StartShellStep ==
    ASSUME BootInv, NEW p \in Shells, StartShell(p)
    PROVE  BootInv'
<1>1. PICK cmd \in Commands :
        proc' = [proc EXCEPT ![p] = [pc |-> "check", file |-> 1,
                                     admin |-> cmd[1], reset |-> cmd[2]]]
  BY DEF StartShell
<1> DEFINE new == [pc |-> "check", file |-> 1, admin |-> cmd[1], reset |-> cmd[2]]
<1>2. cmd[1] \in Admin /\ cmd[2] \in BOOLEAN /\ p \in Procs
  BY StartupAssumption DEF StartupAssumption, Procs
<1>3. new \in Process /\ new.pc = "check" /\ new.file = 1 /\ new.admin \in Admin
  BY <1>2 DEF Process
<1>4. Moves(p, new)
  BY <1>1, <1>3 DEF Moves
<1> HIDE DEF new
<1>5. Placed(p)'
  BY <1>2, <1>3, <1>4, Moved, BootTypes DEF Placed, PastMigrate
<1> QED
  BY <1>2, <1>4, <1>5, BootTypes, StepKeepsBoot DEF StartShell, database

LEMMA CheckMigrationStep ==
    ASSUME BootInv, NEW p \in Procs, CheckMigration(p)
    PROVE  BootInv'
<1>1. Placed(p) /\ recorded = schema /\ proc[p].pc = "check"
  BY PlacedAll DEF CheckMigration
<1>2. proc[p].file \in 1 .. Files + 1 /\ 1 .. proc[p].file - 1 \subseteq schema
  BY <1>1 DEF Placed
<1>3. PICK k \in 0 .. Files : schema = 1 .. k
  BY PlacedAll
<1>4. p \in Servers \/ p \in Shells
  BY DEF Procs
<1>5. CASE proc[p].file > Files /\ Become(p, IF p \in Servers THEN "count" ELSE "insert")
  <2> DEFINE pc == IF p \in Servers THEN "count" ELSE "insert"
  <2>1. pc \in {"count", "insert"}
    OBVIOUS
  <2>2. Moves(p, [proc[p] EXCEPT !.pc = pc]) /\ proc'[p].pc = pc /\ proc'[p].admin = proc[p].admin
    BY <1>5, <2>1, BecomeMoves
  <2>3. schema = 1 .. Files
    BY <1>2, <1>3, <1>5, BootTypes
  <2>4. Placed(p)'
    BY <1>1, <1>4, <2>1, <2>2, <2>3 DEF Placed, PastMigrate, CheckMigration, database
  <2> QED
    BY <2>2, <2>4, BootTypes, StepKeepsBoot DEF CheckMigration, database
<1>6. CASE proc[p].file \in recorded /\ proc' = [proc EXCEPT ![p].file = @ + 1]
  <2> DEFINE new == [proc[p] EXCEPT !.file = @ + 1]
  <2>1. new \in Process /\ new.pc = "check" /\ new.file = proc[p].file + 1
        /\ new.admin = proc[p].admin
    BY <1>1, BootTypes DEF Process
  <2>2. Moves(p, new)
    BY <1>6, <2>1 DEF Moves
  <2> HIDE DEF new
  <2>3. proc'[p].pc = "check" /\ proc'[p].file = proc[p].file + 1 /\ proc'[p].admin = proc[p].admin
    BY <2>1, <2>2, Moved
  <2>4. proc[p].file + 1 \in 1 .. Files + 1 /\ 1 .. (proc[p].file + 1) - 1 \subseteq schema
    BY <1>1, <1>2, <1>3, <1>6, BootTypes
  <2>5. Placed(p)'
    BY <1>1, <2>3, <2>4 DEF Placed, PastMigrate, CheckMigration, database
  <2> QED
    BY <2>2, <2>5, BootTypes, StepKeepsBoot DEF CheckMigration, database
<1>7. CASE ~ (proc[p].file > Files) /\ Become(p, "apply")
  <2>1. Moves(p, [proc[p] EXCEPT !.pc = "apply"]) /\ proc'[p].pc = "apply"
        /\ proc'[p].file = proc[p].file /\ proc'[p].admin = proc[p].admin
    BY <1>7, BecomeMoves
  <2>2. proc[p].file \in 1 .. Files
    BY <1>2, <1>7, BootTypes
  <2>3. Placed(p)'
    BY <1>1, <1>2, <2>1, <2>2 DEF Placed, PastMigrate, CheckMigration, database
  <2> QED
    BY <2>1, <2>3, BootTypes, StepKeepsBoot DEF CheckMigration, database
<1> QED
  BY <1>5, <1>6, <1>7 DEF CheckMigration

(* The one step that changes the schema: it adds the next migration. *)
LEMMA ApplyMigrationStep ==
    ASSUME BootInv, NEW p \in Procs, ApplyMigration(p)
    PROVE  BootInv'
<1>1. Placed(p) /\ recorded = schema /\ proc[p].pc = "apply"
  BY PlacedAll DEF ApplyMigration
<1>2. proc[p].file \in 1 .. Files /\ 1 .. proc[p].file - 1 \subseteq schema
  BY <1>1 DEF Placed
<1>3. PICK k \in 0 .. Files : schema = 1 .. k
  BY PlacedAll
<1>4. CASE Exit(p) /\ UNCHANGED <<schema, recorded>>
  <2>1. Moves(p, Off)
    BY <1>4, ExitMoves
  <2>2. proc'[p].pc = "off"
    BY <2>1, Moved, OffIsProcess
  <2>3. Placed(p)'
    BY <2>2 DEF Placed, PastMigrate
  <2> QED
    BY <1>4, <2>1, <2>3, BootTypes, StepKeepsBoot DEF ApplyMigration
<1>5. CASE /\ proc[p].file \notin schema \cup recorded
           /\ schema' = schema \cup {proc[p].file}
           /\ recorded' = recorded \cup {proc[p].file}
           /\ proc' = [proc EXCEPT ![p].pc = "check", ![p].file = @ + 1]
  <2> DEFINE new == [proc[p] EXCEPT !.pc = "check", !.file = @ + 1]
  <2>1. new \in Process /\ new.pc = "check" /\ new.file = proc[p].file + 1
        /\ new.admin = proc[p].admin
    <3>1. proc[p] \in Process /\ proc[p].file + 1 \in Nat
      BY BootTypes DEF Process
    <3> QED
      BY <3>1 DEF Process
  <2>2. Moves(p, new)
    BY <1>5, <2>1 DEF Moves
  <2> HIDE DEF new
  <2>3. /\ proc'[p].pc = "check" /\ proc'[p].file = proc[p].file + 1
        /\ proc'[p].admin = proc[p].admin
        /\ proc' \in [Procs -> Process]
        /\ \A q \in Procs \ {p} : proc'[q] = proc[q]
    BY <2>1, <2>2, Moved
  <2>4. k + 1 = proc[p].file /\ k + 1 \in 0 .. Files /\ schema' = 1 .. k + 1
    BY <1>2, <1>3, <1>5, BootTypes
  <2>5. StartupTypeOK'
    <3>1. schema' \in SUBSET Nat /\ recorded' = schema'
      BY <1>1, <1>5, <2>4
    <3> QED
      BY <3>1, <2>3, BootTypes DEF StartupTypeOK, ApplyMigration
  <2>6. ASSUME NEW q \in Procs PROVE Placed(q)'
    <3>1. CASE q = p
      <4>1. proc'[p].file \in 1 .. Files + 1 /\ 1 .. proc'[p].file - 1 \subseteq schema'
        BY <2>3, <2>4, <1>3, BootTypes
      <4> QED
        BY <3>1, <4>1, <1>1, <2>3 DEF Placed, PastMigrate
    <3>2. CASE q # p
      <4>1. Placed(q) /\ proc'[q] = proc[q] /\ schema \subseteq schema'
        BY <3>2, <2>3, <1>5, PlacedAll
      <4>2. schema' \subseteq 1 .. Files
        BY <2>4, BootTypes
      <4>3. schema = 1 .. Files => schema' = 1 .. Files
        BY <4>1, <4>2
      <4> QED
        BY <4>1, <4>3 DEF Placed, PastMigrate
    <3> QED
      BY <3>1, <3>2
  <2> QED
    BY <1>1, <1>5, <2>4, <2>5, <2>6 DEF BootInv, Migrating, Told, Placed
<1> QED
  BY <1>4, <1>5 DEF ApplyMigration

(* A step that goes on in the program past Migrate, or from it to the end. *)
LEMMA GoOn ==
    ASSUME BootInv, NEW p \in Procs, PastMigrate(p),
           NEW pc \in {"seed", "lookup", "create", "serving", "set"},
           pc = "create" => EnvAdmin # Null,
           pc = "set" => p \in Shells /\ proc[p].reset,
           pc # "set" => p \in Servers,
           Become(p, pc),
           UNCHANGED <<schema, recorded>>,
           projects' \in BOOLEAN, users' \in [Names -> Passwords \cup {Null}], faults' \in Nat
    PROVE  BootInv'
<1>1. /\ Moves(p, [proc[p] EXCEPT !.pc = pc])
      /\ proc'[p].pc = pc /\ proc'[p].admin = proc[p].admin /\ proc'[p].reset = proc[p].reset
  BY BecomeMoves
<1>2. Placed(p) /\ proc[p].pc # "off"
  BY PlacedAll DEF PastMigrate
<1>3. Placed(p)'
  BY <1>1, <1>2 DEF Placed, PastMigrate
<1> QED
  BY <1>1, <1>3, StepKeepsBoot

LEMMA ExitStep ==
    ASSUME BootInv, NEW p \in Procs, Exit(p),
           UNCHANGED <<schema, recorded>>,
           projects' \in BOOLEAN, users' \in [Names -> Passwords \cup {Null}], faults' \in Nat
    PROVE  BootInv'
<1>1. Moves(p, Off)
  BY ExitMoves
<1>2. proc'[p].pc = "off"
  BY <1>1, Moved, OffIsProcess
<1>3. Placed(p)'
  BY <1>2 DEF Placed, PastMigrate
<1> QED
  BY <1>1, <1>3, StepKeepsBoot

LEMMA ServerStep ==
    ASSUME BootInv, NEW p \in Procs,
           \/ CountProjects(p) \/ Seed(p) \/ LookupAdmin(p) \/ CreateAdmin(p)
    PROVE  BootInv'
<1>1. PastMigrate(p) /\ p \in Servers
  BY PlacedAll DEF Placed, PastMigrate, CountProjects, Seed, LookupAdmin, CreateAdmin
<1>2. CASE CountProjects(p)
  BY <1>1, <1>2, BootTypes, GoOn DEF CountProjects, database
<1>3. CASE Seed(p)
  BY <1>1, <1>3, BootTypes, GoOn, ExitStep DEF Seed
<1>4. CASE LookupAdmin(p)
  BY <1>1, <1>4, BootTypes, GoOn DEF LookupAdmin, database
<1>5. CASE CreateAdmin(p)
  <2>1. EnvAdmin \in Admin
    BY <1>5, PlacedAll, StartupAssumption DEF Placed, CreateAdmin, StartupAssumption
  <2>2. users' \in [Names -> Passwords \cup {Null}]
    BY <1>5, <2>1, BootTypes DEF CreateAdmin, Admin
  <2> QED
    BY <1>1, <1>5, <2>2, BootTypes, GoOn DEF CreateAdmin
<1> QED
  BY <1>2, <1>3, <1>4, <1>5

LEMMA ShellOps ==
    ASSUME BootInv, NEW p \in Procs, InsertUser(p) \/ SetUserPassword(p)
    PROVE  BootInv'
<1>1. PastMigrate(p) /\ p \in Shells /\ proc[p].admin \in Admin
  BY PlacedAll DEF Placed, PastMigrate, InsertUser, SetUserPassword
<1>2. users' \in [Names -> Passwords \cup {Null}]
  BY <1>1, BootTypes DEF InsertUser, SetUserPassword, Admin
<1> QED
  BY <1>1, <1>2, BootTypes, GoOn, ExitStep DEF InsertUser, SetUserPassword

LEMMA StopStep ==
    ASSUME BootInv, NEW p \in Procs, Stop(p)
    PROVE  BootInv'
  BY BootTypes, ExitStep DEF Stop, database

LEMMA BootStutter ==
    ASSUME BootInv, UNCHANGED <<database, proc>>, faults' \in Nat
    PROVE  BootInv'
<1>1. StartupTypeOK'
  BY DEF BootInv, StartupTypeOK, database
<1>2. (Migrating /\ Told)'
  BY DEF BootInv, Migrating, Told, PastMigrate, database
<1> QED
  BY <1>1, <1>2 DEF BootInv

-----------------------------------------------------------------------------
(* The steps of Sessions as steps of Startup.                              *)

(* What a step of Next does to the processes and the database. *)
BootNext ==
    \/ \E p \in Procs : Boot(p)
    \/ \E p \in Shells : StartShell(p)
    \/ \E p \in Procs : Shell(p)
    \/ \E p \in Procs : Stop(p)
    \/ UNCHANGED <<database, proc>> /\ faults' \in {faults, faults + 1}

LEMMA NextBoots == [Next]_vars => BootNext
<1> SUFFICES ASSUME [Next]_vars PROVE BootNext
  OBVIOUS
<1>1. ASSUME NEW c \in Clients, Arrive(c) \/ Serve(c) \/ Fail(c)
      PROVE  BootNext
  BY <1>1 DEF BootNext, NoBoot, Arrive, Serve, Fail, LoginRequest, PageRequest, LogoutRequest,
              Lookup, DrawSession, CreateSession, GetSession, CheckExpiry, DropSession, GetUser,
              Handle, EndSession
<1>2. ASSUME NEW p \in Servers, Janitor(p)
      PROVE  BootNext
  BY <1>2 DEF BootNext, NoBoot, Janitor, Wake, DeleteExpiredSessions
<1>3. ASSUME NEW p \in Procs, StopPanel(p)
      PROVE  BootNext
  BY <1>3 DEF BootNext, StopPanel
<1>4. CASE Tick
  BY <1>4 DEF BootNext, NoBoot, Tick
<1>5. CASE UNCHANGED vars
  BY <1>5 DEF BootNext, vars
<1>6. ASSUME NEW p \in Procs, BootStep(p)
      PROVE  BootNext
  BY <1>6 DEF BootNext, BootStep
<1>7. ASSUME NEW p \in Shells, ShellStep(p)
      PROVE  BootNext
  BY <1>7 DEF BootNext, ShellStep, Procs
<1> QED
  BY <1>1, <1>2, <1>3, <1>4, <1>5, <1>6, <1>7 DEF Next, Procs

LEMMA BootNextInv == BootInv /\ BootNext => BootInv'
<1> SUFFICES ASSUME BootInv, BootNext PROVE BootInv'
  OBVIOUS
<1>1. ASSUME NEW p \in Procs, Boot(p) PROVE BootInv'
  BY <1>1, StartServerStep, CheckMigrationStep, ApplyMigrationStep, ServerStep DEF Boot
<1>2. ASSUME NEW p \in Shells, StartShell(p) PROVE BootInv'
  BY <1>2, StartShellStep
<1>3. ASSUME NEW p \in Procs, Shell(p) PROVE BootInv'
  BY <1>3, ShellOps DEF Shell
<1>4. ASSUME NEW p \in Procs, Stop(p) PROVE BootInv'
  BY <1>4, StopStep
<1>5. CASE UNCHANGED <<database, proc>> /\ faults' \in {faults, faults + 1}
  BY <1>5, BootTypes, BootStutter
<1> QED
  BY <1>1, <1>2, <1>3, <1>4, <1>5 DEF BootNext

LEMMA BootInvariance == Spec => []BootInv
<1>1. BootInv /\ [Next]_vars => BootInv'
  BY NextBoots, BootNextInv
<1> QED
  BY InitBootInv, <1>1, PTL DEF Spec

(***************************************************************************)
(* Migrate (db.go:206-260): whatever processes start at once and wherever  *)
(* they are cut off, a migration is recorded exactly if it was applied,    *)
(* they are applied in order, and nobody goes on before all are.           *)
(***************************************************************************)
THEOREM SchemaStaysWhole == Spec => []SchemaWhole
<1>1. BootInv => SchemaWhole
  BY DEF BootInv, Migrating, SchemaWhole
<1> QED
  BY <1>1, BootInvariance, PTL

(***************************************************************************)
(* bootstrapAdmin and admin-create (main.go:421-470, 623-679): a password  *)
(* changes only by an admin-create -reset that names the account.          *)
(***************************************************************************)
LEMMA PasswordStep == BootInv /\ BootNext => [ResetOnly]_vars
<1> SUFFICES ASSUME BootInv, BootNext PROVE ResetOnly
  OBVIOUS
<1> SUFFICES ASSUME NEW n \in Names, users[n] # Null, users'[n] # users[n]
             PROVE  \E p \in Shells : /\ proc[p].pc = "set"
                                      /\ proc[p].reset
                                      /\ proc[p].admin = [name |-> n, password |-> users'[n]]
  BY DEF ResetOnly
<1>1. users \in [Names -> Passwords \cup {Null}]
  BY BootTypes
<1>2. ASSUME NEW p \in Procs, Boot(p) PROVE FALSE
  <2>1. CASE CreateAdmin(p)
    <3>1. EnvAdmin \in Admin
      BY <2>1, PlacedAll, StartupAssumption DEF Placed, CreateAdmin, StartupAssumption
    <3> QED
      BY <1>1, <2>1, <3>1 DEF CreateAdmin, Admin
  <2>2. CASE ~ CreateAdmin(p)
    BY <1>2, <2>2 DEF Boot, StartServer, CheckMigration, ApplyMigration, CountProjects, Seed,
                      LookupAdmin, database
  <2> QED
    BY <2>1, <2>2
<1>3. ASSUME NEW p \in Shells, StartShell(p) PROVE FALSE
  BY <1>3 DEF StartShell, database
<1>4. ASSUME NEW p \in Procs, InsertUser(p) PROVE FALSE
  <2>1. proc[p].admin \in Admin
    BY <1>4, PlacedAll DEF Placed, InsertUser
  <2> QED
    BY <1>1, <1>4, <2>1 DEF InsertUser, Admin
<1>5. ASSUME NEW p \in Procs, SetUserPassword(p)
      PROVE  /\ p \in Shells /\ proc[p].pc = "set" /\ proc[p].reset
             /\ proc[p].admin = [name |-> n, password |-> users'[n]]
  <2>1. p \in Shells /\ proc[p].reset /\ proc[p].pc = "set" /\ proc[p].admin \in Admin
    BY <1>5, PlacedAll DEF Placed, SetUserPassword
  <2>2. n = proc[p].admin.name /\ users'[n] = proc[p].admin.password
    BY <1>1, <1>5, <2>1 DEF SetUserPassword, Admin
  <2> QED
    BY <2>1, <2>2 DEF Admin
<1>6. ASSUME NEW p \in Procs, Stop(p) PROVE FALSE
  BY <1>6 DEF Stop, database
<1>7. CASE UNCHANGED <<database, proc>>
  BY <1>7 DEF database
<1> QED
  BY <1>2, <1>3, <1>4, <1>5, <1>6, <1>7 DEF BootNext, Shell

(* README.md:115: no restart undoes a password changed with -reset. *)
THEOREM PasswordsKept == Spec => PasswordKept
<1>1. BootInv /\ [Next]_vars => [ResetOnly]_vars
  BY NextBoots, PasswordStep
<1> QED
  BY <1>1, BootInvariance, PTL DEF Spec, PasswordKept

-----------------------------------------------------------------------------
(***************************************************************************)
(* The sessions.  What each request knows about the id and the row it      *)
(* carries: the expiry of an id is drawn once and every copy of it agrees, *)
(* an id reaches a browser only after its row was stored, and a row that   *)
(* was signed out never comes back.                                        *)
(***************************************************************************)
PanelTypes ==
    /\ now \in Nat
    /\ sessions \in [SessionIds -> Row \cup {Null}]
    /\ req \in [Clients -> Request]
    /\ janitor \in [Servers -> Nat \cup {Null}]
    /\ deadline \in [SessionIds -> Nat \cup {Null}]
    /\ cookies \in SUBSET SessionIds
    /\ ended \in SUBSET SessionIds

Stored(s) ==
    /\ sessions[s] # Null => deadline[s] = sessions[s].expires
    /\ s \in cookies => deadline[s] # Null
    /\ s \in ended => s \in cookies /\ sessions[s] = Null

Knows(c) ==
    LET r == req[c]
    IN  /\ r.pc \in {"lookup", "start"} => r.admin \in Admin
        /\ r.pc = "insert" => /\ r.sid \in SessionIds \ cookies
                              /\ r.row \in Row
                              /\ deadline[r.sid] = r.row.expires
        /\ r.pc \in {"get", "check", "drop", "end"} => r.sid \in cookies
        /\ r.pc = "get" /\ r.late => Over(r.sid)
        /\ r.pc \in {"check", "drop"} => r.row \in Row /\ deadline[r.sid] = r.row.expires
        /\ r.pc = "check" /\ r.late => deadline[r.sid] < now
        /\ r.pc = "drop" => deadline[r.sid] < now
        /\ r.pc \in {"user", "handler"} => ~ r.late

Apart == \A c, d \in Clients :
            c # d /\ At(c, "insert") /\ At(d, "insert") => req[c].sid # req[d].sid

PanelInv ==
    /\ PanelTypes
    /\ \A s \in SessionIds : Stored(s)
    /\ \A c \in Clients : Knows(c)
    /\ Apart
    /\ \A p \in Servers : janitor[p] # Null => janitor[p] <= now

LEMMA IdleIsRequest == Idle \in Request /\ Idle.pc = "idle"
  BY DEF Idle, Request

LEMMA NullApart == Null \notin Row /\ Null \notin Nat /\ Null \notin SessionIds
  BY RowAssumption, SessionsAssumption DEF RowAssumption, SessionsAssumption

LEMMA InitPanelInv == Init => PanelInv
<1> SUFFICES ASSUME Init PROVE PanelInv
  OBVIOUS
<1>1. PanelTypes
  BY IdleIsRequest DEF Init, PanelTypes
<1>2. \A s \in SessionIds : Stored(s)
  BY DEF Init, Stored
<1>3. (\A c \in Clients : Knows(c)) /\ Apart
  BY IdleIsRequest DEF Init, Knows, Apart, At
<1>4. \A p \in Servers : janitor[p] # Null => janitor[p] <= now
  BY DEF Init
<1> QED
  BY <1>1, <1>2, <1>3, <1>4 DEF PanelInv

(* A step that moves request c alone. *)
Goes(c, new) ==
    /\ new \in Request
    /\ req' = [req EXCEPT ![c] = new]

(* What no step undoes. *)
Grows ==
    /\ now' \in Nat /\ now <= now'
    /\ deadline' \in [SessionIds -> Nat \cup {Null}]
    /\ \A s \in SessionIds : deadline[s] # Null => deadline'[s] = deadline[s]
    /\ cookies \subseteq cookies' /\ cookies' \in SUBSET SessionIds
    /\ ended \subseteq ended' /\ ended' \in SUBSET SessionIds

LEMMA Gone ==
    ASSUME PanelInv, NEW c \in Clients, NEW new, Goes(c, new)
    PROVE  /\ req' \in [Clients -> Request]
           /\ req'[c] = new
           /\ \A d \in Clients \ {c} : req'[d] = req[d]
           /\ req[c] \in Request
  BY DEF PanelInv, PanelTypes, Goes

(* A request that does not move knows what it knew. *)
LEMMA StillKnows ==
    ASSUME PanelInv, Grows, NEW d \in Clients, req'[d] = req[d],
           At(d, "insert") => req[d].sid \notin cookies'
    PROVE  Knows(d)'
<1>1. Knows(d) /\ now \in Nat /\ deadline \in [SessionIds -> Nat \cup {Null}]
      /\ cookies \in SUBSET SessionIds
  BY DEF PanelInv, PanelTypes
<1>2. ASSUME NEW s \in cookies PROVE deadline'[s] = deadline[s] /\ deadline[s] \in Nat
  BY <1>1, NullApart DEF PanelInv, PanelTypes, Stored, Grows
<1>3. At(d, "insert") => deadline'[req[d].sid] = deadline[req[d].sid]
  BY <1>1, NullApart DEF Knows, Grows, At, Row
<1>4. ASSUME NEW s \in cookies, Over(s) PROVE Over(s)'
  <2>1. now' \in Nat /\ now <= now' /\ ended \subseteq ended'
    BY DEF Grows
  <2> QED
    BY <1>1, <1>2, <1>4, <2>1 DEF Over
<1>5. ASSUME NEW s \in cookies, deadline[s] < now PROVE deadline'[s] < now'
  <2>1. now' \in Nat /\ now <= now'
    BY DEF Grows
  <2> QED
    BY <1>1, <1>2, <1>5, <2>1
<1>6. cookies \subseteq cookies'
  BY DEF Grows
<1> QED
  BY <1>1, <1>2, <1>3, <1>4, <1>5, <1>6 DEF Knows, At

(* What a step of one request must show to keep the invariant. *)
LEMMA RequestStep ==
    ASSUME PanelInv, Grows, NEW c \in Clients, NEW new, Goes(c, new),
           sessions' \in [SessionIds -> Row \cup {Null}],
           UNCHANGED janitor,
           \A s \in SessionIds : Stored(s)',
           Knows(c)',
           \A d \in Clients \ {c} : At(d, "insert") =>
               req[d].sid \notin cookies' /\ (new.pc = "insert" => new.sid # req[d].sid)
    PROVE  PanelInv'
<1>1. PanelTypes'
  BY Gone DEF PanelInv, PanelTypes, Grows
<1>2. ASSUME NEW d \in Clients PROVE Knows(d)'
  BY Gone, StillKnows
<1>3. Apart'
  BY Gone DEF Apart, At, PanelInv
<1>4. (\A p \in Servers : janitor[p] # Null => janitor[p] <= now)'
  <2> SUFFICES ASSUME NEW p \in Servers, janitor[p] # Null PROVE janitor[p] <= now'
    OBVIOUS
  <2>1. janitor[p] \in Nat /\ janitor[p] <= now /\ now \in Nat
    BY DEF PanelInv, PanelTypes
  <2> QED
    BY <2>1 DEF Grows
<1> QED
  BY <1>1, <1>2, <1>3, <1>4 DEF PanelInv

(* A step that leaves the clock and the histories alone. *)
LEMMA Steady ==
    ASSUME PanelInv, UNCHANGED <<now, deadline, cookies, ended>>
    PROVE  /\ Grows
           /\ \A d \in Clients : At(d, "insert") => req[d].sid \notin cookies'
<1>1. Grows
  BY DEF PanelInv, PanelTypes, Grows
<1> QED
  BY <1>1 DEF PanelInv, Knows, At

(* A request that only reads, and goes on to anything but an insert. *)
LEMMA ReadStep ==
    ASSUME PanelInv, NEW c \in Clients, NEW new, Goes(c, new), new.pc # "insert",
           UNCHANGED <<now, sessions, janitor, deadline, cookies, ended>>,
           Knows(c)'
    PROVE  PanelInv'
<1>1. \A s \in SessionIds : Stored(s)'
  BY DEF PanelInv, Stored
<1>2. sessions' \in [SessionIds -> Row \cup {Null}]
  BY DEF PanelInv, PanelTypes
<1> QED
  BY <1>1, <1>2, Steady, RequestStep

-----------------------------------------------------------------------------
(* One lemma per kind of step of a request.                                *)

LEMMA PanelTyped ==
    ASSUME PanelInv
    PROVE  PanelTypes
  BY DEF PanelInv

(* Where the request goes within its program, the rest of it stays. *)
LEMMA ContinueGoes ==
    ASSUME PanelInv, NEW c \in Clients,
           NEW pc \in {"idle", "lookup", "start", "insert", "get", "check", "drop", "user",
                       "handler", "end"},
           Continue(c, pc)
    PROVE  /\ Goes(c, [req[c] EXCEPT !.pc = pc])
           /\ [req[c] EXCEPT !.pc = pc].pc = pc
           /\ [req[c] EXCEPT !.pc = pc].late = req[c].late
           /\ [req[c] EXCEPT !.pc = pc].row = req[c].row
           /\ [req[c] EXCEPT !.pc = pc].sid = req[c].sid
           /\ [req[c] EXCEPT !.pc = pc].admin = req[c].admin
<1>1. req \in [Clients -> Request] /\ req[c] \in Request
  BY PanelTyped DEF PanelTypes
<1>2. [req[c] EXCEPT !.pc = pc] \in Request
  BY <1>1 DEF Request
<1> QED
  BY <1>1, <1>2 DEF Continue, Goes, Request

LEMMA AnswerGoes ==
    ASSUME PanelInv, NEW c \in Clients, Answer(c)
    PROVE  /\ Goes(c, Idle) /\ Idle.pc = "idle"
           /\ Knows(c)'
<1>1. Goes(c, Idle)
  BY IdleIsRequest DEF Answer, Goes
<1>2. req'[c] = Idle
  BY <1>1, Gone
<1> QED
  BY <1>1, <1>2, IdleIsRequest DEF Knows

LEMMA AnswerOnly ==
    ASSUME PanelInv, NEW c \in Clients, Answer(c),
           UNCHANGED <<now, sessions, janitor, deadline, cookies, ended>>
    PROVE  PanelInv'
  BY AnswerGoes, ReadStep

LEMMA ArriveStep ==
    ASSUME PanelInv, NEW c \in Clients, Arrive(c)
    PROVE  PanelInv'
<1>1. CASE LoginRequest(c)
  <2>1. PICK p \in Servers, a \in Admin :
          req' = [req EXCEPT ![c] = [Idle EXCEPT !.pc = "lookup", !.proc = p, !.admin = a]]
    BY <1>1 DEF LoginRequest
  <2> DEFINE new == [Idle EXCEPT !.pc = "lookup", !.proc = p, !.admin = a]
  <2>2. new \in Request /\ new.pc = "lookup" /\ new.admin = a
    BY DEF Idle, Request, Procs
  <2>3. Goes(c, new)
    BY <2>1, <2>2 DEF Goes
  <2> HIDE DEF new
  <2>4. Knows(c)'
    BY <2>2, <2>3, Gone DEF Knows
  <2> QED
    BY <1>1, <2>2, <2>3, <2>4, ReadStep DEF LoginRequest
<1>2. CASE PageRequest(c)
  <2>1. PICK p \in Servers, s \in cookies :
          req' = [req EXCEPT ![c] = [Idle EXCEPT !.pc = "get", !.proc = p, !.sid = s,
                                                 !.late = Over(s)]]
    BY <1>2 DEF PageRequest
  <2>2. s \in SessionIds /\ Over(s) \in BOOLEAN
    BY PanelTyped DEF PanelTypes, Over
  <2> DEFINE new == [Idle EXCEPT !.pc = "get", !.proc = p, !.sid = s, !.late = Over(s)]
  <2>3. new \in Request /\ new.pc = "get" /\ new.sid = s /\ new.late = Over(s)
    BY <2>2 DEF Idle, Request, Procs
  <2>4. Goes(c, new)
    BY <2>1, <2>3 DEF Goes
  <2> HIDE DEF new
  <2>5. Knows(c)'
    BY <1>2, <2>3, <2>4, Gone DEF Knows, Over, PageRequest
  <2> QED
    BY <1>2, <2>3, <2>4, <2>5, ReadStep DEF PageRequest
<1>3. CASE LogoutRequest(c)
  <2>1. PICK p \in Servers, s \in cookies :
          req' = [req EXCEPT ![c] = [Idle EXCEPT !.pc = "end", !.proc = p, !.sid = s]]
    BY <1>3 DEF LogoutRequest
  <2>2. s \in SessionIds
    BY PanelTyped DEF PanelTypes
  <2> DEFINE new == [Idle EXCEPT !.pc = "end", !.proc = p, !.sid = s]
  <2>3. new \in Request /\ new.pc = "end" /\ new.sid = s
    BY <2>2 DEF Idle, Request, Procs
  <2>4. Goes(c, new)
    BY <2>1, <2>3 DEF Goes
  <2> HIDE DEF new
  <2>5. Knows(c)'
    BY <1>3, <2>3, <2>4, Gone DEF Knows, LogoutRequest
  <2> QED
    BY <1>3, <2>3, <2>4, <2>5, ReadStep DEF LogoutRequest
<1> QED
  BY <1>1, <1>2, <1>3 DEF Arrive

LEMMA LookupStep ==
    ASSUME PanelInv, NEW c \in Clients, Lookup(c)
    PROVE  PanelInv'
<1>1. CASE Continue(c, "start")
  <2>1. Knows(c) /\ At(c, "lookup")
    BY DEF PanelInv, Lookup
  <2> DEFINE new == [req[c] EXCEPT !.pc = "start"]
  <2>3. Goes(c, new) /\ new.pc = "start" /\ new.admin = req[c].admin
    BY <1>1, ContinueGoes
  <2> HIDE DEF new
  <2>4. req'[c] = new
    BY <2>3, Gone
  <2>2. Knows(c)'
    BY <2>1, <2>3, <2>4 DEF Knows, At
  <2> QED
    BY <2>2, <2>3, ReadStep DEF Lookup
<1>2. CASE Answer(c)
  BY <1>2, AnswerOnly DEF Lookup
<1> QED
  BY <1>1, <1>2 DEF Lookup

(* A page: what it reads of the table and the clock it knows from then on. *)
LEMMA GetSessionStep ==
    ASSUME PanelInv, NEW c \in Clients, GetSession(c)
    PROVE  PanelInv'
<1>1. CASE sessions[req[c].sid] = Null /\ Answer(c)
  BY <1>1, AnswerOnly DEF GetSession
<1>2. CASE /\ sessions[req[c].sid] # Null
           /\ req' = [req EXCEPT ![c].pc = "check", ![c].row = sessions[req[c].sid]]
  <2> DEFINE sid == req[c].sid
             new == [req[c] EXCEPT !.pc = "check", !.row = sessions[sid]]
  <2>1. /\ req[c] \in Request /\ req \in [Clients -> Request]
        /\ sid \in cookies /\ sid \in SessionIds /\ (req[c].late => Over(sid))
        /\ sessions[sid] \in Row
    BY <1>2 DEF PanelInv, PanelTypes, Knows, GetSession, At
  <2>2. deadline[sid] = sessions[sid].expires /\ sid \notin ended
    BY <1>2, <2>1 DEF PanelInv, Stored
  <2>3. /\ new \in Request /\ new.pc = "check" /\ new.row = sessions[sid]
        /\ new.sid = sid /\ new.late = req[c].late
    BY <2>1 DEF Request
  <2>4. Goes(c, new)
    BY <1>2, <2>1, <2>3 DEF Goes
  <2> HIDE DEF new
  <2>5. Knows(c)'
    BY <2>1, <2>2, <2>3, <2>4, Gone DEF Knows, Over, GetSession
  <2> QED
    BY <2>3, <2>4, <2>5, ReadStep DEF GetSession
<1> QED
  BY <1>1, <1>2 DEF GetSession

(* The check: a session that was over when the request came is dropped. *)
LEMMA CheckExpiryStep ==
    ASSUME PanelInv, NEW c \in Clients, CheckExpiry(c)
    PROVE  PanelInv'
<1>1. /\ At(c, "check") /\ Knows(c) /\ now \in Nat
      /\ req[c].row \in Row /\ deadline[req[c].sid] = req[c].row.expires
  BY DEF PanelInv, PanelTypes, CheckExpiry, Knows, At
<1>2. CASE Expired(req[c].row, now) /\ Continue(c, "drop")
  <2> DEFINE new == [req[c] EXCEPT !.pc = "drop"]
  <2>2. Goes(c, new) /\ new.pc = "drop" /\ new.row = req[c].row /\ new.sid = req[c].sid
    BY <1>2, ContinueGoes
  <2> HIDE DEF new
  <2>3. req'[c] = new
    BY <2>2, Gone
  <2>4. deadline[req[c].sid] < now
    BY <1>1, <1>2 DEF Expired
  <2>1. Knows(c)'
    BY <1>1, <2>2, <2>3, <2>4 DEF Knows, At, CheckExpiry
  <2> QED
    BY <2>1, <2>2, ReadStep DEF CheckExpiry
<1>3. CASE ~ Expired(req[c].row, now) /\ Continue(c, "user")
  <2>1. ~ req[c].late
    BY <1>1, <1>3 DEF Knows, At, Expired
  <2> DEFINE new == [req[c] EXCEPT !.pc = "user"]
  <2>3. Goes(c, new) /\ new.pc = "user" /\ new.late = req[c].late
    BY <1>3, ContinueGoes
  <2> HIDE DEF new
  <2>4. req'[c] = new
    BY <2>3, Gone
  <2>2. Knows(c)'
    BY <2>1, <2>3, <2>4 DEF Knows
  <2> QED
    BY <2>2, <2>3, ReadStep DEF CheckExpiry
<1> QED
  BY <1>2, <1>3 DEF CheckExpiry

LEMMA GetUserStep ==
    ASSUME PanelInv, NEW c \in Clients, GetUser(c)
    PROVE  PanelInv'
<1>1. CASE Answer(c)
  BY <1>1, AnswerOnly DEF GetUser
<1>2. CASE req' = [req EXCEPT ![c].pc = "handler", ![c].row = Null]
  <2> DEFINE new == [req[c] EXCEPT !.pc = "handler", !.row = Null]
  <2>1. req[c] \in Request /\ req \in [Clients -> Request] /\ ~ req[c].late
    BY DEF PanelInv, PanelTypes, Knows, GetUser, At
  <2>2. new \in Request /\ new.pc = "handler" /\ ~ new.late
    BY <2>1 DEF Request
  <2>3. Goes(c, new)
    BY <1>2, <2>1, <2>2 DEF Goes
  <2> HIDE DEF new
  <2>4. Knows(c)'
    BY <2>2, <2>3, Gone DEF Knows
  <2> QED
    BY <2>2, <2>3, <2>4, ReadStep DEF GetUser
<1> QED
  BY <1>1, <1>2 DEF GetUser

(***************************************************************************)
(* The requests that write.  A row is stored once, under an id no browser  *)
(* has; rows are removed by a sign-out or after their expiry.              *)
(***************************************************************************)
LEMMA DrawSessionStep ==
    ASSUME PanelInv, NEW c \in Clients, DrawSession(c)
    PROVE  PanelInv'
<1>1. PICK s \in SessionIds :
        /\ deadline[s] = Null
        /\ deadline' = [deadline EXCEPT ![s] = now + SessionTTL]
        /\ req' = [req EXCEPT ![c].pc = "insert", ![c].sid = s, ![c].admin = Null,
                              ![c].row = [user |-> req[c].admin.name,
                                          expires |-> now + SessionTTL]]
  BY DEF DrawSession
<1> DEFINE row == [user |-> req[c].admin.name, expires |-> now + SessionTTL]
           new == [req[c] EXCEPT !.pc = "insert", !.sid = s, !.admin = Null, !.row = row]
<1>2. now + SessionTTL \in Nat /\ req[c].admin \in Admin
  BY SessionsAssumption DEF PanelInv, PanelTypes, SessionsAssumption, DrawSession, Knows, At
<1>3. row \in Row /\ row.expires = now + SessionTTL
  BY <1>2 DEF Row, Admin
<1> HIDE DEF row
<1>4. req[c] \in Request /\ req \in [Clients -> Request]
  BY PanelTyped DEF PanelTypes
<1>5. new \in Request /\ new.pc = "insert" /\ new.sid = s /\ new.row = row
  BY <1>3, <1>4 DEF Request
<1>6. Goes(c, new)
  BY <1>1, <1>4, <1>5 DEF Goes, row
<1> HIDE DEF new
<1>7. UNCHANGED <<now, sessions, janitor, cookies, ended>>
  BY DEF DrawSession
<1>8. Grows
  BY <1>1, <1>2, <1>7, PanelTyped DEF PanelTypes, Grows
<1>9. s \notin cookies
  BY <1>1 DEF PanelInv, Stored
<1>10. Knows(c)'
  <2>1. req'[c] = new
    BY <1>6, Gone
  <2>2. deadline'[s] = now + SessionTTL
    BY <1>1, PanelTyped DEF PanelTypes
  <2> QED
    BY <1>3, <1>5, <1>7, <1>9, <2>1, <2>2 DEF Knows
<1>11. ASSUME NEW t \in SessionIds PROVE Stored(t)'
  <2>1. Stored(t)
    BY DEF PanelInv
  <2>2. sessions[t] # Null => deadline[t] # Null
    BY <2>1, PanelTyped, NullApart DEF Stored, PanelTypes, Row
  <2>3. deadline[t] # Null => deadline'[t] = deadline[t]
    BY <1>8 DEF Grows
  <2> QED
    BY <1>7, <2>1, <2>2, <2>3 DEF Stored
<1>12. ASSUME NEW d \in Clients \ {c}, At(d, "insert")
       PROVE  req[d].sid \notin cookies' /\ new.sid # req[d].sid
  <2>1. /\ req[d].sid \in SessionIds \ cookies /\ req[d].row \in Row
        /\ deadline[req[d].sid] = req[d].row.expires
    BY <1>12 DEF PanelInv, Knows, At
  <2>2. deadline[req[d].sid] # Null
    BY <2>1, NullApart DEF Row
  <2> QED
    BY <1>1, <1>5, <1>7, <2>1, <2>2
<1>13. sessions' \in [SessionIds -> Row \cup {Null}]
  BY <1>7, PanelTyped DEF PanelTypes
<1> QED
  BY <1>6, <1>7, <1>8, <1>10, <1>11, <1>12, <1>13, RequestStep

LEMMA CreateSessionStep ==
    ASSUME PanelInv, NEW c \in Clients, CreateSession(c)
    PROVE  PanelInv'
<1> DEFINE sid == req[c].sid
           row == req[c].row
<1>1. sid \in SessionIds \ cookies /\ row \in Row /\ deadline[sid] = row.expires
      /\ deadline[sid] # Null
  BY NullApart DEF PanelInv, Knows, CreateSession, At, Row
<1>2. /\ sessions' = [sessions EXCEPT ![sid] = row]
      /\ cookies' \in {cookies, cookies \cup {sid}}
      /\ UNCHANGED <<now, janitor, deadline, ended>>
      /\ Answer(c)
  BY DEF CreateSession
<1>3. Grows
  BY <1>1, <1>2, PanelTyped DEF PanelTypes, Grows
<1>4. sessions' \in [SessionIds -> Row \cup {Null}]
  BY <1>1, <1>2, PanelTyped DEF PanelTypes
<1>5. ASSUME NEW t \in SessionIds PROVE Stored(t)'
  <2>1. Stored(t)
    BY DEF PanelInv
  <2>2. CASE t = sid
    <3>1. sessions'[t] = row /\ t \notin ended
      BY <1>1, <1>2, <2>1, <2>2, PanelTyped DEF PanelTypes, Stored
    <3> QED
      BY <1>1, <1>2, <2>2, <3>1 DEF Stored
  <2>3. CASE t # sid
    <3>1. sessions'[t] = sessions[t] /\ (t \in cookies' <=> t \in cookies)
      BY <1>1, <1>2, <2>3, PanelTyped DEF PanelTypes
    <3> QED
      BY <1>2, <2>1, <3>1 DEF Stored
  <2> QED
    BY <2>2, <2>3
<1>6. ASSUME NEW d \in Clients \ {c}, At(d, "insert") PROVE req[d].sid \notin cookies'
  <2>1. req[d].sid # sid /\ req[d].sid \notin cookies
    BY <1>6 DEF PanelInv, Apart, Knows, At, CreateSession
  <2> QED
    BY <1>2, <2>1
<1> QED
  BY <1>2, <1>3, <1>4, <1>5, <1>6, AnswerGoes, RequestStep

(* The rows of a set of ids are removed. *)
LEMMA Removed ==
    ASSUME PanelInv, Grows, UNCHANGED <<deadline, cookies>>,
           sessions' \in [SessionIds -> Row \cup {Null}],
           \A s \in SessionIds : sessions'[s] \in {Null, sessions[s]},
           \A s \in ended' \ ended : s \in cookies /\ sessions'[s] = Null
    PROVE  \A s \in SessionIds : Stored(s)'
<1> SUFFICES ASSUME NEW s \in SessionIds PROVE Stored(s)'
  OBVIOUS
<1>1. Stored(s)
  BY DEF PanelInv
<1> QED
  BY <1>1 DEF Stored

LEMMA DropSessionStep ==
    ASSUME PanelInv, NEW c \in Clients, DropSession(c)
    PROVE  PanelInv'
<1>1. req[c].sid \in SessionIds
  BY DEF PanelInv, PanelTypes, Knows, DropSession, At
<1>2. /\ sessions' \in [SessionIds -> Row \cup {Null}]
      /\ \A s \in SessionIds : sessions'[s] \in {Null, sessions[s]}
  BY <1>1, PanelTyped DEF PanelTypes, DropSession
<1>3. UNCHANGED <<now, janitor, deadline, cookies, ended>> /\ Answer(c)
  BY DEF DropSession
<1>4. \A s \in SessionIds : Stored(s)'
  BY <1>2, <1>3, Steady, Removed
<1> QED
  BY <1>2, <1>3, <1>4, Steady, AnswerGoes, RequestStep

LEMMA EndSessionStep ==
    ASSUME PanelInv, NEW c \in Clients, EndSession(c)
    PROVE  PanelInv'
<1>1. req[c].sid \in SessionIds /\ req[c].sid \in cookies
  BY DEF PanelInv, PanelTypes, Knows, EndSession, At
<1>2. /\ UNCHANGED <<now, janitor, deadline, cookies>> /\ Answer(c)
      /\ sessions' = [sessions EXCEPT ![req[c].sid] = Null]
      /\ ended' = ended \cup {req[c].sid}
  BY DEF EndSession
<1>3. Grows
  BY <1>1, <1>2, PanelTyped DEF PanelTypes, Grows
<1>4. /\ sessions' \in [SessionIds -> Row \cup {Null}]
      /\ \A s \in SessionIds : sessions'[s] \in {Null, sessions[s]}
      /\ sessions'[req[c].sid] = Null
  BY <1>1, <1>2, PanelTyped DEF PanelTypes
<1>5. \A s \in SessionIds : Stored(s)'
  BY <1>1, <1>2, <1>3, <1>4, Removed
<1>6. \A d \in Clients : At(d, "insert") => req[d].sid \notin cookies'
  BY <1>2 DEF PanelInv, Knows, At
<1> QED
  BY <1>2, <1>3, <1>4, <1>5, <1>6, AnswerGoes, RequestStep

-----------------------------------------------------------------------------
(* The steps of the janitor, the clock and the processes.                  *)

(* No request moves, or some are lost with their process. *)
LEMMA NoRequestMoves ==
    ASSUME PanelInv, Grows, UNCHANGED cookies,
           \A s \in SessionIds : Stored(s)',
           \A c \in Clients : req'[c] \in {req[c], Idle},
           req' \in [Clients -> Request],
           sessions' \in [SessionIds -> Row \cup {Null}],
           janitor' \in [Servers -> Nat \cup {Null}],
           \A p \in Servers : janitor'[p] # Null => janitor'[p] <= now'
    PROVE  PanelInv'
<1>1. PanelTypes'
  BY DEF PanelTypes, Grows
<1>2. ASSUME NEW c \in Clients PROVE Knows(c)'
  <2>1. CASE req'[c] = req[c]
    <3>1. At(c, "insert") => req[c].sid \notin cookies'
      BY DEF PanelInv, Knows, At
    <3> QED
      BY <2>1, <3>1, StillKnows
  <2>2. CASE req'[c] = Idle
    BY <2>2, IdleIsRequest DEF Knows
  <2> QED
    BY <2>1, <2>2
<1>3. Apart'
  <2> SUFFICES ASSUME NEW c \in Clients, NEW d \in Clients, c # d,
                      At(c, "insert")', At(d, "insert")'
               PROVE  req'[c].sid # req'[d].sid
    BY DEF Apart
  <2>1. req'[c] = req[c] /\ req'[d] = req[d]
    BY IdleIsRequest DEF At
  <2> QED
    BY <2>1 DEF PanelInv, Apart, At
<1> QED
  BY <1>1, <1>2, <1>3 DEF PanelInv

LEMMA WakeStep ==
    ASSUME PanelInv, NEW p \in Servers, Wake(p)
    PROVE  PanelInv'
<1>1. /\ UNCHANGED <<now, sessions, req, deadline, cookies, ended>>
      /\ janitor' = [janitor EXCEPT ![p] = now]
  BY DEF Wake
<1>2. \A s \in SessionIds : Stored(s)'
  BY <1>1 DEF PanelInv, Stored
<1>3. /\ janitor' \in [Servers -> Nat \cup {Null}]
      /\ \A q \in Servers : janitor'[q] # Null => janitor'[q] <= now
  BY <1>1 DEF PanelInv, PanelTypes
<1>4. /\ req' \in [Clients -> Request] /\ \A c \in Clients : req'[c] \in {req[c], Idle}
      /\ sessions' \in [SessionIds -> Row \cup {Null}]
  BY <1>1, PanelTyped DEF PanelTypes
<1> QED
  BY <1>1, <1>2, <1>3, <1>4, Steady, NoRequestMoves

LEMMA DeleteExpiredStep ==
    ASSUME PanelInv, NEW p \in Servers, DeleteExpiredSessions(p)
    PROVE  PanelInv'
<1>1. /\ UNCHANGED <<now, req, deadline, cookies, ended>>
      /\ janitor' = [janitor EXCEPT ![p] = Null]
      /\ \/ sessions' = [s \in SessionIds |-> IF Prunable(sessions[s], janitor[p])
                                              THEN Null ELSE sessions[s]]
         \/ UNCHANGED sessions
  BY DEF DeleteExpiredSessions
<1>2. /\ sessions' \in [SessionIds -> Row \cup {Null}]
      /\ \A s \in SessionIds : sessions'[s] \in {Null, sessions[s]}
  BY <1>1, PanelTyped DEF PanelTypes
<1>3. \A s \in SessionIds : Stored(s)'
  BY <1>1, <1>2, Steady, Removed
<1>4. /\ janitor' \in [Servers -> Nat \cup {Null}]
      /\ \A q \in Servers : janitor'[q] # Null => janitor'[q] <= now
  BY <1>1 DEF PanelInv, PanelTypes
<1>5. req' \in [Clients -> Request] /\ \A c \in Clients : req'[c] \in {req[c], Idle}
  BY <1>1, PanelTyped DEF PanelTypes
<1> QED
  BY <1>1, <1>2, <1>3, <1>4, <1>5, Steady, NoRequestMoves

LEMMA StopPanelStep ==
    ASSUME PanelInv, NEW p \in Procs, StopPanel(p)
    PROVE  PanelInv'
<1>1. /\ UNCHANGED <<now, sessions, deadline, cookies, ended>>
      /\ req' = [c \in Clients |-> IF req[c].proc = p THEN Idle ELSE req[c]]
      /\ janitor' = [q \in Servers |-> IF q = p THEN Null ELSE janitor[q]]
  BY DEF StopPanel
<1>2. \A s \in SessionIds : Stored(s)'
  BY <1>1 DEF PanelInv, Stored
<1>3. /\ janitor' \in [Servers -> Nat \cup {Null}]
      /\ \A q \in Servers : janitor'[q] # Null => janitor'[q] <= now
  BY <1>1 DEF PanelInv, PanelTypes
<1>4. /\ req' \in [Clients -> Request] /\ \A c \in Clients : req'[c] \in {req[c], Idle}
      /\ sessions' \in [SessionIds -> Row \cup {Null}]
  BY <1>1, IdleIsRequest, PanelTyped DEF PanelTypes
<1> QED
  BY <1>1, <1>2, <1>3, <1>4, Steady, NoRequestMoves

LEMMA TickStep ==
    ASSUME PanelInv, Tick
    PROVE  PanelInv'
<1>1. now \in Nat /\ now' = now + 1 /\ UNCHANGED <<sessions, req, janitor, deadline, cookies, ended>>
  BY PanelTyped DEF PanelTypes, Tick
<1>2. Grows
  BY <1>1, PanelTyped DEF PanelTypes, Grows
<1>3. \A s \in SessionIds : Stored(s)'
  BY <1>1 DEF PanelInv, Stored
<1>4. ASSUME NEW p \in Servers, janitor'[p] # Null PROVE janitor'[p] <= now'
  <2>1. janitor[p] \in Nat /\ janitor[p] <= now
    BY <1>1, <1>4 DEF PanelInv, PanelTypes
  <2> QED
    BY <1>1, <2>1
<1>5. /\ req' \in [Clients -> Request] /\ \A c \in Clients : req'[c] \in {req[c], Idle}
      /\ sessions' \in [SessionIds -> Row \cup {Null}]
      /\ janitor' \in [Servers -> Nat \cup {Null}]
  BY <1>1, PanelTyped DEF PanelTypes
<1> QED
  BY <1>1, <1>2, <1>3, <1>4, <1>5, NoRequestMoves

LEMMA PanelStutter ==
    ASSUME PanelInv, UNCHANGED panel
    PROVE  PanelInv'
<1>1. UNCHANGED <<now, sessions, req, janitor, deadline, cookies, ended>>
  BY DEF panel
<1>2. \A s \in SessionIds : Stored(s)'
  BY <1>1 DEF PanelInv, Stored
<1>3. /\ req' \in [Clients -> Request] /\ \A c \in Clients : req'[c] \in {req[c], Idle}
      /\ sessions' \in [SessionIds -> Row \cup {Null}]
      /\ janitor' \in [Servers -> Nat \cup {Null}]
      /\ \A p \in Servers : janitor'[p] # Null => janitor'[p] <= now'
  BY <1>1 DEF PanelInv, PanelTypes
<1> QED
  BY <1>1, <1>2, <1>3, Steady, NoRequestMoves

LEMMA PanelNextInv == PanelInv /\ [Next]_vars => PanelInv'
<1> SUFFICES ASSUME PanelInv, [Next]_vars PROVE PanelInv'
  OBVIOUS
<1>1. ASSUME NEW c \in Clients, Arrive(c) PROVE PanelInv'
  BY <1>1, ArriveStep
<1>2. ASSUME NEW c \in Clients, Serve(c) PROVE PanelInv'
  <2>1. CASE Handle(c)
    BY <2>1, AnswerOnly DEF Handle
  <2> QED
    BY <1>2, <2>1, LookupStep, DrawSessionStep, CreateSessionStep, GetSessionStep,
       CheckExpiryStep, DropSessionStep, GetUserStep, EndSessionStep DEF Serve
<1>3. ASSUME NEW c \in Clients, Fail(c) PROVE PanelInv'
  BY <1>3, AnswerOnly DEF Fail
<1>4. ASSUME NEW p \in Servers, Janitor(p) PROVE PanelInv'
  BY <1>4, WakeStep, DeleteExpiredStep DEF Janitor
<1>5. ASSUME NEW p \in Procs, BootStep(p) \/ ShellStep(p) PROVE PanelInv'
  BY <1>5, PanelStutter DEF BootStep, ShellStep
<1>6. ASSUME NEW p \in Procs, StopPanel(p) PROVE PanelInv'
  BY <1>6, StopPanelStep
<1>7. CASE Tick
  BY <1>7, TickStep
<1>8. CASE UNCHANGED vars
  BY <1>8, PanelStutter DEF vars
<1> QED
  BY <1>1, <1>2, <1>3, <1>4, <1>5, <1>6, <1>7, <1>8 DEF Next, Procs

LEMMA PanelInvariance == Spec => []PanelInv
<1> QED
  BY InitPanelInv, PanelNextInv, PTL DEF Spec

(***************************************************************************)
(* Every variable keeps its type: an account is a name and a password, a   *)
(* session a row for a name, through every step of every process.          *)
(***************************************************************************)
THEOREM TypeCorrect == Spec => []TypeOK
<1>1. BootInv /\ PanelInv => TypeOK
  BY DEF BootInv, PanelInv, PanelTypes, TypeOK
<1> QED
  BY <1>1, BootInvariance, PanelInvariance, PTL

(***************************************************************************)
(* Current (session.go:83-107), in front of every page: no page runs for   *)
(* a session that was signed out or expired when the request came.         *)
(***************************************************************************)
THEOREM OnlyLiveServed == Spec => []ServedOnlyWhenLive
<1>1. PanelInv => ServedOnlyWhenLive
  BY DEF PanelInv, Knows, ServedOnlyWhenLive, At
<1> QED
  BY <1>1, PanelInvariance, PTL

(***************************************************************************)
(* DeleteSession and DeleteExpiredSessions (users.go:115-130): a session   *)
(* is removed only once it expired, or by a sign-out of its own.           *)
(***************************************************************************)
SignedOutOrExpired ==
    \A s \in SessionIds : sessions[s] # Null /\ sessions'[s] = Null =>
         \/ Expired(sessions[s], now)
         \/ \E c \in Clients : At(c, "end") /\ req[c].sid = s

LEMMA RemovalStep == PanelInv /\ [Next]_vars => [SignedOutOrExpired]_vars
<1> SUFFICES ASSUME PanelInv, [Next]_vars,
                    NEW s \in SessionIds, sessions[s] # Null, sessions'[s] = Null
             PROVE  \/ Expired(sessions[s], now)
                    \/ \E c \in Clients : At(c, "end") /\ req[c].sid = s
  BY DEF SignedOutOrExpired
<1>1. sessions[s] \in Row /\ deadline[s] = sessions[s].expires
      /\ sessions \in [SessionIds -> Row \cup {Null}] /\ now \in Nat
  BY DEF PanelInv, PanelTypes, Stored
<1>2. ASSUME NEW c \in Clients, CreateSession(c) PROVE FALSE
  <2>1. req[c].row \in Row
    BY <1>2 DEF PanelInv, Knows, CreateSession, At
  <2> QED
    BY <1>1, <1>2, <2>1, NullApart DEF CreateSession
<1>3. ASSUME NEW c \in Clients, DropSession(c) PROVE Expired(sessions[s], now)
  <2>1. s = req[c].sid /\ deadline[req[c].sid] < now
    BY <1>1, <1>3 DEF PanelInv, Knows, DropSession, At
  <2> QED
    BY <1>1, <2>1 DEF Expired
<1>4. ASSUME NEW c \in Clients, EndSession(c) PROVE At(c, "end") /\ req[c].sid = s
  BY <1>1, <1>4 DEF EndSession
<1>5. ASSUME NEW p \in Servers, DeleteExpiredSessions(p) PROVE Expired(sessions[s], now)
  <2>1. Prunable(sessions[s], janitor[p]) /\ janitor[p] \in Nat /\ janitor[p] <= now
    BY <1>1, <1>5 DEF PanelInv, PanelTypes, DeleteExpiredSessions
  <2> QED
    BY <1>1, <2>1 DEF Prunable, Expired, Row
<1>6. CASE UNCHANGED sessions
  BY <1>6
<1>7. ASSUME NEW c \in Clients, Arrive(c) \/ Serve(c) \/ Fail(c),
             ~ CreateSession(c), ~ DropSession(c), ~ EndSession(c)
      PROVE  UNCHANGED sessions
  BY <1>7 DEF Arrive, Serve, Fail, LoginRequest, PageRequest, LogoutRequest, Lookup,
              DrawSession, GetSession, CheckExpiry, GetUser, Handle
<1>8. ASSUME NEW p \in Procs, BootStep(p) \/ ShellStep(p) \/ StopPanel(p) \/ Wake(p)
      PROVE  UNCHANGED sessions
  BY <1>8 DEF BootStep, ShellStep, StopPanel, Wake, panel
<1>9. Tick \/ UNCHANGED vars => UNCHANGED sessions
  BY DEF Tick, vars, panel
<1> QED
  BY <1>2, <1>3, <1>4, <1>5, <1>6, <1>7, <1>8, <1>9 DEF Next, Janitor, Procs

(***************************************************************************)
(* EndSession and DeleteExpiredSessions (db/users.go): a row of sessions   *)
(* goes only when its user signs out or when it has expired, although the  *)
(* janitor's time was read before its DELETE waited for the connection.    *)
(***************************************************************************)
THEOREM NobodySignedOutEarly == Spec => NoEarlySignOut
<1>1. NoEarlySignOut <=> [][SignedOutOrExpired]_vars
  BY PTL DEF NoEarlySignOut, SignedOutOrExpired
<1> QED
  BY <1>1, RemovalStep, PanelInvariance, PTL DEF Spec
=============================================================================
