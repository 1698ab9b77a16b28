------------------------------ MODULE Startup -------------------------------
(***************************************************************************)
(* The processes of tokenzy on one database file, from their start to the  *)
(* point where they serve or exit: the server (cmdServe in main.go), which *)
(* migrates, seeds and makes the configured admin account, and the command *)
(* admin-create, which migrates and makes an account or changes its        *)
(* password.  They may run at the same time - a new server beside the old  *)
(* one, the command beside either - and share nothing but the file.        *)
(*                                                                         *)
(* Every statement and every transaction is one step (the Write handle     *)
(* takes the lock up front); the processes interleave between them.  A     *)
(* password hash is salted and only ever compared by VerifyPassword: it is *)
(* modelled by the password it verifies.                                   *)
(***************************************************************************)
EXTENDS Naturals

CONSTANTS
    Null,
    Servers,    \* processes that run serve, again after every exit
    Shells,     \* processes that run admin-create
    Names,      \* usernames
    Passwords,
    EnvAdmin,   \* TOKENZY_ADMIN_USERNAME and _PASSWORD, or Null
    SeedData,   \* TOKENZY_SEED_DATA
    Commands,   \* what admin-create is called with: an account, and -reset or not
    Files,      \* how many migrations are embedded
    MaxFaults   \* bound: crashes, stops and failed statements

Procs == Servers \cup Shells

Admin == [name: Names, password: Passwords]

ASSUME StartupAssumption ==
    /\ Null \notin Names \cup Passwords \cup Admin
    /\ Servers \cap Shells = {}
    /\ EnvAdmin \in Admin \cup {Null}
    /\ SeedData \in BOOLEAN
    /\ Commands \subseteq Admin \X BOOLEAN
    /\ Files \in Nat
    /\ MaxFaults \in Nat

VARIABLES
    schema,     \* the migrations whose statements the database shows
    recorded,   \* the rows of schema_migrations
    projects,   \* whether the projects table holds any row
    users,      \* the password of each account, Null where there is none
    proc,       \* what each process does
    faults      \* how many faults have happened

database == <<schema, recorded, projects, users>>

(***************************************************************************)
(* A process: off; about to look up migration file ("check"), to apply it  *)
(* ("apply"); a server to count the projects ("count"), to seed ("seed"),  *)
(* to look its admin up ("lookup"), to create it ("create"), or serving; a *)
(* shell to insert the account ("insert") or to set its password ("set").  *)
(***************************************************************************)
Process == [pc: {"off", "check", "apply", "count", "seed", "lookup", "create", "serving",
                 "insert", "set"},
            file: Nat, admin: Admin \cup {Null}, reset: BOOLEAN]

Off == [pc |-> "off", file |-> 0, admin |-> Null, reset |-> FALSE]

StartupTypeOK ==
    /\ schema \in SUBSET Nat
    /\ recorded \in SUBSET Nat
    /\ projects \in BOOLEAN
    /\ users \in [Names -> Passwords \cup {Null}]
    /\ proc \in [Procs -> Process]
    /\ faults \in Nat

StartupInit ==
    /\ schema = {}
    /\ recorded = {}
    /\ projects = FALSE
    /\ users = [n \in Names |-> Null]
    /\ proc = [p \in Procs |-> Off]
    /\ faults = 0

-----------------------------------------------------------------------------
Serving(p) == proc[p].pc = "serving"

Become(p, pc) == proc' = [proc EXCEPT ![p].pc = pc]

Exit(p) == proc' = [proc EXCEPT ![p] = Off]

(* Open, and the schema_migrations table, which is made if it is missing.  *)
StartServer(p) ==
    /\ proc[p] = Off
    /\ proc' = [proc EXCEPT ![p] = [Off EXCEPT !.pc = "check", !.file = 1, !.admin = EnvAdmin]]
    /\ UNCHANGED <<database, faults>>

StartShell(p) ==
    /\ proc[p] = Off
    /\ \E cmd \in Commands :
         proc' = [proc EXCEPT ![p] = [pc |-> "check", file |-> 1,
                                      admin |-> cmd[1], reset |-> cmd[2]]]
    /\ UNCHANGED <<database, faults>>

-----------------------------------------------------------------------------
(* Migrate.                                                                *)

(* The next file is skipped if it is recorded; after the last, Migrate returns. *)
CheckMigration(p) ==
    /\ proc[p].pc = "check"
    /\ CASE proc[p].file > Files       -> Become(p, IF p \in Servers THEN "count" ELSE "insert")
         [] proc[p].file \in recorded  -> proc' = [proc EXCEPT ![p].file = @ + 1]
         [] OTHER                      -> Become(p, "apply")
    /\ UNCHANGED <<database, faults>>

(* A slip: no transaction around the statements and the record. *)
ApplyMigration_NoTx(p) ==
    /\ proc[p].pc = "apply"
    /\ \/ /\ proc[p].file \notin schema
          /\ schema' = schema \cup {proc[p].file}
          /\ \/ /\ recorded' = recorded \cup {proc[p].file}
                /\ proc' = [proc EXCEPT ![p].pc = "check", ![p].file = @ + 1]
             \/ Exit(p) /\ UNCHANGED recorded
       \/ /\ proc[p].file \in schema
          /\ Exit(p)
          /\ UNCHANGED <<schema, recorded>>
    /\ UNCHANGED <<projects, users, faults>>

(***************************************************************************)
(* One transaction for the statements and their record.  The statements    *)
(* create what must not exist yet: if another process applied the file     *)
(* meanwhile they fail, the transaction is rolled back and this one exits. *)
(***************************************************************************)
ApplyMigration(p) ==
    /\ proc[p].pc = "apply"
    /\ \/ /\ proc[p].file \notin schema \cup recorded
          /\ schema' = schema \cup {proc[p].file}
          /\ recorded' = recorded \cup {proc[p].file}
          /\ proc' = [proc EXCEPT ![p].pc = "check", ![p].file = @ + 1]
       \/ /\ proc[p].file \in schema \cup recorded
          /\ Exit(p)
          /\ UNCHANGED <<schema, recorded>>
    /\ UNCHANGED <<projects, users, faults>>

-----------------------------------------------------------------------------
(* The rest of cmdServe: seedDemoData and bootstrapAdmin.                  *)

CountProjects(p) ==
    /\ proc[p].pc = "count"
    /\ Become(p, IF SeedData /\ ~ projects THEN "seed" ELSE "lookup")
    /\ UNCHANGED <<database, faults>>

(***************************************************************************)
(* One transaction; the demo project has a fixed id and slug, so it fails  *)
(* where another server put one since the count.  What the operator does   *)
(* to the projects later is left out: it only decides whether the next     *)
(* start seeds.                                                            *)
(***************************************************************************)
Seed(p) ==
    /\ proc[p].pc = "seed"
    /\ IF projects THEN Exit(p) ELSE Become(p, "lookup")
    /\ projects' = TRUE
    /\ UNCHANGED <<schema, recorded, users, faults>>

(* bootstrapAdmin leaves an account that exists alone. *)
LookupAdmin(p) ==
    /\ proc[p].pc = "lookup"
    /\ Become(p, IF EnvAdmin = Null \/ users[EnvAdmin.name] # Null THEN "serving" ELSE "create")
    /\ UNCHANGED <<database, faults>>

(* A slip: where another process made the account, its password is set.    *)
CreateAdmin_Resets(p) ==
    /\ proc[p].pc = "create"
    /\ users' = [users EXCEPT ![EnvAdmin.name] = EnvAdmin.password]
    /\ Become(p, "serving")
    /\ UNCHANGED <<schema, recorded, projects, faults>>

(* The password was hashed since the look-up: CreateUser may find the name *)
(* taken, and ErrDuplicate is as good as success.                          *)
CreateAdmin(p) ==
    /\ proc[p].pc = "create"
    /\ users' = IF users[EnvAdmin.name] = Null
                THEN [users EXCEPT ![EnvAdmin.name] = EnvAdmin.password] ELSE users
    /\ Become(p, "serving")
    /\ UNCHANGED <<schema, recorded, projects, faults>>

-----------------------------------------------------------------------------
(* admin-create after Migrate.                                             *)

(* CreateUser; a name that is taken is an error, or with -reset a change.  *)
InsertUser(p) ==
    LET a == proc[p].admin
    IN  /\ proc[p].pc = "insert"
        /\ \/ /\ users[a.name] = Null
              /\ users' = [users EXCEPT ![a.name] = a.password]
              /\ Exit(p)
           \/ /\ users[a.name] # Null
              /\ IF proc[p].reset THEN Become(p, "set") ELSE Exit(p)
              /\ UNCHANGED users
        /\ UNCHANGED <<schema, recorded, projects, faults>>

SetUserPassword(p) ==
    LET a == proc[p].admin
    IN  /\ proc[p].pc = "set"
        /\ users' = IF users[a.name] # Null
                    THEN [users EXCEPT ![a.name] = a.password] ELSE users
        /\ Exit(p)
        /\ UNCHANGED <<schema, recorded, projects, faults>>

-----------------------------------------------------------------------------
(* A process exits at any point: it is stopped or killed, or one of its    *)
(* statements fails.  What was committed stays.                            *)
Stop(p) ==
    /\ proc[p].pc # "off"
    /\ faults < MaxFaults
    /\ faults' = faults + 1
    /\ Exit(p)
    /\ UNCHANGED database

Boot(p) == \/ p \in Servers /\ StartServer(p)
           \/ CheckMigration(p) \/ ApplyMigration(p) \/ CountProjects(p) \/ Seed(p)
           \/ LookupAdmin(p) \/ CreateAdmin(p)

Shell(p) == InsertUser(p) \/ SetUserPassword(p)

-----------------------------------------------------------------------------
(* Properties.                                                             *)

(***************************************************************************)
(* However many processes start on the file at once, and wherever they are *)
(* cut off, a migration is recorded exactly if its statements are there,   *)
(* none is there before those it builds on, and no process gets past       *)
(* Migrate before all of them are.                                         *)
(***************************************************************************)
PastMigrate(p) == proc[p].pc \in {"count", "seed", "lookup", "create", "serving", "insert", "set"}

SchemaWhole ==
    /\ recorded = schema
    /\ \E k \in 0 .. Files : schema = 1 .. k
    /\ \A p \in Procs : PastMigrate(p) => schema = 1 .. Files

(***************************************************************************)
(* README.md, "a restart must not undo a password you changed with -reset, *)
(* nor resurrect one you rotated": the password of an account changes only *)
(* by an admin-create -reset that names it, and the account stays.         *)
(***************************************************************************)
ResetOnly ==
    \A n \in Names : users[n] # Null /\ users'[n] # users[n] =>
        \E p \in Shells : /\ proc[p].pc = "set"
                          /\ proc[p].reset
                          /\ proc[p].admin = [name |-> n, password |-> users'[n]]

(***************************************************************************)
(* No start-up, cut off or overtaken at any point, leaves a database that  *)
(* later ones fail on: a server that is restarted comes to serve.          *)
(***************************************************************************)
ComesToServe == \A p \in Servers : proc[p].pc # "serving" ~> proc[p].pc = "serving"
=============================================================================
