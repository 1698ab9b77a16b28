------------------------------ MODULE Registry ------------------------------
(***************************************************************************)
(* The registry of tenants: projects, their environments and the API keys  *)
(* that open them (internal/db/projects.go, keys.go), the pages that edit  *)
(* them (internal/ui/projects.go, keys.go) and the middleware every /v1    *)
(* request passes (internal/auth/apikey.go).                               *)
(*                                                                         *)
(* A request first resolves the names it was given to row ids, one SELECT  *)
(* at a time on the Read pool, and later writes by id on the Write         *)
(* connection; other requests commit in between.  An id is the rowid of an *)
(* INTEGER PRIMARY KEY: the largest one in use plus one, so the number of  *)
(* a row deleted last is given out again.  To tell a row from its          *)
(* successor under the same id, projects and environments carry a serial   *)
(* number (inc) that the program does not have.                            *)
(***************************************************************************)
EXTENDS Integers, FiniteSets, FiniteSetsExt

CONSTANTS
    Clients,        \* requests being served at the same time
    ProjectSlugs,   \* the names callers give projects
    EnvSlugs,       \* and environments
    Secrets,        \* the API keys the generator may draw
    Scope,          \* the scope of each: GenerateKey writes it into the key
    Tokens,         \* the token ids that may be drawn
    Offered,        \* bound: the operations the callers use, of Ops
    MaxMade,        \* bound: projects and environments made, over all time
    Null            \* no such row, or no such field

DefaultEnvironment == "prod"
ScopeRank == [consume |-> 1, write |-> 2, admin |-> 3]
Scopes == DOMAIN ScopeRank

(* POST /v1/tokens, DELETE /v1/manage/tokens/{id}, and the scope each is mounted with. *)
Needs == [mint |-> "write", erase |-> "admin"]
ApiOps == DOMAIN Needs
ProjectOps == {"deleteProject", "createEnvironment"}
EnvOps == {"deleteEnvironment", "createKey", "revokeKey", "deleteKey"}
Ops == {"createProject"} \cup ProjectOps \cup EnvOps \cup ApiOps

Ids == 1..MaxMade
KeyIds == 1..Cardinality(Secrets)

ASSUME RegistryAssumption ==
    /\ IsFiniteSet(Secrets)
    /\ Scope \in [Secrets -> Scopes]
    /\ DefaultEnvironment \in EnvSlugs
    /\ MaxMade \in Nat
    /\ Secrets \cap Tokens = {}

Project == [slug: ProjectSlugs, inc: Nat \ {0}]
Environment == [project: Ids, slug: EnvSlugs, inc: Nat \ {0}, home: Nat \ {0}]
Key == [env: Ids, secret: Secrets, revoked: BOOLEAN]

ASSUME RowsAssumption == Null \notin Project \cup Environment \cup Key \cup Nat \cup Ops

VARIABLES
    projects, envs, keys,   \* the tables: a row or Null for each id
    tokens,     \* the environment a token belongs to, or Null
    req,        \* what each request in flight was asked and has resolved
    made,       \* history: how many projects and environments were made
    home        \* history: the environment a key or token was made in, by inc

vars == <<projects, envs, keys, tokens, req, made, home>>
tables == <<projects, envs, keys, tokens>>

(***************************************************************************)
(* A request: op on the project and environment named slug and env, or     *)
(* with the API key secret; on key id or token tok.  pid and eid are what  *)
(* the names resolved to; pinc and einc (history) which rows these were;   *)
(* stale (history) that the key was already dead when the request came.    *)
(* pc is the next database call: the project, environment, key or bind     *)
(* (the key's environment) to look up, or the write.                       *)
(***************************************************************************)
Request == [pc: {"idle", "project", "environment", "key", "bind", "write"},
            op: Ops \cup {Null}, slug: ProjectSlugs \cup {Null}, env: EnvSlugs \cup {Null},
            secret: Secrets \cup {Null}, id: KeyIds \cup {Null}, tok: Tokens \cup {Null},
            pid: Ids \cup {Null}, eid: Ids \cup {Null},
            pinc: Nat \cup {Null}, einc: Nat \cup {Null}, stale: BOOLEAN]

Idle == [pc |-> "idle", op |-> Null, slug |-> Null, env |-> Null, secret |-> Null,
         id |-> Null, tok |-> Null, pid |-> Null, eid |-> Null, pinc |-> Null,
         einc |-> Null, stale |-> FALSE]

TypeOK ==
    /\ projects \in [Ids -> Project \cup {Null}]
    /\ envs \in [Ids -> Environment \cup {Null}]
    /\ keys \in [KeyIds -> Key \cup {Null}]
    /\ tokens \in [Tokens -> Ids \cup {Null}]
    /\ req \in [Clients -> Request]
    /\ made \in Nat
    /\ home \in [Secrets \cup Tokens -> Nat]

Init ==
    /\ projects = [i \in Ids |-> Null]
    /\ envs = [i \in Ids |-> Null]
    /\ keys = [k \in KeyIds |-> Null]
    /\ tokens = [t \in Tokens |-> Null]
    /\ req = [c \in Clients |-> Idle]
    /\ made = 0
    /\ home = [x \in Secrets \cup Tokens |-> 0]

-----------------------------------------------------------------------------
(* The tables.                                                             *)

Rows(table) == {i \in DOMAIN table : table[i] # Null}

(* The rowid of an INSERT. *)
NextId(table) == IF Rows(table) = {} THEN 1 ELSE Max(Rows(table)) + 1

(* A DELETE: of the rows with these ids. *)
Without(table, ids) == [i \in DOMAIN table |-> IF i \in ids THEN Null ELSE table[i]]

EnvsOf(p) == {e \in Rows(envs) : envs[e].project = p}

(* A slip: no ON DELETE CASCADE on api_keys. *)
DropEnvironments_KeepKeys(E) ==
    /\ envs' = Without(envs, E)
    /\ tokens' = Without(tokens, {t \in Rows(tokens) : tokens[t] \in E})
    /\ UNCHANGED keys

(* Environments go, and by cascade all their keys and tokens. *)
DropEnvironments(E) ==
    /\ envs' = Without(envs, E)
    /\ keys' = Without(keys, {k \in Rows(keys) : keys[k].env \in E})
    /\ tokens' = Without(tokens, {t \in Rows(tokens) : tokens[t] \in E})

(* The UNIQUE constraints. *)
SlugTaken(slug) == \E p \in Rows(projects) : projects[p].slug = slug

(* A slip: no UNIQUE (project_id, slug). *)
EnvTaken_Never(p, slug) == FALSE

EnvTaken(p, slug) == \E e \in EnvsOf(p) : envs[e].slug = slug

(* scopeRank: a key may do what a lesser one may. *)
ScopeAllows(have, want) == ScopeRank[have] >= ScopeRank[want]

(* A key opens nothing (any more): revoked, deleted, or its environment is. *)
Dead(s) == ~ \E k \in Rows(keys) : /\ keys[k].secret = s
                                   /\ ~ keys[k].revoked
                                   /\ keys[k].env \in Rows(envs)
                                   /\ envs[keys[k].env].inc = home[s]

-----------------------------------------------------------------------------
(* A request arrives.                                                      *)

Arrives(c, r) ==
    /\ req[c].pc = "idle"
    /\ r.op \in Offered
    /\ req' = [req EXCEPT ![c] = r]
    /\ UNCHANGED <<tables, made, home>>

(* From the panel, which names things by slug and keys by id. *)
ProjectRequest(c) ==
    \E slug \in ProjectSlugs :
        \/ Arrives(c, [Idle EXCEPT !.pc = "write", !.op = "createProject", !.slug = slug])
        \/ Arrives(c, [Idle EXCEPT !.pc = "project", !.op = "deleteProject", !.slug = slug])

EnvRequest(c) ==
    \E slug \in ProjectSlugs, env \in EnvSlugs,
       op \in {"createEnvironment", "deleteEnvironment", "createKey"} :
        Arrives(c, [Idle EXCEPT !.pc = "project", !.op = op, !.slug = slug, !.env = env])

KeyRequest(c) ==
    \E slug \in ProjectSlugs, env \in EnvSlugs, id \in KeyIds, op \in {"revokeKey", "deleteKey"} :
        Arrives(c, [Idle EXCEPT !.pc = "project", !.op = op, !.slug = slug, !.env = env,
                                !.id = id])

(* From a machine.  An API key or token that never existed misses like one *)
(* that is gone, and nobody guesses one before it is made.                 *)
ApiRequest(c) ==
    \E s \in Secrets :
        /\ home[s] # 0
        /\ \/ Arrives(c, [Idle EXCEPT !.pc = "key", !.op = "mint", !.secret = s,
                                      !.stale = Dead(s)])
           \/ \E t \in Tokens :
                 /\ home[t] # 0
                 /\ Arrives(c, [Idle EXCEPT !.pc = "key", !.op = "erase", !.secret = s,
                                            !.tok = t, !.stale = Dead(s)])

-----------------------------------------------------------------------------
(* What it resolves.                                                       *)

Resolved(c, r) == req' = [req EXCEPT ![c] = r] /\ UNCHANGED <<tables, made, home>>

(* GetProjectBySlug: 404 when there is none. *)
FindProject(c) ==
    /\ req[c].pc = "project"
    /\ \/ \E p \in Rows(projects) :
             /\ projects[p].slug = req[c].slug
             /\ Resolved(c, [req[c] EXCEPT
                    !.pc = IF req[c].op \in ProjectOps THEN "write" ELSE "environment",
                    !.slug = Null, !.pid = p, !.pinc = projects[p].inc])
       \/ ~ SlugTaken(req[c].slug) /\ Resolved(c, Idle)

(* GetEnvironment, by the project's id and the environment's name. *)
FindEnvironment(c) ==
    /\ req[c].pc = "environment"
    /\ \/ \E e \in EnvsOf(req[c].pid) :
             /\ envs[e].slug = req[c].env
             /\ Resolved(c, [req[c] EXCEPT !.pc = "write", !.env = Null, !.pid = Null,
                                           !.eid = e, !.einc = envs[e].inc])
       \/ ~ EnvTaken(req[c].pid, req[c].env) /\ Resolved(c, Idle)

(* A slip: a revoked key is found as well. *)
Admits_Revoked(k, r) ==
    keys[k].secret = r.secret /\ ScopeAllows(Scope[r.secret], Needs[r.op])

(* LookupActiveAPIKey and the scope the route requires. *)
Admits(k, r) ==
    /\ keys[k].secret = r.secret
    /\ ~ keys[k].revoked
    /\ ScopeAllows(Scope[r.secret], Needs[r.op])

FindKey(c) ==
    /\ req[c].pc = "key"
    /\ \/ \E k \in Rows(keys) :
             /\ Admits(k, req[c])
             /\ Resolved(c, [req[c] EXCEPT !.pc = "bind", !.eid = keys[k].env,
                                           !.einc = envs[keys[k].env].inc])
       \/ (\A k \in Rows(keys) : ~ Admits(k, req[c])) /\ Resolved(c, Idle)

(* GetEnvironmentByID, another SELECT: 401 when it is gone by now. *)
BindEnvironment(c) ==
    /\ req[c].pc = "bind"
    /\ Resolved(c, IF req[c].eid \in Rows(envs) THEN [req[c] EXCEPT !.pc = "write"] ELSE Idle)

-----------------------------------------------------------------------------
(* The writes, each one statement or one transaction.  A write that finds  *)
(* no row, breaks a UNIQUE or finds its parent gone (a foreign key) leaves *)
(* everything as it is.  The request ends with it: pages only read on.     *)

Executing(c, op) == req[c].pc = "write" /\ req[c].op = op /\ req' = [req EXCEPT ![c] = Idle]

CreateProject(c) ==
    /\ Executing(c, "createProject")
    /\ \/ /\ SlugTaken(req[c].slug)
          /\ UNCHANGED <<tables, made, home>>
       \/ /\ ~ SlugTaken(req[c].slug)
          /\ made < MaxMade
          /\ made' = made + 1
          /\ projects' = [projects EXCEPT ![NextId(projects)] =
                             [slug |-> req[c].slug, inc |-> made']]
          /\ envs' = [envs EXCEPT ![NextId(envs)] =
                         [project |-> NextId(projects), slug |-> DefaultEnvironment,
                          inc |-> made', home |-> made']]
          /\ UNCHANGED <<keys, tokens, home>>

DeleteProject(c) ==
    /\ Executing(c, "deleteProject")
    /\ projects' = Without(projects, {req[c].pid})
    /\ DropEnvironments(EnvsOf(req[c].pid))
    /\ UNCHANGED <<made, home>>

CreateEnvironment(c) ==
    LET p == req[c].pid
        refused == p \notin Rows(projects) \/ EnvTaken(p, req[c].env)
    IN  /\ Executing(c, "createEnvironment")
        /\ \/ refused /\ UNCHANGED <<tables, made, home>>
           \/ /\ ~ refused
              /\ made < MaxMade
              /\ made' = made + 1
              /\ envs' = [envs EXCEPT ![NextId(envs)] =
                             [project |-> p, slug |-> req[c].env,
                              inc |-> made', home |-> projects[p].inc]]
              /\ UNCHANGED <<projects, keys, tokens, home>>

DeleteEnvironment(c) ==
    /\ Executing(c, "deleteEnvironment")
    /\ DropEnvironments({req[c].eid})
    /\ UNCHANGED <<projects, made, home>>

(* The page shows the key once; from then on callers have it. *)
CreateKey(c) ==
    /\ Executing(c, "createKey")
    /\ \/ /\ req[c].eid \notin Rows(envs)
          /\ UNCHANGED <<tables, made, home>>
       \/ \E s \in Secrets :
             /\ req[c].eid \in Rows(envs)
             /\ home[s] = 0
             /\ keys' = [keys EXCEPT ![NextId(keys)] =
                            [env |-> req[c].eid, secret |-> s, revoked |-> FALSE]]
             /\ home' = [home EXCEPT ![s] = envs[req[c].eid].inc]
             /\ UNCHANGED <<projects, envs, tokens, made>>

(* A slip: the key's id alone. *)
Addressed_ById(r) == {k \in Rows(keys) : k = r.id}

(* WHERE id = ? AND environment_id = ? *)
Addressed(r) == {k \in Rows(keys) : k = r.id /\ keys[k].env = r.eid}

RevokeKey(c) ==
    /\ Executing(c, "revokeKey")
    /\ keys' = [k \in KeyIds |-> IF k \in Addressed(req[c]) THEN [keys[k] EXCEPT !.revoked = TRUE]
                                                            ELSE keys[k]]
    /\ UNCHANGED <<projects, envs, tokens, made, home>>

DeleteKey(c) ==
    /\ Executing(c, "deleteKey")
    /\ keys' = Without(keys, Addressed(req[c]))
    /\ UNCHANGED <<projects, envs, tokens, made, home>>

MintToken(c) ==
    /\ Executing(c, "mint")
    /\ \/ /\ req[c].eid \notin Rows(envs)
          /\ UNCHANGED <<tables, made, home>>
       \/ \E t \in Tokens :
             /\ req[c].eid \in Rows(envs)
             /\ home[t] = 0
             /\ tokens' = [tokens EXCEPT ![t] = req[c].eid]
             /\ home' = [home EXCEPT ![t] = envs[req[c].eid].inc]
             /\ UNCHANGED <<projects, envs, keys, made>>

EraseToken(c) ==
    /\ Executing(c, "erase")
    /\ tokens' = Without(tokens, {t \in {req[c].tok} : tokens[t] = req[c].eid})
    /\ UNCHANGED <<projects, envs, keys, made, home>>

(* The caller hangs up, a statement fails, or the process dies: whatever   *)
(* the request had resolved is forgotten.                                  *)
Abandon(c) == req[c].pc # "idle" /\ Resolved(c, Idle)

Arrive(c) == ProjectRequest(c) \/ EnvRequest(c) \/ KeyRequest(c) \/ ApiRequest(c)

Resolve(c) == FindProject(c) \/ FindEnvironment(c) \/ FindKey(c) \/ BindEnvironment(c)

Write(c) == \/ CreateProject(c) \/ DeleteProject(c) \/ CreateEnvironment(c)
            \/ DeleteEnvironment(c) \/ CreateKey(c) \/ RevokeKey(c) \/ DeleteKey(c)
            \/ MintToken(c) \/ EraseToken(c)

Next == \E c \in Clients : Arrive(c) \/ Resolve(c) \/ Write(c) \/ Abandon(c)

Spec == Init /\ [][Next]_vars

-----------------------------------------------------------------------------
(* Properties.                                                             *)

(***************************************************************************)
(* A row belongs to the parent it was made under, for as long as it lives: *)
(* the foreign keys and their cascades leave no orphan behind that the     *)
(* next owner of its parent's number would adopt - no key that opens, no   *)
(* token that shows up in, somebody else's environment.                    *)
(***************************************************************************)
EnvsAtHome == \A e \in Rows(envs) : /\ envs[e].project \in Rows(projects)
                                    /\ projects[envs[e].project].inc = envs[e].home
KeysAtHome == \A k \in Rows(keys) : /\ keys[k].env \in Rows(envs)
                                    /\ envs[keys[k].env].inc = home[keys[k].secret]
TokensAtHome == \A t \in Rows(tokens) : /\ tokens[t] \in Rows(envs)
                                        /\ envs[tokens[t]].inc = home[t]

NothingAdopted == EnvsAtHome /\ KeysAtHome /\ TokensAtHome

(***************************************************************************)
(* A name means one thing: no two projects have the same slug and no two   *)
(* environments of one project, however many pages create them at once.    *)
(***************************************************************************)
SlugsNameOne ==
    /\ \A p, q \in Rows(projects) : projects[p].slug = projects[q].slug => p = q
    /\ \A e, f \in Rows(envs) : /\ envs[e].project = envs[f].project
                                /\ envs[e].slug = envs[f].slug
                                => e = f

(***************************************************************************)
(* A request gets to its handler only with a key that was still good when  *)
(* the request came, and of sufficient scope: a key revoked, deleted or    *)
(* removed with its environment before that opens nothing, not even when   *)
(* its environment's number has passed to another.                         *)
(***************************************************************************)
DeadKeysStayOut ==
    \A c \in Clients : req[c].pc = "write" /\ req[c].op \in ApiOps =>
        /\ ~ req[c].stale
        /\ ScopeAllows(Scope[req[c].secret], Needs[req[c].op])

(***************************************************************************)
(* A request changes another environment than the one it resolved - under  *)
(* a project of that name, or by its key - only if that one was deleted    *)
(* meanwhile and its number given out again.  While the environment lives, *)
(* nothing the request does lands elsewhere; nor does it land in another   *)
(* project while the one it resolved lives, and the environment in it.     *)
(***************************************************************************)
Touched == {e \in Ids : \/ envs'[e] # envs[e]
                        \/ \E k \in KeyIds : /\ keys'[k] # keys[k]
                                             /\ \/ k \in Rows(keys) /\ keys[k].env = e
                                                \/ keys'[k] # Null /\ keys'[k].env = e
                        \/ \E t \in Tokens : tokens'[t] # tokens[t] /\ e \in {tokens[t], tokens'[t]}}

EnvGone(inc) == \A e \in Rows(envs) : envs[e].inc # inc
ProjectGone(inc) == \A p \in Rows(projects) : projects[p].inc # inc

StraysOnlyOvertaken ==
    [][\A c \in Clients, e \in Touched : req[c].pc = "write" /\ req'[c] # req[c] =>
         /\ req[c].einc # Null => \/ envs[e] # Null /\ envs[e].inc = req[c].einc
                                  \/ EnvGone(req[c].einc)
         /\ req[c].pinc # Null => \/ envs[e] # Null /\ envs[e].home = req[c].pinc
                                  \/ envs'[e] # Null /\ envs'[e].home = req[c].pinc
                                  \/ ProjectGone(req[c].pinc)
                                  \/ req[c].einc # Null /\ EnvGone(req[c].einc)]_vars
=============================================================================
