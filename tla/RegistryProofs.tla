--------------------------- MODULE RegistryProofs ---------------------------
(***************************************************************************)
(* What Registry promises for every number of requests, names, keys and    *)
(* rows.  IInv says why: ids in use are bounded by what was made, so the   *)
(* largest plus one is free (Numbers), and every row is at home in the     *)
(* parent it was made under (NothingAdopted), so a key that finds its      *)
(* environment finds its own.  At the end, where a write lands: no serial  *)
(* number is given out twice (Serials), and what a request found is where  *)
(* it found it, or gone (Located).                                         *)
(***************************************************************************)
EXTENDS Registry, FiniteSetTheorems, WellFoundedInduction, TLAPS

(* What a request holds on its way to its write. *)
Fits(r) ==
    /\ r.pc = "project" => r.op \in ProjectOps \cup EnvOps
    /\ r.pc = "environment" => r.op \in EnvOps
    /\ r.pc \in {"key", "bind"} => r.op \in ApiOps
    /\ r.pc = "write" /\ r.op = "createProject" => r.slug \in ProjectSlugs
    /\ r.pc \in {"project", "write"} /\ r.op = "createEnvironment" => r.env \in EnvSlugs

Filled == \A c \in Clients : Fits(req[c])

Numbers ==
    /\ made <= MaxMade
    /\ \A p \in Rows(projects) : p <= made
    /\ \A e \in Rows(envs) : e <= made

IInv == TypeOK /\ Filled /\ Numbers /\ NothingAdopted /\ SlugsNameOne

(* The parts of IInv that speak of the tables, and of the requests.        *)
Tables ==
    /\ projects \in [Ids -> Project \cup {Null}]
    /\ envs \in [Ids -> Environment \cup {Null}]
    /\ keys \in [KeyIds -> Key \cup {Null}]
    /\ tokens \in [Tokens -> Ids \cup {Null}]
    /\ made \in Nat
    /\ home \in [Secrets \cup Tokens -> Nat]
    /\ Numbers /\ NothingAdopted /\ SlugsNameOne

Requests == req \in [Clients -> Request] /\ Filled

LEMMA Parts == IInv <=> Tables /\ Requests
  BY DEF IInv, TypeOK, Tables, Requests

LEMMA PartsNext == IInv' <=> Tables' /\ Requests'
  BY DEF IInv, TypeOK, Tables, Requests

-----------------------------------------------------------------------------
(* Ids.                                                                    *)

(* A bounded, non-empty set of numbers has a largest one. *)
LEMMA Largest ==
    ASSUME NEW S \in SUBSET Nat, S # {}, NEW n \in Nat, \A x \in S : x <= n
    PROVE  Max(S) \in S /\ \A y \in S : y <= Max(S)
  <1> DEFINE T == {m \in Nat : n - m \in S}
  <1>1. PICK x \in S : TRUE  OBVIOUS
  <1>2. n - x \in T  BY <1>1
  <1>3. PICK m \in T : \A k \in T : ~ (<<k, m>> \in OpToRel(<, Nat))
    BY <1>2, NatLessThanWellFounded, WFMin
  <1>4. m \in Nat /\ T \subseteq Nat /\ n - m \in S  BY <1>3
  <1>5. \A k \in T : m <= k
    <2> SUFFICES ASSUME NEW k \in T PROVE m <= k  OBVIOUS
    <2>1. k \in Nat /\ m \in Nat  BY <1>4
    <2>2. ~ (k < m)  BY <1>3, <2>1 DEF OpToRel
    <2> HIDE DEF T
    <2> QED  BY <2>1, <2>2
  <1>6. \A y \in S : y <= n - m
    <2> SUFFICES ASSUME NEW y \in S PROVE y <= n - m  OBVIOUS
    <2>1. y \in Nat /\ y <= n  OBVIOUS
    <2>2. n - y \in Nat /\ n - (n - y) = y  BY <2>1
    <2>3. n - y \in T  BY <2>2
    <2>4. m <= n - y  BY <1>5, <2>3
    <2> HIDE DEF T
    <2> QED  BY <1>4, <2>1, <2>4
  <1>7. \E z \in S : \A y \in S : z >= y  BY <1>4, <1>6
  <1> QED  BY <1>7 DEF Max

(* The id of an INSERT is free. *)
LEMMA NextIdFree ==
    ASSUME NEW table, NEW n \in Nat, Rows(table) \subseteq 1..n
    PROVE  NextId(table) \in 1..n + 1 /\ NextId(table) \notin Rows(table)
  <1>1. CASE Rows(table) = {}  BY <1>1 DEF NextId
  <1>2. CASE Rows(table) # {}
    <2>1. Rows(table) \in SUBSET Nat /\ \A x \in Rows(table) : x <= n  OBVIOUS
    <2>2. /\ Max(Rows(table)) \in Rows(table)
          /\ \A y \in Rows(table) : y <= Max(Rows(table))
      BY <1>2, <2>1, Largest
    <2> QED  BY <1>2, <2>2 DEF NextId
  <1> QED  BY <1>1, <1>2

(* What a table holds after an INSERT at a free id, and after a DELETE.    *)
LEMMA RowsInsert ==
    ASSUME NEW table, NEW i \in DOMAIN table, NEW row, row # Null
    PROVE  LET after == [table EXCEPT ![i] = row]
           IN  /\ Rows(after) = Rows(table) \cup {i}
               /\ after[i] = row
               /\ \A j \in Rows(table) : j # i => after[j] = table[j]
  BY DEF Rows

LEMMA RowsWithout ==
    ASSUME NEW table, NEW ids
    PROVE  /\ Rows(Without(table, ids)) = Rows(table) \ ids
           /\ \A j \in Rows(table) \ ids : Without(table, ids)[j] = table[j]
  BY DEF Rows, Without

-----------------------------------------------------------------------------
LEMMA InitIInv == Init => IInv
  <1> SUFFICES ASSUME Init PROVE IInv  OBVIOUS
  <1>1. Idle \in Request /\ Fits(Idle)  BY DEF Idle, Request, Fits
  <1>2. Rows(projects) = {} /\ Rows(envs) = {} /\ Rows(keys) = {} /\ Rows(tokens) = {}
    BY DEF Init, Rows
  <1>3. TypeOK  BY <1>1 DEF Init, TypeOK
  <1>4. Filled  BY <1>1 DEF Init, Filled
  <1>5. Numbers  BY <1>2, RegistryAssumption DEF Init, Numbers
  <1>6. NothingAdopted /\ SlugsNameOne
    BY <1>2 DEF NothingAdopted, EnvsAtHome, KeysAtHome, TokensAtHome, SlugsNameOne
  <1> QED  BY <1>3, <1>4, <1>5, <1>6 DEF IInv

(* A request moves on to r, and the others stay. *)
LEMMA RequestStep ==
    ASSUME Requests, NEW c \in Clients, NEW r \in Request, Fits(r),
           req' = [req EXCEPT ![c] = r]
    PROVE  Requests'
  BY DEF Requests, Filled

LEMMA IdleStep ==
    ASSUME Requests, NEW c \in Clients, req' = [req EXCEPT ![c] = Idle]
    PROVE  Requests'
  <1>1. Idle \in Request /\ Fits(Idle)  BY DEF Idle, Request, Fits
  <1> QED  BY <1>1, RequestStep

LEMMA TablesKept ==
    ASSUME Tables, UNCHANGED <<tables, made, home>>
    PROVE  Tables'
  BY DEF Tables, tables, Numbers, NothingAdopted, EnvsAtHome, KeysAtHome, TokensAtHome,
         SlugsNameOne, Rows, EnvsOf

LEMMA TablesRows ==
    ASSUME Tables
    PROVE  /\ made \in Nat
           /\ Rows(projects) \subseteq 1..made /\ Rows(envs) \subseteq 1..made
           /\ Rows(projects) \subseteq Ids /\ Rows(envs) \subseteq Ids
           /\ Rows(keys) \subseteq KeyIds /\ Rows(tokens) \subseteq Tokens
           /\ \A p \in Rows(projects) : projects[p] \in Project
           /\ \A e \in Rows(envs) : envs[e] \in Environment
           /\ \A k \in Rows(keys) : keys[k] \in Key
           /\ \A t \in Rows(tokens) : tokens[t] \in Ids
  BY RegistryAssumption DEF Tables, Rows, Numbers, Ids

-----------------------------------------------------------------------------
LEMMA CreateProjectStep ==
    ASSUME Tables, Requests, NEW c \in Clients, CreateProject(c)
    PROVE  Tables'
  <1>1. CASE UNCHANGED <<tables, made, home>>  BY <1>1, TablesKept
  <1>2. CASE /\ ~ SlugTaken(req[c].slug)
             /\ made < MaxMade
             /\ made' = made + 1
             /\ projects' = [projects EXCEPT ![NextId(projects)] =
                                [slug |-> req[c].slug, inc |-> made']]
             /\ envs' = [envs EXCEPT ![NextId(envs)] =
                            [project |-> NextId(projects), slug |-> DefaultEnvironment,
                             inc |-> made', home |-> made']]
             /\ UNCHANGED <<keys, tokens, home>>
    <2> DEFINE p == NextId(projects)
               e == NextId(envs)
               P == [slug |-> req[c].slug, inc |-> made']
               N == [project |-> p, slug |-> DefaultEnvironment, inc |-> made', home |-> made']
    <2>1. made \in Nat /\ made' \in Nat \ {0} /\ made' = made + 1 /\ made' <= MaxMade
      BY <1>2, RegistryAssumption DEF Tables
    <2>2. /\ p \in 1..made + 1 /\ p \notin Rows(projects)
          /\ e \in 1..made + 1 /\ e \notin Rows(envs)
      BY TablesRows, NextIdFree
    <2>3. p \in Ids /\ e \in Ids  BY <2>1, <2>2, RegistryAssumption DEF Ids
    <2>4. req[c].slug \in ProjectSlugs  BY DEF CreateProject, Executing, Requests, Filled, Fits
    <2>5. P \in Project /\ N \in Environment
      BY <2>1, <2>3, <2>4, RegistryAssumption DEF Project, Environment
    <2>6. P # Null /\ N # Null  BY <2>5, RowsAssumption
    <2>7. p \in DOMAIN projects /\ e \in DOMAIN envs  BY <2>3 DEF Tables
    <2>8. P.inc = made' /\ P.slug = req[c].slug
          /\ N.project = p /\ N.slug = DefaultEnvironment /\ N.inc = made' /\ N.home = made'
      OBVIOUS
    <2>9. projects' = [projects EXCEPT ![p] = P] /\ envs' = [envs EXCEPT ![e] = N]
      BY <1>2
    <2> HIDE DEF p, e, P, N
    <2>10. /\ Rows(projects)' = Rows(projects) \cup {p} /\ projects'[p] = P
           /\ \A q \in Rows(projects) : projects'[q] = projects[q]
           /\ Rows(envs)' = Rows(envs) \cup {e} /\ envs'[e] = N
           /\ \A f \in Rows(envs) : envs'[f] = envs[f]
      BY <2>2, <2>6, <2>7, <2>9 DEF Rows
    <2>11. Rows(keys)' = Rows(keys) /\ Rows(tokens)' = Rows(tokens)  BY <1>2 DEF Rows
    <2>12. /\ projects' \in [Ids -> Project \cup {Null}]
           /\ envs' \in [Ids -> Environment \cup {Null}]
      BY <2>5, <2>9 DEF Tables
    <2>13. Numbers'  BY <2>1, <2>2, <2>10, TablesRows DEF Numbers
    <2>14. EnvsAtHome'
      BY <2>2, <2>8, <2>10 DEF EnvsAtHome, Tables, NothingAdopted
    <2>15. KeysAtHome' /\ TokensAtHome'
      <3>1. keys' = keys /\ tokens' = tokens /\ home' = home  BY <1>2
      <3>2. KeysAtHome'
        BY <2>10, <2>11, <3>1 DEF KeysAtHome, Tables, NothingAdopted
      <3>3. TokensAtHome'
        BY <2>10, <2>11, <3>1 DEF TokensAtHome, Tables, NothingAdopted
      <3> QED  BY <3>2, <3>3
    <2>16. SlugsNameOne'
      <3>1. \A q \in Rows(projects) : projects[q].slug # P.slug
        BY <1>2, <2>8 DEF SlugTaken
      <3>2. \A f \in Rows(envs) : envs[f].project # p
        BY <2>2 DEF Tables, NothingAdopted, EnvsAtHome
      <3> QED  BY <2>8, <2>10, <3>1, <3>2 DEF SlugsNameOne, Tables
    <2> QED
      BY <1>2, <2>1, <2>12, <2>13, <2>14, <2>15, <2>16 DEF Tables, NothingAdopted
  <1> QED  BY <1>1, <1>2 DEF CreateProject

LEMMA CreateEnvironmentStep ==
    ASSUME Tables, Requests, NEW c \in Clients, CreateEnvironment(c)
    PROVE  Tables'
  <1> DEFINE p == req[c].pid
  <1>1. CASE UNCHANGED <<tables, made, home>>  BY <1>1, TablesKept
  <1>2. CASE /\ p \in Rows(projects)
             /\ ~ EnvTaken(p, req[c].env)
             /\ made < MaxMade
             /\ made' = made + 1
             /\ envs' = [envs EXCEPT ![NextId(envs)] =
                            [project |-> p, slug |-> req[c].env,
                             inc |-> made', home |-> projects[p].inc]]
             /\ UNCHANGED <<projects, keys, tokens, home>>
    <2> DEFINE e == NextId(envs)
               N == [project |-> p, slug |-> req[c].env, inc |-> made', home |-> projects[p].inc]
    <2>1. made \in Nat /\ made' \in Nat \ {0} /\ made' = made + 1 /\ made' <= MaxMade
      BY <1>2, RegistryAssumption DEF Tables
    <2>2. e \in 1..made + 1 /\ e \notin Rows(envs)  BY TablesRows, NextIdFree
    <2>3. e \in Ids /\ p \in Ids  BY <1>2, <2>1, <2>2, TablesRows, RegistryAssumption DEF Ids
    <2>4. req[c].env \in EnvSlugs  BY DEF CreateEnvironment, Executing, Requests, Filled, Fits
    <2>5. projects[p].inc \in Nat \ {0}  BY <1>2, TablesRows DEF Project
    <2>6. N \in Environment  BY <2>1, <2>3, <2>4, <2>5 DEF Environment
    <2>7. N # Null /\ e \in DOMAIN envs  BY <2>3, <2>6, RowsAssumption DEF Tables
    <2>8. N.project = p /\ N.slug = req[c].env /\ N.home = projects[p].inc  OBVIOUS
    <2>9. envs' = [envs EXCEPT ![e] = N]  BY <1>2
    <2> HIDE DEF p, e, N
    <2>10. /\ Rows(envs)' = Rows(envs) \cup {e} /\ envs'[e] = N
           /\ \A f \in Rows(envs) : envs'[f] = envs[f]
      BY <2>2, <2>7, <2>9 DEF Rows
    <2>11. /\ Rows(projects)' = Rows(projects)
           /\ Rows(keys)' = Rows(keys) /\ Rows(tokens)' = Rows(tokens)
      BY <1>2 DEF Rows
    <2>12. envs' \in [Ids -> Environment \cup {Null}]  BY <2>6, <2>9 DEF Tables
    <2>13. Numbers'  BY <2>1, <2>2, <2>10, <2>11, TablesRows, <1>2 DEF Numbers
    <2>14. EnvsAtHome'
      BY <1>2, <2>8, <2>10, <2>11 DEF EnvsAtHome, Tables, NothingAdopted
    <2>15. KeysAtHome' /\ TokensAtHome'
      <3>1. keys' = keys /\ tokens' = tokens /\ home' = home  BY <1>2
      <3>2. KeysAtHome'
        BY <2>10, <2>11, <3>1 DEF KeysAtHome, Tables, NothingAdopted
      <3>3. TokensAtHome'
        BY <2>10, <2>11, <3>1 DEF TokensAtHome, Tables, NothingAdopted
      <3> QED  BY <3>2, <3>3
    <2>16. SlugsNameOne'
      <3>1. \A f \in Rows(envs) : envs[f].project = p => envs[f].slug # req[c].env
        BY <1>2 DEF EnvTaken, EnvsOf
      <3>2. projects' = projects  BY <1>2
      <3> QED  BY <2>8, <2>10, <2>11, <3>1, <3>2 DEF SlugsNameOne, Tables
    <2> QED
      BY <1>2, <2>1, <2>12, <2>13, <2>14, <2>15, <2>16 DEF Tables, NothingAdopted
  <1> QED  BY <1>1, <1>2 DEF CreateEnvironment

(* Deletions, of whole subtrees: E takes the keys and tokens below along.  *)
LEMMA DropStep ==
    ASSUME Tables, NEW E, NEW P, DropEnvironments(E),
           projects' = Without(projects, P),
           \A e \in Rows(envs) \ E : envs[e].project \notin P,
           UNCHANGED <<made, home>>
    PROVE  Tables'
  <1>1. /\ Rows(projects)' = Rows(projects) \ P
        /\ \A p \in Rows(projects)' : projects'[p] = projects[p]
    BY RowsWithout
  <1>2. /\ Rows(envs)' = Rows(envs) \ E
        /\ \A e \in Rows(envs)' : envs'[e] = envs[e]
    BY RowsWithout DEF DropEnvironments
  <1>3. /\ Rows(keys)' = Rows(keys) \ {k \in Rows(keys) : keys[k].env \in E}
        /\ \A k \in Rows(keys)' : keys'[k] = keys[k]
    BY RowsWithout DEF DropEnvironments
  <1>4. /\ Rows(tokens)' = Rows(tokens) \ {t \in Rows(tokens) : tokens[t] \in E}
        /\ \A t \in Rows(tokens)' : tokens'[t] = tokens[t]
    BY RowsWithout DEF DropEnvironments
  <1>5. /\ projects' \in [Ids -> Project \cup {Null}]
        /\ envs' \in [Ids -> Environment \cup {Null}]
        /\ keys' \in [KeyIds -> Key \cup {Null}]
        /\ tokens' \in [Tokens -> Ids \cup {Null}]
    BY DEF Tables, DropEnvironments, Without
  <1>6. Numbers'  BY <1>1, <1>2 DEF Tables, Numbers
  <1>7. EnvsAtHome'  BY <1>1, <1>2 DEF Tables, NothingAdopted, EnvsAtHome
  <1>8. KeysAtHome'  BY <1>2, <1>3 DEF Tables, NothingAdopted, KeysAtHome
  <1>9. TokensAtHome'  BY <1>2, <1>4 DEF Tables, NothingAdopted, TokensAtHome
  <1>10. SlugsNameOne'  BY <1>1, <1>2 DEF Tables, SlugsNameOne
  <1> QED  BY <1>5, <1>6, <1>7, <1>8, <1>9, <1>10 DEF Tables, NothingAdopted

LEMMA DeleteProjectStep ==
    ASSUME Tables, NEW c \in Clients, DeleteProject(c)
    PROVE  Tables'
  <1>1. \A e \in Rows(envs) \ EnvsOf(req[c].pid) : envs[e].project \notin {req[c].pid}
    BY DEF EnvsOf
  <1> QED  BY <1>1, DropStep DEF DeleteProject

LEMMA DeleteEnvironmentStep ==
    ASSUME Tables, NEW c \in Clients, DeleteEnvironment(c)
    PROVE  Tables'
  <1>1. projects' = Without(projects, {})  BY DEF DeleteEnvironment, Without, Tables
  <1> QED  BY <1>1, DropStep DEF DeleteEnvironment

-----------------------------------------------------------------------------
(* A step that touches only keys or tokens.                                *)
LEMMA LeavesStep ==
    ASSUME Tables, UNCHANGED <<projects, envs, made>>,
           keys' \in [KeyIds -> Key \cup {Null}], tokens' \in [Tokens -> Ids \cup {Null}],
           home' \in [Secrets \cup Tokens -> Nat], KeysAtHome', TokensAtHome'
    PROVE  Tables'
  BY DEF Tables, Numbers, NothingAdopted, EnvsAtHome, SlugsNameOne, Rows

(* The key of a row was made, so nobody draws it again. *)
LEMMA KeptIsMade ==
    ASSUME Tables
    PROVE  /\ \A k \in Rows(keys) : keys[k].secret \in Secrets /\ home[keys[k].secret] # 0
           /\ \A t \in Rows(tokens) : t \in Tokens /\ home[t] # 0
  <1>1. \A e \in Rows(envs) : envs[e].inc # 0  BY TablesRows DEF Environment
  <1>2. \A k \in Rows(keys) : keys[k].secret \in Secrets  BY TablesRows DEF Key
  <1> QED
    BY <1>1, <1>2, TablesRows DEF Tables, NothingAdopted, KeysAtHome, TokensAtHome

LEMMA CreateKeyStep ==
    ASSUME Tables, NEW c \in Clients, CreateKey(c)
    PROVE  Tables'
  <1> DEFINE e == req[c].eid
             k == NextId(keys)
  <1>1. CASE UNCHANGED <<tables, made, home>>  BY <1>1, TablesKept
  <1>2. ASSUME NEW s \in Secrets, e \in Rows(envs), home[s] = 0,
               keys' = [keys EXCEPT ![k] = [env |-> e, secret |-> s, revoked |-> FALSE]],
               home' = [home EXCEPT ![s] = envs[e].inc],
               UNCHANGED <<projects, envs, tokens, made>>
        PROVE  Tables'
    <2> DEFINE K == [env |-> e, secret |-> s, revoked |-> FALSE]
    <2>1. K \in Key /\ K # Null
      <3>1. e \in Ids  BY <1>2, TablesRows
      <3>2. K \in Key  BY <1>2, <3>1 DEF Key
      <3> QED  BY <3>2, RowsAssumption
    <2>2. K.env = e /\ K.secret = s  OBVIOUS
    <2>3. keys' = [keys EXCEPT ![k] = K]  BY <1>2
    <2>4. envs[e].inc \in Nat  BY <1>2, TablesRows DEF Environment
    <2> HIDE DEF e, k, K
    <2>5. /\ Rows(keys)' \subseteq Rows(keys) \cup {k}
          /\ k \in Rows(keys)' => keys'[k] = K
          /\ \A j \in Rows(keys)' : j # k => j \in Rows(keys) /\ keys'[j] = keys[j]
      BY <2>1, <2>3 DEF Rows
    <2>6. home' \in [Secrets \cup Tokens -> Nat] /\ home'[s] = envs[e].inc
          /\ \A x \in Secrets \cup Tokens : x # s => home'[x] = home[x]
      BY <1>2, <2>4 DEF Tables
    <2>7. Rows(envs)' = Rows(envs) /\ Rows(tokens)' = Rows(tokens)  BY <1>2 DEF Rows
    <2>8. \A j \in Rows(keys) : keys[j].secret # s /\ keys[j].secret \in Secrets
      BY <1>2, KeptIsMade
    <2>9. KeysAtHome'
      <3> SUFFICES ASSUME NEW j \in Rows(keys)'
                   PROVE  keys'[j].env \in Rows(envs) /\ envs[keys'[j].env].inc = home'[keys'[j].secret]
        BY <1>2, <2>7 DEF KeysAtHome
      <3>1. CASE j = k  BY <1>2, <2>2, <2>5, <2>6, <3>1
      <3>2. CASE j # k
        BY <2>5, <2>6, <2>8, <3>2 DEF Tables, NothingAdopted, KeysAtHome
      <3> QED  BY <3>1, <3>2
    <2>10. TokensAtHome'
      <3>1. \A t \in Rows(tokens) : home'[t] = home[t]
        BY <2>6, TablesRows, RegistryAssumption
      <3>2. envs' = envs /\ tokens' = tokens  BY <1>2
      <3> QED  BY <2>7, <3>1, <3>2 DEF Tables, NothingAdopted, TokensAtHome
    <2>11. keys' \in [KeyIds -> Key \cup {Null}]  BY <2>1, <2>3 DEF Tables
    <2>12. tokens' \in [Tokens -> Ids \cup {Null}]  BY <1>2 DEF Tables
    <2> QED  BY <1>2, <2>6, <2>9, <2>10, <2>11, <2>12, LeavesStep
  <1> QED  BY <1>1, <1>2 DEF CreateKey

LEMMA RevokeKeyStep ==
    ASSUME Tables, NEW c \in Clients, RevokeKey(c)
    PROVE  Tables'
  <1>1. /\ UNCHANGED <<projects, envs, tokens, made, home>>
        /\ keys' = [k \in KeyIds |-> IF k \in Addressed(req[c]) THEN [keys[k] EXCEPT !.revoked = TRUE]
                                                                ELSE keys[k]]
    BY DEF RevokeKey
  <1>2. \A k \in Rows(keys) : /\ [keys[k] EXCEPT !.revoked = TRUE] \in Key
                              /\ [keys[k] EXCEPT !.revoked = TRUE].env = keys[k].env
                              /\ [keys[k] EXCEPT !.revoked = TRUE].secret = keys[k].secret
    BY TablesRows DEF Key
  <1>3. Addressed(req[c]) \subseteq Rows(keys)  BY DEF Addressed
  <1>4. keys' \in [KeyIds -> Key \cup {Null}]  BY <1>1, <1>2, <1>3 DEF Tables
  <1>5. Rows(keys)' \subseteq Rows(keys)  BY <1>1, <1>3 DEF Rows, Tables
  <1>6. \A k \in Rows(keys)' : /\ keys'[k].env = keys[k].env
                               /\ keys'[k].secret = keys[k].secret
    BY <1>1, <1>2, <1>3, <1>5, TablesRows
  <1>7. Rows(envs)' = Rows(envs) /\ Rows(tokens)' = Rows(tokens)  BY <1>1 DEF Rows
  <1>8. KeysAtHome'
    BY <1>1, <1>5, <1>6, <1>7 DEF Tables, NothingAdopted, KeysAtHome
  <1>9. TokensAtHome'  BY <1>1, <1>7 DEF Tables, NothingAdopted, TokensAtHome
  <1>10. tokens' \in [Tokens -> Ids \cup {Null}] /\ home' \in [Secrets \cup Tokens -> Nat]
    BY <1>1 DEF Tables
  <1> QED  BY <1>1, <1>4, <1>8, <1>9, <1>10, LeavesStep

LEMMA DeleteKeyStep ==
    ASSUME Tables, NEW c \in Clients, DeleteKey(c)
    PROVE  Tables'
  <1>1. /\ UNCHANGED <<projects, envs, tokens, made, home>>
        /\ keys' = Without(keys, Addressed(req[c]))
    BY DEF DeleteKey
  <1>2. /\ Rows(keys)' \subseteq Rows(keys)
        /\ \A k \in Rows(keys)' : keys'[k] = keys[k]
    BY <1>1, RowsWithout
  <1>3. Rows(envs)' = Rows(envs) /\ Rows(tokens)' = Rows(tokens)  BY <1>1 DEF Rows
  <1>4. keys' \in [KeyIds -> Key \cup {Null}]  BY <1>1 DEF Tables, Without
  <1>5. KeysAtHome'  BY <1>1, <1>2, <1>3 DEF Tables, NothingAdopted, KeysAtHome
  <1>6. TokensAtHome'  BY <1>1, <1>3 DEF Tables, NothingAdopted, TokensAtHome
  <1>7. tokens' \in [Tokens -> Ids \cup {Null}] /\ home' \in [Secrets \cup Tokens -> Nat]
    BY <1>1 DEF Tables
  <1> QED  BY <1>1, <1>4, <1>5, <1>6, <1>7, LeavesStep

LEMMA MintTokenStep ==
    ASSUME Tables, NEW c \in Clients, MintToken(c)
    PROVE  Tables'
  <1> DEFINE e == req[c].eid
  <1>1. CASE UNCHANGED <<tables, made, home>>  BY <1>1, TablesKept
  <1>2. ASSUME NEW t \in Tokens, e \in Rows(envs), home[t] = 0,
               tokens' = [tokens EXCEPT ![t] = e],
               home' = [home EXCEPT ![t] = envs[e].inc],
               UNCHANGED <<projects, envs, keys, made>>
        PROVE  Tables'
    <2>1. e \in Ids /\ envs[e].inc \in Nat  BY <1>2, TablesRows DEF Environment
    <2> HIDE DEF e
    <2>2. tokens' \in [Tokens -> Ids \cup {Null}] /\ tokens'[t] = e
          /\ \A u \in Tokens : u # t => tokens'[u] = tokens[u]
      BY <1>2, <2>1 DEF Tables
    <2>3. home' \in [Secrets \cup Tokens -> Nat] /\ home'[t] = envs[e].inc
          /\ \A x \in Secrets \cup Tokens : x # t => home'[x] = home[x]
      BY <1>2, <2>1 DEF Tables
    <2>4. Rows(envs)' = Rows(envs) /\ Rows(keys)' = Rows(keys)  BY <1>2 DEF Rows
    <2>5. Rows(tokens)' \subseteq Tokens /\ Rows(tokens)' \subseteq Rows(tokens) \cup {t}
      <3>1. DOMAIN tokens = Tokens /\ DOMAIN tokens' = Tokens  BY <2>2 DEF Tables
      <3> QED  BY <2>2, <3>1 DEF Rows
    <2>6. KeysAtHome'
      <3>1. \A k \in Rows(keys) : home'[keys[k].secret] = home[keys[k].secret]
        BY <2>3, KeptIsMade, RegistryAssumption
      <3>2. envs' = envs /\ keys' = keys  BY <1>2
      <3> QED  BY <2>4, <3>1, <3>2 DEF Tables, NothingAdopted, KeysAtHome
    <2>7. TokensAtHome'
      <3> SUFFICES ASSUME NEW u \in Rows(tokens)'
                   PROVE  tokens'[u] \in Rows(envs) /\ envs[tokens'[u]].inc = home'[u]
        BY <1>2, <2>4 DEF TokensAtHome
      <3>1. CASE u = t  BY <1>2, <2>2, <2>3, <3>1
      <3>2. CASE u # t
        BY <2>2, <2>3, <2>5, <3>2 DEF Tables, NothingAdopted, TokensAtHome
      <3> QED  BY <3>1, <3>2
    <2>8. keys' \in [KeyIds -> Key \cup {Null}]  BY <1>2 DEF Tables
    <2> QED  BY <1>2, <2>2, <2>3, <2>6, <2>7, <2>8, LeavesStep
  <1> QED  BY <1>1, <1>2 DEF MintToken

LEMMA EraseTokenStep ==
    ASSUME Tables, NEW c \in Clients, EraseToken(c)
    PROVE  Tables'
  <1> DEFINE D == {t \in {req[c].tok} : tokens[t] = req[c].eid}
  <1>1. /\ UNCHANGED <<projects, envs, keys, made, home>>
        /\ tokens' = Without(tokens, D)
    BY DEF EraseToken
  <1> HIDE DEF D
  <1>2. /\ Rows(tokens)' \subseteq Rows(tokens)
        /\ \A t \in Rows(tokens)' : tokens'[t] = tokens[t]
    BY <1>1, RowsWithout
  <1>3. Rows(envs)' = Rows(envs) /\ Rows(keys)' = Rows(keys)  BY <1>1 DEF Rows
  <1>4. tokens' \in [Tokens -> Ids \cup {Null}]  BY <1>1 DEF Tables, Without
  <1>5. KeysAtHome'  BY <1>1, <1>3 DEF Tables, NothingAdopted, KeysAtHome
  <1>6. TokensAtHome'  BY <1>1, <1>2, <1>3 DEF Tables, NothingAdopted, TokensAtHome
  <1>7. keys' \in [KeyIds -> Key \cup {Null}] /\ home' \in [Secrets \cup Tokens -> Nat]
    BY <1>1 DEF Tables
  <1> QED  BY <1>1, <1>4, <1>5, <1>6, <1>7, LeavesStep

-----------------------------------------------------------------------------
(* The requests.                                                           *)

LEMMA ArriveStep ==
    ASSUME Requests, NEW c \in Clients, Arrive(c)
    PROVE  Requests' /\ UNCHANGED <<tables, made, home>>
  <1>1. ASSUME NEW r \in Request, Fits(r), Arrives(c, r)
        PROVE  Requests' /\ UNCHANGED <<tables, made, home>>
    BY <1>1, RequestStep DEF Arrives
  <1>2. ASSUME NEW r, Arrives(c, r), NEW slug \in ProjectSlugs,
               \/ r = [Idle EXCEPT !.pc = "write", !.op = "createProject", !.slug = slug]
               \/ r = [Idle EXCEPT !.pc = "project", !.op = "deleteProject", !.slug = slug]
        PROVE  r \in Request /\ Fits(r)
    <2>1. "createProject" \in Ops /\ "deleteProject" \in Ops /\ "deleteProject" \in ProjectOps
      BY DEF Ops, ProjectOps, EnvOps
    <2>2. r \in Request  BY <1>2, <2>1 DEF Idle, Request
    <2>3. Fits(r)  BY <1>2, <2>1 DEF Idle, Fits
    <2> QED  BY <2>2, <2>3
  <1>3. ASSUME NEW r, NEW slug \in ProjectSlugs, NEW env \in EnvSlugs,
               NEW op \in {"createEnvironment", "deleteEnvironment", "createKey"},
               r = [Idle EXCEPT !.pc = "project", !.op = op, !.slug = slug, !.env = env]
        PROVE  r \in Request /\ Fits(r)
    BY <1>3 DEF Idle, Request, Fits, Ops, ProjectOps, EnvOps, ApiOps, Needs
  <1>4. ASSUME NEW r, NEW slug \in ProjectSlugs, NEW env \in EnvSlugs, NEW id \in KeyIds,
               NEW op \in {"revokeKey", "deleteKey"},
               r = [Idle EXCEPT !.pc = "project", !.op = op, !.slug = slug, !.env = env,
                                !.id = id]
        PROVE  r \in Request /\ Fits(r)
    BY <1>4 DEF Idle, Request, Fits, Ops, ProjectOps, EnvOps, ApiOps, Needs
  <1>5. ASSUME NEW r, NEW s \in Secrets,
               \/ r = [Idle EXCEPT !.pc = "key", !.op = "mint", !.secret = s, !.stale = Dead(s)]
               \/ \E t \in Tokens :
                     r = [Idle EXCEPT !.pc = "key", !.op = "erase", !.secret = s, !.tok = t,
                                      !.stale = Dead(s)]
        PROVE  r \in Request /\ Fits(r)
    <2>1. Dead(s) \in BOOLEAN  BY DEF Dead
    <2>2. {"mint", "erase"} \subseteq Ops \cap ApiOps  BY DEF Ops, ApiOps, Needs
    <2>3. CASE r = [Idle EXCEPT !.pc = "key", !.op = "mint", !.secret = s, !.stale = Dead(s)]
      <3>1. r \in Request  BY <2>1, <2>2, <2>3 DEF Idle, Request
      <3>2. r.pc = "key" /\ r.op = "mint"  BY <2>3 DEF Idle
      <3> QED  BY <2>2, <3>1, <3>2 DEF Fits
    <2>4. ASSUME NEW t \in Tokens, r = [Idle EXCEPT !.pc = "key", !.op = "erase", !.secret = s,
                                                    !.tok = t, !.stale = Dead(s)]
          PROVE  r \in Request /\ Fits(r)
      <3>1. r \in Request  BY <2>1, <2>2, <2>4 DEF Idle, Request
      <3>2. r.pc = "key" /\ r.op = "erase"  BY <2>4 DEF Idle
      <3> QED  BY <2>2, <3>1, <3>2 DEF Fits
    <2> HIDE DEF Idle
    <2> QED  BY <1>5, <2>3, <2>4, Zenon
  <1>6. CASE ProjectRequest(c)  BY <1>1, <1>2, <1>6 DEF ProjectRequest
  <1>7. CASE EnvRequest(c)  BY <1>1, <1>3, <1>7 DEF EnvRequest
  <1>8. CASE KeyRequest(c)  BY <1>1, <1>4, <1>8 DEF KeyRequest
  <1>9. CASE ApiRequest(c)  BY <1>1, <1>5, <1>9 DEF ApiRequest
  <1> QED  BY <1>6, <1>7, <1>8, <1>9 DEF Arrive

LEMMA FoundType ==
    ASSUME NEW a \in Request, NEW q \in {"write", "environment"}, NEW p \in Ids, NEW n \in Nat
    PROVE  [a EXCEPT !.pc = q, !.slug = Null, !.pid = p, !.pinc = n] \in Request
  BY DEF Request

LEMMA ResolveStep ==
    ASSUME Tables, Requests, NEW c \in Clients, Resolve(c) \/ Abandon(c)
    PROVE  Requests' /\ UNCHANGED <<tables, made, home>>
  <1>1. req[c] \in Request /\ Fits(req[c])  BY DEF Requests, Filled
  <1>2. ASSUME NEW r \in Request, Fits(r), Resolved(c, r)
        PROVE  Requests' /\ UNCHANGED <<tables, made, home>>
    BY <1>2, RequestStep DEF Resolved
  <1>3. ASSUME Resolved(c, Idle) PROVE Requests' /\ UNCHANGED <<tables, made, home>>
    BY <1>3, IdleStep DEF Resolved
  <1>4. CASE FindProject(c)
    <2> DEFINE q == IF req[c].op \in ProjectOps THEN "write" ELSE "environment"
               r(p) == [req[c] EXCEPT !.pc = q, !.slug = Null, !.pid = p, !.pinc = projects[p].inc]
    <2>1. req[c].pc = "project" /\ q \in {"write", "environment"}
      BY <1>4 DEF FindProject
    <2>2. req[c].op \in ProjectOps \cup EnvOps  BY <1>1, <2>1 DEF Fits
    <2>3. ASSUME NEW p \in Rows(projects) PROVE r(p) \in Request /\ Fits(r(p))
      <3>1. p \in Ids /\ projects[p].inc \in Nat  BY TablesRows DEF Project
      <3>2. q = "write" => req[c].op \in ProjectOps  OBVIOUS
      <3>3. q = "environment" => req[c].op \notin ProjectOps  OBVIOUS
      <3> HIDE DEF q
      <3>4. r(p) \in Request  BY <1>1, <2>1, <3>1, FoundType
      <3>5. r(p).op = req[c].op /\ r(p).env = req[c].env /\ r(p).pc = q
        BY <1>1 DEF Request
      <3> QED
        BY <1>1, <2>1, <2>2, <3>2, <3>3, <3>4, <3>5 DEF Fits, ProjectOps, EnvOps
    <2>4. \/ \E p \in Rows(projects) : Resolved(c, r(p))
          \/ Resolved(c, Idle)
      BY <1>4 DEF FindProject
    <2> HIDE DEF r
    <2> QED  BY <1>2, <1>3, <2>3, <2>4
  <1>5. CASE FindEnvironment(c)
    <2>1. ASSUME NEW e \in EnvsOf(req[c].pid), NEW r,
                 req[c].pc = "environment",
                 r = [req[c] EXCEPT !.pc = "write", !.env = Null, !.pid = Null,
                                    !.eid = e, !.einc = envs[e].inc]
          PROVE  r \in Request /\ Fits(r)
      <3>1. e \in Ids /\ envs[e].inc \in Nat  BY TablesRows DEF EnvsOf, Environment
      <3>2. r \in Request  BY <1>1, <2>1, <3>1 DEF Request
      <3>3. r.op = req[c].op /\ r.pc = "write"  BY <1>1, <2>1 DEF Request
      <3>4. req[c].op \in EnvOps  BY <1>1, <2>1 DEF Fits
      <3> QED  BY <3>2, <3>3, <3>4 DEF Fits, EnvOps
    <2> QED  BY <1>2, <1>3, <1>5, <2>1 DEF FindEnvironment
  <1>6. CASE FindKey(c)
    <2>1. ASSUME NEW k \in Rows(keys), NEW r,
                 req[c].pc = "key",
                 r = [req[c] EXCEPT !.pc = "bind", !.eid = keys[k].env,
                                    !.einc = envs[keys[k].env].inc]
          PROVE  r \in Request /\ Fits(r)
      <3>1. keys[k].env \in Rows(envs)  BY DEF Tables, NothingAdopted, KeysAtHome
      <3>2. keys[k].env \in Ids /\ envs[keys[k].env].inc \in Nat
        BY <3>1, TablesRows DEF Environment
      <3>3. r \in Request  BY <1>1, <2>1, <3>2 DEF Request
      <3>4. r.op = req[c].op /\ r.pc = "bind"  BY <1>1, <2>1 DEF Request
      <3>5. req[c].op \in ApiOps  BY <1>1, <2>1 DEF Fits
      <3> QED  BY <3>3, <3>4, <3>5 DEF Fits
    <2> QED  BY <1>2, <1>3, <1>6, <2>1 DEF FindKey
  <1>7. CASE BindEnvironment(c)
    <2> DEFINE r == [req[c] EXCEPT !.pc = "write"]
    <2>1. req[c].pc = "bind" /\ (Resolved(c, r) \/ Resolved(c, Idle))
      BY <1>7 DEF BindEnvironment
    <2>2. r \in Request /\ r.pc = "write" /\ r.op = req[c].op  BY <1>1 DEF Request
    <2>3. req[c].op \in ApiOps  BY <1>1, <2>1 DEF Fits
    <2>4. Fits(r)  BY <2>2, <2>3 DEF Fits, ApiOps, Needs
    <2> QED  BY <1>2, <1>3, <2>1, <2>2, <2>4
  <1>8. CASE Abandon(c)  BY <1>3, <1>8 DEF Abandon
  <1> QED  BY <1>4, <1>5, <1>6, <1>7, <1>8 DEF Resolve

LEMMA WriteStep ==
    ASSUME Tables, Requests, NEW c \in Clients, Write(c)
    PROVE  Tables' /\ Requests'
  <1>1. req' = [req EXCEPT ![c] = Idle]
    BY DEF Write, CreateProject, DeleteProject, CreateEnvironment, DeleteEnvironment, CreateKey,
           RevokeKey, DeleteKey, MintToken, EraseToken, Executing
  <1>2. Requests'  BY <1>1, IdleStep
  <1>3. CASE CreateProject(c)  BY <1>2, <1>3, CreateProjectStep
  <1>7. CASE DeleteProject(c)  BY <1>2, <1>7, DeleteProjectStep
  <1>4. CASE CreateEnvironment(c) \/ DeleteEnvironment(c)
    BY <1>2, <1>4, CreateEnvironmentStep, DeleteEnvironmentStep
  <1>5. CASE CreateKey(c) \/ RevokeKey(c) \/ DeleteKey(c)
    BY <1>2, <1>5, CreateKeyStep, RevokeKeyStep, DeleteKeyStep
  <1>6. CASE MintToken(c) \/ EraseToken(c)
    BY <1>2, <1>6, MintTokenStep, EraseTokenStep
  <1> QED  BY <1>3, <1>4, <1>5, <1>6, <1>7 DEF Write

LEMMA NextIInv == IInv /\ [Next]_vars => IInv'
  <1> SUFFICES ASSUME IInv, [Next]_vars PROVE IInv'  OBVIOUS
  <1>1. Tables /\ Requests  BY Parts
  <1>2. ASSUME NEW c \in Clients, Arrive(c) PROVE IInv'
    BY <1>1, <1>2, ArriveStep, TablesKept, PartsNext
  <1>3. ASSUME NEW c \in Clients, Resolve(c) \/ Abandon(c) PROVE IInv'
    BY <1>1, <1>3, ResolveStep, TablesKept, PartsNext
  <1>4. ASSUME NEW c \in Clients, Write(c) PROVE IInv'
    BY <1>1, <1>4, WriteStep, PartsNext
  <1>5. CASE UNCHANGED vars
    <2>1. Requests'  BY <1>1, <1>5 DEF vars, Requests, Filled
    <2>2. UNCHANGED <<tables, made, home>>  BY <1>5 DEF vars, tables
    <2>3. Tables'  BY <1>1, <2>2, TablesKept
    <2> QED  BY <2>1, <2>3, PartsNext
  <1> QED  BY <1>2, <1>3, <1>4, <1>5 DEF Next

-----------------------------------------------------------------------------
(* Which keys open.  A row that opens was there before with the same key,   *)
(* or holds a key drawn just now; so what was dead stays dead.              *)

Opens(k) == k \in Rows(keys) /\ ~ keys[k].revoked

LEMMA OpenerIsOld ==
    ASSUME Tables, [Next]_vars, NEW k, Opens(k)'
    PROVE  \/ Opens(k) /\ keys'[k].secret = keys[k].secret
           \/ home[keys'[k].secret] = 0
  <1>1. CASE UNCHANGED keys  BY <1>1 DEF Opens, Rows
  <1>2. ASSUME NEW ids, keys' = Without(keys, ids)
        PROVE  Opens(k) /\ keys'[k].secret = keys[k].secret
    BY <1>2, RowsWithout DEF Opens
  <1>3. ASSUME NEW c \in Clients, Arrive(c) \/ Resolve(c) \/ Abandon(c) PROVE UNCHANGED keys
    BY <1>3 DEF Arrive, ProjectRequest, EnvRequest, KeyRequest, ApiRequest, Arrives, Resolve,
                FindProject, FindEnvironment, FindKey, BindEnvironment, Abandon, Resolved, tables
  <1>4. ASSUME NEW c \in Clients, CreateProject(c) \/ CreateEnvironment(c) \/ MintToken(c) \/ EraseToken(c)
        PROVE  UNCHANGED keys
    BY <1>4 DEF CreateProject, CreateEnvironment, MintToken, EraseToken, tables
  <1>5. ASSUME NEW c \in Clients, DeleteProject(c) \/ DeleteEnvironment(c) \/ DeleteKey(c)
        PROVE  \E ids : keys' = Without(keys, ids)
    BY <1>5 DEF DeleteProject, DeleteEnvironment, DeleteKey, DropEnvironments
  <1>6. ASSUME NEW c \in Clients, CreateKey(c), ~ UNCHANGED keys
        PROVE  \/ Opens(k) /\ keys'[k].secret = keys[k].secret
               \/ home[keys'[k].secret] = 0
    <2>1. PICK s \in Secrets :
             /\ home[s] = 0
             /\ keys' = [keys EXCEPT ![NextId(keys)] =
                            [env |-> req[c].eid, secret |-> s, revoked |-> FALSE]]
      BY <1>6 DEF CreateKey, tables
    <2>2. CASE k = NextId(keys)
      <3>1. k \in DOMAIN keys  BY <2>1 DEF Opens, Rows
      <3>2. keys'[k].secret = s  BY <2>1, <2>2, <3>1
      <3> QED  BY <2>1, <3>2
    <2>3. CASE k # NextId(keys)  BY <2>1, <2>3 DEF Opens, Rows
    <2> QED  BY <2>2, <2>3
  <1>7. ASSUME NEW c \in Clients, RevokeKey(c)
        PROVE  Opens(k) /\ keys'[k].secret = keys[k].secret
    <2>1. keys' = [j \in KeyIds |-> IF j \in Addressed(req[c]) THEN [keys[j] EXCEPT !.revoked = TRUE]
                                                              ELSE keys[j]]
      BY <1>7 DEF RevokeKey
    <2>2. k \in KeyIds  BY <2>1 DEF Opens, Rows
    <2>3. k \notin Addressed(req[c])
      <3> SUFFICES ASSUME k \in Addressed(req[c]) PROVE FALSE  OBVIOUS
      <3>1. keys[k] \in Key  BY TablesRows DEF Addressed
      <3>2. keys'[k].revoked  BY <2>1, <2>2, <3>1 DEF Key
      <3> QED  BY <3>2 DEF Opens
    <2>4. DOMAIN keys = KeyIds  BY DEF Tables
    <2>5. keys'[k] = keys[k]  BY <2>1, <2>2, <2>3
    <2> QED  BY <2>1, <2>2, <2>4, <2>5 DEF Opens, Rows
  <1>8. CASE UNCHANGED vars  BY <1>1, <1>8 DEF vars
  <1> QED  BY <1>1, <1>2, <1>3, <1>4, <1>5, <1>6, <1>7, <1>8 DEF Next, Write

LEMMA MadeStays ==
    ASSUME Tables, [Next]_vars, NEW x \in Secrets \cup Tokens, home[x] # 0
    PROVE  home'[x] # 0
  <1>1. CASE UNCHANGED home  BY <1>1
  <1>2. ASSUME NEW c \in Clients, CreateKey(c) \/ MintToken(c), ~ UNCHANGED home
        PROVE  home'[x] # 0
    <2>1. PICK y, n : home[y] = 0 /\ home' = [home EXCEPT ![y] = n]
      BY <1>2 DEF CreateKey, MintToken
    <2> QED  BY <2>1 DEF Tables
  <1>3. ASSUME NEW c \in Clients, Arrive(c) \/ Resolve(c) \/ Abandon(c) PROVE UNCHANGED home
    BY <1>3 DEF Arrive, ProjectRequest, EnvRequest, KeyRequest, ApiRequest, Arrives, Resolve,
                FindProject, FindEnvironment, FindKey, BindEnvironment, Abandon, Resolved
  <1>4. ASSUME NEW c \in Clients, Write(c), ~ CreateKey(c), ~ MintToken(c) PROVE UNCHANGED home
    BY <1>4 DEF Write, CreateProject, DeleteProject, CreateEnvironment, DeleteEnvironment,
                RevokeKey, DeleteKey, EraseToken
  <1>5. CASE UNCHANGED vars  BY <1>1, <1>5 DEF vars
  <1> QED  BY <1>1, <1>2, <1>3, <1>4, <1>5 DEF Next

(* With every key at home, an API key opens while some row of it does. *)
LEMMA DeadMeansShut ==
    ASSUME Tables, NEW s
    PROVE  Dead(s) <=> \A k : Opens(k) => keys[k].secret # s
  BY DEF Dead, Opens, Tables, NothingAdopted, KeysAtHome

LEMMA DeadStaysDead ==
    ASSUME Tables, Tables', [Next]_vars, NEW s \in Secrets, home[s] # 0, Dead(s)
    PROVE  Dead(s)'
  <1>1. \A k : Opens(k) => keys[k].secret # s  BY DeadMeansShut
  <1>2. \A k : Opens(k)' => keys'[k].secret # s  BY <1>1, OpenerIsOld
  <1> QED  BY <1>2 DEF Dead, Opens

(* What a /v1 request knows, from its look-up on.  One whose key was dead  *)
(* when it came still carries a dead one, so its look-up finds nothing.    *)
Allowed(r) == ~ r.stale /\ ScopeAllows(Scope[r.secret], Needs[r.op])

Judged(r) ==
    /\ r.pc = "key" => r.secret \in Secrets /\ home[r.secret] # 0
    /\ r.pc = "key" /\ r.stale => Dead(r.secret)
    /\ r.pc \in {"bind", "write"} /\ r.op \in ApiOps => Allowed(r)

AllJudged == \A c \in Clients : Judged(req[c])

(* Others' steps leave that true. *)
LEMMA JudgedStays ==
    ASSUME Tables, Tables', [Next]_vars, NEW r, Judged(r)
    PROVE  Judged(r)'
  <1>1. ASSUME r.pc = "key" PROVE r.secret \in Secrets /\ home'[r.secret] # 0
    BY <1>1, MadeStays DEF Judged
  <1>2. ASSUME r.pc = "key", r.stale PROVE Dead(r.secret)'
    BY <1>2, DeadStaysDead DEF Judged
  <1>3. Allowed(r)' = Allowed(r)  BY DEF Allowed
  <1> QED  BY <1>1, <1>2, <1>3 DEF Judged

LEMMA IdleJudged == Judged(Idle)
  BY DEF Judged, Idle

(* A request that just came. *)
LEMMA ArriveJudged ==
    ASSUME NEW c \in Clients, req \in [Clients -> Request], Arrive(c)
    PROVE  Judged(req'[c])
  <1>1. ASSUME NEW r, Arrives(c, r) PROVE req'[c] = r  BY <1>1 DEF Arrives
  <1>2. ASSUME NEW r, \/ r.pc = "write" /\ r.op \notin ApiOps
                      \/ r.pc = "project"
        PROVE  Judged(r)
    BY <1>2 DEF Judged
  <1>3. CASE ProjectRequest(c)
    <2>1. "createProject" \notin ApiOps  BY DEF ApiOps, Needs
    <2>2. ASSUME NEW r, Arrives(c, r), NEW slug \in ProjectSlugs,
                 \/ r = [Idle EXCEPT !.pc = "write", !.op = "createProject", !.slug = slug]
                 \/ r = [Idle EXCEPT !.pc = "project", !.op = "deleteProject", !.slug = slug]
          PROVE  Judged(req'[c])
      <3>1. \/ r.pc = "write" /\ r.op \notin ApiOps
            \/ r.pc = "project"
        BY <2>1, <2>2 DEF Idle
      <3> QED  BY <1>1, <1>2, <2>2, <3>1
    <2> QED  BY <1>3, <2>2 DEF ProjectRequest
  <1>4. CASE EnvRequest(c)  BY <1>1, <1>2, <1>4 DEF EnvRequest, Idle
  <1>5. CASE KeyRequest(c)  BY <1>1, <1>2, <1>5 DEF KeyRequest, Idle
  <1>6. CASE ApiRequest(c)
    <2>1. ASSUME NEW s \in Secrets, home[s] # 0, NEW r, Arrives(c, r),
                 r.pc = "key", r.secret = s, r.stale = Dead(s)
          PROVE  Judged(req'[c])
      BY <1>1, <2>1 DEF Judged
    <2> QED  BY <1>6, <2>1 DEF ApiRequest, Idle
  <1> QED  BY <1>3, <1>4, <1>5, <1>6 DEF Arrive

(* A request that finds its key, and one that finds its environment. *)
LEMMA ResolveJudged ==
    ASSUME Tables, Requests, AllJudged, NEW c \in Clients, Resolve(c) \/ Abandon(c)
    PROVE  Judged(req'[c])
  <1>1. req[c] \in Request /\ Fits(req[c]) /\ Judged(req[c])
    BY DEF Requests, Filled, AllJudged
  <1>2. ASSUME NEW r, Resolved(c, r) PROVE req'[c] = r  BY <1>2 DEF Requests, Resolved
  <1>3. CASE Resolved(c, Idle)  BY <1>2, <1>3, IdleJudged
  <1>4. ASSUME FindProject(c) \/ FindEnvironment(c), ~ Resolved(c, Idle)
        PROVE  Judged(req'[c])
    <2>1. req[c].op \notin ApiOps
      BY <1>1, <1>4 DEF FindProject, FindEnvironment, Fits, ProjectOps, EnvOps, ApiOps, Needs
    <2>2. ASSUME NEW r, Resolved(c, r), r.op = req[c].op, r.pc # "key"
          PROVE  Judged(req'[c])
      BY <1>2, <2>1, <2>2 DEF Judged
    <2> QED  BY <1>1, <1>4, <2>2 DEF FindProject, FindEnvironment, Request
  <1>5. ASSUME FindKey(c), ~ Resolved(c, Idle) PROVE Judged(req'[c])
    <2>1. ASSUME NEW k \in Rows(keys), NEW r, req[c].pc = "key", Admits(k, req[c]),
                 Resolved(c, r), r.pc = "bind", r.op = req[c].op,
                 r.secret = req[c].secret, r.stale = req[c].stale
          PROVE  Judged(req'[c])
      <3>1. Opens(k) /\ keys[k].secret = req[c].secret  BY <2>1 DEF Admits, Opens
      <3>2. ~ req[c].stale  BY <1>1, <2>1, <3>1, DeadMeansShut DEF Judged
      <3> QED  BY <1>2, <2>1, <3>2 DEF Judged, Allowed, Admits
    <2>2. PICK k \in Rows(keys) :
             /\ req[c].pc = "key" /\ Admits(k, req[c])
             /\ Resolved(c, [req[c] EXCEPT !.pc = "bind", !.eid = keys[k].env,
                                           !.einc = envs[keys[k].env].inc])
      BY <1>5 DEF FindKey
    <2> DEFINE r == [req[c] EXCEPT !.pc = "bind", !.eid = keys[k].env,
                                   !.einc = envs[keys[k].env].inc]
    <2>3. r.pc = "bind" /\ r.op = req[c].op /\ r.secret = req[c].secret /\ r.stale = req[c].stale
      BY <1>1 DEF Request
    <2> QED  BY <2>1, <2>2, <2>3
  <1>6. ASSUME BindEnvironment(c), ~ Resolved(c, Idle) PROVE Judged(req'[c])
    <2> DEFINE r == [req[c] EXCEPT !.pc = "write"]
    <2>1. req[c].pc = "bind" /\ Resolved(c, r)  BY <1>6 DEF BindEnvironment
    <2>2. r.pc = "write" /\ r.op = req[c].op /\ r.secret = req[c].secret /\ r.stale = req[c].stale
      BY <1>1 DEF Request
    <2> QED  BY <1>1, <1>2, <2>1, <2>2 DEF Judged, Allowed
  <1> QED  BY <1>3, <1>4, <1>5, <1>6 DEF Resolve, Abandon

(* The request that wrote is done; nobody else's moved. *)
LEMMA NextJudged ==
    ASSUME IInv, IInv', AllJudged, [Next]_vars
    PROVE  AllJudged'
  <1>1. Tables /\ Requests /\ Tables'  BY Parts, PartsNext
  <1> SUFFICES ASSUME NEW d \in Clients PROVE Judged(req[d])'  BY DEF AllJudged
  <1>2. ASSUME NEW r, Judged(r), req'[d] = r PROVE Judged(req[d])'
    <2>1. Judged(r)'  BY <1>1, <1>2, JudgedStays
    <2> QED  BY <1>2, <2>1 DEF Judged, Allowed, Dead, Rows
  <1>3. CASE req'[d] = req[d]  BY <1>2, <1>3 DEF AllJudged
  <1>4. ASSUME Judged(req'[d]) PROVE Judged(req[d])'  BY <1>2, <1>4
  <1>5. ASSUME NEW c \in Clients, Arrive(c) \/ Resolve(c) \/ Abandon(c) PROVE Judged(req[d])'
    <2>1. \/ d = c /\ Judged(req'[d])
          \/ req'[d] = req[d]
      <3>1. CASE Arrive(c)
        <4>1. \E r : Arrives(c, r)
          BY <3>1 DEF Arrive, ProjectRequest, EnvRequest, KeyRequest, ApiRequest
        <4>2. d # c => req'[d] = req[d]  BY <1>1, <4>1 DEF Requests, Arrives
        <4> QED  BY <1>1, <3>1, <4>2, ArriveJudged DEF Requests
      <3>2. CASE Resolve(c) \/ Abandon(c)
        <4>1. \E r : Resolved(c, r)
          BY <3>2 DEF Resolve, FindProject, FindEnvironment, FindKey, BindEnvironment, Abandon
        <4>2. d # c => req'[d] = req[d]  BY <1>1, <4>1 DEF Requests, Resolved
        <4> QED  BY <1>1, <3>2, <4>2, ResolveJudged
      <3> QED  BY <1>5, <3>1, <3>2
    <2> QED  BY <1>3, <1>4, <2>1
  <1>6. ASSUME NEW c \in Clients, Write(c) PROVE Judged(req[d])'
    <2>1. req' = [req EXCEPT ![c] = Idle]
      BY <1>6 DEF Write, CreateProject, DeleteProject, CreateEnvironment, DeleteEnvironment,
                  CreateKey, RevokeKey, DeleteKey, MintToken, EraseToken, Executing
    <2>2. req'[d] = Idle \/ req'[d] = req[d]  BY <1>1, <2>1 DEF Requests
    <2> QED  BY <1>3, <1>4, <2>2, IdleJudged
  <1>7. CASE UNCHANGED vars  BY <1>3, <1>7 DEF vars
  <1> QED  BY <1>5, <1>6, <1>7 DEF Next

-----------------------------------------------------------------------------
(* IInv holds in every reachable state. *)
THEOREM Invariance == Spec => []IInv
  BY InitIInv, NextIInv, PTL DEF Spec

(* Every variable keeps its type, whatever two requests do to each other. *)
THEOREM TypeCorrect == Spec => []TypeOK
  <1>1. IInv => TypeOK  BY DEF IInv
  <1> QED  BY Invariance, <1>1, PTL

(* Every row stays with the parent it was made under: no row survives its  *)
(* environment to be adopted by the next owner of its number.              *)
THEOREM NoAdoption == Spec => []NothingAdopted
  <1>1. IInv => NothingAdopted  BY DEF IInv
  <1> QED  BY Invariance, <1>1, PTL

(* No two projects, and no two environments of one, have the same name. *)
THEOREM NamesUnique == Spec => []SlugsNameOne
  <1>1. IInv => SlugsNameOne  BY DEF IInv
  <1> QED  BY Invariance, <1>1, PTL

(* No request reaches its handler with a key that was revoked, deleted or   *)
(* gone with its environment when it came, or of too low a scope.          *)
THEOREM DeadStayOut == Spec => []DeadKeysStayOut
  <1>1. Init => AllJudged  BY DEF Init, AllJudged, Judged, Idle
  <1>2. IInv /\ IInv' /\ AllJudged /\ [Next]_vars => AllJudged'  BY NextJudged
  <1>3. AllJudged => DeadKeysStayOut  BY DEF AllJudged, Judged, Allowed, DeadKeysStayOut
  <1> QED  BY Invariance, <1>1, <1>2, <1>3, PTL DEF Spec
-----------------------------------------------------------------------------
(* Where a write lands.                                                    *)

(* No serial number is given out twice. *)
Serials ==
    /\ \A p \in Rows(projects) : projects[p].inc <= made
    /\ \A e \in Rows(envs) : envs[e].inc <= made
    /\ \A p, q \in Rows(projects) : projects[p].inc = projects[q].inc => p = q
    /\ \A e, f \in Rows(envs) : envs[e].inc = envs[f].inc => e = f

(* A row that was found is where it was found, or gone; an environment     *)
(* found in a project is in that project, or one of them is gone.          *)
AtProject(r) == \A p \in Rows(projects) : projects[p].inc = r.pinc => p = r.pid
AtEnv(r) == \A e \in Rows(envs) : envs[e].inc = r.einc => e = r.eid
InProject(r) == \/ ProjectGone(r.pinc)
                \/ \A e \in Rows(envs) : envs[e].inc = r.einc => envs[e].home = r.pinc

Known(n) == n = Null \/ n \in 0..made

Located(r) ==
    /\ Known(r.pinc) /\ Known(r.einc)
    /\ r.pc \in {"project", "key"} => r.pinc = Null /\ r.einc = Null
    /\ r.pc = "environment" => r.einc = Null
    /\ r.pc = "bind" => r.pinc = Null /\ r.einc # Null
    /\ r.pc = "write" =>
          /\ r.op = "createProject" => r.pinc = Null /\ r.einc = Null
          /\ r.op \in ProjectOps => r.einc = Null
          /\ r.op \in EnvOps \cup ApiOps => r.einc # Null
    /\ r.pinc # Null /\ r.einc = Null => AtProject(r)
    /\ r.einc # Null => AtEnv(r)
    /\ r.pinc # Null /\ r.einc # Null => InProject(r)

AllLocated == \A c \in Clients : Located(req[c])

(* A row of the next state was there before, or is the one row made now.   *)
ProjectOld(p) == p \in Rows(projects) /\ projects'[p] = projects[p]
EnvOld(e) == e \in Rows(envs) /\ envs'[e] = envs[e]

Grows ==
    /\ made' \in Nat /\ made <= made'
    /\ \A p \in Rows(projects)' : ~ ProjectOld(p) =>
          p = NextId(projects) /\ projects'[p].inc = made' /\ made' = made + 1
    /\ \A e \in Rows(envs)' : ~ EnvOld(e) =>
          e = NextId(envs) /\ envs'[e].inc = made' /\ made' = made + 1

LEMMA TablesSame ==
    ASSUME Tables, UNCHANGED <<projects, envs, made>>
    PROVE  Grows
  <1>1. Rows(projects)' = Rows(projects) /\ Rows(envs)' = Rows(envs)  BY DEF Rows
  <1>2. made \in Nat  BY DEF Tables
  <1> QED  BY <1>1, <1>2 DEF Grows, ProjectOld, EnvOld

LEMMA MakesProject ==
    ASSUME NEW row, NEW p, row.inc = made + 1, projects' = [projects EXCEPT ![p] = row]
    PROVE  \A q \in Rows(projects)' : \/ ProjectOld(q)
                                      \/ q = p /\ projects'[q].inc = made + 1
  <1> SUFFICES ASSUME NEW q \in Rows(projects)'
               PROVE  ProjectOld(q) \/ (q = p /\ projects'[q].inc = made + 1)
    OBVIOUS
  <1>1. q \in DOMAIN projects' /\ projects'[q] # Null  BY DEF Rows
  <1>2. q \in DOMAIN projects  BY <1>1
  <1>3. CASE q = p  BY <1>2, <1>3
  <1>4. CASE q # p
    <2>1. projects'[q] = projects[q]  BY <1>2, <1>4
    <2> QED  BY <1>1, <1>2, <2>1 DEF ProjectOld, Rows
  <1> QED  BY <1>3, <1>4

LEMMA MakesEnv ==
    ASSUME NEW row, NEW e, row.inc = made + 1, envs' = [envs EXCEPT ![e] = row]
    PROVE  \A f \in Rows(envs)' : \/ EnvOld(f)
                                  \/ f = e /\ envs'[f].inc = made + 1
  <1> SUFFICES ASSUME NEW f \in Rows(envs)'
               PROVE  EnvOld(f) \/ (f = e /\ envs'[f].inc = made + 1)
    OBVIOUS
  <1>1. f \in DOMAIN envs' /\ envs'[f] # Null  BY DEF Rows
  <1>2. f \in DOMAIN envs  BY <1>1
  <1>3. CASE f = e  BY <1>2, <1>3
  <1>4. CASE f # e
    <2>1. envs'[f] = envs[f]  BY <1>2, <1>4
    <2> QED  BY <1>1, <1>2, <2>1 DEF EnvOld, Rows
  <1> QED  BY <1>3, <1>4

LEMMA RowsGrow ==
    ASSUME Tables, [Next]_vars
    PROVE  Grows
  <1>1. CASE UNCHANGED <<projects, envs, made>>  BY <1>1, TablesSame
  <1>2. made \in Nat /\ made + 1 \in Nat /\ made <= made + 1  BY DEF Tables
  <1>3. ASSUME NEW c \in Clients, CreateProject(c), ~ UNCHANGED <<projects, envs, made>>
        PROVE  Grows
    <2> DEFINE P == [slug |-> req[c].slug, inc |-> made']
               N == [project |-> NextId(projects), slug |-> DefaultEnvironment,
                     inc |-> made', home |-> made']
    <2>1. /\ made' = made + 1 /\ projects' = [projects EXCEPT ![NextId(projects)] = P]
          /\ envs' = [envs EXCEPT ![NextId(envs)] = N]
      BY <1>3 DEF CreateProject, tables
    <2>2. P.inc = made + 1 /\ N.inc = made + 1  BY <2>1
    <2> HIDE DEF P, N
    <2>3. \A q \in Rows(projects)' : \/ ProjectOld(q)
                                     \/ q = NextId(projects) /\ projects'[q].inc = made + 1
      BY <2>1, <2>2, MakesProject
    <2>4. \A f \in Rows(envs)' : \/ EnvOld(f)
                                 \/ f = NextId(envs) /\ envs'[f].inc = made + 1
      BY <2>1, <2>2, MakesEnv
    <2> QED  BY <1>2, <2>1, <2>3, <2>4 DEF Grows
  <1>4. ASSUME NEW c \in Clients, CreateEnvironment(c), ~ UNCHANGED <<projects, envs, made>>
        PROVE  Grows
    <2> DEFINE N == [project |-> req[c].pid, slug |-> req[c].env,
                     inc |-> made', home |-> projects[req[c].pid].inc]
    <2>1. /\ made' = made + 1 /\ projects' = projects
          /\ envs' = [envs EXCEPT ![NextId(envs)] = N]
      BY <1>4 DEF CreateEnvironment, tables
    <2>2. N.inc = made + 1  BY <2>1
    <2> HIDE DEF N
    <2>3. \A q \in Rows(projects)' : ProjectOld(q)  BY <2>1 DEF ProjectOld, Rows
    <2>4. \A f \in Rows(envs)' : \/ EnvOld(f)
                                 \/ f = NextId(envs) /\ envs'[f].inc = made + 1
      BY <2>1, <2>2, MakesEnv
    <2> QED  BY <1>2, <2>1, <2>3, <2>4 DEF Grows
  <1>5. ASSUME NEW c \in Clients, DeleteProject(c) \/ DeleteEnvironment(c) PROVE Grows
    <2>1. /\ \E E : envs' = Without(envs, E)
          /\ (\E P : projects' = Without(projects, P)) \/ projects' = projects
          /\ made' = made
      BY <1>5 DEF DeleteProject, DeleteEnvironment, DropEnvironments
    <2>2. \A q \in Rows(projects)' : ProjectOld(q)
      BY <2>1 DEF ProjectOld, Rows, Without, Tables
    <2>3. \A f \in Rows(envs)' : EnvOld(f)  BY <2>1 DEF EnvOld, Rows, Without, Tables
    <2> QED  BY <1>2, <2>1, <2>2, <2>3 DEF Grows
  <1>6. ASSUME NEW c \in Clients,
               \/ CreateKey(c) \/ RevokeKey(c) \/ DeleteKey(c) \/ MintToken(c) \/ EraseToken(c)
               \/ Arrive(c) \/ Resolve(c) \/ Abandon(c)
        PROVE  UNCHANGED <<projects, envs, made>>
    <2>1. CASE Arrive(c)
      <3>1. \E r : Arrives(c, r)
        BY <2>1 DEF Arrive, ProjectRequest, EnvRequest, KeyRequest, ApiRequest
      <3> QED  BY <3>1 DEF Arrives, tables
    <2>2. CASE Resolve(c) \/ Abandon(c)
      <3>1. \E r : Resolved(c, r)
        BY <2>2 DEF Resolve, FindProject, FindEnvironment, FindKey, BindEnvironment, Abandon
      <3> QED  BY <3>1 DEF Resolved, tables
    <2>3. CASE CreateKey(c) \/ RevokeKey(c) \/ DeleteKey(c) \/ MintToken(c) \/ EraseToken(c)
      BY <2>3 DEF CreateKey, RevokeKey, DeleteKey, MintToken, EraseToken, tables
    <2> QED  BY <1>6, <2>1, <2>2, <2>3
  <1>7. CASE UNCHANGED vars  BY <1>1, <1>7 DEF vars
  <1> QED  BY <1>1, <1>3, <1>4, <1>5, <1>6, <1>7 DEF Next, Write

LEMMA SerialsStay ==
    ASSUME Tables, Serials, Grows
    PROVE  Serials'
  <1>1. made \in Nat /\ made' \in Nat /\ made <= made'  BY DEF Tables, Grows
  <1>2. /\ \A p \in Rows(projects) : projects[p].inc \in Nat
        /\ \A e \in Rows(envs) : envs[e].inc \in Nat
    BY TablesRows DEF Project, Environment
  <1>3. \A p \in Rows(projects)' :
           \/ p \in Rows(projects) /\ projects'[p] = projects[p]
           \/ p = NextId(projects) /\ projects'[p].inc = made' /\ made' = made + 1
    BY DEF Grows, ProjectOld
  <1>4. \A e \in Rows(envs)' :
           \/ e \in Rows(envs) /\ envs'[e] = envs[e]
           \/ e = NextId(envs) /\ envs'[e].inc = made' /\ made' = made + 1
    BY DEF Grows, EnvOld
  <1>5. \A p \in Rows(projects)' : projects'[p].inc <= made'
    BY <1>1, <1>2, <1>3 DEF Serials
  <1>6. \A e \in Rows(envs)' : envs'[e].inc <= made'
    BY <1>1, <1>2, <1>4 DEF Serials
  <1>7. \A p, q \in Rows(projects)' : projects'[p].inc = projects'[q].inc => p = q
    BY <1>1, <1>2, <1>3 DEF Serials
  <1>8. \A e, f \in Rows(envs)' : envs'[e].inc = envs'[f].inc => e = f
    BY <1>1, <1>2, <1>4 DEF Serials
  <1> QED  BY <1>5, <1>6, <1>7, <1>8 DEF Serials

(* What a request found stays true of the tables in every step.            *)
LEMMA LocatedStays ==
    ASSUME Tables, Grows, NEW r, Located(r)
    PROVE  Located(r)'
  <1>1. made \in Nat /\ made' \in Nat /\ made <= made'  BY DEF Tables, Grows
  <1>2. Known(r.pinc)' /\ Known(r.einc)'  BY <1>1 DEF Located, Known
  <1>3. ASSUME r.pinc # Null, NEW p \in Rows(projects)', projects'[p].inc = r.pinc
        PROVE  p \in Rows(projects) /\ projects[p].inc = r.pinc
    BY <1>1, <1>3 DEF Located, Known, Grows, ProjectOld
  <1>4. ASSUME r.einc # Null, NEW e \in Rows(envs)', envs'[e].inc = r.einc
        PROVE  e \in Rows(envs) /\ envs[e].inc = r.einc /\ envs'[e].home = envs[e].home
    BY <1>1, <1>4 DEF Located, Known, Grows, EnvOld
  <1>5. r.pinc # Null /\ r.einc = Null => AtProject(r)'  BY <1>3 DEF Located, AtProject
  <1>6. r.einc # Null => AtEnv(r)'  BY <1>4 DEF Located, AtEnv
  <1>7. r.pinc # Null /\ r.einc # Null => InProject(r)'
    BY <1>3, <1>4 DEF Located, InProject, ProjectGone
  <1> QED  BY <1>2, <1>5, <1>6, <1>7 DEF Located

LEMMA IdleLocated == Located(Idle)
  BY DEF Located, Known, Idle

LEMMA ArriveLocated ==
    ASSUME NEW c \in Clients, req \in [Clients -> Request], Arrive(c)
    PROVE  Located(req'[c])
  <1> DEFINE Fresh(r) == /\ r.pinc = Null /\ r.einc = Null
                         /\ \/ r.pc \in {"project", "key"}
                            \/ r.pc = "write" /\ r.op = "createProject"
  <1>1. ASSUME NEW r, Arrives(c, r), Fresh(r) PROVE Located(req'[c])
    <2>1. req'[c] = r  BY <1>1 DEF Arrives
    <2>2. Located(r)  BY <1>1 DEF Located, Known, ProjectOps, EnvOps, ApiOps, Needs
    <2> QED  BY <2>1, <2>2
  <1>2. CASE ProjectRequest(c)
    <2>1. PICK slug \in ProjectSlugs :
             \/ Arrives(c, [Idle EXCEPT !.pc = "write", !.op = "createProject", !.slug = slug])
             \/ Arrives(c, [Idle EXCEPT !.pc = "project", !.op = "deleteProject", !.slug = slug])
      BY <1>2 DEF ProjectRequest
    <2>2. Fresh([Idle EXCEPT !.pc = "write", !.op = "createProject", !.slug = slug])  BY DEF Idle
    <2>3. Fresh([Idle EXCEPT !.pc = "project", !.op = "deleteProject", !.slug = slug])  BY DEF Idle
    <2> HIDE DEF Fresh
    <2> QED  BY <1>1, <2>1, <2>2, <2>3
  <1>3. CASE EnvRequest(c)
    <2>1. PICK slug \in ProjectSlugs, env \in EnvSlugs,
               op \in {"createEnvironment", "deleteEnvironment", "createKey"} :
             Arrives(c, [Idle EXCEPT !.pc = "project", !.op = op, !.slug = slug, !.env = env])
      BY <1>3 DEF EnvRequest
    <2>2. Fresh([Idle EXCEPT !.pc = "project", !.op = op, !.slug = slug, !.env = env])
      BY DEF Idle
    <2> HIDE DEF Fresh
    <2> QED  BY <1>1, <2>1, <2>2
  <1>4. CASE KeyRequest(c)
    <2>1. PICK slug \in ProjectSlugs, env \in EnvSlugs, id \in KeyIds,
               op \in {"revokeKey", "deleteKey"} :
             Arrives(c, [Idle EXCEPT !.pc = "project", !.op = op, !.slug = slug, !.env = env,
                                     !.id = id])
      BY <1>4 DEF KeyRequest
    <2>2. Fresh([Idle EXCEPT !.pc = "project", !.op = op, !.slug = slug, !.env = env, !.id = id])
      BY DEF Idle
    <2> HIDE DEF Fresh
    <2> QED  BY <1>1, <2>1, <2>2
  <1>5. CASE ApiRequest(c)
    <2>1. PICK s \in Secrets :
             \/ Arrives(c, [Idle EXCEPT !.pc = "key", !.op = "mint", !.secret = s,
                                        !.stale = Dead(s)])
             \/ \E t \in Tokens :
                   Arrives(c, [Idle EXCEPT !.pc = "key", !.op = "erase", !.secret = s,
                                           !.tok = t, !.stale = Dead(s)])
      BY <1>5 DEF ApiRequest
    <2>2. Fresh([Idle EXCEPT !.pc = "key", !.op = "mint", !.secret = s, !.stale = Dead(s)])
      BY DEF Idle
    <2>3. ASSUME NEW t
          PROVE  Fresh([Idle EXCEPT !.pc = "key", !.op = "erase", !.secret = s, !.tok = t,
                                    !.stale = Dead(s)])
      BY DEF Idle
    <2> HIDE DEF Fresh
    <2> QED  BY <1>1, <2>1, <2>2, <2>3
  <1> QED  BY <1>2, <1>3, <1>4, <1>5 DEF Arrive

(* What a look-up hands on is what it found.                               *)
LEMMA FindProjectLocated ==
    ASSUME Tables, Serials, NEW a \in Request, Located(a), a.pc = "project",
           a.op \in ProjectOps \cup EnvOps, NEW p \in Rows(projects),
           NEW q \in {"write", "environment"}, q = "write" => a.op \in ProjectOps
    PROVE  Located([a EXCEPT !.pc = q, !.slug = Null, !.pid = p, !.pinc = projects[p].inc])
  <1> DEFINE r == [a EXCEPT !.pc = q, !.slug = Null, !.pid = p, !.pinc = projects[p].inc]
  <1>1. /\ r.pc = q /\ r.op = a.op /\ r.pid = p
        /\ r.pinc = projects[p].inc /\ r.einc = a.einc
    BY DEF Request
  <1>2. a.einc = Null  BY DEF Located
  <1>3. projects[p].inc \in 0..made  BY TablesRows DEF Project, Serials
  <1> HIDE DEF r
  <1>4. AtProject(r)  BY <1>1 DEF AtProject, Serials
  <1>5. r.op # "createProject" /\ (r.pc = "write" => r.op \notin EnvOps \cup ApiOps)
    BY <1>1 DEF ProjectOps, EnvOps, ApiOps, Needs
  <1>6. Located(r)  BY <1>1, <1>2, <1>3, <1>4, <1>5 DEF Located, Known
  <1> QED  BY <1>6 DEF r

LEMMA FindEnvironmentLocated ==
    ASSUME Tables, Serials, NEW a \in Request, Located(a), a.pc = "environment",
           a.op \in EnvOps, NEW e \in EnvsOf(a.pid)
    PROVE  Located([a EXCEPT !.pc = "write", !.env = Null, !.pid = Null,
                             !.eid = e, !.einc = envs[e].inc])
  <1> DEFINE r == [a EXCEPT !.pc = "write", !.env = Null, !.pid = Null,
                            !.eid = e, !.einc = envs[e].inc]
  <1>1. /\ r.pc = "write" /\ r.op = a.op /\ r.eid = e
        /\ r.pinc = a.pinc /\ r.einc = envs[e].inc
    BY DEF Request
  <1>2. a.einc = Null /\ Known(a.pinc) /\ (a.pinc # Null => AtProject(a))  BY DEF Located
  <1>3. e \in Rows(envs) /\ envs[e].project = a.pid  BY DEF EnvsOf
  <1>4. envs[e].inc \in 0..made /\ envs[e].inc # Null
    BY <1>3, TablesRows, RowsAssumption DEF Environment, Serials
  <1> HIDE DEF r
  <1>5. AtEnv(r)  BY <1>1, <1>3 DEF AtEnv, Serials
  <1>6. ASSUME a.pinc # Null, ~ ProjectGone(a.pinc) PROVE envs[e].home = a.pinc
    <2>1. a.pid \in Rows(projects) /\ projects[a.pid].inc = a.pinc
      BY <1>2, <1>6 DEF ProjectGone, AtProject
    <2> QED  BY <1>3, <2>1 DEF Tables, NothingAdopted, EnvsAtHome
  <1>7. r.pinc # Null => InProject(r)  BY <1>1, <1>3, <1>6 DEF InProject, Serials
  <1>8. r.op # "createProject" /\ r.op \notin ProjectOps
    BY <1>1 DEF ProjectOps, EnvOps
  <1>9. Located(r)  BY <1>1, <1>2, <1>4, <1>5, <1>7, <1>8 DEF Located, Known
  <1> QED  BY <1>9 DEF r

LEMMA FindKeyLocated ==
    ASSUME Tables, Serials, NEW a \in Request, Located(a), a.pc = "key", NEW k \in Rows(keys)
    PROVE  Located([a EXCEPT !.pc = "bind", !.eid = keys[k].env,
                             !.einc = envs[keys[k].env].inc])
  <1> DEFINE r == [a EXCEPT !.pc = "bind", !.eid = keys[k].env,
                            !.einc = envs[keys[k].env].inc]
  <1>1. /\ r.pc = "bind" /\ r.eid = keys[k].env
        /\ r.pinc = a.pinc /\ r.einc = envs[keys[k].env].inc
    BY DEF Request
  <1>2. a.pinc = Null  BY DEF Located
  <1>3. keys[k].env \in Rows(envs)  BY DEF Tables, NothingAdopted, KeysAtHome
  <1>4. envs[keys[k].env].inc \in 0..made /\ envs[keys[k].env].inc # Null
    BY <1>3, TablesRows, RowsAssumption DEF Environment, Serials
  <1> HIDE DEF r
  <1>5. AtEnv(r)  BY <1>1, <1>3 DEF AtEnv, Serials
  <1>6. Located(r)  BY <1>1, <1>2, <1>4, <1>5 DEF Located, Known
  <1> QED  BY <1>6 DEF r

LEMMA BindLocated ==
    ASSUME NEW a \in Request, Located(a), a.pc = "bind", a.op \in ApiOps
    PROVE  Located([a EXCEPT !.pc = "write"])
  <1> DEFINE r == [a EXCEPT !.pc = "write"]
  <1>1. /\ r.pc = "write" /\ r.op = a.op /\ r.eid = a.eid
        /\ r.pinc = a.pinc /\ r.einc = a.einc
    BY DEF Request
  <1>2. a.pinc = Null /\ a.einc # Null /\ Known(a.einc) /\ AtEnv(a)  BY DEF Located
  <1> HIDE DEF r
  <1>3. AtEnv(r)  BY <1>1, <1>2 DEF AtEnv
  <1>4. r.op # "createProject" /\ r.op \notin ProjectOps
    BY <1>1 DEF ProjectOps, ApiOps, Needs
  <1>5. Located(r)  BY <1>1, <1>2, <1>3, <1>4 DEF Located, Known
  <1> QED  BY <1>5 DEF r

LEMMA ResolveLocated ==
    ASSUME Tables, Requests, Serials, AllLocated, NEW c \in Clients, Resolve(c) \/ Abandon(c)
    PROVE  Located(req'[c])
  <1>1. req[c] \in Request /\ Fits(req[c]) /\ Located(req[c])
    BY DEF Requests, Filled, AllLocated
  <1>2. ASSUME NEW r, Resolved(c, r), Located(r) PROVE Located(req'[c])
    <2>1. req'[c] = r  BY <1>2 DEF Requests, Resolved
    <2> QED  BY <1>2, <2>1
  <1>3. CASE Resolved(c, Idle)  BY <1>2, <1>3, IdleLocated
  <1>4. ASSUME FindProject(c), ~ Resolved(c, Idle) PROVE Located(req'[c])
    <2> DEFINE q == IF req[c].op \in ProjectOps THEN "write" ELSE "environment"
    <2>1. PICK p \in Rows(projects) :
             Resolved(c, [req[c] EXCEPT !.pc = q, !.slug = Null, !.pid = p,
                                        !.pinc = projects[p].inc])
      BY <1>4 DEF FindProject
    <2>2. req[c].pc = "project" /\ req[c].op \in ProjectOps \cup EnvOps
      BY <1>1, <1>4 DEF FindProject, Fits
    <2>3. q \in {"write", "environment"} /\ (q = "write" => req[c].op \in ProjectOps)
      OBVIOUS
    <2> HIDE DEF q
    <2> QED  BY <1>1, <1>2, <2>1, <2>2, <2>3, FindProjectLocated
  <1>5. ASSUME FindEnvironment(c), ~ Resolved(c, Idle) PROVE Located(req'[c])
    <2>1. PICK e \in EnvsOf(req[c].pid) :
             Resolved(c, [req[c] EXCEPT !.pc = "write", !.env = Null, !.pid = Null,
                                        !.eid = e, !.einc = envs[e].inc])
      BY <1>5 DEF FindEnvironment
    <2>2. req[c].pc = "environment" /\ req[c].op \in EnvOps
      BY <1>1, <1>5 DEF FindEnvironment, Fits
    <2> QED  BY <1>1, <1>2, <2>1, <2>2, FindEnvironmentLocated
  <1>6. ASSUME FindKey(c), ~ Resolved(c, Idle) PROVE Located(req'[c])
    <2>1. PICK k \in Rows(keys) :
             Resolved(c, [req[c] EXCEPT !.pc = "bind", !.eid = keys[k].env,
                                        !.einc = envs[keys[k].env].inc])
      BY <1>6 DEF FindKey
    <2>2. req[c].pc = "key"  BY <1>6 DEF FindKey
    <2> QED  BY <1>1, <1>2, <2>1, <2>2, FindKeyLocated
  <1>7. ASSUME BindEnvironment(c), ~ Resolved(c, Idle) PROVE Located(req'[c])
    <2>1. req[c].pc = "bind" /\ Resolved(c, [req[c] EXCEPT !.pc = "write"])
      BY <1>7 DEF BindEnvironment
    <2>2. req[c].op \in ApiOps  BY <1>1, <2>1 DEF Fits
    <2> QED  BY <1>1, <1>2, <2>1, <2>2, BindLocated
  <1> QED  BY <1>3, <1>4, <1>5, <1>6, <1>7 DEF Resolve, Abandon

(* A step moves one request, on to something it located, or ends it.       *)
LEMMA NextLocated ==
    ASSUME IInv, Serials, AllLocated, [Next]_vars
    PROVE  Serials' /\ AllLocated'
  <1>1. Tables /\ Requests  BY Parts
  <1>2. Grows  BY <1>1, RowsGrow
  <1>3. Serials'  BY <1>1, <1>2, SerialsStay
  <1>4. ASSUME NEW d \in Clients PROVE Located(req[d])'
    <2>1. ASSUME NEW r, Located(r), req'[d] = r PROVE Located(req[d])'
      <3>1. Located(r)'  BY <1>1, <1>2, <2>1, LocatedStays
      <3> QED
        BY <2>1, <3>1 DEF Located, Known, AtProject, AtEnv, InProject, ProjectGone
    <2>2. CASE req'[d] = req[d]  BY <2>1, <2>2 DEF AllLocated
    <2>3. ASSUME Located(req'[d]) PROVE Located(req[d])'  BY <2>1, <2>3
    <2>4. ASSUME NEW c \in Clients, Arrive(c) PROVE Located(req[d])'
      <3>1. \E r : Arrives(c, r)
        BY <2>4 DEF Arrive, ProjectRequest, EnvRequest, KeyRequest, ApiRequest
      <3>2. d # c => req'[d] = req[d]  BY <1>1, <3>1 DEF Requests, Arrives
      <3> QED  BY <1>1, <2>2, <2>3, <2>4, <3>2, ArriveLocated DEF Requests
    <2>5. ASSUME NEW c \in Clients, Resolve(c) \/ Abandon(c) PROVE Located(req[d])'
      <3>1. \E r : Resolved(c, r)
        BY <2>5 DEF Resolve, FindProject, FindEnvironment, FindKey, BindEnvironment, Abandon
      <3>2. d # c => req'[d] = req[d]  BY <1>1, <3>1 DEF Requests, Resolved
      <3> QED  BY <1>1, <2>2, <2>3, <2>5, <3>2, ResolveLocated
    <2>6. ASSUME NEW c \in Clients, Write(c) PROVE Located(req[d])'
      <3>1. req' = [req EXCEPT ![c] = Idle]
        BY <2>6 DEF Write, CreateProject, DeleteProject, CreateEnvironment, DeleteEnvironment,
                    CreateKey, RevokeKey, DeleteKey, MintToken, EraseToken, Executing
      <3>2. req'[d] = Idle \/ req'[d] = req[d]  BY <1>1, <3>1 DEF Requests
      <3> QED  BY <2>2, <2>3, <3>2, IdleLocated
    <2>7. CASE UNCHANGED vars  BY <2>2, <2>7 DEF vars
    <2> QED  BY <2>4, <2>5, <2>6, <2>7 DEF Next
  <1> QED  BY <1>3, <1>4 DEF AllLocated

-----------------------------------------------------------------------------
(* What each write touches.                                                *)

LEMMA DropTouches ==
    ASSUME Tables, NEW E, DropEnvironments(E), NEW e \in Touched
    PROVE  e \in E
  <1>1. e \in Ids /\ e # Null  BY RowsAssumption DEF Touched, Ids
  <1>2. CASE envs'[e] # envs[e]
    BY <1>1, <1>2 DEF DropEnvironments, Without, Tables
  <1>3. ASSUME NEW k \in KeyIds, keys'[k] # keys[k]
        PROVE  keys'[k] = Null /\ keys[k].env \in E
    BY <1>3 DEF DropEnvironments, Without, Tables
  <1>4. ASSUME NEW t \in Tokens, tokens'[t] # tokens[t]
        PROVE  tokens'[t] = Null /\ tokens[t] \in E
    BY <1>4 DEF DropEnvironments, Without, Tables
  <1> QED  BY <1>1, <1>2, <1>3, <1>4 DEF Touched

(* A write to the environment it resolved touches no other.                *)
LEMMA OwnTouches ==
    ASSUME Tables, NEW c \in Clients, NEW e \in Touched,
           \/ DeleteEnvironment(c) \/ CreateKey(c) \/ RevokeKey(c) \/ DeleteKey(c)
           \/ MintToken(c) \/ EraseToken(c)
    PROVE  e = req[c].eid
  <1>1. e \in Ids /\ e # Null  BY RowsAssumption DEF Touched, Ids
  <1>2. CASE DeleteEnvironment(c)  BY <1>2, DropTouches DEF DeleteEnvironment
  <1>3. CASE CreateKey(c)
    <2>1. envs' = envs /\ tokens' = tokens  BY <1>3 DEF CreateKey, tables
    <2>2. PICK k \in KeyIds : /\ keys'[k] # keys[k]
                              /\ \/ k \in Rows(keys) /\ keys[k].env = e
                                 \/ keys'[k] # Null /\ keys'[k].env = e
      BY <2>1 DEF Touched
    <2>3. PICK s \in Secrets :
             keys' = [keys EXCEPT ![NextId(keys)] =
                         [env |-> req[c].eid, secret |-> s, revoked |-> FALSE]]
      BY <1>3, <2>2 DEF CreateKey, tables
    <2>4. Rows(keys) \subseteq 1..Cardinality(Secrets) /\ Cardinality(Secrets) \in Nat
      BY TablesRows, RegistryAssumption, FS_CardinalityType DEF KeyIds
    <2>5. NextId(keys) \notin Rows(keys)  BY <2>4, NextIdFree
    <2>6. k = NextId(keys) /\ k \in DOMAIN keys  BY <2>2, <2>3 DEF Tables
    <2>7. keys'[k].env = req[c].eid  BY <2>3, <2>6
    <2> QED  BY <2>2, <2>5, <2>6, <2>7
  <1>4. CASE RevokeKey(c) \/ DeleteKey(c)
    <2>1. envs' = envs /\ tokens' = tokens  BY <1>4 DEF RevokeKey, DeleteKey
    <2>2. PICK k \in KeyIds : /\ keys'[k] # keys[k]
                              /\ \/ k \in Rows(keys) /\ keys[k].env = e
                                 \/ keys'[k] # Null /\ keys'[k].env = e
      BY <2>1 DEF Touched
    <2>3. k \in Addressed(req[c])
      BY <1>4, <2>2 DEF RevokeKey, DeleteKey, Without, Tables
    <2>4. keys[k].env = req[c].eid /\ keys[k] \in Key
      BY <2>3, TablesRows DEF Addressed
    <2>5. keys'[k] # Null => keys'[k].env = keys[k].env
      BY <1>4, <2>2, <2>3, <2>4 DEF RevokeKey, DeleteKey, Without, Tables, Key
    <2> QED  BY <2>2, <2>4, <2>5
  <1>5. CASE MintToken(c)
    <2>1. envs' = envs /\ keys' = keys  BY <1>5 DEF MintToken, tables
    <2>2. PICK t \in Tokens : tokens'[t] # tokens[t] /\ e \in {tokens[t], tokens'[t]}
      BY <2>1 DEF Touched
    <2>3. PICK u \in Tokens : home[u] = 0 /\ tokens' = [tokens EXCEPT ![u] = req[c].eid]
      BY <1>5, <2>2 DEF MintToken, tables
    <2>4. t = u /\ tokens'[t] = req[c].eid  BY <2>2, <2>3 DEF Tables
    <2>5. tokens[t] = Null  BY <2>3, <2>4, KeptIsMade DEF Rows, Tables
    <2> QED  BY <1>1, <2>2, <2>4, <2>5
  <1>6. CASE EraseToken(c)
    <2>1. envs' = envs /\ keys' = keys  BY <1>6 DEF EraseToken
    <2>2. PICK t \in Tokens : tokens'[t] # tokens[t] /\ e \in {tokens[t], tokens'[t]}
      BY <2>1 DEF Touched
    <2>3. tokens[t] = req[c].eid /\ tokens'[t] = Null
      BY <1>6, <2>2 DEF EraseToken, Without, Tables
    <2> QED  BY <1>1, <2>2, <2>3
  <1> QED  BY <1>2, <1>3, <1>4, <1>5, <1>6

LEMMA ProjectTouches ==
    ASSUME Tables, NEW c \in Clients, DeleteProject(c), NEW e \in Touched
    PROVE  /\ e \in Rows(envs) /\ req[c].pid \in Rows(projects)
           /\ envs[e].home = projects[req[c].pid].inc
  <1>1. e \in EnvsOf(req[c].pid)  BY DropTouches DEF DeleteProject
  <1> QED  BY <1>1 DEF EnvsOf, Tables, NothingAdopted, EnvsAtHome

LEMMA CreateTouches ==
    ASSUME Tables, NEW c \in Clients, CreateEnvironment(c), NEW e \in Touched
    PROVE  /\ req[c].pid \in Rows(projects)
           /\ envs'[e] # Null /\ envs'[e].home = projects[req[c].pid].inc
  <1>1. keys' = keys /\ tokens' = tokens /\ e \in Ids /\ envs'[e] # envs[e]
    BY DEF CreateEnvironment, tables, Touched
  <1> DEFINE N == [project |-> req[c].pid, slug |-> req[c].env,
                   inc |-> made', home |-> projects[req[c].pid].inc]
  <1>2. /\ req[c].pid \in Rows(projects)
        /\ envs' = [envs EXCEPT ![NextId(envs)] = N]
    BY <1>1 DEF CreateEnvironment, tables
  <1>3. N.home = projects[req[c].pid].inc  OBVIOUS
  <1> HIDE DEF N
  <1>4. e = NextId(envs) /\ e \in DOMAIN envs  BY <1>1, <1>2 DEF Tables
  <1>5. envs'[e] = N  BY <1>2, <1>4
  <1>6. e \notin Rows(envs)  BY <1>4, TablesRows, NextIdFree
  <1>7. envs[e] = Null  BY <1>4, <1>6 DEF Rows
  <1> QED  BY <1>1, <1>2, <1>3, <1>5, <1>7

LEMMA StrayStep ==
    ASSUME Tables, Requests, Serials, AllLocated, NEW c \in Clients, Write(c),
           req[c].pc = "write", NEW e \in Touched
    PROVE  /\ req[c].einc # Null => \/ envs[e] # Null /\ envs[e].inc = req[c].einc
                                    \/ EnvGone(req[c].einc)
           /\ req[c].pinc # Null => \/ envs[e] # Null /\ envs[e].home = req[c].pinc
                                    \/ envs'[e] # Null /\ envs'[e].home = req[c].pinc
                                    \/ ProjectGone(req[c].pinc)
                                    \/ req[c].einc # Null /\ EnvGone(req[c].einc)
  <1>1. Located(req[c])  BY DEF AllLocated
  <1>2. CASE CreateProject(c)
    BY <1>1, <1>2 DEF CreateProject, Executing, Located
  <1>3. CASE DeleteProject(c) \/ CreateEnvironment(c)
    <2>1. req[c].einc = Null
      BY <1>1, <1>3 DEF DeleteProject, CreateEnvironment, Executing, Located, ProjectOps
    <2>2. ASSUME req[c].pinc # Null, ~ ProjectGone(req[c].pinc)
          PROVE  projects[req[c].pid].inc = req[c].pinc
      BY <1>1, <2>1, <2>2 DEF Located, AtProject, ProjectGone
    <2>3. CASE DeleteProject(c)
      <3>1. envs[e] # Null /\ envs[e].home = projects[req[c].pid].inc
        BY <2>3, ProjectTouches DEF Rows
      <3> QED  BY <2>1, <2>2, <3>1
    <2>4. CASE CreateEnvironment(c)
      <3>1. envs'[e] # Null /\ envs'[e].home = projects[req[c].pid].inc
        BY <2>4, CreateTouches
      <3> QED  BY <2>1, <2>2, <3>1
    <2> QED  BY <1>3, <2>3, <2>4
  <1>4. CASE \/ DeleteEnvironment(c) \/ CreateKey(c) \/ RevokeKey(c) \/ DeleteKey(c)
             \/ MintToken(c) \/ EraseToken(c)
    <2>1. req[c].einc # Null /\ AtEnv(req[c])
      <3>1. req[c].op \in EnvOps \cup ApiOps
        BY <1>4 DEF DeleteEnvironment, CreateKey, RevokeKey, DeleteKey, MintToken, EraseToken,
                    Executing, EnvOps, ApiOps, Needs
      <3> QED  BY <1>1, <3>1 DEF Located
    <2>2. e = req[c].eid  BY <1>4, OwnTouches
    <2>3. ASSUME ~ EnvGone(req[c].einc)
          PROVE  e \in Rows(envs) /\ envs[e].inc = req[c].einc
      BY <2>1, <2>2, <2>3 DEF AtEnv, EnvGone
    <2>4. req[c].pinc # Null => InProject(req[c])  BY <1>1, <2>1 DEF Located
    <2> QED  BY <2>1, <2>3, <2>4 DEF InProject, Rows
  <1> QED  BY <1>2, <1>3, <1>4 DEF Write

(* Only a write touches an environment, and it ends its own request.       *)
LEMMA StrayNext ==
    ASSUME IInv, Serials, AllLocated, [Next]_vars
    PROVE  [\A c \in Clients, e \in Touched : req[c].pc = "write" /\ req'[c] # req[c] =>
              /\ req[c].einc # Null => \/ envs[e] # Null /\ envs[e].inc = req[c].einc
                                       \/ EnvGone(req[c].einc)
              /\ req[c].pinc # Null => \/ envs[e] # Null /\ envs[e].home = req[c].pinc
                                       \/ envs'[e] # Null /\ envs'[e].home = req[c].pinc
                                       \/ ProjectGone(req[c].pinc)
                                       \/ req[c].einc # Null /\ EnvGone(req[c].einc)]_vars
  <1>1. Tables /\ Requests  BY Parts
  <1> SUFFICES ASSUME Next, NEW c \in Clients, NEW e \in Touched,
                      req[c].pc = "write", req'[c] # req[c]
               PROVE  /\ req[c].einc # Null => \/ envs[e] # Null /\ envs[e].inc = req[c].einc
                                               \/ EnvGone(req[c].einc)
                      /\ req[c].pinc # Null => \/ envs[e] # Null /\ envs[e].home = req[c].pinc
                                               \/ envs'[e] # Null /\ envs'[e].home = req[c].pinc
                                               \/ ProjectGone(req[c].pinc)
                                               \/ req[c].einc # Null /\ EnvGone(req[c].einc)
    OBVIOUS
  <1>2. ~ UNCHANGED <<envs, keys, tokens>>  BY DEF Touched
  <1>3. ASSUME NEW d \in Clients, Arrive(d) PROVE FALSE
    <2>1. \E r : Arrives(d, r)
      BY <1>3 DEF Arrive, ProjectRequest, EnvRequest, KeyRequest, ApiRequest
    <2> QED  BY <1>2, <2>1 DEF Arrives, tables
  <1>4. ASSUME NEW d \in Clients, Resolve(d) \/ Abandon(d) PROVE FALSE
    <2>1. \E r : Resolved(d, r)
      BY <1>4 DEF Resolve, FindProject, FindEnvironment, FindKey, BindEnvironment, Abandon
    <2> QED  BY <1>2, <2>1 DEF Resolved, tables
  <1>5. PICK d \in Clients : Write(d)  BY <1>3, <1>4 DEF Next
  <1>6. req' = [req EXCEPT ![d] = Idle]
    BY <1>5 DEF Write, CreateProject, DeleteProject, CreateEnvironment, DeleteEnvironment,
                CreateKey, RevokeKey, DeleteKey, MintToken, EraseToken, Executing
  <1>7. d = c  BY <1>1, <1>6 DEF Requests
  <1> QED  BY <1>1, <1>5, <1>7, StrayStep

(* A write lands in the environment and the project its request resolved,  *)
(* or one of those was deleted before it.                                  *)
THEOREM StraysOvertaken == Spec => StraysOnlyOvertaken
  <1>1. Init => Serials /\ AllLocated
    BY IdleLocated DEF Init, Serials, AllLocated, Rows
  <1>2. IInv /\ Serials /\ AllLocated /\ [Next]_vars => Serials' /\ AllLocated'
    BY NextLocated
  <1> QED  BY Invariance, <1>1, <1>2, StrayNext, PTL DEF Spec, StraysOnlyOvertaken
=============================================================================
