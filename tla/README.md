# A verification of tokenzy

tokenzy issues opaque tokens that carry a JSON payload, redeems each at most as
often as it was issued for, issues and checks one-time codes, and reports what
happens to tokens to webhooks. It is one Go process over one SQLite file. The
modules here model what that process does with its rows, among concurrent
requests, background loops, failures and restarts. TLC checks them on small
instances; TLAPS proves the safety properties that hold, and the three refinements,
for every instance.

## The system

| part | source | state | operations |
|---|---|---|---|
| tokens | `internal/db/tokens.go`, `internal/token`, `internal/api` | a row per token: limit, uses, expiry, revocation | create, consume, revoke, delete, list, count |
| one-time codes | `internal/db/otps.go`, `internal/otp`, `internal/api/otp.go` | a row per code: attempts, ceiling, expiry, consumption, revocation | generate, validate, revoke, delete, list, count |
| webhooks | `internal/webhook/dispatch.go`, `internal/db/webhooks.go` | webhooks, delivery rows, a channel of events, a one-place channel of nudges | notify, record, sweep, attempt, test |
| clean-up | `internal/cleanup/job.go` | a ticker, the time a sweep began | sweep of four kinds of rows, in batches |
| panel | `internal/ui` | none of its own | the operator's half of everything above, projects, keys |
| API keys | `internal/auth/apikey.go`, `internal/db/keys.go` | a row per key, a scope | create, look up, revoke, delete |
| users and sessions | `internal/auth/session.go`, `internal/db/users.go` | a row per user and session | sign in, check, sign out, janitor, admin-create |
| projects, environments | `internal/db/projects.go` | the tenants | create, delete with cascade |
| listing | `internal/db/tokens.go`, `internal/db/otps.go` | the caller's cursor | one page |
| limits, durations | `internal/token/limits.go`, `internal/otp`, `internal/ttl` | none | check and parse lifetimes |
| database | `internal/db/db.go`, `internal/db/seed.go` | the connections, the migrations applied | open, migrate, seed, the event hook |
| process | `main.go` | the background context | start-up, bootstrap, shutdown |

How they meet. API and panel requests are goroutines that call the database
layer. Everything that writes goes through the `Write` handle, which has one
connection (`SetMaxOpenConns(1)`), so writers queue for it and a statement or a
transaction on it is atomic; reads use a pool of their own. After a commit
`CreateToken`, `ConsumeToken` and `RevokeToken` call the hook `OnTokenEvent`,
which is `Dispatcher.Notify` and puts an event in a bounded channel or drops it.
The dispatcher's `recordLoop` turns each event into one row per interested
webhook and nudges `sendLoop`, which posts the rows that are due and writes each
result back. The clean-up job deletes finished rows beside all of this. Memory
(requests, channel, attempts under way) is lost when the process stops; the
tables are not.

What is hard about it:

* the clock is read before the request waits for the write connection, so every
  condition on a time may be evaluated with an old one;
* callers race for a last use or a last guess, and no lock holds them apart but
  the shape of one SQL statement;
* status is derived, twice: by `StatusOf` in Go and by a hand-written SQL mirror;
* a row is read, the network is used for seconds, and the result is written by
  row id, while rows are deleted and SQLite hands their ids out again;
* a page or an API request resolves names to row numbers, one SELECT at a time,
  and writes by number later; environments and keys come and go in between;
* a nudge may come at any point of a sweep; the process may stop at any point;
* one sweep of the clean-up decides with one time, over many statements;
* a list is read page by page while its rows come, go and change status, many of
  one second and the cursor's own row among them;
* a session is read once and used some statements later, by a server that may be
  replaced meanwhile; processes start side by side on one file and may be cut off
  between any two statements of a migration, a seed or a bootstrap;
* lifetimes are any int64, multiplied into nanoseconds of int64.

`PROJECT.json` lists each hazard at its line with the properties that cover it.

## The modules

| module | what it is |
|---|---|
| `TokenRows` | a token row, `StatusOf`, the SQL mirror of it, the WHERE clauses |
| `TokenLedger` | abstract: tokens are issued, spent within a limit, closed |
| `CleanUp` | which rows one DELETE may take, when `drain` stops |
| `Tokens` | requests, clean-up, clock, crashes over the tokens table |
| `TokensProofs` | the inductive invariant of `Tokens`, and the theorems that rest on it alone |
| `TokensOrderProofs` | its theorems about order: clean-up, status, revoked for good, events against commits |
| `OTPRows`, `OTPLedger`, `OTPs` | the same for one-time codes |
| `OTPsProofs`, `OTPsLedgerProofs` | their inductive invariant; the refinement and the theorems about steps |
| `DeliveryLedger` | abstract: a delivery is recorded, tried, settled, dropped |
| `Dispatch` | channel, recorder, sender, operator, failures, restarts |
| `DispatchProofs` | its inductive invariants, its refinement and theorems |
| `Registry` | projects, environments, keys; what requests resolve, then write |
| `RegistryProofs` | its inductive invariant and theorems |
| `Limits` | lifetimes in a word that wraps: the ceilings, `ValidateTTL`, `ttl.Parse` |
| `Listing` | the keyset walk over a table that changes; extends `Limits` |
| `ListingProofs` | the arithmetic of `Limits`, the theorems of the walk |
| `Startup` | processes on one file: migrations, seed, bootstrap, `admin-create` |
| `Sessions` | the panel's sessions on top of the processes of `Startup` |
| `SessionsProofs` | the theorems of both |
| `MCTokens`, `MCOTPs`, `MCDispatch`, `MCRegistry`, `MCListing`, `MCSessions` | small instances: symmetry, subscription lists, scopes, words, commands |

Names are the source's wherever they can be: the action `ConsumeToken` is
`DB.ConsumeToken`, `DueDeliveries` is the call of that name in `sweep`, and so on.
A definition whose name ends in an underscore and a word (`Consumable_Revoked`)
is a slip: a plausible mistake in the definition that follows it. No
specification uses the slips; substituting one for the real definition makes the
property it is paired with in `PROJECT.json` fail.

### Tokens

A request is a record with a program counter. It arrives (`CreateRequest`,
`ConsumeRequest`, `RevokeRequest`, `DeleteRequest`), which is also when its
database method reads the clock; it waits as `queued` until its statement
(`CreateToken`, `ConsumeToken`, `RevokeToken`, `DeleteToken`) is the one that has
the connection; it emits its events one at a time (`EmitTokenEvent`); a revoke
that matched nothing reads the row on the other pool (`ReadBack`); it answers
(`Reply`). `Fail` is a request cancelled, or a statement failing, with nothing
written. `Committed` also allows the third outcome Go permits: the write is
committed but the driver reports the cancelled context, so the caller gets an
error and no event goes out.

`StartSweep`, `DeleteExpiredTokens`, `DeleteSettledTokens` and `DrainError` are
the job; each DELETE is a step. `Crash` forgets the requests and the sweep.
`Tick` moves the one clock.

Taken as given: an id is never drawn twice (122 random bits), so `ErrDuplicate`
has no step; the two clock readings of a creation (expiry in the handler,
`created_at` in the method) are one; the clock does not go back; an id and the
secret value of a token are one name; whether the caller may do what it asks
(`Require`) was decided before it arrives.

### One-time codes

`GenerateOTP` and `ValidateOTP` are one transaction each on the only write
connection and so one step each; their `ts` is read on arrival. The expiry of a
new code is fixed before that, by a reading of its own in the handler
(`api/otp.go:120`): `asked` in `GenerateRequest` is any second up to the `ts`. A
code with a short lifetime may thus be created at or after its own expiry. Such a
code is never live; it can still be handed to a request that read the clock
before, and `HandedTheLive` excepts it and nothing else. Id and digits are drawn
when the row is inserted, since nobody sees those of a request that reuses. Two
rows may hold the same digits. `guesses` is history and is counted from
`StatusOf`, not from the WHERE clause, so that a guess the UPDATE failed to
charge would show. The case of a transaction committed and then reported as
failed differs from a completed one only in its answer, and a lost answer is what
`Crash` leaves.

### Dispatch

Each loop is a program counter and what it holds in memory: `rec` the event and
the webhooks still to be served, `snd` the batch, the webhooks loaded for it and
the row about to be sent, `flights` the attempts under way. Ids are rowids,
reused as SQLite reuses them (`NewId`). Because ids are reused, a webhook also
has the number of its making and a delivery the pair (event, webhook number) it
was made for; the code never sees these. Time is abstracted to whether a retry
is due yet. `Post` has the outcomes a network gives: accepted, refused, and
accepted although the sender saw a failure. `Shutdown` cancels the background
context, after which reads fail, posts fail, results are still written
(`recordResult` has a context of its own) and the process may be gone at any
moment (`Restart`).

Taken as given: the panel's two statements for a toggle or a deletion (read the
webhook, write it) are one step; a test is three (`TestWebhook` reads the webhook,
`Test` inserts the row, `TestNudge` wakes the sender), one test at a time. Requests that outlive the 15
seconds `Shutdown` waits are not modelled. `DeleteOldDeliveries` may take any
subset of the settled rows at any time, which covers each window and batch size.

### Registry

`projects`, `envs` and `keys` are tables indexed by row number; `NextId` is what
an `INTEGER PRIMARY KEY` without `AUTOINCREMENT` draws, the largest number in use
plus one. A request is a record whose program counter names its next database
call. A page resolves its project (`FindProject`) and environment
(`FindEnvironment`); a machine's request looks its key up and compares scopes
(`FindKey`), then loads the key's environment (`BindEnvironment`). Each is a SELECT
of its own on the read pool. The write (`CreateProject` to `EraseToken`) is one
statement or transaction by the numbers found, and does nothing when it matches no
row, breaks a UNIQUE or misses its parent. `DropEnvironments` is the cascade.
`Abandon` is every way a request ends early.

The program cannot tell a row from a later one with its number. The model can, by
history the actions never consult: `inc` numbers projects and environments in the
order they were made, `home` says which parent a row was made under, `einc` and
`pinc` which rows a request found, `stale` that its key was dead when it came.

Taken as given: a key is drawn fresh and carries the scope `GenerateKey` wrote
into it, so a key, its hash and its scope are one value; slugs offered are valid;
a page's reads after its write, and the list of sibling environments in
`resolveEnv`, change nothing. Minting and deleting a token stand for everything a
`/v1` handler writes; `Tokens` and `OTPs` have the rest.

### Listing and limits

`Limits` has the ceilings as the process makes them (`NewLimits`, `Ceiling`) and
the two conversions: seconds from a machine (`ValidateTTL`), a number and a unit
from an operator (`Parse`). `Wrap` is what an int64 keeps of a product, in a word
whose size is `MaxInt`, so that overflow is reached on small words.

`Listing` creates its rows with those lifetimes. A creation reads the clock twice
(`CreateRequest` for the expiry, `StampCreated` for `created_at`) before it waits
for its `Insert`, so a row appears where its second puts it, which may be below
somebody's cursor. `Settle` stands for everything that changes a row's status: it
is used up (a token exhausted, a code locked), which is its status only until it
expires, or ended (revoked, consumed), which it stays; `Delete` is a request's or
the clean-up's. A caller walks: `StartWalk` fixes the filter, `AskPage`
reads the time the status predicate will use and the page size (`ResolveLimit`),
`ListPage` is the SELECT with its extra row and the cursor it hands out, `Leave`
gives up or starts over. `shown`, `again` and `lasting` are history.

Taken as given: tokens and codes page by the same statements, so one table stands
for both; ids are drawn once and ordered; a walk belongs to one caller and
concerns nobody else's, so one is enough; rows of other environments and rows a
search leaves out are never selected.

### Start-up and sessions

In `Startup` a process is a program counter: `StartServer` or `StartShell` opens
the file; `CheckMigration` looks a file up and `ApplyMigration` is the one
transaction of its statements and its record, which fails if somebody applied it
in between; a server then counts and seeds (`CountProjects`, `Seed`), looks its
configured account up and makes it (`LookupAdmin`, `CreateAdmin`) and serves; the
command `admin-create` inserts its account or sets the password (`InsertUser`,
`SetUserPassword`). `Stop` ends a process at any of these points.

`Sessions` adds requests of the panel, one statement or clock reading per step: a
sign-in verifies (`Lookup`), draws (`DrawSession`) and stores (`CreateSession`),
and the cookie may be lost; a page reads its session (`GetSession`), compares
(`CheckExpiry`), removes it (`DropSession`) or reads its user (`GetUser`) and runs
(`Handle`); a sign-out is `EndSession`. `Wake` reads the janitor's time and
`DeleteExpiredSessions` uses it. `Fail` is a statement that fails. `StopPanel`
takes a process away with everything it was serving.

Taken as given: a session id is never drawn twice (256 random bits); a hash is the
password it verifies; a process makes its requests' answers and cookies in the
step that ends them; of the projects table start-up asks only whether it is empty.

## The runs

| run | instance | what it shows |
|---|---|---|
| `tokens` | 1 token, 2 environments, 2 requests at once, limit 2 or none, 3 seconds, 1 fault | `SpendsWithinLimit`, `EventsMatchCommits`, `RevokeAnswerHolds`, `StatusPredicateAgrees`; steps: `SpentOnlyWhileActive`, `StatusMovesForward`; `KeepsLedger`: it implements `TokenLedger` |
| `tokens_cleanup` | 2 tokens, 1 request at a time, 1 batch of 1 a sweep, 1 fault, fairness | `CleanUpSparesActive`; `FinishedRowsGo`: every row past its window goes |
| `tokens_expiry` | as `tokens` | `NeverSpentExpired` fails (below) |
| `otps` | 2 codes of 2 subjects with the same digits, 2 requests, 1 attempt, 2 seconds, lifetime of 1, retention under a second, 2 batches of 1, 1 fault | `AtMostOneLive`, `CeilingHolds`; steps: `HandedTheLive`, `OwnSubjectOnly`, `CleanUpSparesActive`, `StatusMovesForward`; implements `OTPLedger` |
| `dispatch` | 1 webhook, deleted at rest, 2 deliveries, 1 retry, queue of 1, 2 faults, fairness | implements `DeliveryLedger`, `SettlesEventually` |
| `dispatch_panel` | 2 webhooks, 2 events of 2 types, toggles, tests, deletions at any moment | `NeverTwiceAtOnce`, `NudgeNotLost`, `AttemptKeepsItsRow`; steps: `DeliveredByAnAttempt` |
| `dispatch_reuse`, `dispatch_gone`, `dispatch_delivered` | 2 webhooks | fail (below) |
| `registry` | 1 project name, 2 environment names, 2 keys (write, admin), 1 token, 2 requests, 2 rows made over time | `NothingAdopted`, `SlugsNameOne`, `DeadKeysStayOut`; steps: `StraysOnlyOvertaken` |
| `sessions` | 1 server, 1 shell, 2 migrations, 1 account, 2 passwords, 1 session, 2 requests, 3 seconds, 2 faults, fairness | `SchemaWhole`, `ServedOnlyWhenLive`; steps: `NoEarlySignOut`, `PasswordKept`; `ComesToServe`, `ExpiredSessionsGo` |
| `listing` | 3 rows, pages of 1 and 2, 2 seconds, words of 6 bits, every number of a word | `NeverShownTwice`, `LastingRowsShown`, `LifetimesFit`; steps: `WalkNarrows` |

Why the bounds are enough. Two requests suffice for a race over one row, since
every condition is evaluated inside one statement; a third adds no new kind of
overlap. A limit of two makes the second-to-last, the last and the refused use
different. Three seconds separate before, at and after an expiry and let a
request's time be older than the sweep's. With one DELETE of one row per sweep
the cap of `tokens_cleanup` leaves work behind, which a later sweep must reach; a
second batch in one sweep is in `otps`. `tokens_cleanup` serves one request at a
time: a liveness check over two would be too large, and `SweepSparesActive` and
`SweepsClear` are proved for any number. With a queue of one the second event is dropped; with a batch
of two, one sweep is full and another is not; one retry gives a first, a last
and a forbidden attempt. `MaxTime`, `MaxSpends`, `MaxFaults`, `MaxHooks`,
`MaxEvents`, `MaxMade`, `Subscriptions` and `Offered` are bounds of the model, named as
such where they are declared; `MaxSpends` is no less than any limit that is set. The
webhooks run splits its question in two (retries and failures with one webhook,
id reuse and operators with two and no retry) because the product is too large.
The codes have one instance for everything, so that every operation races with
every other, at the price of small numbers: with one attempt allowed the first
wrong guess locks; two seconds and a lifetime of one give codes that live, that
expire while a request waits and that are created expired; and a retention of
less than a second (`Config.withDefaults` accepts any positive one) lets the
clean-up take rows within those two seconds. One environment: that nobody
reaches into another one is left to the proof (`OthersUntouched`), as are more
codes, attempts and seconds.

`Offered` names what may happen around the dispatcher. "delete" is an operator who
deletes a webhook at any moment, as the panel lets him; "retire" restricts him to
webhooks at rest (`AtRest`: neither recorder nor sender has anything of theirs in
hand). The two are kept apart because what the dispatcher says of its deliveries
is true with the second and false with the first (below).

In the registry two makings (`MaxMade`) are either two environments side by side,
so that one can be mistaken for the other, or a project deleted and made again
under the same two numbers, so that a request can be overtaken; both happen with
every operation on the way.

The server and the shell of `sessions` meet in every migration and in the one
account, a second fault lets a start fail after another did, and two requests of
one browser use one session while it expires. Two servers that start side by side
(both seeding) are not in its bounds: two of the same kind meet in the proofs,
which hold for any number. In `listing` three rows over pages of one and two give
a first, a middle and a last page, rows that share a second, and a cursor whose
row is gone; after one tick a cursor's second is over while requests that read the
clock before it still wait. Six bits hold every product that wraps at four ticks a second and a
unit of two; one configured maximum is tried, and that the ceilings are right for
every other is `CeilingInBounds`. `Files`, `Commands`, `Amounts`, `Asked` and `SessionIds` are the
instance's choices, named where they are declared.

No run switches deadlock checking off: no reachable state is without a
successor, because the job's and the sender's tickers never stop and a client may always
ask the registry, the panel or for a page.

Fairness. `Sweep` and `Sender` are weakly fair: both loops run on tickers, and
`database/sql` hands the connection to waiters in turn. `Post` is in
`Sender`, since every post ends within `deliveryTimeout`. `Elapse` is weakly
fair, since the wall clock moves. `Restart` is weakly fair: a service that was
stopped is started again; without it no liveness of stored rows can be claimed.
`BootStep` and `Janitor` are weakly fair for each server: it is restarted after
every exit (`docker-compose.yml:13`, `restart: unless-stopped`) and its janitor is
a loop over a ticker. Requests, callers of pages, the operator, the shells, faults
and `Tick` have no fairness.

## What does not hold

Four statements of the repository's text are not true of the code. Each is a
property with a run that finds its counterexample.

* `NeverSpentExpired` (README: the query checks `expires_at` itself, "so an
  expired token cannot be spent"). The query compares with the time read before
  the request queued for the connection, so a redemption that waits across the
  expiry succeeds. What does hold is `SpentOnlyWhileActive`, which speaks of the
  time the request read.
* `RightReceiver` (`db/webhooks.go`: a delivery row "already establishes which
  webhook the work belongs to"). Between listing the rows due and loading the
  webhook, the webhook can be deleted and its id given to a new one.
* `AllHooksServed` (`dispatch.go`: "one delivery row per interested webhook"). A
  webhook deleted while its event is recorded makes `record` return before it
  reaches the webhooks after it.
* `DeliveredMeansAccepted` (`model.go`: "Delivered reports whether the receiver
  accepted this delivery"). The outcome of an attempt is written by row id. If the
  webhook is deleted while its post is out, a delivery of another webhook may have
  that id by then, and is marked as delivered without ever being posted.

The proofs show that the deletion of a webhook in hand is the only way to the last
three. `ReceiverIsRight` and `AllServed` prove the second and third for every
instance in which webhooks are deleted only at rest. For the fourth
`DeliveredIsTrue` needs no such premise: `DeliveredByAnAttempt` says that a mark is
always set by an attempt that was accepted, the delivery's own or that of a
webhook which is gone.

An observation beside them, with no run: the sender never looks at `enabled`, so
rows recorded before a webhook was switched off still go out, retries included,
while `model.go` says that it "reports whether deliveries should be attempted".

## What is proved

What `TokensProofs` and `TokensOrderProofs` prove holds for every set of tokens, clients and environments, every
limit and lifetime and every value of the bounds, under the assumptions named
in the modules: `NullAssumption` and `RowAssumption` (NULL is neither a number
nor a row), `CleanUpAssumption` (a positive batch and cap) and
`TokensAssumption` (the constants have their types; retention is positive, as
`withDefaults` makes it).

`SpendsWithinLimit` speaks of what was accepted, the code of what a row says.
They agree only because the two change together, so the inductive invariant
`IInv` adds to `TypeOK` and `SpendsWithinLimit`:

* `Accounts`: a stored row's count is the number of committed redemptions, and
  its limit the one it was issued with;
* `Unissued`: a token that was not issued has no row and no history;
* `Creating`: a request about to insert has a new row, for a token nobody else
  is about to insert and that was never issued: without it an insertion could
  reset the count of a stored row;
* `Ready`: a request past arrival has its operation, environment, token and, while
  queued, its time; one in `emit` has an event left.

There is one lemma per action (`ConsumeTokenStep`, ...), each split into the
requests (`Requests`), the rows against the history (`Books`) and the rest;
`NextIInv` combines them. On it rest:

* `TypeCorrect`, `NeverOverspent`: `[]TypeOK`, `[]SpendsWithinLimit`;
* `ListedUnderOwnStatus` from `PredicateMirrorsStatus`: the SQL mirror and
  `StatusOf` agree on every row and second;
* `SpentWhileActive` from `ConsumableIsActive`: the WHERE of the redemption is
  `StatusOf(...) = "active"` plus the environment;
* `Refinement`: `Tokens` implements `TokenLedger`. `RowsStep` shows that no step
  brings a row back or undoes a revocation, `HistoryStep` which steps touch the
  history; each then maps to `Issue`, `Spend` or `Close`, or to a stutter;
* `SweepSparesActive`: by `SweepClock` the time a sweep captured is never later
  than now (`ClockStep`: the clock does not go back), so what it takes for
  finished (`OldIsFinished`) still is when the DELETE runs;
* `StatusNeverBack`: `RowsStep` gives what a step may do to a row, `StatusForward`
  that a row so moved, looked at no earlier, has come no less far;
* `RevokeHolds`: `Knows` says what a revoke knows at each step of its handler (in
  `readback`: there was nothing left to revoke), and `KnowsStays` that nobody
  else makes it untrue while the request waits;
* `EventsMatch`: `Todos` lists the sequences of events a request may still owe, each
  event once; `FewWaiting` keeps the requests that owe one finitely many, whatever
  the number of requests, so they can be counted. A commit adds as many to the
  occurred as begin to wait (`CommitStep`), an emission moves one from the waiting
  to the emitted (`EmitEvents`), a crash or a cancelled answer loses some and is a
  fault (`CrashEvents`);
* `NoRequestStartsOver`: `StepsLeft` counts the write, the events or the read-back and
  the answer a request has before it, at most four; every change of a request,
  whoever makes it, lowers the count (`StepsFewer`);
* `SweepsClear`: a DELETE that did not fail is one of the `DeletesLeft`, removes
  nothing but `Overdue` rows and a full batch of them, or the last, and a kind is
  left only when clear or at the cap of `drain` (`BatchTaken`; `WithinCap` is the
  invariant).

`RegistryProofs` does the same for the registry, for any number of requests, names,
keys and rows, under `RegistryAssumption` (finitely many keys, the default
environment has a name, keys and tokens are different things) and
`RowsAssumption` (NULL is not a row or number). Its invariant adds to the types:

* `Numbers`: no row number exceeds what was made over all time. It makes the set
  of numbers in use bounded, so it has a largest (`Largest`, by well-foundedness)
  and the number an INSERT draws is free (`NextIdFree`);
* `NothingAdopted` and `SlugsNameOne` themselves: a new row has no children,
  because every child's parent exists; a drop takes every child with it
  (`DropStep`, which deletion of a project and of an environment share);
* `Filled`: what a request holds at each program counter.

`NoAdoption` and `NamesUnique` follow at once. `DeadStayOut` needs one argument
more: only a key drawn this step can be a row that opens and did not before
(`OpenerIsOld`), and a key somebody has presented was drawn earlier (`MadeStays`),
so a dead key stays dead (`DeadStaysDead`) while the request waits for its look-up;
`NothingAdopted` is what makes "a row opens" mean "opens its own environment".
`StraysOvertaken` adds that no serial number is given out twice (`Serials`) and that
what a request resolved is where it found it or is gone (`Located`): the project
under its id, the environment under its id, and the environment in that project.
The property excuses a write into another project when the environment it resolved
is gone, even though the project lives on; for that a third row must be made
(another project's environment takes the number), which is outside the bounds of the
`registry` run and inside the theorem.

`OTPsProofs` and `OTPsLedgerProofs` follow the same plan under `NullAssumption`,
`RowAssumption`, `CleanUpAssumption` and `OTPsAssumption`. `Booked` ties a stored code
to its history: as many attempts as were guessed wrong, consumed exactly if it was
accepted; `Holds` says what a waiting request has, and that the time it read is no
later than the clock. `AtMostOneLive` is part of the invariant and needs `NoLivelier`: no step but
`GenerateOTP` makes a code live, and that step first finds none. `PredicateMirrorsStatus`
and `LiveIsActive` connect both WHERE clauses with `StatusOf`; on them rest the
refinement of `OTPLedger`, `StatusNeverBack`, `OthersUntouched` and `SweepSparesActive`.
`HandsOutTheLive` needs more than `AtMostOneLive`, because a request looks for a code
that is live at the time it read, which may be long past, and one look-up may then
match a code that expired and the one that replaced it. `Spans` says that the
lifetimes of the unused codes of one identifier do not overlap, expired ones and
those created expired included, so the newest of those matched, the one
`GenerateOTP` picks, is the only one that can be live now, unless it was itself
created expired.

`DispatchProofs`, under `DispatchAssumption` and `RowAssumption`, has one invariant for
every instance, deletions of webhooks included: `IInv` is `Tables` (each delivery,
a pair of an event and a webhook's number, is in one row at most), `Outstanding`
(each event on its way is in one place and its pairs are not yet written) and
`Batch` (what the sender holds are distinct deliveries in distinct rows).
`NotTwiceAtOnce` is part of it. `Compact` adds that no row id exceeds the number of
pairs written, so the id of the next INSERT is free. On these rest:

* `TypeCorrect`, with `Rest` for the counters;
* `NudgesArrive`: before any fault, `Watch` keeps that a row nobody tried is either
  announced (`Nudging`) or still to be listed or in the batch at hand (`Covered`).
  It holds although deletions give ids to others, because an event that the
  recorder gave up for lost (`Lost`) stays lost and `NudgeNotLost` excuses it;
* `RowsStayHome`: although ids of webhooks are given out again, a delivery row belongs
  to the webhook it was queued for, because it goes with it (`Sound`);
* `AttemptsKeepRows`, deletions included: `Held` says of everything the sender has in
  memory (listed, loaded, in flight) that, if its webhook still exists, the tables
  still say the same: the row is due, of the same pair, at the same attempt, and the
  webhook loaded is its own. The proof goes through every way a row may change
  (`RowsStep`);
* `DeliveredIsTrue`, deletions included: by `Answered` an attempt that ended in "ok" was
  accepted by its receiver, and only such an attempt marks a row (`Reported`); by
  `Held` the row is the attempt's own, unless its webhook was deleted meanwhile;
* `SweepsReturn`: `WorkLeft` counts the steps a batch has before it, four for a row
  listed, three for one loaded, two for a post in flight, one for a result; every
  step of the batch lowers it and nothing else touches it.

Three theorems have the premise `DeletesAtRest` (no "delete" in `Offered`). Without it
they are false: `dispatch_reuse` and `dispatch_gone` show it for two of them, and
`dispatch_delivered` shows a delivery settled by no attempt of its own, which is
nothing `DeliveryLedger` allows. With it, `Attached` says that nothing in hand
belongs to a webhook that is gone, so that what `Held` grants always applies:

* `ReceiverIsRight`: every post goes to the webhook its delivery was queued for;
* `Refinement`: the table maps to the states and counts of `DeliveryLedger` (`States`,
  `Tried`), the webhooks deleted to `gone`; a deletion is `Forget`, a pruning `Drop`;
* `AllServed`: by `Serving`, until something fails, a delivery owed is written or the
  recorder is about to write it for a webhook that cannot go meanwhile.

`ListingProofs` rests on `LimitsAssumption`, `ListingAssumption` and `RowAssumption`, for
words of any size. `ValidateTTLExact` and `ParseExact` compare with exact arithmetic:
what is granted is the product itself, so nothing that wrapped gets through, and
nothing is refused that exact arithmetic would grant. In `IInv`, `Stored` keeps a
row's lifetime and `Progress` the walk: every row shown stands at or above the
cursor, every lasting row above it was shown; `NeverShownTwice` and
`LastingRowsShown` are then preserved by `ListPage`. `WalksNarrow` follows the rows a walk may
still show: a row appears with the `created_at` its request waited with, and one that
starts to wait has just read the clock (`Stamped`), so nothing is added below a cursor
whose second is over (`StampedLeft`), and `ListPage` moves the cursor to a row below it
(`PageNarrows`). `PagesFull` adds that a page with
a cursor shows as many rows as were asked for, all of them new, and `AnswersExist`
that a page that is not the last has a row for the cursor: both count the rows off
in their order (`Places`, a bijection with an interval) rather than by induction.

`SessionsProofs` rests on `StartupAssumption`, `SessionsAssumption` and `RowAssumption`, for
any number of servers, shells, requests and faults. `BootInv`: the migrations done
are `1 .. k`, recorded exactly if applied, and a process at file `f` has all before
`f` behind it. `PanelInv`: a stored session has the expiry it was drawn with,
a request knows the row as it was stored, ids about to be stored are new and
distinct, and the janitor's time is not ahead of the clock. They give
`SchemaStaysWhole`, `PasswordsKept`, `TypeCorrect`, `OnlyLiveServed` and
`NobodySignedOutEarly`.

Only model-checked: the liveness properties (`FinishedRowsGo`, `SettlesEventually`,
`ComesToServe`, `ExpiredSessionsGo`), which this prover does not reach. What makes the
first two true is proved all the same: a quantity that every step of the party in
question lowers and nobody raises (`SweepsClear`, `SweepsReturn`); that such a step is
possible and is taken is what fairness and TLC add. In the same way
`NoRequestStartsOver` says that a request is on its way to its answer, and
`WalksNarrow` that a walk is on its way to its end: that either gets there needs only
that its steps are taken, and has no run of its own. The proofs use no induction over
data and the modules declare no recursive operator.

## What is not modelled

In `Tokens` and `OTPs` the environments are constant and the caller is already
authorised; `Registry` has both but only the rows themselves of tokens.
Signing, headers, payloads, HTML, JSON and configuration: data or formatting
that no property here tells apart. Power loss with `synchronous(NORMAL)`: a crash
here is of the process, which loses no commit. A clock that goes back. The list of
an endpoint's deliveries, which is one page, and the list of types. The size of a
payload, the text of a duration, the drawing of digits. HTTP helpers, embedded
files and templates, which keep no state. The 15 seconds the server waits for
requests at a stop; session cookies' attributes.

## Plan

1. Done: tokens, codes, dispatcher, registry, sessions, paging, limits, start-up, each
   with its proofs.
2. Left, as a run of its own: that the comment at `db/keys.go:86-87` (a page "cannot
   revoke a key belonging to another environment") fails when the environment was
   replaced under its number meanwhile.
3. Left: a crash that loses commits, as `synchronous(NORMAL)` allows; one sweep of the
   clean-up over all four tables.

## Running it

    tlc -config MCTokens.cfg MCTokens.tla
    tlapm TokensProofs.tla
    tlapm TokensOrderProofs.tla
    tlapm RegistryProofs.tla
    tlapm OTPsProofs.tla
    tlapm OTPsLedgerProofs.tla
    tlapm DispatchProofs.tla
    tlapm ListingProofs.tla
    tlapm SessionsProofs.tla
