# Verification of skawld-maintenance

TLA+ models of the parts of skawld-maintenance that change state, the TLC runs
that check them on small instances, and TLAPS proofs of the main properties for
every value of the parameters. `PROJECT.json` is the index: components, runs,
the source lines each definition stands for, findings, hazards and theorems.

    tlc -workers 2 -config contention.cfg MCOrganizationCreate
    tlapm OrganizationCreateProofs.tla

## The system

The repository is the foundation of a maintenance product: a Go API process, a
Go worker process, PostgreSQL, a migration command and a packaging tool. What it
does today is sign users in, create organizations exactly once per request, give
people the sites their memberships cover, decide who may approve, run a job
queue, migrate its schema and build releases.

| Component | State | Operations | What makes it correct |
|---|---|---|---|
| Organization creation (`httpserver/router.go`, `identity/application`, `identity/domain`, `identity/adapter/postgres`) | `organizations`, `memberships` | `POST /api/v1/organizations` | organization, administrator, audit event and idempotency result exist together or not at all; once per key |
| Idempotency store (`platform/idempotency`) | `idempotency_keys` | `HashRequest`, `Begin`, `Complete` | a key is never stuck, never used twice, never answers another command |
| Audit sink (`platform/audit`) | `audit_events` | `Append` | part of the caller's transaction |
| Transactions and pools (`platform/database`) | a pool per process, open transactions | `Open`, `InTx` | commit or roll back on every path; no circular waiting |
| Sign-in and sessions (`platform/auth`) | `auth_flows`, `web_sessions`, `principals`, two cookies | `Begin`, `Callback`, `Logout`, `Middleware` | one session per login, for the user and the browser that logged in; dead sessions admit nobody |
| Principals and site access (`auth/repository.go`, `identity/domain/authorization.go`, `site_reader.go`) | `memberships`, `sites` | `ResolvePrincipal`, `CanAccessSite`, `GET /sites/{id}`, `GET /me` | a site is given to who has a membership for it, and to nobody else |
| Approval authority (`identity/domain/authorization.go`) | `approval_authorities` | `Matches`, `CanApprove` | limits restrict, time is half open, permission and authority are both needed |
| Configuration and processes (`platform/config`, `cmd/api`, `cmd/worker`) | environment, pool sizes, in-flight work | `Load`, `Validate`, `main` | the pools fit the connection budget; a signal ends the process |
| Jobs (`platform/jobs`, `cmd/worker`) | River's tables | `EnqueueFoundationHealth`, `Start`, `Stop`, error handler | one live job per key; no job is discarded before its attempts are used up, or left behind |
| Migrations (`database/migrate*.go`, `cmd/migrate`, `migrations/`) | tables, two versions, privileges | `up`, `status` | success means current; repeatable after any failure; least privilege |
| Packaging (`tools/package`) | release directory | `run` | success means complete and verifiable; nothing replaced unasked |
| Object store, clock, ids, build info, skawld boundary, source of truth | none | interfaces and small predicates | - |

The components interact through the database (tables, row locks, the unique
index of `idempotency_keys`, privileges), through the pool (a bounded number of
connections), through the browser (cookies, redirects) and through the file
system. What is hard: statements of concurrent requests interleave; connections
break between any two statements, and after a COMMIT has been sent nobody knows
whether it was carried out; clients retry; callbacks are repeated and cross;
sessions die and memberships change while requests are under way; processes
share one connection budget and restart independently; workers die with jobs in
hand; commands of several steps fail half way, are repeated, and meet. The
hazards in `PROJECT.json` name the lines.

## Modules

| Module | Contents |
|---|---|
| `OrganizationRecords` | requests, rows, replies, `Validate` |
| `IdempotentCreate` | what the endpoint promises: an atomic ledger |
| `OrganizationCreate` | what the code does, statement by statement |
| `OrganizationCreateProofs` | its properties, and that it implements `IdempotentCreate`: the proofs |
| `Authentication`, `AuthenticationProofs` | sign-in, sessions, logout, middleware, and their proof |
| `Principals` | memberships, roles, and the principal `ResolvePrincipal` makes of them; used by the next two |
| `SiteAccess`, `SiteAccessProofs` | requests for sites while memberships change, and their proof |
| `Approval`, `ApprovalProofs` | approval authorities and `CanApprove`, and their proof |
| `Deployment`, `DeploymentProofs` | configuration, pools, process lifecycle, and their proof |
| `Jobs`, `JobsProofs` | the queue and its workers, and their proof |
| `Migration`, `MigrationProofs` | `cmd/migrate`, and its proof |
| `Release`, `ReleaseProofs` | the packaging tool, and its proof |
| `MC...` | instances for TLC; `Jobs` and `Migration` need none |

Definitions called "Mutant" in their comment are plausible bugs. Each is listed
in `PROJECT.json` with the property that catches it; no specification uses them.

### OrganizationCreate

A *request* is one execution of the handler; a retry is another request with
the same key. `pc[r]` is the next statement of request `r`, `tx[r]` holds the
uncommitted writes and row locks of its transaction, `outcome[r]` what the
function given to `InTx` returned, `reply[r]` what the handler answered. The
four tables hold committed rows only. Isolation is READ COMMITTED, as
`pgx.TxOptions{}` asks for.

| Action | Code |
|---|---|
| `Receive` | `createOrganization` up to `service.Create`, and the service's checks |
| `BeginTx`, `BeginTxFails` | `pool.BeginTx` in `InTx`: waits for one of `MaxConns` connections |
| `BeginInsert` | `INSERT ... ON CONFLICT DO NOTHING`; waits while another open transaction has inserted the key |
| `BeginSelect` | `SELECT ... FOR UPDATE` and what `Begin` and `Create` conclude from the row |
| `InsertOrganization`, `InsertMembership`, `AuditAppend`, `Complete` | the other statements, in order |
| `Commit`, `Rollback` | the end of `InTx`, then the response |
| `StatementFails` | any statement or COMMIT refused (constraint, `statement_timeout`, `lock_timeout`) |
| `Disconnect` | the connection, the client or the process is gone; a COMMIT may be under way; a failed Rollback is not reported |
| `ServerAbort`, `ServerCommit` | PostgreSQL ends the transaction of a lost connection |

Data is abstract: names and keys are members of `Text` with `TrimSpace` and
`Length` as functions on it, SHA-256 is an injective function of the raw name
(`HashAssumption`), identifiers are unique by construction (`NewID`).

`IdempotentCreate` says the same with no transaction: `Create` writes all four
records at once if the key is not in the ledger, `Consult` answers from the
ledger, `GiveUp` reports an internal error and leaves the effect open, so
`Create` may still happen after it. `ImplementsPromise` maps the ledger to the
committed rows of `idempotency_keys`.

### Authentication

A *handler* is one execution of an endpoint. A handler's random values stand
for themselves: the state, nonce and verifier of the login it begins, the token
of the session it creates. `jar` holds each browser's two cookies; a response
takes effect when it is delivered (`Deliver`), in any order, or never (`Lose`);
either way it is gone then.
The provider, the operator who deactivates a principal and the clock are
environment actions; nothing is assumed about how often the provider redeems a
code. `local[h].usable` only records, for `StaleSessionRefused`, whether the
session was good when the request was sent.

### Principals and SiteAccess

`Principals` holds what the rows of `memberships` mean: `ResolvePrincipal(p,
table)` is the *set* of principals the code may return, since `ORDER BY
created_at` leaves open which of several rows comes first. The schema does not
tie a membership's organization to its site's, so `Membership` contains
inconsistent rows as well.

`SiteAccess` runs a request in two statements (`Authenticate`, then `GetSite` or
`CurrentPrincipal`) while `Grant` and `Revoke` change the table between them.
`ScopeCondition` is the WHERE clause in SQL's three-valued logic, `uuidArray` the
driver's encoding of `[]string`. `held` and `kept` only serve the properties:
the memberships the person had at some moment, and all along.

### Approval

`approval_authorities` changes through `Issue` and `RevokeAuthority`, memberships
through `Join`, time through `Tick`; `Matches` and `CanApprove` are asked of every
request in every state, because no endpoint asks them yet. Kinds and
competencies are compared with `strings.EqualFold`, the function `FoldCase`.

### Deployment

Processes of two roles read one environment; there may be several of each.
`Load` applies the defaults, the conversions to int32 and `Validate`; `Open` and
`Setup` are start-up; `Stop`, `Drained` and `DrainTimeout` shutdown; `Accept`,
`Finish`, `Connect`, `Disconnect` the work and the pool beside `main`. `backends`
counts all connections. The range of the integer type is the parameter
`MaxInt`, because TLC's integers are 32 bits wide. The time PostgreSQL needs to
notice a dead client is in `OrganizationCreate`, not here. `OnePerRole` is the
deployment that `Validate` has in mind: one API and one worker.

### Jobs

`jobs` is River's table, `executing[w]` what worker process `w` has in hand.
`EnqueueFoundationHealth`, `MaxWorkers`, `HandleError` and `HandlePanic` are the
code's; `Fetch`, `Retry`, `Schedule`, `Rescue` and `Clean` are River as it is
configured here, and external. `Clean` deletes a finished row, as River does after
a retention time; its key is free again. An INSERT that fails is a step that
changes nothing; what `Insert` returns to the caller is left open, because after a
lost connection it is an error although the row may be there. A process is signalled (`Signal`), drains (`Stopped`), runs
out of its thirty seconds (`StopTimeout`) or dies (`Crash`); what it had in hand
stays "running" in the table until it is rescued. `failed` only counts, for
`GivenUpAfterThree`, the attempts that ended badly of a job that is kept.

### Migration

`tables` and `version` are what goose's transaction commits together; `river`
grows by one transaction per River migration. The foundation grants only to a
role that exists (`roles`) and sets default privileges, by which River's later
tables are granted (`grantedRiver`). `Apply` and `RiverApply` fail when another
run was faster; `Fail` is any error or kill.

### Release

`run` step by step: `Inspect` (os.Stat), `RemoveEntry` and `RemoveDir`
(os.RemoveAll), `Mkdir`, then for each target `Stage`, `CreateArchive`,
`FinishArchive`, then `CreateManifest`, `WriteLine`, `CloseManifest`. Any step may
fail (`Fail`) or be the last (`Kill`); nothing is undone. An archive is the
commit and the platform it was built for and whether it is whole; its hash is
that. `CloseManifest` may lose any of the lines, since the error of the deferred
Close is dropped; `lost` records it for `SuccessVerifies`.

## Runs

| Run | Bounds | Shows |
|---|---|---|
| `contention` | 3 requests, 1 principal, 1 key, 2 names equal after trimming, 2 connections, fairness | `KeysComplete`, `ExactlyOnce`, `SameAnswer`, `NeverInProgress`, `ConflictJustified`, `ImplementsPromise`, `EveryRequestEnds` |
| `boundaries` | 2 requests, 2 principals, keys of 7, 8, 200, 201 bytes with and without padding | `AnswerFitsRequest`, `OnlyValidStored` |
| `signin` | 4 handlers, 2 browsers, 2 users, clock 0 to 1, lifetimes 1 | `FlowSingleUse`, `SessionOfOwnLogin`, `SessionOfAuthenticatedUser`, `StaleSessionRefused` |
| `sites` | 1 request, 2 people, 2 organizations, 3 sites, 3 changes of memberships | `AccessGranted`, `SiteScopeHonoured` |
| `approval` | 2 authorities of 1 person, 2 roles, 2 spellings of a kind, risks 0 and 1, clock 0 to 2 | `HandOver`, `LimitsOnlyRestrict`, `BothRequired` |
| `budget` | one process per role; settings from -1 to 3, unset or malformed; 1 request in flight; fairness | `WithinBudget`, `SignalEnds` |
| `queue` | 2 workers, 2 jobs at a time, 2 keys, 3 signals or crashes, fairness | `OneJobPerKey`, `GivenUpAfterThree`, `EveryJobSettles` |
| `migrate` | 2 runs that meet, 2 River migrations, 2 failures, fairness | `UpMeansCurrent`, `RuntimePrivileges`, `UpConverges` |
| `packages` | 1 shell, 2 targets, 2 commits, 3 successful runs, 3 failures, fairness | `ListedIsIntact`, `SuccessComplete`, `SuccessVerifies`, `ReplacedOnlyWithClean`, `CleanSucceeds` |
| `logout` | 3 handlers | **violated**: `LogoutRevokes` |
| `overflow` | `MaxInt` = 31, settings 1, 2, 31 | **violated**: `WithinBudget` |
| `orgscope` | 1 person, 2 changes | **violated**: `OrganizationScopeHonoured` |

Most runs check the module's `TypeOK` as well.

Why the bounds suffice. Three requests are a holder of the key, a waiter and a
late retry, and two connections make the third wait for the pool; everything
the safety properties say is also proved for any number. Two requests reach
every boundary case, since those are about one request and the row it meets.
Four handlers are a login, its callback and two more executions: a repeated
callback, another login to cross with, or a request and a logout. With a clock
of one step and lifetimes of one, every flow and session can expire before,
between and after the statements that use it. Requests for sites change
nothing, so one meets all that several would; three changes of memberships are
two rows to combine and one to lose. Two authorities are what `HandOver` and
`LimitsOnlyRestrict` compare. Three faults of workers use up the three attempts
of a job; two runs of `migrate` and two River migrations let one overtake the
other within River's. Three failures of the packaging tool leave every mixture
of leftovers that the next run finds. Handler, browser and user names, and
requests and principals of `boundaries`, are symmetric; runs with fairness use
no symmetry.

`approval` may stop (`CHECK_DEADLOCK FALSE`): its rows and its clock are bounded.
Everywhere else deadlock is checked; `AllServed`, `Quiet` and `Done` are
the idle system, so that a real deadlock would still be reported.

Fairness.

- `OrganizationCreate`: weak fairness of each request's own steps. The Go
  scheduler runs every handler, and PostgreSQL grants a lock that stays free and
  ends transactions whose client is gone. No failure and no `lock_timeout` is
  forced to happen.
- `Deployment`: weak fairness of `main`. Every call it makes has a deadline or
  honours the cancelled context. Requests and jobs are not assumed to end.
- `Jobs`: weak fairness of each worker process, and of River's scheduler and
  rescuer for each job; strong fairness of fetching each job. A supervisor
  restarts workers, clients poll and take the jobs in the order of the time from
  which they may run, every call of `Work` has a deadline (`JobTimeout`), and so
  has `Stop`. Because finished jobs are deleted, new ones may come for ever; with
  weak fairness of the workers alone `EveryJobSettles` fails, as they could pass
  one job over for ever. Signals and crashes are never forced and are bounded;
  new jobs and the cleaner are not forced.
- `Migration`, `Release`: weak fairness of a run's next step, strong fairness of
  running `migrate up`, or the tool with `-clean`, again: whoever wants the result
  tries again. Failures are bounded, so that one attempt is undisturbed.

## Findings

- `logout`: `Logout` (`oidc.go:192`) discards the error of `RevokeSession`. If
  the UPDATE fails, the answer is 204 all the same, the cookie is cleared and
  the session stays valid until it expires. `api/openapi.yaml:79` describes
  the 204 as "Session revoked and cookie cleared."
- `overflow`: `Validate` (`config.go:114`) adds the two pool sizes as int32. A
  sum above 2147483647 wraps to a negative number and passes, although
  `docs/adr/0001-accepted-foundation.md:19` calls connection budgets
  configuration invariants. Pool sizes like these are not sensible; the check
  exists to refuse settings that are not.
- `orgscope`: a principal whose memberships name no site has a nil `SiteIDs`.
  pgx sends a nil slice as NULL, so `cardinality($3) = 0 OR id = ANY($3)`
  (`site_reader.go:30`) is NULL and no row is returned: a member of an
  organization as a whole gets 404 for each of its sites.
  `authorization_test.go:97` says "organization-scoped membership should access
  its organization sites". `CanAccessSite` itself agrees with the test; the
  query in front of it does not.

Observed, without a run:

- A second instance of a role exceeds the connection budget as soon as its pool
  opens: `Validate` counts one API and one worker (`config.go:114`). So can the
  backends that PostgreSQL keeps for a while after a process has died, which the
  model frees at once: `WithinBudget` is about the pools of live processes.
- A job's idempotency key protects it until River deletes the finished row
  (`client.go:128`); the same key is a new job after that.
- A membership for one site, added to one for the whole organization, narrows
  what the person sees (`repository.go:118`): the empty list that meant every
  site now names one.
- Permissions are merged over the memberships of all organizations
  (`repository.go:121`).
- `Matches` does not look at the delegator's own authority
  (`authorization.go:82`).
- `HandleError` cancels a job whose context was cancelled by the shutdown
  (`client.go:67`) instead of leaving it to be retried. Today's only worker
  ignores its context, so nothing is lost yet.
- The error of closing `SHA256SUMS` is dropped (`tools/package/main.go:366`);
  a run then reports success with lines missing. `SuccessVerifies` says that
  every line that is left verifies, and that none is missing otherwise.
- Two packagings of one version at a time can both pass `os.Stat`
  (`tools/package/main.go:83`) and write into one directory.
- A `skawld_app` that is created after the foundation was applied gets no
  privileges, and no later `up` grants them (`00001_foundation.sql:149`).

## Proofs

`OrganizationCreateProofs` proves, for any set of requests, principals, keys,
names and any pool size: `TypeCorrect`, `Invariance`, `KeysAlwaysComplete`,
`ExactlyOncePerKey`, `InProgressUnreachable`, `SameAnswerAlways`, `AnswersFit`,
`ConflictsJustified`, `StoredIsValid`, and `Refinement`: `Spec` implies the
abstract specification.

None of the properties is inductive: that the tables are consistent after a
commit depends on what the committing transaction holds, which depends on every
statement before it. The invariant `IInv` therefore follows the statements:

- `RequestInv`: a request past `Receive` is valid;
- `TxInv`: what the transaction holds at each statement, exactly, and that an
  outcome read from a row still agrees with the row at commit (rows of
  `idempotency_keys` are never changed once committed);
- `KeyExclusion`: a key held by an open transaction is held by no other and is
  not committed;
- `TablesInv`: the four tables are the effects of one set of finished, valid
  requests with distinct keys;
- `ReplyInv`: every answer is a refusal, an internal error, or follows from the
  committed row.

`KeyExclusion` is what the unique index gives and what makes `Publish` keep
`TablesInv`; `TablesInv` gives `KeysComplete` and `ExactlyOnce`; `ReplyInv` the
rest. The refinement maps a commit of a creating transaction to `Create`, a
commit or rollback after reading the row to `Consult` (a rollback also when its
connection is lost and only the answer remains), an error to `GiveUp`, and
everything else to a stutter.

`DeploymentProofs` proves `BudgetKept`: with one process per role
(`OnePerRole`), `WithinBudget` holds for every integer range and every
environment in which no number and no sum wraps (`Representable`), by the
invariant that no pool exceeds its size, that `backends` is the sum of the pools
and that the sizes fit the budget as soon as one process is past `Load`. With
the `overflow` run this says that wraparound is the only way for the pools of
such a deployment to exceed the budget; backends of dead processes are not
counted.

`MigrationProofs` proves `MigrationTypes`, `UpIsCurrent` and `PrivilegesComplete`
for any number of runs, River migrations and failures. The invariant adds to
them what a run may rely on from the statements before: tables and goose's
version are committed together, a run that has come to River has seen version 1,
the River migration it means to apply is at most one ahead of River's version,
and the privileges on River's tables are those of the migrations so far
(`ProgressInv`, `PrivilegeInv`).

`JobsProofs` proves `JobTypes`, `JobsAreUnique` and `AttemptsAreUsed` for any
number of workers, jobs, keys and faults. `ExecutionInv` says that a job in some
worker's hands is running in the table and in no other worker's hands;
`AttemptInv` that every attempt that has begun is under way, has settled the job,
or is counted as failed, which is what makes the attempts of a discarded job
failures. A row that is deleted is in nobody's hands (`CleanStep`).

`AuthenticationProofs` proves `AuthTypes`, `LoginGivesOneSession`,
`BrowsersHoldTheirOwn`, `SessionsAreAuthenticated` and `StaleSessionsAreRefused`
for any number of requests, browsers and users, any lifetimes and any length of
time. The properties speak of sessions and answers; what makes them true is
what a handler has established some statements earlier, while the others ran.
`AuthInv` says it:

- `KindInv`, `ResponseInv`: which endpoint a handler serves at each statement,
  and that an answer sets only cookies of that handler's own making;
- `CallbackInv`: a callback past the cookie check completes a login of its own
  browser (`OwnLogin`), with a code the provider issued, and past the nonce check
  with the code of that very login (`OwnCode`);
- `AdmissionInv`: a request waiting for `PrincipalForSession` carries a token
  that has a session, and if that session is admissible now it was so when the
  request was sent;
- `SessionInv`: a session is of a callback that has finished, one per token, for
  the user of the login's code, whose row exists;
- `FlowInv`: whoever has consumed a flow, or left a session, has left no row of
  `auth_flows` behind and shares the login with nobody;
- `JarInv`: cookies are of logins and callbacks of the same browser, and a
  session cookie has a session.

Steps of one handler leave what the others have established alone because things
only grow (`Grows`): codes, logins and sessions are not taken back, tokens are
not reused, time does not run backwards, and a principal that has a row is never
reactivated, since the upsert of `ResolvePrincipal` leaves the status alone. That is
the argument for `StaleSessionRefused`: a session that is bad stays bad.

`SiteAccessProofs` proves `AccessTypes`, `AccessIsGranted` and
`SiteScopeIsHonoured` for any number of requests, people, organizations, sites
and changes. The invariant says that the principal a handler works with was
assembled from *some* set of rows between `kept` and `held` (`ResolvedInv`); the
rows of the moment of the answer may be others. `ReadableMeans` reduces the
query with its three-valued logic and the encoding of the empty list to what it
decides.

`ApprovalProofs` proves `HandOverIsExact`, `LimitsRestrict` and
`ApprovalNeedsBoth` for any rows, scopes, spellings, risks and times. They need
little induction (rows are well typed, and revoked or not); the arguments are
about `Matches`, field by field.

`ReleaseProofs` proves `ReleaseTypes`, `ListedStaysIntact`, `SuccessIsComplete`,
`SuccessIsVerifiable` and `ReleasesStay` for any targets, commits, numbers of runs,
failures and kills, under the hypothesis `OneShell` that the tool is not run
twice at once; without it the properties are false (see the findings).
`DirInv` says that a run finds an empty directory when it begins to build,
`LoopInv` how many archives and lines are done at each step, `ExitInv` what a
success has left (all archives, and the lines but for those lost on closing), and `ReleasedInv` that a release is there in full, which is
why a run that finds no directory cannot be about to replace one.

The assumptions are the named `ASSUME`s of the modules: trimming is idempotent,
the hash is injective on names, `Null` is not a value (not a list of sites, not
an answer, not an archive or a manifest), the marks for a cleared and a kept
cookie are not cookie values, targets are distinct, the pool has at least one
connection, the integer type holds the defaults, bounds are natural numbers.
Every run evaluates those of its module.

Every invariant of a passing run is proved. Only model-checked is liveness
(`EveryRequestEnds`, `SignalEnds`, `EveryJobSettles`, `UpConverges`,
`CleanSucceeds`), which is out of the prover's reach.

## Not modelled

`safeReturnTo`, cookie attributes and headers, response wording, logging, the
health endpoints, and the display name and e-mail of a principal: no decision
depends on them. The strings in which durations are passed to PostgreSQL, which
need its parser. The four queues without a worker. The Down section of the
migration, which no command runs. Object store, clock, ids, build info, the
skawld boundary and the source-of-truth enumeration are interfaces, constants or
one-line predicates without state.

## Plan

1. Done: every component that keeps state, with its fault model, liveness where
   the code promises progress, and the proofs listed above.
2. Done: a proof of every invariant the runs check.
3. Next: what holds in spite of the findings, as `BudgetKept` does for
   `overflow`: a logout whose UPDATE took effect has revoked its session, and a
   member of an organization as a whole is served by `CanAccessSite` itself; what
   remains true of packagings that meet.
4. When the code grows: the endpoints that call `CanApprove`, workers for the
   other queues (and with them what a shutdown does to a job that honours its
   context), deletion of expired flows and sessions.
