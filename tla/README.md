# OpenRedius in TLA+

OpenRedius is an admission-control console for 802.1X networks. A FastAPI
backend keeps users, policies and devices in PostgreSQL (schema `public`), compiles
them into the tables FreeRADIUS reads (schema `radius`), watches the
authentication log, and talks to network devices (CoA) and Active Directory. A React
console (`src/`) shows and edits all of it. The repository also carries the extensions of the
coding agent its developers use (`.pi/extensions/`). This directory models it in TLA+, checks the models with TLC and proves what
can be proved with TLAPS. Paths below are relative to
`backend/src/openredius/` unless they start with `docs/`, `deploy/`, `.pi/` or `src/`.

## 1. Inventory

How the backend runs: one process, one event loop. Every request and every job has
its own database session (`core/db.py`, `jobs/scheduler.py`) and commits once, at
its end; everything before that is lost if the handler raises or the process dies.
The loop switches at every `await`, that is at every SQL statement, so requests and
jobs interleave statement by statement at PostgreSQL's default isolation, READ
COMMITTED. There is no lock in the code, no version column, and no `SELECT ... FOR
UPDATE`.

How the console runs: one browser tab is one single-threaded client with its tokens in
memory, a copy of them in `localStorage` that all tabs share, and one mounted page. A page is a component with
its state; it sends calls from clicks, effects and timers, and what it does with an answer
is a continuation that runs whenever the answer comes. Nothing orders the answers, and only where an
effect has a cleanup is a late one dropped.

How the agent's extensions run: handlers of events in one Node process, each of which runs to its next
`await`; a subagent is a child process; the session file outlives the process.

| Component | State | Operations | What is hard | What makes it correct |
|---|---|---|---|---|
| Policy compiler `radius/compiler.py` | five radius tables | `compile_all`, called by nearly every write | overlapping compiles, stale objects of the session, rows without a key, pattern of ownership | rows = function of the tables; rows of others kept; rejected iff not active |
| Access users `api/users.py` | `access_user` | enable, disable, assign | lost updates, stale reads | status machine of docs/02; only the column meant changes |
| Policies `api/policies.py` | `policy_group` | create, update, toggle, reorder, delete | unique slug, delete in use, reorder against create | no trace of a former name; no user loses its policy |
| Lockout sweeper `services/alerts.py` | `access_user`, `radpostauth` | every 60 s: unlock, lock, compile | check then write across awaits; failures still in the window | locks end; disabled stays disabled |
| AD sync `ldap_sync/sync.py` | `access_user`, `ad_sync_job` | manual and cron sync | watermark, incremental listing, two syncs at once, failure half way | mirrors the directory; never resurrects |
| FreeRADIUS `deploy/freeradius` | none (reads both schemas, writes the log) | authorize, post-auth | live tables against compiled rows | decides what the console shows |
| Admin authentication `services/auth.py`, `api/auth.py` | `admin_user`, `revoked_refresh_token`, limiter | login, refresh, logout, password | rotation under concurrency, counters read-modify-write | refresh token single use; lockout after N failures |
| Admin accounts `api/admins.py`, `services/bootstrap.py` | `admin_user` | create, update, delete, bootstrap | write skew | an active admin remains |
| Sessions and CoA `api/sessions.py`, `radius/coa.py` | `radacct` | disconnect, reauthorize | lost ACK, retry, late stop record, crash before the commit | outcome reported = outcome on the device |
| NAS registry and reload `api/devices.py`, `api/ops.py`, `deploy/freeradius/entrypoint.sh` | `nas_device`, `radius.nas`, two marker files | write, request reload, watch, apply | epoch seconds as identity, marker before load | "applied" means the client list was read after the request |
| Endpoints and compliance `api/devices.py`, `services/alerts.py` | `endpoint` | register, revoke, whitelist, `cert_scan` | scan against requests | revoked stays bad |
| Alerts, settings, audit `services/alerts.py`, `api/settings.py`, `services/audit.py` | `alert_event`, `alert_rule`, `system_setting`, `audit_log` | emit, mute, retention, switch | de-duplication, one-shot transitions | an alert is raised once, not never |
| Front-end client `src/api/http.ts`, `auth.ts`, `AuthGuard.tsx`, `Login.tsx` | tokens in memory and localStorage | request, refresh and repeat, login, logout, reload | concurrent 401s, tabs that share a pair, refresh against logout | no call twice; what is stored is unspent; calls end |
| Front-end pages `src/pages` | component state, open calls, timers | filter, open, switch, move, save, delete, tick | answers out of order, refusals, lost calls, optimistic switches, stale ids | rows answer the filter; what is shown is what is stored; no page waits for ever |
| Agent extensions `.pi/extensions/subagent`, `plan-mode`, `questionnaire.ts` | a pool of child processes; mode, tools and steps; tabs and answers | run, chain, abort; toggle, plan, execute, resume; keys | abort between awaits, children that die, dialogs overtaken by commands, resume after a crash | each task once, none left behind; tools follow the mode; answers complete |
| Other agent extensions | a flag or a counter each | - | - | not modelled: one handler reads and writes it |
| Reports, dashboard, logs, exports, portal (backend) | none | reads | - | not modelled: they change no state |
| Mock data, routes, deployment, tooling | none | - | - | not modelled |

`PROJECT.json` lists every component with its status and every hazard at the line
where it bites.

## 2. Modules

```
PolicyCompiler            compile_all as an operator; what FreeRADIUS makes of the rows
  |-- Admission           abstract: tables, rows, and the promise between them
  |-- AccessControl       each request and job as one transaction
  |     |-- AccessControlProofs
  |     `-- MCAccessControl      AccessPolicies, AccessLockout
  `-- CompileTxn          the same transactions, statement by statement
        |-- CompileTxnProofs
        `-- MCCompileTxn         TxnOverlap, TxnDeadlock, TxnDisabled
DirectorySync             AD sync against a directory that changes: SyncLeavers, SyncIncremental
  `-- DirectorySyncProofs
AdminAuth                 the console's own accounts, logins and tokens
  |-- AdminAuthProofs
  `-- MCAdminAuth              AdminOverlap
NasReload                 devices, their clients in radius.nas, and radiusd's reload
  |-- NasReloadProofs
  `-- MCNasReload              NasReload
ClientAuth                the console's tokens and calls: ClientAuth
  `-- ClientAuthProofs
PageFrame                 a mounted page, its open calls, the service behind it
  |-- SessionsPage, UsersPage, PoliciesPage, DevicesPage,
  |   LogPages, OverviewPages, SettingsPage      what each page does
  `-- Console             all of them, one mounted: Console
        `-- ConsoleProofs
Subagent, PlanMode, Questionnaire               the agent's extensions
  `-- Agent               one of them at a time: Agent
        `-- AgentProofs
```

**PolicyCompiler** has no variables. `DesiredRows(users, policies)` is what
`compile_all` wants (its three parts: `GroupRows`, `MemberRows`, `RejectRows`);
`Compiled(rows, users, policies)` is what it leaves of the rows it finds:
`SyncRows` with the rows its queries match. Two ownership predicates are kept
apart because the code keeps them apart: `Owned` are the rows it writes, `Matched`
those its `LIKE 'policy_%'` and attribute lists read back. `IsRejected`,
`DenyReasons`, `GrantedProfiles` are FreeRADIUS's reading of the rows for one
account. Data is abstracted to what matters here: a `Profile` is the attribute set of a
policy, a slug is its group's name, a lock deadline is the number of ticks left.
Three reply attributes that depend on the status alone are one row. Rows are a
set: the radius tables have no unique key, but deletes are by value.

**AccessControl** has the variables `users`, `policies` (the two tables), `rows` (the radius
schema) and `fails` (bare rejects per account by age, i.e. `radpostauth` inside the
window). One action per endpoint or job: `EnableUsers`, `DisableUsers`,
`AssignPolicy`, `CreatePolicy`, `UpdatePolicy`, `TogglePolicy`, `ReorderPolicies`,
`DeletePolicy`, `OpsCompile`, `Sweep`, `AdSync`; and `BareReject` (a wrong password
at FreeRADIUS) and `Tick`. Each contains its recompile, as the handler does.
`Sweep` compiles after the unlock half and again after the lock half. `AdSync` takes
any listing: which accounts the directory returns is its input, so whatever the filter
does is covered; DirectorySync judges what is returned.

**Admission** is what a reader of docs/02 and of the compiler's comment expects: the
rows always are the compiled tables, rows of others stay, the status moves along the
state machine. `AccessControl!ImplementsAdmission` is the refinement, by the identity
mapping.

**CompileTxn** takes apart what AccessControl does in one step. `users`, `policies`
and `stored` hold what is committed; `sess[t]` is a session: where it is in its
handler, the objects it holds (`cache`, `pcache`), the row versions it has written and
so locked (`mine`, `pmine`), what its compile has read and has to do, and the rows
it deleted and inserted (`dead`, `born`). A statement is one action. The rules of
the database are stated as such (a SELECT sees committed rows and its own; an UPDATE or DELETE
waits for the holder of the row and then applies to the new version; one of a cycle
of waiters is aborted), and those of the ORM (an object once held is not refreshed; an
UPDATE sets the columns that differ from the value loaded). `Crash` loses every open
session. Its transactions are enable, disable, assign, toggle, compile and sweep;
the radius row of an insert carries its inserter, for two sessions can insert equal
rows.

**DirectorySync** looks at the other side of `AdSync`. `directory` holds the entries
with their `whenChanged`, `users` whether a user is disabled, `watermark` the finish time of
the last successful job; `sess[t]` is one sync: `Start` (the job row, the watermark), `Search`
or `SearchFails` (the LDAP search, an await of any length), `ReadUsers` (the SELECT of the AD
users, which decides what the loops do), `Insert`, `Disable` or `Duplicate` per user (each
flushed by its audit row, so each may wait for another session), `Finish` (`finished_at`),
`Commit`; `Victim` is PostgreSQL's deadlock detector. A refused search is answered with no entries, as ldap3 does
without `raise_exceptions`. `Join` and `Leave` change the directory at any time, operators
enable and disable. It stands alone: the rows a sync compiles are AccessControl's
subject. A user is disabled or not, because a sync treats a locked user like an active one.

**AdminAuth** holds `rows` (`admin_user`), the token `pairs` issued, `revoked`
(`revoked_refresh_token`) and `req`, the open requests. A request is `Begin...` or
`Validate` (what it reads before its first wait), its further reads (`ReadAdmin`, `Look`,
`ReadTarget`, `GuardLastAdmin`) and one step that writes and commits (`LoginSucceeds`,
`LoginFails`, `Rotate`, `Logout`, `Update`, `Delete`; `Create` is a single INSERT). A failed login commits
too: its handler catches the error to keep the counter. `Save` is the ORM: an UPDATE of the
columns that differ from what was read, which is how two requests undo each other.
`Restart` ends all requests and runs the bootstrap. A pair stands for both of its tokens:
they carry the same claims. History variables and fields (`under`, `from`, `fresh`, `lost`, `guesses`,
`late`) say what the properties need to remember and guard nothing: `lost` are the columns of which a commit overwrote
what it had not read, `guesses` the times of the failures since the last login, `late` the administrators of whom a failure
was counted on top of a count that had ended since it was read. An auditor is
an operator here, for only the role admin matters to these endpoints.

**NasReload** has two halves. `devices` and `clients` are `nas_device` and `radius.nas`;
`req` holds the open requests, each of which reads its device (`BeginUpdate`, `BeginDelete`), looks for
a clash (`CheckUnique`) and writes and commits in one step (`Create`, `Update`, `Delete`), with
the address and the secret it has read. The other half is the reload: `RequestReload` writes the second into
`requested`, `sup` is the shell loop of the container (`SeeRequest`, `Start`, `Mark`,
`RestartCrashed`), which ends in the file `applied`, for which the request polls (`Answer`).
radiusd is "starting" until it reads the list (`Load`); `version` counts the commits, so `loaded` is
the list it knows. `Crash` and `RestartContainer` come between any two steps of the loop. History:
`fresh` and `tangled` (a write was committed over another), `restarted`, `twin` and `asked`.
A request that gives up waiting answers "not confirmed yet", which is `Abort`.

**ClientAuth** is the client of the tokens whose server is AdminAuth. A pair of tokens is a number. `mem[t]` is what tab
`t` holds, `store` is `localStorage`, `call[c]` an open call: `Start`, `Serve`, then by its answer `Receive`, or
`Renew` (which presents the refresh token that the tab holds by now), `ServeRefresh`, `Resend`. Tabs
read `store` only at `Reload`, as `main.tsx` does, and the guard of the routes looks at the tokens only
when it renders (`Navigate`). The service is no more than which tokens it takes; that one
refresh token is taken once is AdminAuth's promise for refreshes that do not overlap. `Lose` loses a request or
an answer; `dropped` remembers that a lost answer carried a pair, and `applied` how often a call was carried out.

**PageFrame** is what the pages share. `ui` is the state of the mounted component, `calls` the calls it
has open in the order sent, `db` the rows of the service the page shows. `Answered` and `Refuse` are the service,
`Lose` the network, `Change` somebody else. An answer is received in any order. A call that an effect's cleanup
has cancelled is dropped (`Cancel`; an effect has one call open at most), because its continuation then does nothing; a call without a
cleanup stays open and its answer is taken. A table has `Size` rows, and a filter keeps all or one of them. `SetView`, `Refetch` and `ReceiveRows` are the filter bar that Sessions, Users and
AuthLogs share, with the effect on `view` that loads again without a filter.

**SessionsPage**, **UsersPage**, **PoliciesPage**, **DevicesPage** (its two tabs are two pages here), **LogPages** (authentication
and audit logs), **OverviewPages** (dashboard and reports) and **SettingsPage** (with the list of administrators) give each page its state
(`...UI`), what the service does for its calls (`Serve...`), its clicks and its continuations (`Receive...`). Text
fields are inputs of the click that uses them. **Console** mounts one page and adds timers and the changes of others.
Two history variables say which of the code's own habits excuse a property: `parted` is set where the
code shows rows that it knows not to be the filter's (the interval and the effect fetch every row, `retry` on two pages fetches
nothing, some late answers are not dropped) and, on the settings' page, where a switch or a rule stays as it was put although it could
not be saved; `marred` where the page cannot know or does not look (an answer or a listing lost, changes sent while a call is
open, crossing listings, changes elsewhere, a fetched secret whose device is changed). They guard nothing. FilterHolds and EditorAgrees list every
case in their comments; what falls under them is not caught.

**Subagent** is one call of the tool. `task[i]` is where `runSingleAgent` is for task `i` (`mkdtemp`,
`write`, `up`, `ended`, `thrown`), its child, its prompt file and its outcome; `free` counts the workers of
`mapWithConcurrencyLimit` at the head of their loop. `Claim` takes the next task, `MakeDir` and `WritePrompt` are the two
awaits before the child is spawned, `Message` and `Close` the child's output and end, `Abort` the user. A single call and a
chain are the pool with one worker.

**PlanMode** separates the closure's memory from the session file (`entry`, the last persisted state; `since`, the steps
reported after the last execute message). `Restart` is a crash or a quit and a resume at any time. The dialogs of `agent_end` are states (`asks`), and
`/plan` works in them. `mine` remembers which steps this execution reported, `lost` that the process died before
the execute message was in the file.

**Questionnaire** is the dialog: `tab`, `option`, `input` and `answers`, one action per key. Ids may repeat and a question may have no option, since the
schema forbids neither. **Agent** runs one of the three; they share no state.

## 3. Runs

| Run | Instance | Checks | Shows |
|---|---|---|---|
| AccessPolicies | 2 accounts (one local), 2 policies, 2 slugs, 2 profiles (one with flags), threshold, window and lock of one tick; symmetry over slugs and policies | TypeOK, OnlyActiveAdmitted, OwnPolicyOnly, ForeignRowsKept, AssignmentSurvives, ImplementsAdmission | whatever the order of whole transactions, FreeRADIUS decides what the tables say |
| AccessLockout | 2 accounts (one local with the bootstrap administrator's name), no policies; 2 failures in 2 ticks lock for 3 | DisabledNeedsEnable, LockIsReleased (fair) | locks end, also for an owner who keeps trying; disabled accounts stay |
| TxnOverlap | 2 sessions, 3 transactions of every kind, 1 account, 1 policy, all five tables, crashes | TypeOK, QuietCommitImplements | a transaction nobody commits into does what AccessControl says, and repairs what overlaps left |
| TxnDeadlock | 2 sessions, 2 active accounts of 1 policy, every kind, all five tables | TransactionsEnd (fair) | waits for accounts and for rows of the group end, cycles of either included |
| TxnDisabled | disable and a sweep of one account | DisabledStays, **violated** | a disabled account turned into a locked one |
| SyncLeavers | cron and one manual sync, 2 AD accounts and a local one, 1 directory change, 2 times, refused and failed searches | TypeOK, LeaversAreDisabled, LeaversAreFound (fair) | whoever has left is disabled by every sync that commits, and at some time |
| SyncIncremental | cron, 1 AD account that does not change | OnlyLeaversAreDisabled, **violated** | the second sync disables a user the directory still has |
| AdminOverlap | 2 administrators (one locked before) and an id for a third, linked one; 3 requests of any kind, 2 at a time; 2 failures lock | TypeOK, PasswordEndsTokens, ReuseBounded, GuessesBounded, ActiveAdminKept, LockStands | what overlap cannot break: tokens die with the password, a refresh token yields no more pairs than requests overlap, a lock in force is touched only by a login under way when it came, the last administrator stays unless two changes overlap |
| NasReload | 1 device and an id for a second, 2 addresses, 2 secrets; 3 requests of any kind, 2 at a time; 3 seconds; 1 crash | TypeOK, RegistryMatches, WriteRepairs, ReloadTakesEffect (fair) | the client list follows the devices, and what was written before a request is read in the end |
| ClientAuth | 2 tabs with one stored pair, 3 calls, 2 at a time, 1 expired access token, 1 lost message or reload | AppliedOnce, StoreIsUnspent, CallsEnd (fair) | no call is carried out twice, whatever is refused and repeated; the stored refresh token is not one the service has taken, unless its successor is on its way or was lost (after a change of the password it may be refused all the same); every call ends |
| Console | 11 pages, tables of 2 rows, a filter for all and one for the first; 3 calls open, 3 clicks, 1 lost call, 1 change elsewhere | TypeOK, FilterHolds, EditorAgrees, BusyAwaits, PageSettles (fair), RefreshConverges (fair) | rows answer the filter and edits agree with the service but for the habits named; whatever is busy has its call open, and no page waits for ever; the sessions' page becomes current in every view |
| Agent | up to 4 parallel tasks on 2 workers or a chain of up to 5; plans of up to 3 steps; up to 3 questions of up to 2 options | TypeOK, PoolIsExact, AbortReachesAll, ToolsFollowMode, ProgressIsReal, AnswersComplete, AbortEnds (fair) | each task once and none left behind; an abort reaches every child; mode, tools and progress agree over restarts; a submitted questionnaire is complete |

Bounds, and why they are enough. AccessControl is finite without a step bound:
deadlines and the log are counted in ticks that saturate (`LockTicks`, `Window`,
`Threshold`). Two policies and two slugs suffice for renames that swap, collide
or reuse a name; two accounts for requests over several, one of which refuses all;
lock 3 > window 2 makes the old failures leave the window before the lock ends, and
AccessPolicies has lock = window, where they do not. In CompileTxn `MaxRuns` bounds
the transactions begun: two overlap and a third follows, overlaps with either, or finds what
they left. A state is checked when it is reached, so three transactions
show every anomaly of a pair and its repair; anomalies that need three at
once are outside. TxnOverlap has one account, so only one row lock; TxnDeadlock
has two, both with a row of one policy's group when it starts, so that two sessions wait for each other's account locks, or for
each other's deletes of those rows (both cycles are reached; one of an account lock and a delete is not, as an open session has all its account locks before it deletes). A tick passes only
when no transaction is open: a transaction takes milliseconds, the shortest of
the times minutes. In DirectorySync the clock has two values (before and at the watermark,
which is all the filter can tell apart), syncs by cron are unbounded, and one manual sync overlaps them;
every directory of enabled accounts is an initial state, so one change is a leaver, a
joiner or a clash with a local account; two accounts are needed for row locks taken
in opposite orders. The bootstrap administrator's name is no account of these instances.
In AdminAuth `MaxRequests` bounds the requests begun (creates included) and `MaxTime` the clock. Two requests overlap and a
third comes before, between or after them: that is enough for a token that is issued,
outlived by a password and presented, for a lock and what writes over it, and for the
windows of failures (`Window` 1, `Duration` 2, so a lock outlives its window). An account's
id is never given twice, so a third id is what a created or bootstrapped administrator needs.

In NasReload the two addresses and ids let a device take the address another one has left; three requests are two writes and a reload, or
a write between two reloads, with the last request of a second, of the next and of one after (`MaxTime` 2); a crash is one of
radiusd or of its container.

In ClientAuth two calls meet a 401 together, in one tab or in two, and a third is a login, a logout or a change of the password that comes
between; one expiry and the old version give each of them a reason to be refused. In Console `MaxCalls` 3 is two reads in either order and a change or a tick;
three clicks are a change of filter, an edit and another one that overtakes it; clicks that only close something are not counted, ticks need
room for a call. One lost call per behaviour, because a second one meets the same continuation. Two rows let a switch, a move and a deletion
hit the row that another click is about. In Agent 4 tasks on 2 workers means that both workers take a second task, after or before an abort (8 on 4 in
the code; the proofs hold for any); a plan has 3 steps so that the reported ones can lie before, after and between the others.

Fairness. AccessControl: `WF(Sweep)` because the scheduler runs it at a fixed
interval and its errors never stop the scheduler (`jobs/scheduler.py`, `_run`), and
`WF(Tick)`; no request, reject or directory change is fair. CompileTxn:
`WF(Proceed(t))`: the loop resumes a session whose statement has been answered;
requests need not come. DirectorySync: `WF(Start(Cron))` (the scheduler), `WF(Proceed(t))`,
and `SF(Answer(Cron))`: the directory may fail to answer again and again, but not for ever.
Manual syncs are finitely many (`MaxManual`): an operator who starts one after the other can keep
taking a row before cron does. NasReload: `WF(Supervisor)`, the shell loop, and `WF(Load)`, for
radiusd reads the list when it starts; no request need come, end or be answered. Crashes are finitely many. ClientAuth: each open call goes on, for the service answers or the network
reports that it did not, and the browser runs the continuation; nobody has to press anything. Console: the same for the oldest call, and the timers that the code
sets and clears nowhere but at unmount; at most 3 calls are open, so the oldest suffices. Agent: `Claim`, `MakeDir`, `WritePrompt` and `Return` because the promises
are resolved, and `CloseTold`, that a child ends once it was told to: without it `AbortEnds` would not hold, since SIGKILL
is never sent (see below). Models, users and plan mode promise nothing.

Every property checked is either violated by the
code as it is (a finding) or has a mutant: a variant of one mapped definition, defined just
before it, with a plausible error that the run detects.

## 4. What was found

* **TxnDisabled** - the sweeper's status check and its write are separate statements:
  a disable between them is overwritten by `locked`, which the sweeper ends
  by itself after the deadline.

* **SyncIncremental** - after the first success a search lists only entries changed since, and
  the loop over users not listed disables all others, though the docstring reserves that for
  accounts that no longer appear in AD. Nothing in the code enables them again.

Noted without a run, for the compiler: `startswith("policy_")` without escaping is `LIKE 'policy_%'`, and `_` is a wildcard, so rows of a hand-made group `policy-guests` are read as
the compiler's own and deleted, though the module comment promises that rows of others are never touched; an assignment that loaded the account before
a disable committed compiles with the status it holds and deletes the Reject row that the disable inserted, and FreeRADIUS admits the account until the next recompile
(docs/02 promises the row whenever the status is not active).

Noted without a run, for the administrators: two refreshes with one token that overlap can both yield a pair, though a comment and a test call it single-use
(`ReuseBounded` says how many); two demotions that overlap leave no active administrator, and two deletions
that overlap can empty the table, after which the next start bootstraps again; of two
password changes that overlap one bump of the version is lost, so that a token issued
between them stays good; the window of failures starts with its first one and does not
slide, so up to `2 * MaxFails - 2` of them fit in a stretch as long as the window
(`GuessesBounded`); logins that overlap count for one, and one that read the count before a success or a lock ended
it is counted on top of the old count: with five that overlap, five guesses fit where `2 * MaxFails - 2` is four, so the
property excepts both (`lost`, `late`); a new password does not end a lock; disabling an account does not bump the
version, so its tokens are good again when it is enabled.

Noted without a run: a change between a search and the finish of its job is before the next
watermark, so a joiner may never be listed; a duplicate account breaks the session, so the
`except` branch that should record the failed job fails as well; docs/02 speaks of consecutive failures, the sweeper counts those in the
window whatever came between; docs/02 draws `disabled --> active` for a user
restored in AD, and no code does it (`DisabledNeedsEnable` shows that only an
administrator's enable does); with enough overlapping enables and sweeps a locked account can
lose its deadline, which needs more transactions than `MaxRuns` here.

Noted without a run, for the devices: two overlapping updates of one device, or an update and a
delete, leave the client of an address that no device has, or the old secret, in `radius.nas`
(each removes the address it has read; the comment at `api/devices.py:205` means to prevent orphans), until the
device is next updated (`WriteRepairs`; an orphan stays). A reload asked for in a second that
the supervisor has read already is answered as applied at once and restarts nothing, so a write between
two such requests is not read (`twin`). "FreeRADIUS re-read the NAS client list" (`api/ops.py:120`) is said when
radiusd was started, which may be before it reads the list. An update may rename a device in use, which delete refuses.

Noted without a run, for the console: `logout()` posts no body, the endpoint requires a refresh token in it and answers 422, so nothing is revoked on the
server (docs/08-security.md:35 says that a refresh token is in the revocation table after a logout); `logout` is not awaited, so its `finally` can
clear tokens that a login has just stored, and a refresh that is answered after it stores its pair again; of two calls of one tab that
renew together the second presents a spent token and shows its first 401. A filter of the sessions is undone by the next tick and by the effect that loads
again without it, there and on Users and AuthLogs; `retry` of Sessions and AuthLogs shows the rows there were as if
fetched. Sessions takes the rows of a failed disconnect off the page until the next tick; Settings does not turn a switch or a rule back when the save is refused (the next save does not send that switch, but it stays as it was put on the page); the
drawer of a policy that somebody else deletes throws (`CrashNeedsStaleEdit`).

Noted without a run, for the agent's extensions: Node sets `proc.killed` when a signal was sent, not when the process ended, so the SIGKILL after five seconds is
never sent and a child that ignores SIGTERM keeps an aborted call waiting; a child that a signal killed counts as exit code 0; a directory whose prompt could not be
written stays; a chain's view goes by the exit code alone. `--plan` is ignored when a session with an entry is resumed. A process that dies after the plan was persisted as executing
and before the execute message was written takes the steps that a former plan reported for its own (`lost`). A questionnaire with a
question without options throws on Enter, and questions with one id share an answer.

## 5. What is proved

**`AccessControlProofs`** holds for any sets of accounts, policies (finite), slugs, profiles and seeded rows and any positive
`Threshold`, `Window`, `LockTicks`. Assumptions: those named in PolicyCompiler and
AccessControl: NULL is none of the values it stands beside, flagged profiles are
profiles, look-alike names are not slugs, times and the threshold are positive, seeded rows are not of the
kind the compiler writes. TLC evaluates all of them.

* `TypeCorrect`: TypeOK.
* `Invariance`: the inductive invariant `IInv`, which is TypeOK with
  - `RowsInv`: the owned rows are the desired rows. OnlyActiveAdmitted and
    OwnPolicyOnly say what is read from the rows; a step's effect on them can only be
    derived from all owned rows being as desired;
  - `SlugsUnique`: no two policies share a slug. Without it two policies write one
    group and OwnPolicyOnly fails; it is `SlugFree` that keeps it, in create and update;
  - `LockHasDeadline`.
* `RejectFollowsStatus`, `PolicyFollowsAssignment`, `LocksCarryDeadline`: the three
  invariants, from `IInv` by lemmas about the operators (`DesiredOwned`: what
  is desired is owned; `CompiledRows`: what a recompile leaves; `DesiredSame`: what the
  desired rows depend on; `RowsDecide`, `RowsGrant`: what FreeRADIUS reads).
* `ForeignRowsUntouched`, `PolicySurvives`, `DisabledStays`: the action properties.
* `Implementation`: AccessControl implements Admission: `IInv` gives consistency
  before and after, `RowsStepHolds` the foreign rows, `MoveStep` the status machine.

The step lemmas have one case per action.

**`CompileTxnProofs`** holds for any accounts, policies, slugs, profiles, kinds of transactions, number of sessions and order of the tables. Assumptions:
those of PolicyCompiler, that the tables at the start are tables and seeded rows none that the compiler matches (`TxnAssumption`), and that a
compile goes through the five tables, of which an instance without policies may leave out the three of policies (`TablesAssumption`).

* `Inductive`: the invariant `IInv`. QuietCommitImplements speaks of the commit alone and of a session that nobody has committed into since its first
  read; that it has then done what AccessControl does in one step is the sum of its statements. `Place` says what a session is about and that it deletes and
  inserts only rows of the compiler. For a quiet session, `Holds` says that its objects are the rows it would leave (`Left`), and `Compiling` how far the radius rows it would leave
  have come: what it has read, what is left to do, and, where it is `Settled`, that they are the compiled ones. Nothing is said of a session that is
  not quiet, nor of the rows that one leaves behind. `Exclusive`: no two sessions delete the same copy of a row, or one
  that commits would take a row from under another.
* `TypeCorrect`: TypeOK. `QuietCommits`: QuietCommitImplements, which is the refinement of Admission for these steps; overlapped
  ones need not be, as TxnDisabled shows.

**`DirectorySyncProofs`** holds for any accounts, number of manual syncs and bounds. Assumptions: cron's session is none of the manual ones, local accounts
are accounts, the bounds are numbers, NULL is none of the values it stands beside.

* `Inductive`: the invariant `IInv`. LeaversAreDisabled judges a commit. `Sound` follows who had left from the search on: not listed, or listed as disabled
  (`off`), when the users are read; after that, `Covered`: still to be disabled, disabled by this session, disabled in the table or enabled by an operator
  meanwhile. `Exclusive`, that a row lock has one holder, is what keeps another session's commit from undoing a disable that is not yet committed.
* `TypeCorrect`: TypeOK. `LeaversDisabled`: LeaversAreDisabled.

**`AdminAuthProofs`** holds for any number of administrators and requests, any
passwords, times and bounds. Assumptions: ids are given from 1 on, requests at a time are finitely many, the bodies are bodies, NULL is none of
the values it stands beside, a lock outlasts the window, and accounts start without a count of failures (a login has cleared it, a
lock may be there).

* `Inductive`: the invariant `IInv`. A version v of an account and a password belong
  together (`Current`) while the row is gone, has a greater version, has that version and that
  password, or a bump is lost. The invariant says that of every pair (`Good`) and of every
  row a request holds (`Sound`), which is what makes it inductive: a login under way issues a
  pair from the row it read, not from the row there is. Ids beyond `lastId` are unused, or a
  pair could belong to an account created later.
* `TypeCorrect`: TypeOK. `TokensEnd`: PasswordEndsTokens.
* `LocksStand`: LockStands, with `LoginsUnlocked`: a login that goes on had read a row that was not locked when it began, and as long as no lock or success was committed after that
  (it is `fresh`) there is no lock when it commits. So a login that commits over a lock was under way when the lock came; what it may then write is what its own beginning and the row it had read allow.
* `AdminKept`: ActiveAdminKept, with `KnowsInv`: as long as no change was committed after it began, what a change has read of the
  caller's and the target's standing is so, and when it passed the guard another active administrator is there.
* `ReuseIsBounded`: ReuseBounded, with `ReuseInv`: the pairs that come from a token and the refreshes that still hold it are
  together no more than the requests at a time, and only a revoked token has yielded any. So a token that has yielded
  one is not taken by a refresh that begins later.
* `GuessesFew`: GuessesBounded, with `GuessInv`. The bound is of any stretch as long as the window, the code's windows begin with a
  failure; so the invariant cuts the guesses since the last login where the window begins that the row counts (`Anchored`): no more than `fails` come after the
  cut, those before it are no later than `first`, and at most `MaxFails - 2` of them are within a window of it, or that one would have
  locked. A window may also begin with a failure under a lock, which is nobody's guess; then all before it are `Past`, further back
  than a window when the lock ends (`Continued`), as all are while a lock is in force. A login under way has either read the count there is (`Agrees`) or one that somebody
  has continued (`Behind`), in which case its own answer puts the account in `lost`.

`Keeps` is what all steps have in common: what belonged together still does; `SoundKept`
concludes that the requests a step does not touch stay sound.

**`NasReloadProofs`** holds for any finite number of ids, any addresses, secrets and requests, and any bounds.
Assumptions: ids are given from 1 on, the devices at the start have distinct addresses, NULL is none
of the values it stands beside.

* `Inductive`: the invariant `IInv`. RegistryMatches is not inductive alone: that an update removes one client
  and adds one gives a matching list only if no two devices share an address (`Distinct`) and the row it
  has read is the row there is (`Current`, for a request nobody has overtaken). "Applied" is of
  a second: `Answered` says that whatever the file, or a supervisor about to write it, says of a request's
  second or a later one, it says after a restart; a request that is no `twin` starts with a second later
  than all of these, for they are no later than the clock and not equal to it.
* `TypeCorrect`: TypeOK. `RegistryFollows`: RegistryMatches. `RepairsHold`: WriteRepairs.
  `AppliedMeansRestarted`: AppliedIsRestarted.

(AppliedIsRestarted, that a reload is answered as applied only after a restart, is proved and no longer run.)

`ReplacedMatches` is the lemma about one write and the list; `RequestStep`, `StartStep` and `QuietStep` are
what the steps of a kind have in common.

**`AgentProofs`** has one part per extension and one that puts them together. That of the pool holds for any positive limits on tasks and workers:

* `SubInductive`: the invariant `SubIInv`. PoolIsExact speaks of a call that has returned; what leads to it is `Sound` (what is true of a task between two awaits: where it can be, what
  it has on disk, that a child lives only while the task is up, and that it was told if the call was aborted), `Taken` (the tasks begun are exactly those before `nextIndex`),
  `Workers` and `WithinLimit` (free workers and active tasks are no more than the limit, which for a chain makes the active task the only one), `ChainOrder` and `ChainFree`
  (a chain's worker is free only after steps that all ended well) and `Complete`.
* `SubTypeCorrect`: SubTypeOK. `PoolExact`: PoolIsExact. `AbortReaches`: AbortReachesAll.

`Counting` and `ActiveCount` are about the number of active tasks; `Moves`, `Settles`, `Throws` and `Begins` are what the steps of a kind have in common.

That of plan mode holds for plans of any length:

* `PlanInductive`: the invariant `PlanIInv`. ToolsFollowMode is inductive only with what a resume reads: `Saved` says that what was persisted last is the mode and the
  tools there are now. ProgressIsReal needs what is in between: `Turns` (a dialog, the execute message on its way and a running agent exclude each other), `Counted`
  (in the file, what comes after the last execute message is what this execution reported) and `Marked` (completed steps were reported, and a reported one is
  completed or its turn has yet to end). `Counted` and `Marked` except an execution whose marker was lost.
* `PlanTypeCorrect`: PlanTypeOK. `ToolsFollow`: ToolsFollowMode. `ProgressReal`: ProgressIsReal.

That of the questionnaire holds for any number of questions and options and any ids (`AskAssumption`: none of them is the one that
stands for null):

* `AskInductive`: the invariant `AskIInv`. AnswersComplete speaks of the answers at the end; `Fits` says at any time that with distinct ids an answer is possible for the question
  with its id, which holds because a text or an option is saved for the question that is shown (`EditorIsCurrent`, `CursorInList`); `Asked`, that every answer has a question.
* `AskTypeCorrect`: AskTypeOK. `SubmittedComplete`: AnswersComplete.

`Agent` runs one of them at a time: `Independent` says that it is each of `SubSpec`, `PlanSpec` and `AskSpec` (a step of one leaves the variables of the others alone), so
`TypeCorrect`, its TypeOK, and `AllCorrect`, the five invariants, follow.

**`ClientAuthProofs`** holds for any sets of tabs and calls and any bounds. Assumptions: NULL is none of the values it stands beside, bounds are numbers.

* `Inductive`: the invariant `IInv`. AppliedOnce is not inductive alone: that a repeated call has not been carried out needs `Once` (a call that is sent, renewing or refused
  with a 401 has had no effect yet). StoreIsUnspent needs `Fresh`: a pair that an answer carries is unspent and neither any tab, nor the store, nor
  another answer, nor a renewal under way has it; so whoever stores it stores an unspent one. Unspent is not accepted: a change of the password makes every earlier pair old. `Sound` keeps logins out of the renewals.
* `TypeCorrect`: TypeOK, which no run needs to check beside. `CarriedOutOnce`: AppliedOnce. `StoreUnspent`: StoreIsUnspent.

`Goes`, `Issues` and `Takes` are the three kinds of step: of a call that leaves the pairs alone, of one that is issued a pair, and of a tab that takes one.

**`ConsoleProofs`** holds for tables of any size from two rows on, any set of filters, any number of clicks, losses and changes and any bound of at least two on the open
calls. Assumptions: `BoundsAssumption` and `TablesAssumption` (with one call a filter bar could not ask at all, since it asks beside the effect's call, and the settings' page mounts with two; two rows, since some of the tables a page may find hold the second row alone), `NullAssumption` and `GrantAssumption`
(NULL is neither a number nor the state of a dialog). It is the longest, for FilterHolds and EditorAgrees speak of a page with nothing open, and say nothing of how it comes there.

* `Invariance`: the inductive invariant `IInv`, one part for each of the eleven pages. Each says of every open call what its answer, in whatever order it comes, will bring:
  - `Listed` (Sessions, Users, NAS, AuthLogs) and `Recent` (the others with a filter or a period): unless `parted`, the *last* listing that is open, or else the effect's call, or else what is shown, is for the filter that
    is applied (`LastAsks`). An earlier listing may be for another filter: `parted` is set if its answer is taken last. That the effect's call is open exactly while the view loads, and alone, is part of it: a
    second one would bring the unfiltered rows back;
  - `Kept` (Users, NAS, Endpoints): unless `marred`, every listing that is open was read after the last edit, or is followed by one that will be (`Fresh`), or an edit that has been made has yet to be answered and
    then reloads. `EpKept` adds what a removal needs, which does not reload: it is alone; `NasSecrets`, that a secret in sight is the device's or an edit of that device is about to hide it;
  - `DashboardInv`: what the page shows as read is read, or asked for;
  - `SettingsKnown`, `AdminsKnown`, `PoliciesKnown`: the page shows (of the settings, remembers, and shows unless `parted`) the service's settings, administrators or policies, or exactly one call is open that accounts for the difference. `Asked` says how, by
    its kind: a listing that was answered agrees; a move has its order on the screen already; a switch that was refused is what has to be put back. That a rollback gives what the service has, and a move
    that fails needs a listing, is read from there;
  - `NoneMissed` (policies): the policy last edited is in the table and, if it is in the service, in the one listing to come. Ids are never given twice, or a stale edit could come to life.
* `TypeCorrect`: TypeOK, with the one call of an effect. `FilterCorrect`: FilterHolds. `EditorCorrect`: EditorAgrees.
* `BusyCorrect`: BusyAwaits, by `Awaited`, which is inductive beside `IInv` (`AwaitedFirst`, `StillAwaited`). It is the safety half of PageSettles: what is busy has the call open that ends it, and only the
  fairness that ends the call is left to TLC. A table's skeleton is read from `Listed`. A dialog is busy for a call of its own, but the calls of earlier forms may be open beside it and be answered after it was
  opened: an answer to a form that is superseded leaves the last one's call open (`HasLater`), and every other step leaves the calls it does not name (`HasSent`, `HasEnded`, `HasCancelled`, `HasViewed`).

The first part of the module is about sequences of open calls and knows no page: `Sends`, `Ends`, `Cancels` and `Answers` say what appending, removing, dropping a cancelled call and recording an answer leave of
`Single`, `LastAsks` and `Fresh`. `Cancel` removes the first match, so what has to be shown is that there is no second (`Single`). The `Kept...`, `Listed...` and `Recent...` lemmas lift them to the pages that are
written alike; per page there is one lemma for what it shows first (`...Starts`), one for the clicks, one for the service and the losses, one for the answers, and `...Steps` for all of Next.

Only model-checked: `LockIsReleased`, `TransactionsEnd`, `LeaversAreFound`, `ReloadTakesEffect`, `CallsEnd`, `PageSettles`, `RefreshConverges` and `AbortEnds`,
for liveness is out of the prover's reach. Every safety property and every action property that a run checks is a theorem.

## 6. What is left

In the order planned; each with the properties named.

1. DirectorySync: joiners and the watermark, the record of a failed job.
2. AdminAuth: the rate limiter.
3. `SessionDisconnect`: a lossy network, retry, poll, fallback close, crash; reported
   outcome against the device.
4. `EndpointCompliance`: `cert_scan` against requests, alerts, mute, retention, audit switch.
5. CompileTxn: create, update, reorder, delete and AD sync as statement-level
   transactions; a composition of the rows with FreeRADIUS's live queries.
6. ClientAuth over AdminAuth: refreshes of several tabs that overlap in the service as well.
7. Proofs: Console's pages as an implementation of ClientAuth's calls.

A clock that is set back, a `reload-applied` that is cut short while it is written, the manual mode and
the names of devices are left out of NasReload.

Not modelled in the modules above: audit rows and alerts (nothing here depends on
them), VLAN and name checks of policies (they only refuse more), the attributes of AD users and the DN lookup of
entries marked disabled, databases without a radius schema (the compile is skipped),
reports and formatting of the backend. In the front-end: mock mode, in which nothing is sent; the portal; exports of
tables as CSV; columns, layout and texts. Of the agent's extensions: rendering, the parsing of agents' files, of commands and of plans
(a plan is any number of steps, an agent exists or not), a `spawn` that throws at once, a questionnaire's question
whose id is the empty string (its text is entered and not saved), and the extensions that filter a single event or show a text.
