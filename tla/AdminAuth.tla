------------------------------ MODULE AdminAuth ------------------------------
(***************************************************************************)
(* The console's administrators: login with its lockout, token pairs and    *)
(* their rotation, password changes, and the management of the accounts.    *)
(* Every request is one database session that reads rows, waits, and        *)
(* commits; requests overlap.  PostgreSQL runs at READ COMMITTED and the    *)
(* ORM writes the columns it has changed, whatever they hold by then.       *)
(*                                                                         *)
(* Left out: names (a row is its id, which is never given twice), the audit *)
(* rows, and the expiry of tokens: an expired token is one that nobody      *)
(* presents again.  A refusal is an Abort: it writes nothing.               *)
(***************************************************************************)
EXTENDS Naturals, Sequences, FiniteSets

CONSTANTS
  Admins,       \* ids of admin_user, in the order they are given
  Passwords,
  Linked,       \* administrators with a linked_account
  BootstrapPassword,  \* of the account that the first start creates
  InitRows,     \* the accounts at the start, each logged in once
  Bodies,       \* the bodies of PATCH /admins
  Requests,     \* requests that can be open at a time
  MaxRequests,  \* bound on the requests
  MaxFails, Window, Duration,   \* settings.lockout_*
  MaxTime,      \* bound on the clock
  NULL

\* An auditor is an operator here: these endpoints ask for an admin or for anyone.
Roles == {"admin", "operator"}
Statuses == {"active", "disabled"}

ASSUME AdminsAssumption == IsFiniteSet(Admins) /\ Admins = 1..Cardinality(Admins)
ASSUME RequestsAssumption == IsFiniteSet(Requests)
ASSUME BootstrapAssumption == BootstrapPassword \in Passwords
ASSUME LockoutAssumption ==
  /\ {MaxFails, Window, Duration, MaxTime, MaxRequests} \subseteq Nat
  /\ MaxFails > 0 /\ Duration > Window

Row == [role: Roles, status: Statuses, pw: Passwords \cup {NULL}, ver: Nat,
        fails: Nat, first: Nat \cup {NULL}, until: Nat \cup {NULL}]

ASSUME NullAssumption == NULL \notin Nat \cup Passwords \cup Row \cup Roles \cup Statuses

Columns == {"role", "status", "pw", "ver", "fails", "first", "until"}

Created == {a \in Admins : InitRows[a] # NULL}

ASSUME InitAssumption ==
  /\ InitRows \in [Admins -> Row \cup {NULL}]
  /\ Created = 1..Cardinality(Created)
  /\ \A a \in Created : InitRows[a].fails = 0 /\ InitRows[a].first = NULL
ASSUME BodiesAssumption ==
  Bodies \subseteq [role: Roles \cup {NULL}, status: Statuses \cup {NULL},
                    pw: Passwords \cup {NULL}]

VARIABLES
  rows,     \* admin_user: id -> row, or NULL
  lastId,   \* the largest id given so far
  pairs,    \* the token pairs issued, in their order
  revoked,  \* revoked_refresh_token: the pairs whose refresh token is in it
  req,      \* the open requests
  now,      \* the clock
  started,  \* requests so far
  lost,     \* history: <<id, column>> of which a commit overwrote what it had not read
  guesses,  \* history: times of an administrator's failures since the last login,
            \* without those answered under a lock
  late      \* history: administrators of whom a failure was counted, under no lock,
            \* though a login or a lock had ended the count that it had read

vars == <<rows, lastId, pairs, revoked, req, now, started, lost, guesses, late>>

(* A pair: its access and its refresh token have the same claims.  under    *)
(* and from are history fields: the password of the row at the login that   *)
(* it goes back to, and the pair it was refreshed from (0 for a login).     *)
Pair == [admin: Admins, ver: Nat, under: Passwords \cup {NULL}, from: Nat]

PairIds == 1..(Cardinality(Admins) + MaxRequests)

(* admin: the row to write.  row: the row as it was read.  pair: the pair   *)
(* presented.  arg: what the request asks for.  at: when a login began.     *)
(* known: whether the last look found the token revoked.  fresh is a        *)
(* history field: nothing that would make what it has read a thing of the   *)
(* past was committed since it began - for a login the end of a count, for  *)
(* a change of an account any change of one.                                *)
Idle == [pc |-> "idle", kind |-> NULL, admin |-> NULL, row |-> NULL, pair |-> NULL,
         arg |-> NULL, at |-> 0, known |-> FALSE, fresh |-> TRUE]

FirstPair(a) == [admin |-> a, ver |-> InitRows[a].ver, under |-> InitRows[a].pw, from |-> 0]

Init ==
  /\ rows = InitRows
  /\ lastId = Cardinality(Created)
  /\ pairs = [a \in 1..Cardinality(Created) |-> FirstPair(a)]
  /\ revoked = {}
  /\ req = [r \in Requests |-> Idle]
  /\ now = 0
  /\ started = 0
  /\ lost = {}
  /\ guesses = [a \in Admins |-> <<>>]
  /\ late = {}

Active(a) == rows[a] # NULL /\ rows[a].status = "active"
ActiveAdmins == {a \in Admins : Active(a) /\ rows[a].role = "admin"}

-----------------------------------------------------------------------------
(* Requests and their sessions. *)

Open(r, request) ==
  /\ req[r].pc = "idle"
  /\ started < MaxRequests
  /\ started' = started + 1
  /\ req' = [req EXCEPT ![r] = request]
  /\ UNCHANGED <<rows, lastId, pairs, revoked, now, lost, guesses, late>>

Step(r, request) ==
  /\ req' = [req EXCEPT ![r] = request]
  /\ UNCHANGED <<rows, lastId, pairs, revoked, now, started, lost, guesses, late>>

\* Refused, failed, or stopped with the process: nothing is committed.
Abort(r) == req[r].pc # "idle" /\ Step(r, Idle)

\* The request is over; what those in `overtaken` have read is a thing of the past.
Close(r, overtaken) ==
  req' = [s \in Requests |->
    IF s = r THEN Idle
    ELSE IF s \in overtaken THEN [req[s] EXCEPT !.fresh = FALSE] ELSE req[s]]

Changes == {s \in Requests : req[s].kind \in {"update", "delete"}}
Logins(a) == {s \in Requests : req[s].kind = "login" /\ req[s].admin = a}

\* Mutant of Written: every column is written.
WrittenWhole(row, old, new) == new

\* The UPDATE of a session that read `old` and holds `new`.
Written(row, old, new) == [c \in Columns |-> IF new[c] # old[c] THEN new[c] ELSE row[c]]

Overwritten(a, old, new) ==
  {<<a, c>> : c \in {d \in Columns : new[d] # old[d] /\ rows[a][d] # old[d]}}

\* An UPDATE that finds its row deleted raises.
Save(a, old, new) ==
  \/ /\ new = old
     /\ UNCHANGED <<rows, lost>>
  \/ /\ new # old /\ rows[a] # NULL
     /\ rows' = [rows EXCEPT ![a] = Written(@, old, new)]
     /\ lost' = lost \cup Overwritten(a, old, new)

Issue(a, ver, under, from) ==
  pairs' = Append(pairs, [admin |-> a, ver |-> ver, under |-> under, from |-> from])

-----------------------------------------------------------------------------
(* POST /auth/login *)

Locked(row) == row.until # NULL /\ row.until > now

BeginLogin(r, a, pw) ==
  /\ Active(a) /\ ~Locked(rows[a])
  /\ Open(r, [Idle EXCEPT !.pc = "commit", !.kind = "login", !.admin = a,
                          !.row = rows[a], !.arg = pw, !.at = now])

\* A linked account is verified by radcheck or by the domain.
Verified(r) == req[r].row.pw # NULL /\ req[r].arg = req[r].row.pw

\* Mutant of LoginSucceeds: the pair is made from the row as it is by then.
LoginSucceedsLate(r) ==
  LET a == req[r].admin
      old == req[r].row
  IN /\ req[r].kind = "login" /\ req[r].pc = "commit"
     /\ Verified(r) \/ a \in Linked
     /\ Save(a, old, [old EXCEPT !.fails = 0, !.first = NULL, !.until = NULL])
     /\ Issue(a, IF rows[a] = NULL THEN old.ver ELSE rows[a].ver, old.pw, 0)
     /\ guesses' = [guesses EXCEPT ![a] = <<>>]
     /\ Close(r, Logins(a))
     /\ UNCHANGED <<lastId, revoked, now, started, late>>

LoginSucceeds(r) ==
  LET a == req[r].admin
      old == req[r].row
  IN /\ req[r].kind = "login" /\ req[r].pc = "commit"
     /\ Verified(r) \/ a \in Linked
     /\ Save(a, old, [old EXCEPT !.fails = 0, !.first = NULL, !.until = NULL])
     /\ Issue(a, old.ver, old.pw, 0)
     /\ guesses' = [guesses EXCEPT ![a] = <<>>]
     /\ Close(r, Logins(a))
     /\ UNCHANGED <<lastId, revoked, now, started, late>>

\* Mutant of Counted: the window ends a moment earlier.
CountedEarly(row, at) ==
  IF row.first = NULL \/ at >= row.first + Window
  THEN [row EXCEPT !.fails = 1, !.first = at]
  ELSE [row EXCEPT !.fails = @ + 1]

\* The window starts with its first failure.
Counted(row, at) ==
  IF row.first = NULL \/ at > row.first + Window
  THEN [row EXCEPT !.fails = 1, !.first = at]
  ELSE [row EXCEPT !.fails = @ + 1]

\* _register_failure
Locks(row, at) == Counted(row, at).fails >= MaxFails

Failed(row, at) ==
  IF Locks(row, at)
  THEN [Counted(row, at) EXCEPT !.until = at + Duration, !.fails = 0, !.first = NULL]
  ELSE Counted(row, at)

LoginFails(r) ==
  LET a == req[r].admin
      old == req[r].row
      at == req[r].at
  IN /\ req[r].kind = "login" /\ req[r].pc = "commit"
     /\ ~Verified(r)
     /\ Save(a, old, Failed(old, at))
     /\ IF Locked(rows[a])
        THEN UNCHANGED <<guesses, late>>
        ELSE /\ guesses' = [guesses EXCEPT ![a] = Append(@, at)]
             /\ late' = IF req[r].fresh THEN late ELSE late \cup {a}
     /\ Close(r, IF Locks(old, at) THEN Logins(a) ELSE {})
     /\ UNCHANGED <<lastId, pairs, revoked, now, started>>

-----------------------------------------------------------------------------
(* POST /auth/refresh *)

\* Mutant of Validate: the table is not looked at.
ValidateAll(r, p) ==
  /\ p <= Len(pairs)
  /\ Open(r, [Idle EXCEPT !.pc = "admin", !.kind = "refresh", !.pair = p,
                          !.admin = pairs[p].admin])

\* validate_refresh_token
Validate(r, p) ==
  /\ p <= Len(pairs) /\ p \notin revoked
  /\ Open(r, [Idle EXCEPT !.pc = "admin", !.kind = "refresh", !.pair = p,
                          !.admin = pairs[p].admin])

\* Mutant of Accepted: the version is not compared.
AcceptedAnyVersion(p) == p <= Len(pairs) /\ Active(pairs[p].admin)

\* current_admin, and the same checks in refresh.
Accepted(p) ==
  /\ p <= Len(pairs) /\ Active(pairs[p].admin)
  /\ rows[pairs[p].admin].ver = pairs[p].ver

ReadAdmin(r) ==
  /\ req[r].kind = "refresh" /\ req[r].pc = "admin"
  /\ Accepted(req[r].pair)
  /\ Step(r, [req[r] EXCEPT !.pc = "look", !.row = rows[req[r].admin]])

\* revoke_refresh_token looks once more, and then has nothing to insert.
Look(r) ==
  /\ req[r].kind \in {"refresh", "logout"} /\ req[r].pc = "look"
  /\ Step(r, [req[r] EXCEPT !.pc = "commit", !.known = req[r].pair \in revoked])

\* The primary key refuses a second row.
Revoke(r) ==
  /\ req[r].known \/ req[r].pair \notin revoked
  /\ revoked' = revoked \cup {req[r].pair}

Rotate(r) ==
  /\ req[r].kind = "refresh" /\ req[r].pc = "commit"
  /\ Revoke(r)
  /\ Issue(req[r].admin, req[r].row.ver, pairs[req[r].pair].under, req[r].pair)
  /\ Close(r, {})
  /\ UNCHANGED <<rows, lastId, now, started, lost, guesses, late>>

(* POST /auth/logout: the refresh token in the body is revoked, whoever the  *)
(* bearer of the access token.                                              *)
BeginLogout(r, p, q) ==
  /\ Accepted(p) /\ q <= Len(pairs)
  /\ Open(r, [Idle EXCEPT !.pc = "look", !.kind = "logout", !.pair = q,
                          !.admin = pairs[p].admin])

Logout(r) ==
  /\ req[r].kind = "logout" /\ req[r].pc = "commit"
  /\ Revoke(r)
  /\ Close(r, {})
  /\ UNCHANGED <<rows, lastId, pairs, now, started, lost, guesses, late>>

-----------------------------------------------------------------------------
(* PUT /auth/me/password, PATCH, DELETE and POST /admins *)

OwnPassword(pw) == [role |-> NULL, status |-> NULL, pw |-> pw]

\* The old password is the row's.  The new one is another: its hash is always.
BeginPassword(r, p, pw) ==
  LET a == pairs[p].admin
  IN /\ Accepted(p)
     /\ rows[a].pw \notin {NULL, pw}
     /\ Open(r, [Idle EXCEPT !.pc = "commit", !.kind = "update", !.admin = a,
                             !.row = rows[a], !.arg = OwnPassword(pw)])

\* require_role(ADMIN)
BeginManage(r, p, kind, a, body) ==
  /\ Accepted(p) /\ rows[pairs[p].admin].role = "admin"
  /\ Open(r, [Idle EXCEPT !.pc = "target", !.kind = kind, !.admin = a, !.arg = body,
                          !.pair = p, !.row = rows[pairs[p].admin]])

\* Nobody deletes himself.
BeginDelete(r, p, a) ==
  /\ p <= Len(pairs) /\ a # pairs[p].admin
  /\ BeginManage(r, p, "delete", a, [role |-> NULL, status |-> "disabled", pw |-> NULL])

\* Mutant of ReadTarget: an account that is not there is no error.
ReadTargetUnchecked(r) ==
  LET a == req[r].admin
  IN /\ req[r].kind \in {"update", "delete"} /\ req[r].pc = "target"
     /\ Step(r, [req[r] EXCEPT !.pc = "guard",
                   !.row = IF a = pairs[req[r].pair].admin THEN @ ELSE rows[a]])

\* The session knows the row of its own administrator: it does not read it again.
\* A new password is another one.
ReadTarget(r) ==
  LET a == req[r].admin
      row == IF a = pairs[req[r].pair].admin THEN req[r].row ELSE rows[a]
  IN /\ req[r].kind \in {"update", "delete"} /\ req[r].pc = "target"
     /\ row # NULL
     /\ req[r].arg.pw # NULL => req[r].arg.pw # row.pw
     /\ Step(r, [req[r] EXCEPT !.pc = "guard", !.row = row])

Asked(body, row) ==
  [row EXCEPT !.role = IF body.role = NULL THEN @ ELSE body.role,
              !.status = IF body.status = NULL THEN @ ELSE body.status,
              !.pw = IF body.pw = NULL THEN @ ELSE body.pw,
              !.ver = IF body.pw = NULL THEN @ ELSE @ + 1]

ActiveAdmin(row) == row.role = "admin" /\ row.status = "active"

\* Mutant of GuardLastAdmin: the account itself is counted.
GuardLastAdminOwn(r) ==
  LET row == req[r].row
  IN /\ req[r].pc = "guard"
     /\ ActiveAdmin(row) /\ ~ActiveAdmin(Asked(req[r].arg, row)) => ActiveAdmins # {}
     /\ Step(r, [req[r] EXCEPT !.pc = "commit", !.pair = NULL])

\* _guard_last_active_admin
GuardLastAdmin(r) ==
  LET row == req[r].row
  IN /\ req[r].pc = "guard"
     /\ ActiveAdmin(row) /\ ~ActiveAdmin(Asked(req[r].arg, row)) =>
          ActiveAdmins \ {req[r].admin} # {}
     /\ Step(r, [req[r] EXCEPT !.pc = "commit", !.pair = NULL])

Update(r) ==
  LET old == req[r].row
  IN /\ req[r].kind = "update" /\ req[r].pc = "commit"
     /\ Save(req[r].admin, old, Asked(req[r].arg, old))
     /\ Close(r, Changes)
     /\ UNCHANGED <<lastId, pairs, revoked, now, started, guesses, late>>

\* A row that is gone already is no error here.
Delete(r) ==
  /\ req[r].kind = "delete" /\ req[r].pc = "commit"
  /\ rows' = [rows EXCEPT ![req[r].admin] = NULL]
  /\ Close(r, Changes)
  /\ UNCHANGED <<lastId, pairs, revoked, now, started, lost, guesses, late>>

NewRow(role, pw) == [role |-> role, status |-> "active", pw |-> pw, ver |-> 0,
                     fails |-> 0, first |-> NULL, until |-> NULL]

\* The checks of the body and of the name aside, one INSERT.
Create(r, p, role, pw) ==
  LET a == lastId + 1
  IN /\ req[r].pc = "idle" /\ started < MaxRequests
     /\ Accepted(p) /\ rows[pairs[p].admin].role = "admin"
     /\ a \in Admins
     /\ pw = NULL => a \in Linked
     /\ rows' = [rows EXCEPT ![a] = NewRow(role, pw)]
     /\ lastId' = a
     /\ started' = started + 1
     /\ UNCHANGED <<pairs, revoked, req, now, lost, guesses, late>>

\* The server stops, starts and calls bootstrap_admin, which counts the accounts.
Restart ==
  LET a == lastId + 1
  IN /\ req' = [r \in Requests |-> Idle]
     /\ IF a \in Admins /\ \A b \in Admins : rows[b] = NULL
        THEN /\ rows' = [rows EXCEPT ![a] = NewRow("admin", BootstrapPassword)]
             /\ lastId' = a
        ELSE UNCHANGED <<rows, lastId>>
     /\ UNCHANGED <<pairs, revoked, now, started, lost, guesses, late>>

-----------------------------------------------------------------------------

Tick ==
  /\ now < MaxTime
  /\ now' = now + 1
  /\ UNCHANGED <<rows, lastId, pairs, revoked, req, started, lost, guesses, late>>

Login(r) ==
  \/ \E a \in Admins, pw \in Passwords : BeginLogin(r, a, pw)
  \/ LoginSucceeds(r) \/ LoginFails(r)

Tokens(r) ==
  \/ \E p \in PairIds : Validate(r, p)
  \/ \E p \in PairIds, q \in PairIds : BeginLogout(r, p, q)
  \/ ReadAdmin(r) \/ Look(r) \/ Rotate(r) \/ Logout(r)

Accounts(r) ==
  \/ \E p \in PairIds, pw \in Passwords : BeginPassword(r, p, pw)
  \/ \E p \in PairIds, a \in Admins, body \in Bodies : BeginManage(r, p, "update", a, body)
  \/ \E p \in PairIds, a \in Admins : BeginDelete(r, p, a)
  \/ ReadTarget(r) \/ GuardLastAdmin(r) \/ Update(r) \/ Delete(r)
  \/ \E p \in PairIds, role \in Roles, pw \in Passwords \cup {NULL} : Create(r, p, role, pw)

Next ==
  \/ \E r \in Requests : Login(r) \/ Tokens(r) \/ Accounts(r) \/ Abort(r)
  \/ Restart
  \/ Tick

Spec == Init /\ [][Next]_vars

-----------------------------------------------------------------------------
(* Correctness. *)

TypeOK ==
  /\ rows \in [Admins -> Row \cup {NULL}]
  /\ pairs \in Seq(Pair)
  /\ revoked \subseteq DOMAIN pairs
  /\ \A r \in Requests :
       req[r].pc \in {"guard", "commit"} /\ req[r].kind # "logout" => req[r].row \in Row
  /\ lost \subseteq Admins \X Columns

\* A token that is accepted was issued under the password that the account has
\* now, whatever logins and refreshes were under way when the password changed -
\* unless two changes of the password overlapped, of which one is lost.
PasswordEndsTokens ==
  \A p \in DOMAIN pairs :
    LET row == rows[pairs[p].admin]
    IN row # NULL /\ row.ver = pairs[p].ver =>
         row.pw = pairs[p].under \/ <<pairs[p].admin, "ver">> \in lost

\* A refresh token yields no more pairs than there were requests to present it at
\* the same time: whoever comes after the first commit is refused.
ReuseBounded ==
  \A p \in DOMAIN pairs :
    Cardinality({q \in DOMAIN pairs : pairs[q].from = p}) <= Cardinality(Requests)

\* A change of an account never leaves the console without an administrator,
\* unless another one was committed after it began.
ActiveAdminKept == [][ActiveAdmins # {} /\ ActiveAdmins' = {} =>
  \E r \in Requests : (Update(r) \/ Delete(r)) /\ ~req[r].fresh]_vars

\* The guesses in a stretch of time that is as long as the window and ends now.
Recent(a) == {i \in DOMAIN guesses[a] : guesses[a][i] + Window >= now}

\* Nobody has more guesses in a stretch of time as long as the window, but for those
\* under way when a lock comes, than fill one window, or than all but the first of one
\* that did not lock and all of the next - as long as no failure is counted that should
\* not be: on top of another that it did not see, or after a login or a lock has ended
\* the count that it continues.
GuessesBounded ==
  \A a \in Admins :
    \/ a \in late \/ \E c \in {"fails", "first", "until"} : <<a, c>> \in lost
    \/ Cardinality(Recent(a)) <= MaxFails
    \/ Cardinality(Recent(a)) <= 2 * MaxFails - 2

\* Nothing touches a lock in force - no change of the account and no login that begins
\* after it - but a login that was under way when it came: one that fails, and fills the
\* count it had read, writes the end that follows from its own beginning, which may be
\* sooner; one that succeeds clears the lock only if it had read an earlier one, over
\* by then.
LockStands == [][\A a \in Admins :
  rows[a] # NULL /\ rows'[a] # NULL /\ Locked(rows[a]) =>
    \/ rows'[a].until # NULL /\ rows'[a].until >= rows[a].until
    \/ \E r \in Logins(a) :
         /\ ~req[r].fresh
         /\ \/ LoginFails(r) /\ rows'[a].until = req[r].at + Duration
            \/ /\ LoginSucceeds(r)
               /\ req[r].row.until # NULL /\ req[r].row.until <= req[r].at]_vars
=============================================================================
