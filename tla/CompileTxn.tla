------------------------------ MODULE CompileTxn ------------------------------
(***************************************************************************)
(* The transactions of AccessControl, statement by statement.  Every        *)
(* request and job has its own session (core/db.py, jobs/scheduler.py),     *)
(* commits once at its end, and yields to the others at every statement.    *)
(*                                                                         *)
(* The database is PostgreSQL at READ COMMITTED: a SELECT sees the rows     *)
(* committed when it starts and the transaction's own changes; an UPDATE    *)
(* or DELETE waits for the transaction that holds the row and then applies  *)
(* to the new version of it; of a cycle of waiters one is aborted.          *)
(*                                                                         *)
(* The session keeps the objects a handler holds: a later SELECT of the     *)
(* same row does not refresh them, and an UPDATE writes the columns whose   *)
(* value differs from the one loaded.                                       *)
(*                                                                         *)
(* Accounts and policies exist throughout; AD sync and the create, edit,    *)
(* reorder and delete of policies are not among the transactions here.  No  *)
(* tick passes while a transaction is open.                                 *)
(***************************************************************************)
EXTENDS PolicyCompiler, FiniteSets, Sequences, Relation

CONSTANTS
  Txns,        \* sessions that can be open at a time
  Kinds,       \* the requests and jobs that are issued
  MaxRuns,     \* bound on the transactions begun
  InitUsers, InitPolicies, SeedRows,
  Tables,      \* the radius tables in the order compile_all reads and writes them
  LockTicks    \* lockout_duration, in ticks

KindNames == {"enable", "disable", "assign", "toggle", "compile", "sweep"}

ASSUME TxnAssumption ==
  /\ Kinds \subseteq KindNames
  /\ MaxRuns \in Nat
  /\ InitUsers \in [Accounts -> UserRow]
  /\ InitPolicies \in [Policies -> PolicyRow]
  /\ \A r \in SeedRows : ~Matched(r)
  /\ LockTicks \in Nat \ {0}

\* compile_all goes through all five; without policies there is nothing in three of them.
ASSUME TablesAssumption ==
  LET named == {Tables[k] : k \in DOMAIN Tables}
  IN /\ Tables \in Seq({"radgroupreply", "radgroupcheck", "radusergroup", "radcheck", "radreply"})
     /\ {"radcheck", "radreply"} \subseteq named
     /\ Policies # {} => {"radgroupreply", "radgroupcheck", "radusergroup"} \subseteq named

VARIABLES
  users,      \* access_user, committed
  policies,   \* policy_group, committed
  stored,     \* radius rows, committed: <<row, inserter>>, for equal rows are
              \* distinct tuples of a table without a key
  sess,       \* the sessions
  runs        \* transactions begun so far

vars == <<users, policies, stored, sess, runs>>

None == [a \in Accounts |-> NULL]
NoPolicy == [p \in Policies |-> NULL]

(* kind, who, policy, on: the request.  A sweep is "unlock", then "lock":   *)
(* who is then its list of expired locks, left the accounts it has yet to   *)
(* look at, and on says that it has locked one.                             *)
(* cache, pcache: the objects the handler holds.  mine, pmine: its          *)
(* uncommitted row versions, each a row lock.  todo: accounts to UPDATE.    *)
(* seen, want, have, k: what compile_all has read.  del, ins: its diff.     *)
(* dead, born: its uncommitted deletes and inserts.  quiet: nothing else    *)
(* has committed since it began (a history variable).                       *)
Idle == [pc |-> "idle", kind |-> "compile", who |-> {}, policy |-> NULL, on |-> FALSE,
         left |-> {}, todo |-> {},
         cache |-> None, pcache |-> NoPolicy, mine |-> None, pmine |-> NoPolicy,
         seen |-> NoPolicy, want |-> {}, have |-> {}, k |-> 1, del |-> {}, ins |-> {},
         dead |-> {}, born |-> {}, quiet |-> TRUE]

Rows == {c[1] : c \in stored}
Open == {t \in Txns : sess[t].pc # "idle"}

Init ==
  /\ users = InitUsers
  /\ policies = InitPolicies
  /\ stored = {<<r, NULL>> : r \in SeedRows \cup DesiredRows(InitUsers, InitPolicies)}
  /\ sess = [t \in Txns |-> Idle]
  /\ runs = 0

-----------------------------------------------------------------------------
(* What a session sees. *)

\* A fresh SELECT of an account.
Selected(t, a) == IF sess[t].mine[a] # NULL THEN sess[t].mine[a] ELSE users[a]

\* The object a SELECT returns: the one held, if there is one.
UserObject(t, a) == IF sess[t].cache[a] # NULL THEN sess[t].cache[a] ELSE Selected(t, a)
PolicyObject(t, p) == IF sess[t].pcache[p] # NULL THEN sess[t].pcache[p] ELSE policies[p]

Loaded(t, S) == [a \in Accounts |-> IF a \in S THEN users[a] ELSE NULL]

Copies(t) == {c \in stored : c \notin sess[t].dead}

Visible(t) == {c[1] : c \in Copies(t)} \cup sess[t].born

-----------------------------------------------------------------------------
(* The first statement of each request and job. *)

Begin(t, request) ==
  /\ sess[t].pc = "idle"
  /\ runs < MaxRuns
  /\ runs' = runs + 1
  /\ sess' = [sess EXCEPT ![t] = request]
  /\ UNCHANGED <<users, policies, stored>>

UpdateStatus(t, kind, S) ==
  Begin(t, [Idle EXCEPT !.pc = "update", !.kind = kind, !.todo = S, !.cache = Loaded(t, S)])

\* db.get(PolicyGroup); the accounts are loaded by the next statement.
AssignPolicy(t, S, p) ==
  Begin(t, [Idle EXCEPT !.pc = "load", !.kind = "assign", !.who = S, !.policy = p,
                        !.pcache[p] = policies[p]])

TogglePolicy(t, p, on) ==
  Begin(t, [Idle EXCEPT !.pc = "toggle", !.kind = "toggle", !.policy = p, !.on = on,
                        !.pcache[p] = policies[p]])

OpsCompile(t) == Begin(t, [Idle EXCEPT !.pc = "policies"])

Expired == {a \in Accounts : /\ users[a].status = "locked"
                             /\ users[a].until # NULL
                             /\ users[a].until = 0}

\* The scheduler runs one instance of a job at a time.
Sweep(t) ==
  /\ \A u \in Txns : sess[u].kind \notin {"unlock", "lock"}
  /\ Begin(t, [Idle EXCEPT !.pc = IF Expired = {} THEN "count" ELSE "update",
                           !.kind = "unlock", !.who = Expired, !.todo = Expired,
                           !.cache = Loaded(t, Expired)])

-----------------------------------------------------------------------------
(* The handlers' own statements. *)

LoadAccounts(t) ==
  /\ sess[t].pc = "load"
  /\ sess' = [sess EXCEPT ![t].pc = "update", ![t].todo = sess[t].who,
                          ![t].cache = Loaded(t, sess[t].who)]
  /\ UNCHANGED <<users, policies, stored, runs>>

\* Mutant of Assigned: the status is the word of the request.
AssignedAction(s, u) ==
  CASE s.kind \in {"enable", "disable"} -> [u EXCEPT !.status = s.kind]
    [] s.kind = "unlock" -> [u EXCEPT !.status = "active", !.until = NULL]
    [] s.kind = "assign" -> [u EXCEPT !.policy = s.policy]
    [] s.kind = "lock" -> [u EXCEPT !.status = "locked", !.until = LockTicks]

\* The object after the handler's assignments.
Assigned(s, u) ==
  CASE s.kind \in {"enable", "unlock"} -> [u EXCEPT !.status = "active", !.until = NULL]
    [] s.kind = "disable" -> [u EXCEPT !.status = "disabled"]
    [] s.kind = "assign" -> [u EXCEPT !.policy = s.policy]
    [] s.kind = "lock" -> [u EXCEPT !.status = "locked", !.until = LockTicks]

\* The columns the UPDATE sets.  A new deadline is a time no row has yet.
Changed(s, old, new) ==
  {c \in {"status", "until", "policy"} : new[c] # old[c]}
  \cup (IF s.kind = "lock" THEN {"until"} ELSE {})

Merged(row, new, columns) ==
  [status |-> IF "status" \in columns THEN new.status ELSE row.status,
   until  |-> IF "until" \in columns THEN new.until ELSE row.until,
   policy |-> IF "policy" \in columns THEN new.policy ELSE row.policy]

Holder(t, a) == {u \in Txns \ {t} : sess[u].mine[a] # NULL}

\* One account: assign to the object, then the UPDATE that the audit's flush
\* sends, or none when nothing differs.
UpdateAccount(t, a) ==
  LET s == sess[t]
      new == Assigned(s, s.cache[a])
      columns == Changed(s, s.cache[a], new)
      rest == s.todo \ {a}
  IN /\ s.pc = "update" /\ a \in s.todo
     /\ columns # {} => Holder(t, a) = {}
     /\ sess' = [sess EXCEPT ![t] =
          [s EXCEPT !.cache[a] = new,
                    !.mine[a] = IF columns = {} THEN @ ELSE Merged(Selected(t, a), new, columns),
                    !.todo = rest,
                    !.pc = IF rest # {} THEN @ ELSE IF s.kind = "lock" THEN "hot" ELSE "policies"]]
     /\ UNCHANGED <<users, policies, stored, runs>>

UpdatePolicy(t) ==
  LET s == sess[t]
      p == s.policy
      new == [s.pcache[p] EXCEPT !.enabled = s.on]
  IN /\ s.pc = "toggle"
     /\ new # s.pcache[p] => \A u \in Txns \ {t} : sess[u].pmine[p] = NULL
     /\ sess' = [sess EXCEPT ![t] =
          [s EXCEPT !.pcache[p] = new,
                    !.pmine[p] = IF new = s.pcache[p] THEN @
                                 ELSE [policies[p] EXCEPT !.enabled = s.on],
                    !.pc = "policies"]]
     /\ UNCHANGED <<users, policies, stored, runs>>

\* The sweeper's second half: the accounts whose failures reach the threshold
\* are whatever the log says.
CountFailures(t, over) ==
  /\ sess[t].pc = "count"
  /\ sess' = [sess EXCEPT ![t].pc = "hot", ![t].kind = "lock", ![t].left = over]
  /\ UNCHANGED <<users, policies, stored, runs>>

\* Only active accounts are locked.  The list `expired` stays in scope; of the
\* objects looked at, the last one does.
LookAt(t, a) ==
  LET s == sess[t]
      u == UserObject(t, a)
      held == [b \in Accounts |-> IF b = a THEN u ELSE IF b \in s.who THEN s.cache[b] ELSE NULL]
      rest == [s EXCEPT !.cache = held, !.left = @ \ {a}]
  IN /\ s.pc = "hot" /\ a \in s.left
     /\ sess' = [sess EXCEPT ![t] =
          IF u.status = "active" THEN [rest EXCEPT !.pc = "update", !.todo = {a}, !.on = TRUE]
          ELSE rest]
     /\ UNCHANGED <<users, policies, stored, runs>>

\* Mutant of EndSweep: the accounts it locked are left to the next compile.
EndSweepUncompiled(t) ==
  /\ sess[t].pc = "hot" /\ sess[t].left = {}
  /\ sess' = [sess EXCEPT ![t].pc = "commit"]
  /\ UNCHANGED <<users, policies, stored, runs>>

EndSweep(t) ==
  /\ sess[t].pc = "hot" /\ sess[t].left = {}
  /\ sess' = [sess EXCEPT ![t].pc = IF sess[t].on THEN "policies" ELSE "commit"]
  /\ UNCHANGED <<users, policies, stored, runs>>

-----------------------------------------------------------------------------
(* compile_all *)

ReadPolicies(t) ==
  /\ sess[t].pc = "policies"
  /\ sess' = [sess EXCEPT ![t].pc = "users",
                          ![t].seen = [p \in Policies |-> PolicyObject(t, p)]]
  /\ UNCHANGED <<users, policies, stored, runs>>

\* The outer join yields the policy objects that the first SELECT loaded.
ReadUsers(t) ==
  /\ sess[t].pc = "users"
  /\ sess' = [sess EXCEPT ![t].pc = "read", ![t].k = 1, ![t].have = {}, ![t].seen = NoPolicy,
        ![t].want = DesiredRows([a \in Accounts |-> UserObject(t, a)], sess[t].seen)]
  /\ UNCHANGED <<users, policies, stored, runs>>

\* One SELECT per table, and after the last one the diff.
ReadTable(t) ==
  LET s == sess[t]
      have == s.have \cup {r \in Visible(t) : Matched(r) /\ r[1] = Tables[s.k]}
  IN /\ s.pc = "read"
     /\ sess' = [sess EXCEPT ![t] =
          IF s.k < Len(Tables) THEN [s EXCEPT !.have = have, !.k = @ + 1]
          ELSE [s EXCEPT !.pc = "apply", !.k = 1, !.have = {}, !.want = {},
                         !.del = have \ s.want, !.ins = s.want \ have]]
     /\ UNCHANGED <<users, policies, stored, runs>>

\* The deletes of the first table that still has some, in any order.
Pending(t) ==
  LET Of(k) == {r \in sess[t].del : r[1] = Tables[k]}
      ks == {k \in DOMAIN Tables : Of(k) # {}}
  IN UNION {Of(k) : k \in {j \in ks : \A i \in ks : j <= i}}

Targets(t, r) == {c \in Copies(t) : c[1] = r}

Deleters(t, r) == {u \in Txns \ {t} : Targets(t, r) \cap sess[u].dead # {}}

Delete(t, r) ==
  /\ sess[t].pc = "apply" /\ r \in Pending(t)
  /\ Deleters(t, r) = {}
  /\ sess' = [sess EXCEPT ![t].del = @ \ {r}, ![t].born = @ \ {r},
                          ![t].dead = @ \cup Targets(t, r)]
  /\ UNCHANGED <<users, policies, stored, runs>>

\* The inserts of a table come before the deletes of the next; nobody else sees
\* them before the commit, and no delete of this compile meets them.
InsertMissing(t) ==
  LET s == sess[t]
  IN /\ s.pc = "apply" /\ s.del = {}
     /\ sess' = [sess EXCEPT ![t] =
          [s EXCEPT !.born = @ \cup s.ins, !.ins = {},
                    !.pc = IF s.kind = "unlock" THEN "count" ELSE "commit"]]
     /\ UNCHANGED <<users, policies, stored, runs>>

-----------------------------------------------------------------------------
(* The end of a transaction. *)

Commit(t) ==
  LET s == sess[t]
  IN /\ s.pc = "commit"
     /\ users' = [a \in Accounts |-> IF s.mine[a] # NULL THEN s.mine[a] ELSE users[a]]
     /\ policies' = [p \in Policies |-> IF s.pmine[p] # NULL THEN s.pmine[p] ELSE policies[p]]
     /\ stored' = (stored \ s.dead) \cup {<<r, t>> : r \in s.born}
     /\ sess' = [u \in Txns |-> IF u = t \/ u \notin Open THEN Idle
                                ELSE [sess[u] EXCEPT !.quiet = FALSE]]
     /\ UNCHANGED runs

\* Whom the next statement of a session waits for.
WaitsFor(t) ==
  CASE sess[t].pc = "update" -> UNION {Holder(t, a) : a \in sess[t].todo}
    [] sess[t].pc = "toggle" -> {u \in Txns \ {t} : sess[u].pmine[sess[t].policy] # NULL}
    [] sess[t].pc = "apply" -> UNION {Deleters(t, r) : r \in Pending(t)}
    [] OTHER -> {}

\* Mutant of Abort: the error is logged and the session left as it is.
AbortUnclosed(t) ==
  /\ sess' = [sess EXCEPT ![t].pc = "idle"]
  /\ UNCHANGED <<users, policies, stored, runs>>

Abort(t) ==
  /\ sess' = [sess EXCEPT ![t] = Idle]
  /\ UNCHANGED <<users, policies, stored, runs>>

\* PostgreSQL's deadlock detector.
Deadlocked(t) ==
  TransitiveClosure([u, v \in Txns |-> v \in WaitsFor(u)], Txns)[t, t]

Victim(t) == Deadlocked(t) /\ Abort(t)

\* The process stops; PostgreSQL rolls every session back.
Crash ==
  /\ Open # {}
  /\ sess' = [t \in Txns |-> Idle]
  /\ UNCHANGED <<users, policies, stored, runs>>

Tick ==
  /\ Open = {}
  /\ users' = [a \in Accounts |->
       IF users[a].until # NULL /\ users[a].until > 0
       THEN [users[a] EXCEPT !.until = @ - 1] ELSE users[a]]
  /\ UNCHANGED <<policies, stored, sess, runs>>

-----------------------------------------------------------------------------

Request(t) ==
  \/ \E S \in (SUBSET Accounts) \ {{}} :
       \/ \E kind \in Kinds \cap {"enable", "disable"} : UpdateStatus(t, kind, S)
       \/ "assign" \in Kinds /\ \E p \in Policies : AssignPolicy(t, S, p)
  \/ "toggle" \in Kinds /\ \E p \in Policies, on \in BOOLEAN : TogglePolicy(t, p, on)
  \/ "compile" \in Kinds /\ OpsCompile(t)
  \/ "sweep" \in Kinds /\ Sweep(t)

Handler(t) ==
  \/ LoadAccounts(t)
  \/ \E a \in Accounts : UpdateAccount(t, a) \/ LookAt(t, a)
  \/ UpdatePolicy(t)
  \/ \E over \in SUBSET Accounts : CountFailures(t, over)
  \/ EndSweep(t)

Compile(t) ==
  \/ ReadPolicies(t)
  \/ ReadUsers(t)
  \/ ReadTable(t)
  \/ \E r \in Pending(t) : Delete(t, r)
  \/ InsertMissing(t)

Proceed(t) == Handler(t) \/ Compile(t) \/ Commit(t) \/ Victim(t)

Next ==
  \/ \E t \in Txns : Request(t) \/ Proceed(t)
  \/ Crash
  \/ Tick

Spec == Init /\ [][Next]_vars

\* A session that can go on does; requests need not come and the process need
\* not crash.
FairSpec == Spec /\ \A t \in Txns : WF_vars(Proceed(t))
-----------------------------------------------------------------------------
(* Correctness. *)

TypeOK ==
  /\ users \in [Accounts -> UserRow]
  /\ policies \in [Policies -> PolicyRow]
  /\ \A t \in Txns : /\ \A a \in Accounts : sess[t].mine[a] \in UserRow \cup {NULL}
                     /\ sess[t].dead \subseteq stored

Adm == INSTANCE Admission WITH rows <- Rows

\* Every transaction but a sweep that finds nothing to do recompiles.
Compiles(t) == sess[t].kind = "lock" => sess[t].who # {} \/ sess[t].on

\* However wrong the rows have become, a transaction that nothing else commits
\* into is one step of Admission, and so leaves exactly the compiled rows of the
\* tables it commits: the handlers do what AccessControl says while they do not
\* overlap, and the next one repairs what overlapping ones left.
QuietCommitImplements == [][\A t \in Txns :
  Commit(t) /\ sess[t].quiet /\ Compiles(t) => Adm!Next]_vars

\* Every transaction ends, whoever it waits for.
TransactionsEnd == \A t \in Txns : (t \in Open) ~> (t \notin Open)

\* services/alerts.py: DISABLED stays disabled; only an enable ends it.  It does
\* not hold: the sweeper writes what it concluded from a status read earlier.
DisabledStays == [][\A a \in Accounts :
  (users[a].status = "disabled" /\ users'[a].status # "disabled")
    => \E t \in Txns : sess[t].kind = "enable" /\ Commit(t)]_vars
=============================================================================
