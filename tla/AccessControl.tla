---------------------------- MODULE AccessControl ----------------------------
(***************************************************************************)
(* Admission control with every request and job as one database            *)
(* transaction: access users (api/users.py), policies (api/policies.py),    *)
(* the lockout sweeper (services/alerts.py), the AD sync (ldap_sync/sync.py) *)
(* and POST /ops/compile, each of which changes the tables of the public    *)
(* schema and recompiles the radius schema before it commits.               *)
(*                                                                          *)
(* This is what the code promises when no two transactions overlap;         *)
(* CompileTxn takes the same handlers apart at their awaits.                *)
(*                                                                          *)
(* A tick is the unit of the lockout times.  Audit rows, and the            *)
(* account_locked alert the sweeper raises, do not feed back into any       *)
(* variable here and are left out.                                          *)
(***************************************************************************)
EXTENDS PolicyCompiler, FiniteSets, Functions

CONSTANTS
  LocalAccounts,   \* source = local: created by hand, never by the directory
  BootstrapAdmin,  \* OPENRADIUS_BOOTSTRAP_ADMIN_USER, or NULL
  SeedRows,        \* radius rows the compiler does not own
  Priorities,      \* the priorities an administrator types
  Threshold,       \* lockout_max_fails
  Window,          \* lockout_window, in ticks
  LockTicks        \* lockout_duration, in ticks

ASSUME AccessAssumption ==
  /\ LocalAccounts \subseteq Accounts
  /\ Priorities \subseteq Int
  /\ Threshold \in Nat \ {0} /\ Window \in Nat \ {0} /\ LockTicks \in Nat \ {0}
  /\ \A r \in SeedRows : ~Owned(r)
  /\ IsFiniteSet(Policies)

VARIABLES
  users,      \* access_user: account -> UserRow or NULL
  policies,   \* policy_group: id -> PolicyRow or NULL
  rows,       \* the radius schema
  fails       \* radpostauth: bare rejects of an account by age in ticks

vars == <<users, policies, rows, fails>>

\* Mutant of Saturated.
Unsaturated(n) == n

\* Counts above Threshold are the same to every reader: they saturate.
Saturated(n) == IF n > Threshold THEN Threshold ELSE n

TypeOK ==
  /\ users \in [Accounts -> UserRow \cup {NULL}]
  /\ policies \in [Policies -> PolicyRow \cup {NULL}]
  /\ fails \in [Accounts -> [1..Window -> 0..Threshold]]

Fresh == [status |-> "active", until |-> NULL, policy |-> NULL]

Init ==
  /\ users = [a \in Accounts |-> IF a \in LocalAccounts THEN Fresh ELSE NULL]
  /\ policies = [p \in Policies |-> NULL]
  /\ rows = SeedRows
  /\ fails = [a \in Accounts |-> [i \in 1..Window |-> 0]]

\* compile_policies: the transaction's own writes are what it reads.
Recompile == rows' = Compiled(rows, users', policies')

-----------------------------------------------------------------------------
(* api/users.py *)

\* _load_accounts answers 404 unless every account exists.
Loadable(S) == S # {} /\ \A a \in S : users[a] # NULL

EnableUsers(S) ==
  /\ Loadable(S)
  /\ users' = [a \in Accounts |->
       IF a \in S THEN [users[a] EXCEPT !.status = "active", !.until = NULL] ELSE users[a]]
  /\ UNCHANGED <<policies, fails>>
  /\ Recompile

\* locked_until stays.
DisableUsers(S) ==
  /\ Loadable(S)
  /\ users' = [a \in Accounts |->
       IF a \in S THEN [users[a] EXCEPT !.status = "disabled"] ELSE users[a]]
  /\ UNCHANGED <<policies, fails>>
  /\ Recompile

AssignPolicy(S, p) ==
  /\ policies[p] # NULL
  /\ Loadable(S)
  /\ users' = [a \in Accounts |->
       IF a \in S THEN [users[a] EXCEPT !.policy = p] ELSE users[a]]
  /\ UNCHANGED <<policies, fails>>
  /\ Recompile

-----------------------------------------------------------------------------
(* api/policies.py *)

Live == {p \in Policies : policies[p] # NULL}

\* Mutant: an update is not checked against the other policies.
SlugFreeOnCreate(slug, except) == except = NULL => \A q \in Live : policies[q].slug # slug

\* _check_name_slug_free, for the policy being written.
SlugFree(slug, except) == \A q \in Live \ {except} : policies[q].slug # slug

CreatePolicy(p, row) ==
  /\ policies[p] = NULL
  /\ SlugFree(row.slug, NULL)
  /\ policies' = [policies EXCEPT ![p] = row]
  /\ UNCHANGED <<users, fails>>
  /\ Recompile

UpdatePolicy(p, row) ==
  /\ policies[p] # NULL
  /\ SlugFree(row.slug, p)
  /\ policies' = [policies EXCEPT ![p] = row]
  /\ UNCHANGED <<users, fails>>
  /\ Recompile

TogglePolicy(p, on) ==
  /\ policies[p] # NULL
  /\ policies' = [policies EXCEPT ![p].enabled = on]
  /\ UNCHANGED <<users, fails>>
  /\ Recompile

Position(order, p) == CHOOSE i \in DOMAIN order : order[i] = p

\* The body must list every policy; the head gets the highest priority, the last 1.
ReorderPolicies(order) ==
  /\ Range(order) = Live
  /\ policies' = [p \in Policies |->
       IF p \in Live
       THEN [policies[p] EXCEPT !.priority = Cardinality(Live) + 1 - Position(order, p)]
       ELSE NULL]
  /\ UNCHANGED <<users, fails>>
  /\ Recompile

\* Mutant: the check for users is missing and the foreign key nulls their policy.
DeletePolicyInUse(p) ==
  /\ policies[p] # NULL
  /\ users' = [a \in Accounts |->
       IF users[a] # NULL /\ users[a].policy = p THEN [users[a] EXCEPT !.policy = NULL]
       ELSE users[a]]
  /\ policies' = [policies EXCEPT ![p] = NULL]
  /\ UNCHANGED fails
  /\ Recompile

\* Refused with policy_in_use while a user has it.
DeletePolicy(p) ==
  /\ policies[p] # NULL
  /\ \A a \in Accounts : users[a] # NULL => users[a].policy # p
  /\ policies' = [policies EXCEPT ![p] = NULL]
  /\ UNCHANGED <<users, fails>>
  /\ Recompile

\* POST /ops/compile.
OpsCompile ==
  /\ UNCHANGED <<users, policies, fails>>
  /\ Recompile

-----------------------------------------------------------------------------
(* services/alerts.py, lockout_sweeper *)

Locked(a) == users[a] # NULL /\ users[a].status = "locked"

\* Mutant: the status is not looked at.
ExpiredAnyStatus(a) == users[a] # NULL /\ users[a].until # NULL /\ users[a].until = 0

Expired(a) == /\ Locked(a)
              /\ users[a].until # NULL
              /\ users[a].until = 0

Unlocked == [a \in Accounts |->
  IF Expired(a) THEN [users[a] EXCEPT !.status = "active", !.until = NULL] ELSE users[a]]

RecentFails(a) == FoldFunction(+, 0, fails[a])

\* Mutant of Hot: the status is not looked at.
HotAnyStatus == {a \in Accounts : RecentFails(a) >= Threshold /\ users[a] # NULL}

\* The accounts the second half locks; it sees what the first half unlocked.
Hot == {a \in Accounts : /\ RecentFails(a) >= Threshold
                         /\ users[a] # NULL
                         /\ Unlocked[a].status = "active"}

LockedRow(u) == [u EXCEPT !.status = "locked", !.until = LockTicks]

Sweep ==
  LET expired == {a \in Accounts : Expired(a)}
      opened == IF expired # {} THEN Compiled(rows, Unlocked, policies) ELSE rows
  IN /\ users' = [a \in Accounts |->
          IF a \in Hot THEN LockedRow(Unlocked[a]) ELSE Unlocked[a]]
     /\ rows' = IF Hot # {} THEN Compiled(opened, users', policies) ELSE opened
     /\ UNCHANGED <<policies, fails>>

-----------------------------------------------------------------------------
(* ldap_sync/sync.py, _process_users: `listed` are the accounts of the      *)
(* entries the directory returned, `off` those it marks as disabled,        *)
(* `touched` says that an attribute of a known user differs.                *)

AdSync(listed, off, touched) ==
  LET known == {a \in Accounts \ LocalAccounts : users[a] # NULL}
      seen == listed \ {BootstrapAdmin}
      new == (seen \ off) \ known
      gone == {a \in known : /\ users[a].status # "disabled"
                             /\ a \in seen \cap off \/ a \notin listed}
  IN /\ off \subseteq listed
     /\ touched => known \cap (seen \ off) # {}
     \* An entry with the account of a local user breaks the unique key and
     \* the whole transaction with it.
     /\ new \cap LocalAccounts = {}
     /\ users' = [a \in Accounts |->
          IF a \in new THEN Fresh
          ELSE IF a \in gone THEN [users[a] EXCEPT !.status = "disabled"]
          ELSE users[a]]
     /\ UNCHANGED <<policies, fails>>
     /\ IF new \cup gone # {} \/ touched THEN Recompile ELSE UNCHANGED rows

-----------------------------------------------------------------------------
(* FreeRADIUS and time *)

\* Mutant: a rejected account's attempts are logged as bare rejects too.
BareRejectLocked(a) ==
  /\ fails' = [fails EXCEPT ![a][1] = Saturated(@ + 1)]
  /\ UNCHANGED <<users, policies, rows>>

\* A wrong password.  A rejected account is answered with a reason=..., which
\* the sweeper does not count.
BareReject(a) ==
  /\ ~IsRejected(rows, a)
  /\ fails' = [fails EXCEPT ![a][1] = Saturated(@ + 1)]
  /\ UNCHANGED <<users, policies, rows>>

\* Lock deadlines come closer and the log ages.
Tick ==
  /\ users' = [a \in Accounts |->
       IF users[a] # NULL /\ users[a].until # NULL /\ users[a].until > 0
       THEN [users[a] EXCEPT !.until = @ - 1] ELSE users[a]]
  /\ fails' = [a \in Accounts |-> [i \in 1..Window |-> IF i = 1 THEN 0 ELSE fails[a][i - 1]]]
  /\ UNCHANGED <<policies, rows>>

-----------------------------------------------------------------------------

\* The policy bodies an administrator may send.
PolicyBodies == [slug: Slugs, enabled: BOOLEAN, priority: Priorities, profile: Profiles]

\* The lists of distinct policies a reorder may send.
Orders == UNION {Bijection(1..Cardinality(S), S) : S \in (SUBSET Policies) \ {{}}}

UserOps == \E S \in SUBSET Accounts :
  \/ EnableUsers(S)
  \/ DisableUsers(S)
  \/ \E p \in Policies : AssignPolicy(S, p)

PolicyOps ==
  \/ \E p \in Policies, row \in PolicyBodies : CreatePolicy(p, row)
  \/ \E p \in Policies, row \in PolicyBodies : UpdatePolicy(p, row)
  \/ \E p \in Policies, on \in BOOLEAN : TogglePolicy(p, on)
  \/ \E order \in Orders : ReorderPolicies(order)
  \/ \E p \in Policies : DeletePolicy(p)
  \/ OpsCompile

Next ==
  \/ UserOps
  \/ PolicyOps
  \/ Sweep
  \/ \E listed, off \in SUBSET Accounts, touched \in BOOLEAN : AdSync(listed, off, touched)
  \/ \E a \in Accounts : BareReject(a)
  \/ Tick

Spec == Init /\ [][Next]_vars

\* The scheduler runs the sweeper at a fixed interval whatever its last run
\* did, and the clock runs.  Nothing an administrator, a user or the directory
\* does is fair.
FairSpec == Spec /\ WF_vars(Sweep) /\ WF_vars(Tick)
-----------------------------------------------------------------------------
(* Correctness. *)

Adm == INSTANCE Admission

\* Every transaction is one step of the abstract machine: the rows follow the
\* tables in the same commit, and the status moves as docs/02 draws it.
ImplementsAdmission == Adm!Spec

\* What FreeRADIUS decides about an account is what the account's row says:
\* status other than active is answered with Auth-Type := Reject and the
\* reason of that status, an active one is not (docs/02, radius/compiler.py).
OnlyActiveAdmitted == \A a \in Accounts : users[a] # NULL =>
  /\ IsRejected(rows, a) <=> users[a].status # "active"
  /\ DenyReasons(rows, a) = {users[a].status} \ {"active"}

\* An account is answered with the attributes of its own policy and of no
\* other, and with none when it is not active or its policy is off: renaming,
\* reordering, switching and deleting policies leaves no trace of what was.
OwnPolicyOnly == \A a \in Accounts :
  GrantedProfiles(rows, a) =
    {policies[p].profile : p \in {q \in Live : /\ policies[q].enabled
                                            /\ users[a] # NULL
                                            /\ users[a].status = "active"
                                            /\ users[a].policy = q}}

\* Rows that no pattern of the compiler matches (seeded passwords, hand-made
\* groups) survive every recompile untouched (radius/compiler.py, module comment).
ForeignRowsKept == [][rows' \ MatchedRows(rows') = rows \ MatchedRows(rows)]_vars

\* A locked account carries the deadline the sweeper will release it at; a
\* locked account without one would stay locked for ever.
LockHasDeadline == \A a \in Accounts :
  Locked(a) => users[a].until # NULL

\* No transaction takes a user's policy away: a policy in use is not deleted.
AssignmentSurvives == [][\A a \in Accounts :
  users[a] # NULL =>
    /\ users'[a] # NULL
    /\ users[a].policy # NULL => users'[a].policy # NULL]_vars

\* A disabled account, which may still carry an old lock deadline, comes back
\* only by an administrator's enable: not by the sweeper, and not by AD sync,
\* although docs/02 draws an arrow for that too.
DisabledNeedsEnable == [][\A a \in Accounts :
  (/\ users[a] # NULL
   /\ users[a].status = "disabled"
   /\ users'[a].status # "disabled")
  => \E S \in SUBSET Accounts : a \in S /\ EnableUsers(S)]_vars

\* docs/02: locked --> active when locked_until expires.  A locked account does
\* not stay locked, however often its owner keeps trying.
LockIsReleased == \A a \in Accounts : Locked(a) ~> ~Locked(a)
=============================================================================
