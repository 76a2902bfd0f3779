--------------------------- MODULE CompileTxnProofs ---------------------------
(***************************************************************************)
(* A transaction that nothing else commits into is a step of Admission, for *)
(* any accounts, policies, tables and sessions, and whatever earlier ones   *)
(* that overlapped have left behind.                                        *)
(*                                                                         *)
(* The property speaks of the commit alone.  Inductive is what a session    *)
(* knows at each of its statements: the objects it holds are the rows it    *)
(* would leave, and the rows of the radius tables it would leave come       *)
(* nearer to the compiled ones - as long as it is quiet.                    *)
(***************************************************************************)
EXTENDS CompileTxn, TLAPS

\* The rows that a transaction can meet: seeded ones, and those that some
\* accounts and policies compile to.
Universe ==
  SeedRows \cup UNION {DesiredRows(us, ps) : us \in [Accounts -> UserRow],
                                            ps \in [Policies -> PolicyRow]}

UserCopies == [Accounts -> UserRow \cup {NULL}]
PolicyCopies == [Policies -> PolicyRow \cup {NULL}]
RowCopies == Universe \X (Txns \cup {NULL})

Session ==
  [pc: {"idle", "load", "update", "toggle", "count", "hot",
        "policies", "users", "read", "apply", "commit"},
   kind: KindNames \cup {"unlock", "lock"},
   who: SUBSET Accounts, policy: Policies \cup {NULL}, on: BOOLEAN,
   left: SUBSET Accounts, todo: SUBSET Accounts,
   cache: UserCopies, pcache: PolicyCopies, mine: UserCopies, pmine: PolicyCopies,
   seen: PolicyCopies, want: SUBSET Universe, have: SUBSET Universe, k: Nat,
   del: SUBSET Universe, ins: SUBSET Universe,
   dead: SUBSET RowCopies, born: SUBSET Universe, quiet: BOOLEAN]

\* What session `s` would leave in the tables, were it to commit.
Left(s, us) == [a \in Accounts |-> IF s.mine[a] # NULL THEN s.mine[a] ELSE us[a]]
LeftPolicies(s, ps) == [p \in Policies |-> IF s.pmine[p] # NULL THEN s.pmine[p] ELSE ps[p]]
LeftRows(s, st) == {c[1] : c \in {d \in st : d \notin s.dead}} \cup s.born
Wanted(s, us, ps) == DesiredRows(Left(s, us), LeftPolicies(s, ps))

\* It deletes rows it matches and inserts rows it owns, and knows what it is about.
Place(s, st) ==
  /\ s.pc = "idle" => s = Idle
  /\ s.dead \subseteq st
  /\ \A c \in s.dead : Matched(c[1])
  /\ \A r \in s.del \cup s.have : Matched(r)
  /\ \A r \in s.want \cup s.ins \cup s.born : Owned(r)
  /\ \A p \in Policies : s.pmine[p] # NULL => s.pcache[p] # NULL
  /\ s.pc = "load" =>
       s.kind = "assign" /\ s.policy \in Policies /\ s.mine = None
  /\ s.pc = "update" =>
       /\ s.kind \in {"enable", "disable", "assign", "unlock", "lock"}
       /\ s.kind = "assign" => s.policy \in Policies
       /\ s.kind = "lock" => s.on
       /\ \A a \in s.todo : s.cache[a] # NULL
  /\ s.pc = "toggle" =>
       /\ s.kind = "toggle" /\ s.policy \in Policies
       /\ s.pcache[s.policy] # NULL /\ s.pmine = NoPolicy
  /\ s.pc = "count" => s.kind = "unlock"
  /\ s.pc = "hot" => s.kind = "lock"
  /\ s.pc = "users" => s.seen \in [Policies -> PolicyRow]
  /\ s.pc = "read" => s.k \in DOMAIN Tables

\* The objects are the rows it would leave, and its UPDATEs move no account from
\* disabled to locked.
Holds(s, us, ps) ==
  /\ \A a \in Accounts : s.cache[a] # NULL => s.cache[a] = Left(s, us)[a]
  /\ \A p \in Policies : s.pcache[p] # NULL => s.pcache[p] = LeftPolicies(s, ps)[p]
  /\ \A a \in Accounts : s.mine[a] # NULL /\ us[a].status = "disabled" =>
       s.mine[a].status # "locked" /\ s.kind \notin {"unlock", "lock"}
  /\ s.pc = "update" /\ s.kind = "unlock" => \A a \in s.todo : us[a].status = "locked"
  /\ s.pc = "update" /\ s.kind = "lock" => \A a \in s.todo : s.cache[a].status = "active"

\* Where it has compiled all that it has changed.
Settled(s) ==
  \/ s.pc = "count" /\ s.who # {}
  \/ s.pc = "hot" /\ s.who # {} /\ ~s.on
  \/ s.pc = "commit" /\ (s.kind = "lock" => s.who # {} \/ s.on)

Compiling(s, us, ps, st) ==
  LET rows == LeftRows(s, st)
  IN /\ s.pc = "users" => s.seen = LeftPolicies(s, ps)
     /\ s.pc = "read" =>
          /\ s.want = Wanted(s, us, ps)
          /\ s.have = {r \in MatchedRows(rows) : \E i \in 1..(s.k - 1) : r[1] = Tables[i]}
     /\ s.pc = "apply" =>
          /\ s.del = MatchedRows(rows) \ Wanted(s, us, ps)
          /\ s.ins = Wanted(s, us, ps) \ rows
     /\ Settled(s) => OwnedRows(rows) = Wanted(s, us, ps)

Ok(s, us, ps, st) ==
  /\ s \in Session /\ Place(s, st)
  /\ s.quiet => Holds(s, us, ps) /\ Compiling(s, us, ps, st)

\* No two sessions delete the same copy: the second waits for the first.
Exclusive == \A t, u \in Txns : t # u => sess[t].dead \cap sess[u].dead = {}

Types ==
  /\ users \in [Accounts -> UserRow]
  /\ policies \in [Policies -> PolicyRow]
  /\ stored \subseteq RowCopies
  /\ sess \in [Txns -> Session]

IInv == Types /\ Exclusive /\ \A t \in Txns : Ok(sess[t], users, policies, stored)
-----------------------------------------------------------------------------
(* The rows that the compiler wants and matches. *)

UserTable == [Accounts -> UserRow]
PolicyTable == [Policies -> PolicyRow]

\* Every row compile_all wants is one it recognises as its own.
LEMMA DesiredOwned ==
  ASSUME NEW us \in UserTable, NEW ps \in PolicyTable, NEW r \in DesiredRows(us, ps)
  PROVE  Owned(r) /\ r \in Universe
<1>1. \A p \in Enabled(ps) : ps[p].slug \in Slugs
  BY DEF Enabled, PolicyTable, PolicyRow
<1>2. r \in GroupRows(ps) => Owned(r)
  BY <1>1 DEF GroupRows, Owned
<1>3. r \in MemberRows(us, ps) => Owned(r)
  BY <1>1 DEF MemberRows, Members, Owned
<1>4. r \in RejectRows(us) => Owned(r)
  BY DEF RejectRows, Owned
<1>5. r \in Universe
  BY DEF Universe, UserTable, PolicyTable
<1> QED BY <1>2, <1>3, <1>4, <1>5 DEF DesiredRows

\* The desired rows depend on the users' status and policy only.
LEMMA DesiredSame ==
  ASSUME NEW us \in UserTable, NEW vs \in UserTable, NEW ps,
         \A a \in Accounts : us[a].status = vs[a].status /\ us[a].policy = vs[a].policy
  PROVE  DesiredRows(us, ps) = DesiredRows(vs, ps)
<1>1. \A a \in Accounts : us[a] # NULL /\ vs[a] # NULL
  BY NullAssumption DEF UserTable
<1>2. Members(us, ps) = Members(vs, ps)
  BY <1>1 DEF Members
<1>3. MemberRows(us, ps) = MemberRows(vs, ps)
  BY <1>2 DEF MemberRows, Members
<1>4. Blocked(us) = Blocked(vs)
  BY <1>1 DEF Blocked
<1>5. RejectRows(us) = RejectRows(vs)
  BY <1>4 DEF RejectRows, Blocked
<1> QED BY <1>3, <1>5 DEF DesiredRows

\* What a transaction matches is its own, and in a table that it reads.
LEMMA UniverseMatched ==
  ASSUME NEW r \in Universe, Matched(r)
  PROVE  Owned(r) /\ \E i \in DOMAIN Tables : r[1] = Tables[i]
<1>1. r \notin SeedRows
  BY TxnAssumption
<1>2. PICK us \in UserTable, ps \in PolicyTable : r \in DesiredRows(us, ps)
  BY <1>1 DEF Universe, UserTable, PolicyTable
<1>3. Owned(r)
  BY <1>2, DesiredOwned
<1>4. CASE r \in GroupRows(ps) \cup MemberRows(us, ps)
  <2>1. Policies # {}
    BY <1>4, NullAssumption DEF GroupRows, MemberRows, Members, Enabled
  <2>2. r[1] \in {"radgroupreply", "radgroupcheck", "radusergroup"}
    BY <1>4 DEF GroupRows, MemberRows
  <2> QED BY <1>3, <2>1, <2>2, TablesAssumption
<1>5. CASE r \in RejectRows(us)
  <2>1. r[1] \in {"radcheck", "radreply"}
    BY <1>5 DEF RejectRows
  <2> QED BY <1>3, <2>1, TablesAssumption
<1> QED BY <1>2, <1>4, <1>5 DEF DesiredRows

\* radcheck is among them.
LEMMA TablesNamed == Len(Tables) \in Nat \ {0} /\ DOMAIN Tables = 1..Len(Tables)
<1>1. PICK i \in DOMAIN Tables : Tables[i] = "radcheck"
  BY TablesAssumption
<1>2. Len(Tables) \in Nat /\ DOMAIN Tables = 1..Len(Tables)
  BY TablesAssumption
<1> QED BY <1>1, <1>2

-----------------------------------------------------------------------------
(* Sessions. *)

\* What session `s` would leave, by type.
LEMMA LeftType ==
  ASSUME NEW us \in UserTable, NEW ps \in PolicyTable, NEW s \in Session
  PROVE  Left(s, us) \in UserTable /\ LeftPolicies(s, ps) \in PolicyTable
BY DEF Left, LeftPolicies, UserTable, PolicyTable, Session, UserCopies, PolicyCopies

\* Only what it has written tells apart what two sessions would leave.
LEMMA LeftSame ==
  ASSUME NEW us, NEW ps, NEW st, NEW s, NEW r,
         r.mine = s.mine, r.pmine = s.pmine, r.dead = s.dead, r.born = s.born
  PROVE  /\ Left(r, us) = Left(s, us)
         /\ LeftPolicies(r, ps) = LeftPolicies(s, ps)
         /\ LeftRows(r, st) = LeftRows(s, st)
         /\ Wanted(r, us, ps) = Wanted(s, us, ps)
BY DEF Left, LeftPolicies, LeftRows, Wanted

\* A session that is not open has nothing.
LEMMA IdleOk ==
  ASSUME NEW us \in UserTable, NEW ps \in PolicyTable, NEW st
  PROVE  Ok(Idle, us, ps, st)
<1>1. Idle \in Session
  BY DEF Idle, Session, None, NoPolicy, UserCopies, PolicyCopies, KindNames
<1>2. Place(Idle, st)
  BY DEF Place, Idle, None, NoPolicy
<1>3. Holds(Idle, us, ps)
  BY DEF Holds, Idle, None, NoPolicy
<1>4. Compiling(Idle, us, ps, st)
  BY DEF Compiling, Settled, Idle
<1> QED BY <1>1, <1>2, <1>3, <1>4 DEF Ok

\* A statement of one session leaves the others alone.
LEMMA SessionDeletes ==
  ASSUME IInv, NEW t \in Txns, NEW s,
         sess' = [sess EXCEPT ![t] = s],
         UNCHANGED <<users, policies, stored>>,
         Ok(s, users, policies, stored),
         \A u \in Txns \ {t} : s.dead \cap sess[u].dead = {}
  PROVE  IInv'
<1>1. sess'[t] = s /\ \A u \in Txns \ {t} : sess'[u] = sess[u]
  BY DEF IInv, Types
<1>2. Types'
  BY DEF IInv, Types, Ok
<1>3. Exclusive'
  BY <1>1 DEF IInv, Exclusive
<1>4. \A u \in Txns : Ok(sess'[u], users', policies', stored')
  BY <1>1 DEF IInv
<1> QED BY <1>2, <1>3, <1>4 DEF IInv

LEMMA SessionGoesOn ==
  ASSUME IInv, NEW t \in Txns, NEW s,
         sess' = [sess EXCEPT ![t] = s],
         UNCHANGED <<users, policies, stored>>,
         Ok(s, users, policies, stored),
         s.dead \subseteq sess[t].dead
  PROVE  IInv'
<1>1. \A u \in Txns \ {t} : s.dead \cap sess[u].dead = {}
  BY DEF IInv, Exclusive
<1> QED BY <1>1, SessionDeletes

-----------------------------------------------------------------------------
(* The first statements. *)

\* A session begins with what it has read, and has changed nothing.
LEMMA BeginOk ==
  ASSUME IInv, NEW t \in Txns, NEW s, Begin(t, s),
         s \in Session, Place(s, stored),
         Holds(s, users, policies), Compiling(s, users, policies, stored), s.dead = {}
  PROVE  IInv'
<1>1. Ok(s, users, policies, stored)
  BY DEF Ok
<1> QED BY <1>1, SessionGoesOn DEF Begin

LEMMA UpdateStatusOk ==
  ASSUME IInv, NEW t \in Txns, NEW kind \in {"enable", "disable"},
         NEW S \in SUBSET Accounts, UpdateStatus(t, kind, S)
  PROVE  IInv'
<1> DEFINE s == [Idle EXCEPT !.pc = "update", !.kind = kind, !.todo = S, !.cache = Loaded(t, S)]
<1>1. users \in [Accounts -> UserRow]
  BY DEF IInv, Types
<1>2. s \in Session
  BY <1>1 DEF Session, Idle, None, NoPolicy, UserCopies, PolicyCopies, KindNames, Loaded
<1>3. Place(s, stored)
  BY <1>1, NullAssumption DEF Place, Idle, None, NoPolicy, Loaded
<1>4. Holds(s, users, policies)
  BY DEF Holds, Idle, None, NoPolicy, Loaded, Left
<1>5. Compiling(s, users, policies, stored)
  BY DEF Compiling, Settled, Idle
<1> QED BY <1>2, <1>3, <1>4, <1>5, BeginOk DEF UpdateStatus, Idle

LEMMA SweepOk ==
  ASSUME IInv, NEW t \in Txns, Sweep(t)
  PROVE  IInv'
<1> DEFINE s == [Idle EXCEPT !.pc = IF Expired = {} THEN "count" ELSE "update",
                             !.kind = "unlock", !.who = Expired, !.todo = Expired,
                             !.cache = Loaded(t, Expired)]
<1>1. users \in [Accounts -> UserRow]
  BY DEF IInv, Types
<1>2. s \in Session
  BY <1>1 DEF Session, Idle, None, NoPolicy, UserCopies, PolicyCopies, KindNames, Loaded, Expired
<1>3. Place(s, stored)
  <2>1. \A a \in Expired : s.cache[a] # NULL
    BY <1>1, NullAssumption DEF Loaded, Expired, Idle
  <2> QED BY <2>1 DEF Place, Idle, None, NoPolicy
<1>4. Holds(s, users, policies)
  BY DEF Holds, Idle, None, NoPolicy, Loaded, Left, Expired
<1>5. Compiling(s, users, policies, stored)
  BY DEF Compiling, Settled, Idle
<1> QED BY <1>2, <1>3, <1>4, <1>5, BeginOk DEF Sweep, Idle

LEMMA AssignPolicyOk ==
  ASSUME IInv, NEW t \in Txns, NEW S \in SUBSET Accounts, NEW p \in Policies,
         AssignPolicy(t, S, p)
  PROVE  IInv'
<1> DEFINE s == [Idle EXCEPT !.pc = "load", !.kind = "assign", !.who = S, !.policy = p,
                             !.pcache[p] = policies[p]]
<1>1. policies \in [Policies -> PolicyRow]
  BY DEF IInv, Types
<1>2. s \in Session
  BY <1>1 DEF Session, Idle, None, NoPolicy, UserCopies, PolicyCopies, KindNames
<1>3. Place(s, stored)
  BY <1>1 DEF Place, Idle, None, NoPolicy
<1>4. Holds(s, users, policies)
  BY DEF Holds, Idle, None, NoPolicy, LeftPolicies
<1>5. Compiling(s, users, policies, stored)
  BY DEF Compiling, Settled, Idle
<1> QED BY <1>2, <1>3, <1>4, <1>5, BeginOk DEF AssignPolicy, Idle

LEMMA TogglePolicyOk ==
  ASSUME IInv, NEW t \in Txns, NEW p \in Policies, NEW on \in BOOLEAN,
         TogglePolicy(t, p, on)
  PROVE  IInv'
<1> DEFINE s == [Idle EXCEPT !.pc = "toggle", !.kind = "toggle", !.policy = p, !.on = on,
                             !.pcache[p] = policies[p]]
<1>1. policies \in [Policies -> PolicyRow]
  BY DEF IInv, Types
<1>2. s \in Session
  BY <1>1 DEF Session, Idle, None, NoPolicy, UserCopies, PolicyCopies, KindNames
<1>3. Place(s, stored)
  BY <1>1, NullAssumption DEF Place, Idle, None, NoPolicy
<1>4. Holds(s, users, policies)
  BY DEF Holds, Idle, None, NoPolicy, LeftPolicies
<1>5. Compiling(s, users, policies, stored)
  BY DEF Compiling, Settled, Idle
<1> QED BY <1>2, <1>3, <1>4, <1>5, BeginOk DEF TogglePolicy, Idle

LEMMA OpsCompileOk ==
  ASSUME IInv, NEW t \in Txns, OpsCompile(t)
  PROVE  IInv'
<1> DEFINE s == [Idle EXCEPT !.pc = "policies"]
<1>1. s \in Session
  BY DEF Session, Idle, None, NoPolicy, UserCopies, PolicyCopies, KindNames
<1>2. Place(s, stored)
  BY DEF Place, Idle, None, NoPolicy
<1>3. Holds(s, users, policies)
  BY DEF Holds, Idle, None, NoPolicy
<1>4. Compiling(s, users, policies, stored)
  BY DEF Compiling, Settled, Idle
<1> QED BY <1>1, <1>2, <1>3, <1>4, BeginOk DEF OpsCompile, Idle
-----------------------------------------------------------------------------
(* The handlers' own statements. *)

LEMMA LoadAccountsOk ==
  ASSUME IInv, NEW t \in Txns, LoadAccounts(t)
  PROVE  IInv'
<1> DEFINE s == sess[t]
           r == [s EXCEPT !.pc = "update", !.todo = s.who, !.cache = Loaded(t, s.who)]
<1>1. /\ users \in [Accounts -> UserRow] /\ s \in Session /\ s.pc = "load"
      /\ Place(s, stored) /\ (s.quiet => Holds(s, users, policies))
  BY DEF IInv, Types, Ok, LoadAccounts
<1>2. /\ r \in Session /\ r.pc = "update" /\ r.todo = s.who /\ r.cache = Loaded(t, s.who)
      /\ r.kind = s.kind /\ r.who = s.who /\ r.on = s.on /\ r.policy = s.policy
      /\ r.mine = s.mine /\ r.pcache = s.pcache /\ r.pmine = s.pmine
      /\ r.dead = s.dead /\ r.born = s.born /\ r.want = s.want /\ r.have = s.have
      /\ r.del = s.del /\ r.ins = s.ins /\ r.quiet = s.quiet
  BY <1>1 DEF Session, UserCopies, Loaded
<1>3. s.kind = "assign" /\ s.mine = None /\ s.who \subseteq Accounts
  BY <1>1 DEF Place, Session
<1> HIDE DEF r
<1>4. Place(r, stored)
  <2>1. \A a \in s.who : Loaded(t, s.who)[a] # NULL
    BY <1>1, <1>3, NullAssumption DEF Loaded
  <2> QED BY <1>1, <1>2, <2>1 DEF Place
<1>5. ASSUME s.quiet
      PROVE  Holds(r, users, policies) /\ Compiling(r, users, policies, stored)
  <2>1. \A a \in Accounts : Left(r, users)[a] = users[a] /\ r.mine[a] = NULL
    BY <1>2, <1>3 DEF Left, None
  <2>2. LeftPolicies(r, policies) = LeftPolicies(s, policies)
    BY <1>2 DEF LeftPolicies
  <2>3. \A a \in Accounts : r.cache[a] # NULL => r.cache[a] = users[a]
    BY <1>2 DEF Loaded
  <2>4. Holds(r, users, policies)
    BY <1>1, <1>2, <1>3, <1>5, <2>1, <2>2, <2>3 DEF Holds
  <2> QED BY <1>2, <2>4 DEF Compiling, Settled
<1>6. Ok(r, users, policies, stored)
  BY <1>2, <1>4, <1>5 DEF Ok
<1>7. sess' = [sess EXCEPT ![t] = r]
  BY DEF LoadAccounts, r
<1> QED BY <1>2, <1>6, <1>7, SessionGoesOn DEF LoadAccounts

\* What the UPDATE of a session that holds the row writes is the object.
LEMMA MergedSame ==
  ASSUME NEW s \in Session, s.kind \in {"enable", "disable", "assign", "unlock", "lock"},
         s.kind = "assign" => s.policy \in Policies,
         NEW u \in UserRow
  PROVE  LET new == Assigned(s, u)
             columns == Changed(s, u, new)
         IN /\ new \in UserRow
            /\ \A row \in UserRow : Merged(row, new, columns) \in UserRow
            /\ Merged(u, new, columns) = new
            /\ columns = {} => new = u
            /\ s.kind \in {"enable", "unlock"} => new.status = "active"
            /\ s.kind = "disable" => new.status = "disabled"
            /\ s.kind = "assign" => new.status = u.status
            /\ s.kind = "lock" => new.status = "locked"
<1> DEFINE new == Assigned(s, u)
           columns == Changed(s, u, new)
<1>1. CASE s.kind \in {"enable", "unlock"}
  <2>1. new = [u EXCEPT !.status = "active", !.until = NULL]
    BY <1>1 DEF Assigned
  <2> QED BY <1>1, <2>1 DEF Changed, Merged, UserRow, Statuses
<1>2. CASE s.kind = "disable"
  <2>1. new = [u EXCEPT !.status = "disabled"]
    BY <1>2 DEF Assigned
  <2> QED BY <1>2, <2>1 DEF Changed, Merged, UserRow, Statuses
<1>3. CASE s.kind = "assign"
  <2>1. new = [u EXCEPT !.policy = s.policy]
    BY <1>3 DEF Assigned
  <2> QED BY <1>3, <2>1 DEF Changed, Merged, UserRow, Statuses
<1>4. CASE s.kind = "lock"
  <2>1. new = [u EXCEPT !.status = "locked", !.until = LockTicks]
    BY <1>4 DEF Assigned
  <2> QED BY <1>4, <2>1, TxnAssumption DEF Changed, Merged, UserRow, Statuses
<1> QED BY <1>1, <1>2, <1>3, <1>4

LEMMA UpdateAccountOk ==
  ASSUME IInv, NEW t \in Txns, NEW a \in Accounts, UpdateAccount(t, a)
  PROVE  IInv'
<1> DEFINE s == sess[t]
           new == Assigned(s, s.cache[a])
           columns == Changed(s, s.cache[a], new)
           row == IF columns = {} THEN s.mine[a] ELSE Merged(Selected(t, a), new, columns)
           next == IF s.todo \ {a} # {} THEN s.pc
                   ELSE IF s.kind = "lock" THEN "hot" ELSE "policies"
           r == [s EXCEPT !.cache[a] = new, !.mine[a] = row, !.todo = s.todo \ {a}, !.pc = next]
<1>1. /\ users \in [Accounts -> UserRow] /\ s \in Session /\ s.pc = "update"
      /\ a \in s.todo /\ Place(s, stored)
      /\ s.cache \in UserCopies /\ s.mine \in UserCopies
      /\ s.quiet => Holds(s, users, policies)
  BY DEF IInv, Types, Ok, UpdateAccount, Session
<1>2. /\ s.kind \in {"enable", "disable", "assign", "unlock", "lock"}
      /\ s.kind = "assign" => s.policy \in Policies
      /\ s.kind = "lock" => s.on
      /\ \A b \in s.todo : s.cache[b] # NULL
      /\ s.cache[a] \in UserRow
      /\ Selected(t, a) \in UserRow
  BY <1>1 DEF Place, Session, UserCopies, Selected
<1>3. /\ new \in UserRow
      /\ row \in UserRow \cup {NULL}
      /\ columns = {} => new = s.cache[a]
  BY <1>1, <1>2, MergedSame DEF Session, UserCopies
<1> HIDE DEF new, columns, row
<1>4. /\ r \in Session
      /\ r.pc = next /\ r.todo = s.todo \ {a} /\ r.mine = [s.mine EXCEPT ![a] = row]
      /\ r.cache = [s.cache EXCEPT ![a] = new]
      /\ r.kind = s.kind /\ r.who = s.who /\ r.on = s.on /\ r.policy = s.policy
      /\ r.pcache = s.pcache /\ r.pmine = s.pmine /\ r.dead = s.dead /\ r.born = s.born
      /\ r.want = s.want /\ r.have = s.have /\ r.del = s.del /\ r.ins = s.ins
      /\ r.quiet = s.quiet
  BY <1>1, <1>3 DEF Session, UserCopies
<1>5. next \in {"update", "hot", "policies"} /\ (next = "hot" => s.kind = "lock")
  BY <1>1
<1> HIDE DEF r, next
<1>6. \A b \in Accounts : /\ r.cache[b] = IF b = a THEN new ELSE s.cache[b]
                          /\ r.mine[b] = IF b = a THEN row ELSE s.mine[b]
  BY <1>1, <1>4 DEF UserCopies
<1>7. Place(r, stored)
  <2>1. r.todo \subseteq Accounts
    BY <1>4 DEF Session
  <2>2. \A b \in r.todo : r.cache[b] # NULL
    BY <1>2, <1>3, <1>4, <1>6, <2>1, NullAssumption
  <2> QED BY <1>1, <1>2, <1>4, <1>5, <2>2 DEF Place
<1>8. ASSUME s.quiet
      PROVE  Holds(r, users, policies) /\ Compiling(r, users, policies, stored)
  <2>1. Selected(t, a) = s.cache[a] /\ Holds(s, users, policies)
    BY <1>1, <1>2, <1>8 DEF Holds, Left, Selected
  <2>2. columns # {} => row = new
    BY <1>1, <1>2, <2>1, MergedSame DEF new, row, columns
  <2>3. \A b \in Accounts : Left(r, users)[b] = IF b = a THEN new ELSE Left(s, users)[b]
    BY <1>2, <1>3, <1>6, <2>1, <2>2, NullAssumption DEF Left, row, Selected
  <2>4. \A b \in Accounts : r.cache[b] # NULL => r.cache[b] = Left(r, users)[b]
    BY <1>6, <2>1, <2>3 DEF Holds
  <2>5. LeftPolicies(r, policies) = LeftPolicies(s, policies)
    BY <1>4 DEF LeftPolicies
  <2>6. /\ new.status = "locked" => s.kind \in {"lock", "assign"}
        /\ s.kind = "assign" => new.status = s.cache[a].status
    BY <1>1, <1>2, MergedSame DEF new
  <2>7. columns # {} /\ users[a].status = "disabled" =>
          row.status # "locked" /\ s.kind \notin {"unlock", "lock"}
    <3>1. SUFFICES ASSUME columns # {}, users[a].status = "disabled"
                   PROVE  row.status # "locked" /\ s.kind \notin {"unlock", "lock"}
      OBVIOUS
    <3>2. s.kind # "unlock"
      BY <1>1, <2>1, <3>1 DEF Holds
    <3>3. s.cache[a].status # "locked"
      BY <1>1, <1>2, <2>1, <3>1 DEF Holds, Selected
    <3>4. s.kind # "lock"
      BY <1>1, <2>1, <3>1, <3>3 DEF Holds, Selected
    <3> QED BY <2>2, <2>6, <3>1, <3>2, <3>3, <3>4
  <2>8. \A b \in Accounts : r.mine[b] # NULL /\ users[b].status = "disabled" =>
          r.mine[b].status # "locked" /\ r.kind \notin {"unlock", "lock"}
    BY <1>4, <1>6, <2>1, <2>7 DEF Holds, row
  <2>9. /\ r.pc = "update" /\ r.kind = "unlock" => \A b \in r.todo : users[b].status = "locked"
        /\ r.pc = "update" /\ r.kind = "lock" => \A b \in r.todo : r.cache[b].status = "active"
    BY <1>1, <1>4, <1>6, <2>1 DEF Holds, Session
  <2>10. Holds(r, users, policies)
    BY <1>4, <2>1, <2>4, <2>5, <2>8, <2>9 DEF Holds
  <2>11. Compiling(r, users, policies, stored)
    BY <1>2, <1>4, <1>5 DEF Compiling, Settled
  <2> QED BY <2>10, <2>11
<1>9. Ok(r, users, policies, stored)
  BY <1>4, <1>7, <1>8 DEF Ok
<1>10. sess' = [sess EXCEPT ![t] = r]
  BY DEF UpdateAccount, r, row, new, columns, next
<1> QED BY <1>4, <1>9, <1>10, SessionGoesOn DEF UpdateAccount
LEMMA UpdatePolicyOk ==
  ASSUME IInv, NEW t \in Txns, UpdatePolicy(t)
  PROVE  IInv'
<1> DEFINE s == sess[t]
           p == s.policy
           new == [s.pcache[p] EXCEPT !.enabled = s.on]
           row == IF new = s.pcache[p] THEN s.pmine[p] ELSE [policies[p] EXCEPT !.enabled = s.on]
           r == [s EXCEPT !.pcache[p] = new, !.pmine[p] = row, !.pc = "policies"]
<1>1. /\ policies \in [Policies -> PolicyRow] /\ s \in Session /\ s.pc = "toggle"
      /\ Place(s, stored) /\ s.pcache \in PolicyCopies /\ s.pmine \in PolicyCopies
      /\ s.on \in BOOLEAN
      /\ s.quiet => Holds(s, users, policies)
  BY DEF IInv, Types, Ok, UpdatePolicy, Session
<1>2. s.kind = "toggle" /\ p \in Policies /\ s.pcache[p] # NULL /\ s.pmine = NoPolicy
  BY <1>1 DEF Place
<1>3. s.pcache[p] \in PolicyRow /\ policies[p] \in PolicyRow
  BY <1>1, <1>2 DEF PolicyCopies
<1>4. new \in PolicyRow /\ [policies[p] EXCEPT !.enabled = s.on] \in PolicyRow
  BY <1>1, <1>3 DEF PolicyRow
<1>5. row \in PolicyRow \cup {NULL}
  BY <1>2, <1>4 DEF NoPolicy
<1> HIDE DEF new, row
<1>6. /\ r \in Session /\ r.pc = "policies"
      /\ r.pcache = [s.pcache EXCEPT ![p] = new] /\ r.pmine = [s.pmine EXCEPT ![p] = row]
      /\ r.kind = s.kind /\ r.who = s.who /\ r.on = s.on /\ r.policy = s.policy
      /\ r.cache = s.cache /\ r.mine = s.mine /\ r.dead = s.dead /\ r.born = s.born
      /\ r.want = s.want /\ r.have = s.have /\ r.del = s.del /\ r.ins = s.ins
      /\ r.quiet = s.quiet
  BY <1>1, <1>4, <1>5 DEF Session, PolicyCopies
<1> HIDE DEF r
<1>7. \A q \in Policies : /\ r.pcache[q] = IF q = p THEN new ELSE s.pcache[q]
                          /\ r.pmine[q] = IF q = p THEN row ELSE NULL
  BY <1>1, <1>2, <1>6 DEF PolicyCopies, NoPolicy
<1>8. Place(r, stored)
  <2>1. \A q \in Policies : r.pmine[q] # NULL => r.pcache[q] # NULL
    BY <1>4, <1>7, NullAssumption
  <2> QED BY <1>1, <1>6, <2>1 DEF Place
<1>9. ASSUME s.quiet
      PROVE  Holds(r, users, policies) /\ Compiling(r, users, policies, stored)
  <2>1. Holds(s, users, policies)
    BY <1>1, <1>9
  <2>2. s.pcache[p] = policies[p]
    BY <1>2, <2>1 DEF Holds, LeftPolicies, NoPolicy
  <2>3. LeftPolicies(r, policies)[p] = new
    BY <1>2, <1>4, <1>7, <2>2, NullAssumption DEF LeftPolicies, NoPolicy, row, new
  <2>4. \A q \in Policies \ {p} : LeftPolicies(r, policies)[q] = LeftPolicies(s, policies)[q]
    BY <1>2, <1>7 DEF LeftPolicies, NoPolicy
  <2>5. Left(r, users) = Left(s, users)
    BY <1>6 DEF Left
  <2>6. \A q \in Policies : r.pcache[q] # NULL => r.pcache[q] = LeftPolicies(r, policies)[q]
    BY <1>7, <2>1, <2>3, <2>4 DEF Holds
  <2>7. Holds(r, users, policies)
    BY <1>6, <2>1, <2>5, <2>6 DEF Holds
  <2> QED BY <1>6, <2>7 DEF Compiling, Settled
<1>10. Ok(r, users, policies, stored)
  BY <1>6, <1>8, <1>9 DEF Ok
<1>11. sess' = [sess EXCEPT ![t] = r]
  BY DEF UpdatePolicy, r, row, new
<1> QED BY <1>6, <1>10, <1>11, SessionGoesOn DEF UpdatePolicy

LEMMA CountFailuresOk ==
  ASSUME IInv, NEW t \in Txns, NEW over \in SUBSET Accounts, CountFailures(t, over)
  PROVE  IInv'
<1> DEFINE s == sess[t]
           r == [s EXCEPT !.pc = "hot", !.kind = "lock", !.left = over]
<1>1. /\ s \in Session /\ s.pc = "count" /\ Place(s, stored)
      /\ s.quiet => Holds(s, users, policies) /\ Compiling(s, users, policies, stored)
  BY DEF IInv, Types, Ok, CountFailures
<1>2. /\ r \in Session /\ r.pc = "hot" /\ r.kind = "lock"
      /\ r.who = s.who /\ r.on = s.on
      /\ r.cache = s.cache /\ r.mine = s.mine /\ r.pcache = s.pcache /\ r.pmine = s.pmine
      /\ r.dead = s.dead /\ r.born = s.born /\ r.want = s.want /\ r.have = s.have
      /\ r.del = s.del /\ r.ins = s.ins /\ r.quiet = s.quiet
  BY <1>1 DEF Session
<1> HIDE DEF r
<1>3. Place(r, stored)
  BY <1>1, <1>2 DEF Place
<1>4. ASSUME s.quiet
      PROVE  Holds(r, users, policies) /\ Compiling(r, users, policies, stored)
  <2>1. /\ Left(r, users) = Left(s, users)
        /\ LeftPolicies(r, policies) = LeftPolicies(s, policies)
        /\ LeftRows(r, stored) = LeftRows(s, stored)
        /\ Wanted(r, users, policies) = Wanted(s, users, policies)
    BY <1>2, LeftSame
  <2>2. s.kind = "unlock"
    BY <1>1 DEF Place
  <2>3. Holds(r, users, policies)
    BY <1>1, <1>2, <1>4, <2>1, <2>2 DEF Holds
  <2>4. Settled(r) => Settled(s)
    BY <1>1, <1>2 DEF Settled
  <2> QED BY <1>1, <1>2, <1>4, <2>1, <2>3, <2>4 DEF Compiling
<1>5. Ok(r, users, policies, stored)
  BY <1>2, <1>3, <1>4 DEF Ok
<1>6. sess' = [sess EXCEPT ![t] = r]
  BY DEF CountFailures, r
<1> QED BY <1>2, <1>5, <1>6, SessionGoesOn DEF CountFailures

LEMMA LookAtOk ==
  ASSUME IInv, NEW t \in Txns, NEW a \in Accounts, LookAt(t, a)
  PROVE  IInv'
<1> DEFINE s == sess[t]
           u == UserObject(t, a)
           held == [b \in Accounts |-> IF b = a THEN u ELSE IF b \in s.who THEN s.cache[b] ELSE NULL]
           active == u.status = "active"
           r == IF active
                THEN [s EXCEPT !.cache = held, !.left = s.left \ {a},
                               !.pc = "update", !.todo = {a}, !.on = TRUE]
                ELSE [s EXCEPT !.cache = held, !.left = s.left \ {a}]
<1>1. /\ users \in [Accounts -> UserRow] /\ s \in Session /\ s.pc = "hot" /\ Place(s, stored)
      /\ s.cache \in UserCopies /\ s.mine \in UserCopies /\ s.kind = "lock"
      /\ s.quiet => Holds(s, users, policies) /\ Compiling(s, users, policies, stored)
  BY DEF IInv, Types, Ok, LookAt, Session, Place
<1>2. u \in UserRow
  BY <1>1 DEF UserObject, Selected, UserCopies
<1>3. held \in UserCopies
  BY <1>1, <1>2 DEF UserCopies
<1> HIDE DEF u, held
<1>4. /\ r \in Session /\ r.cache = held
      /\ r.pc = IF active THEN "update" ELSE "hot"
      /\ r.todo = IF active THEN {a} ELSE s.todo
      /\ r.on = IF active THEN TRUE ELSE s.on
      /\ r.kind = s.kind /\ r.who = s.who /\ r.mine = s.mine
      /\ r.pcache = s.pcache /\ r.pmine = s.pmine
      /\ r.dead = s.dead /\ r.born = s.born /\ r.want = s.want /\ r.have = s.have
      /\ r.del = s.del /\ r.ins = s.ins /\ r.quiet = s.quiet
  BY <1>1, <1>3 DEF Session
<1> HIDE DEF r
<1>5. Place(r, stored)
  <2>1. held[a] = u /\ u # NULL
    BY <1>2, NullAssumption DEF held
  <2> QED BY <1>1, <1>4, <2>1 DEF Place
<1>6. ASSUME s.quiet
      PROVE  Holds(r, users, policies) /\ Compiling(r, users, policies, stored)
  <2>1. /\ Left(r, users) = Left(s, users)
        /\ LeftPolicies(r, policies) = LeftPolicies(s, policies)
        /\ LeftRows(r, stored) = LeftRows(s, stored)
        /\ Wanted(r, users, policies) = Wanted(s, users, policies)
    BY <1>4, LeftSame
  <2>2. u = Left(s, users)[a]
    BY <1>1, <1>6 DEF Holds, UserObject, Selected, Left, u
  <2>3. \A b \in Accounts : held[b] # NULL => held[b] = Left(s, users)[b]
    BY <1>1, <1>6, <2>2 DEF Holds, held
  <2>4. active => held[a].status = "active"
    BY DEF held
  <2>5. Holds(r, users, policies)
    BY <1>1, <1>4, <1>6, <2>1, <2>3, <2>4 DEF Holds
  <2>6. Settled(r) => Settled(s)
    BY <1>1, <1>4 DEF Settled
  <2> QED BY <1>1, <1>4, <1>6, <2>1, <2>5, <2>6 DEF Compiling
<1>7. Ok(r, users, policies, stored)
  BY <1>4, <1>5, <1>6 DEF Ok
<1>8. sess' = [sess EXCEPT ![t] = r]
  BY DEF LookAt, r, u, held
<1> QED BY <1>4, <1>7, <1>8, SessionGoesOn DEF LookAt

LEMMA EndSweepOk ==
  ASSUME IInv, NEW t \in Txns, EndSweep(t)
  PROVE  IInv'
<1> DEFINE s == sess[t]
           r == [s EXCEPT !.pc = IF s.on THEN "policies" ELSE "commit"]
<1>1. /\ s \in Session /\ s.pc = "hot" /\ Place(s, stored) /\ s.kind = "lock"
      /\ s.quiet => Holds(s, users, policies) /\ Compiling(s, users, policies, stored)
  BY DEF IInv, Types, Ok, EndSweep, Place
<1>2. /\ r \in Session /\ r.pc = IF s.on THEN "policies" ELSE "commit"
      /\ r.kind = s.kind /\ r.who = s.who /\ r.on = s.on
      /\ r.cache = s.cache /\ r.mine = s.mine /\ r.pcache = s.pcache /\ r.pmine = s.pmine
      /\ r.dead = s.dead /\ r.born = s.born /\ r.want = s.want /\ r.have = s.have
      /\ r.del = s.del /\ r.ins = s.ins /\ r.quiet = s.quiet
  BY <1>1 DEF Session
<1> HIDE DEF r
<1>3. Place(r, stored)
  BY <1>1, <1>2 DEF Place
<1>4. ASSUME s.quiet
      PROVE  Holds(r, users, policies) /\ Compiling(r, users, policies, stored)
  <2>1. /\ Left(r, users) = Left(s, users)
        /\ LeftPolicies(r, policies) = LeftPolicies(s, policies)
        /\ LeftRows(r, stored) = LeftRows(s, stored)
        /\ Wanted(r, users, policies) = Wanted(s, users, policies)
    BY <1>2, LeftSame
  <2>2. Holds(r, users, policies)
    BY <1>1, <1>2, <1>4, <2>1 DEF Holds
  <2>3. Settled(r) => Settled(s)
    BY <1>1, <1>2 DEF Settled
  <2> QED BY <1>1, <1>2, <1>4, <2>1, <2>2, <2>3 DEF Compiling
<1>5. Ok(r, users, policies, stored)
  BY <1>2, <1>3, <1>4 DEF Ok
<1>6. sess' = [sess EXCEPT ![t] = r]
  BY DEF EndSweep, r
<1> QED BY <1>2, <1>5, <1>6, SessionGoesOn DEF EndSweep
-----------------------------------------------------------------------------
(* compile_all *)

LEMMA ReadPoliciesOk ==
  ASSUME IInv, NEW t \in Txns, ReadPolicies(t)
  PROVE  IInv'
<1> DEFINE s == sess[t]
           seen == [p \in Policies |-> PolicyObject(t, p)]
           r == [s EXCEPT !.pc = "users", !.seen = seen]
<1>1. /\ policies \in [Policies -> PolicyRow] /\ s \in Session /\ Place(s, stored)
      /\ s.pcache \in PolicyCopies
      /\ s.quiet => Holds(s, users, policies)
  BY DEF IInv, Types, Ok, ReadPolicies, Session
<1>2. seen \in PolicyTable
  BY <1>1 DEF PolicyObject, PolicyCopies, PolicyTable
<1> HIDE DEF seen
<1>3. /\ r \in Session /\ r.pc = "users" /\ r.seen = seen
      /\ r.kind = s.kind /\ r.who = s.who /\ r.on = s.on
      /\ r.cache = s.cache /\ r.mine = s.mine /\ r.pcache = s.pcache /\ r.pmine = s.pmine
      /\ r.dead = s.dead /\ r.born = s.born /\ r.want = s.want /\ r.have = s.have
      /\ r.del = s.del /\ r.ins = s.ins /\ r.quiet = s.quiet
  BY <1>1, <1>2 DEF Session, PolicyTable, PolicyCopies
<1> HIDE DEF r
<1>4. Place(r, stored)
  BY <1>1, <1>2, <1>3 DEF Place, PolicyTable
<1>5. ASSUME s.quiet
      PROVE  Holds(r, users, policies) /\ Compiling(r, users, policies, stored)
  <2>1. /\ Left(r, users) = Left(s, users)
        /\ LeftPolicies(r, policies) = LeftPolicies(s, policies)
    BY <1>3, LeftSame
  <2>2. Holds(r, users, policies)
    BY <1>1, <1>3, <1>5, <2>1 DEF Holds
  <2>3. \A p \in Policies : PolicyObject(t, p) = LeftPolicies(s, policies)[p]
    BY <1>1, <1>5 DEF Place, Holds, PolicyObject, LeftPolicies
  <2>4. seen = LeftPolicies(s, policies)
    BY <2>3 DEF seen, LeftPolicies
  <2> QED BY <1>3, <2>1, <2>2, <2>4 DEF Compiling, Settled
<1>6. Ok(r, users, policies, stored)
  BY <1>3, <1>4, <1>5 DEF Ok
<1>7. sess' = [sess EXCEPT ![t] = r]
  BY DEF ReadPolicies, r, seen
<1> QED BY <1>3, <1>6, <1>7, SessionGoesOn DEF ReadPolicies

LEMMA ReadUsersOk ==
  ASSUME IInv, NEW t \in Txns, ReadUsers(t)
  PROVE  IInv'
<1> DEFINE s == sess[t]
           objects == [a \in Accounts |-> UserObject(t, a)]
           want == DesiredRows(objects, s.seen)
           r == [s EXCEPT !.pc = "read", !.k = 1, !.have = {}, !.seen = NoPolicy, !.want = want]
<1>1. /\ users \in [Accounts -> UserRow] /\ s \in Session /\ s.pc = "users" /\ Place(s, stored)
      /\ s.cache \in UserCopies /\ s.mine \in UserCopies
      /\ s.quiet => Holds(s, users, policies) /\ Compiling(s, users, policies, stored)
  BY DEF IInv, Types, Ok, ReadUsers, Session
<1>2. objects \in UserTable
  BY <1>1 DEF UserObject, Selected, UserCopies, UserTable
<1>3. s.seen \in PolicyTable
  BY <1>1 DEF Place, PolicyTable
<1> HIDE DEF objects
<1>4. \A q \in want : Owned(q) /\ q \in Universe
  BY <1>2, <1>3, DesiredOwned
<1> HIDE DEF want
<1>5. /\ r \in Session /\ r.pc = "read" /\ r.k = 1 /\ r.have = {} /\ r.want = want
      /\ r.kind = s.kind /\ r.who = s.who /\ r.on = s.on
      /\ r.cache = s.cache /\ r.mine = s.mine /\ r.pcache = s.pcache /\ r.pmine = s.pmine
      /\ r.dead = s.dead /\ r.born = s.born
      /\ r.del = s.del /\ r.ins = s.ins /\ r.quiet = s.quiet
  <2>1. want \subseteq Universe
    BY <1>4
  <2> QED BY <1>1, <2>1 DEF Session, NoPolicy, PolicyCopies
<1> HIDE DEF r
<1>6. Place(r, stored)
  BY <1>1, <1>4, <1>5, TablesNamed DEF Place
<1>7. ASSUME s.quiet
      PROVE  Holds(r, users, policies) /\ Compiling(r, users, policies, stored)
  <2>1. /\ Left(r, users) = Left(s, users)
        /\ LeftPolicies(r, policies) = LeftPolicies(s, policies)
        /\ Wanted(r, users, policies) = Wanted(s, users, policies)
    BY <1>5, LeftSame
  <2>2. Holds(r, users, policies)
    BY <1>1, <1>5, <1>7, <2>1 DEF Holds
  <2>3. \A a \in Accounts : UserObject(t, a) = Left(s, users)[a]
    BY <1>1, <1>7 DEF Holds, UserObject, Selected, Left
  <2>4. objects = Left(s, users)
    BY <2>3 DEF objects, Left
  <2>5. want = Wanted(s, users, policies)
    BY <1>1, <1>7, <2>4 DEF want, Wanted, Compiling
  <2>6. r.have = {q \in MatchedRows(LeftRows(r, stored)) : \E i \in 1..(r.k - 1) : q[1] = Tables[i]}
    BY <1>5
  <2> QED BY <1>5, <2>1, <2>2, <2>5, <2>6 DEF Compiling, Settled
<1>8. Ok(r, users, policies, stored)
  BY <1>5, <1>6, <1>7 DEF Ok
<1>9. sess' = [sess EXCEPT ![t] = r]
  BY DEF ReadUsers, r, want, objects
<1> QED BY <1>5, <1>8, <1>9, SessionGoesOn DEF ReadUsers

\* What a session sees of the tables is what it would leave there.
LEMMA VisibleRows ==
  ASSUME NEW t \in Txns
  PROVE  Visible(t) = LeftRows(sess[t], stored)
BY DEF Visible, Copies, LeftRows

\* All of it is rows the compiler knows of.
LEMMA LeftUniverse ==
  ASSUME NEW s \in Session, NEW st \in SUBSET RowCopies
  PROVE  LeftRows(s, st) \subseteq Universe
BY DEF LeftRows, Session, RowCopies

LEMMA ReadTableOk ==
  ASSUME IInv, NEW t \in Txns, ReadTable(t)
  PROVE  IInv'
<1> DEFINE s == sess[t]
           rows == LeftRows(s, stored)
           have == s.have \cup {q \in rows : Matched(q) /\ q[1] = Tables[s.k]}
           last == ~(s.k < Len(Tables))
           r == IF last
                THEN [s EXCEPT !.pc = "apply", !.k = 1, !.have = {}, !.want = {},
                               !.del = have \ s.want, !.ins = s.want \ have]
                ELSE [s EXCEPT !.have = have, !.k = s.k + 1]
<1>1. /\ s \in Session /\ s.pc = "read" /\ Place(s, stored)
      /\ s.have \subseteq Universe /\ s.want \subseteq Universe /\ s.k \in Nat
      /\ s.quiet => Holds(s, users, policies) /\ Compiling(s, users, policies, stored)
  BY DEF IInv, Types, Ok, ReadTable, Session
<1>2. rows \subseteq Universe
  BY LeftUniverse DEF IInv, Types
<1>3. s.k \in 1..Len(Tables) /\ Len(Tables) \in Nat
  BY <1>1, TablesNamed DEF Place
<1>4. /\ have \subseteq Universe
      /\ \A q \in have : Matched(q)
      /\ \A q \in s.want : Owned(q)
  BY <1>1, <1>2 DEF Place
<1>5. Visible(t) = rows
  BY VisibleRows
<1>6. sess' = [sess EXCEPT ![t] = r]
  BY <1>5 DEF ReadTable
<1> HIDE DEF rows, have
<1>7. /\ r \in Session
      /\ r.pc = IF last THEN "apply" ELSE "read"
      /\ r.k = IF last THEN 1 ELSE s.k + 1
      /\ r.have = IF last THEN {} ELSE have
      /\ r.want = IF last THEN {} ELSE s.want
      /\ r.del = IF last THEN have \ s.want ELSE s.del
      /\ r.ins = IF last THEN s.want \ have ELSE s.ins
      /\ r.kind = s.kind /\ r.who = s.who /\ r.on = s.on
      /\ r.cache = s.cache /\ r.mine = s.mine /\ r.pcache = s.pcache /\ r.pmine = s.pmine
      /\ r.dead = s.dead /\ r.born = s.born /\ r.quiet = s.quiet
  <2>1. have \ s.want \in SUBSET Universe /\ s.want \ have \in SUBSET Universe
    BY <1>1, <1>4
  <2>2. CASE last
    BY <1>1, <2>1, <2>2 DEF Session
  <2>3. CASE ~last
    <3>1. r = [s EXCEPT !.have = have, !.k = s.k + 1] /\ s.k + 1 \in Nat
      BY <1>1, <2>3
    <3> HIDE DEF r, last
    <3> QED BY <1>1, <1>4, <2>3, <3>1 DEF Session
  <2> QED BY <2>2, <2>3
<1> HIDE DEF r
<1>8. Place(r, stored)
  BY <1>1, <1>3, <1>4, <1>7, TablesNamed DEF Place
<1>9. ASSUME s.quiet
      PROVE  Holds(r, users, policies) /\ Compiling(r, users, policies, stored)
  <2>1. /\ Left(r, users) = Left(s, users)
        /\ LeftPolicies(r, policies) = LeftPolicies(s, policies)
        /\ LeftRows(r, stored) = rows
        /\ Wanted(r, users, policies) = Wanted(s, users, policies)
    BY <1>7, LeftSame DEF rows
  <2>2. Holds(r, users, policies)
    BY <1>1, <1>7, <1>9, <2>1 DEF Holds
  <2>3. /\ s.want = Wanted(s, users, policies)
        /\ s.have = {q \in MatchedRows(rows) : \E i \in 1..(s.k - 1) : q[1] = Tables[i]}
    BY <1>1, <1>9 DEF Compiling, rows
  <2>4. have = {q \in MatchedRows(rows) : \E i \in 1..s.k : q[1] = Tables[i]}
    BY <1>3, <2>3 DEF have, MatchedRows
  <2>5. CASE ~last
    <3>1. (s.k + 1) - 1 = s.k
      BY <1>3
    <3> QED BY <1>7, <2>1, <2>2, <2>3, <2>4, <2>5, <3>1 DEF Compiling, Settled
  <2>6. CASE last
    <3>1. s.k = Len(Tables)
      BY <1>3, <2>6
    <3>2. \A q \in MatchedRows(rows) : \E i \in DOMAIN Tables : q[1] = Tables[i]
      BY <1>2, UniverseMatched DEF MatchedRows
    <3>3. have = MatchedRows(rows)
      BY <2>4, <3>1, <3>2, TablesNamed
    <3>4. \A q \in s.want : q \in rows => q \in have
      BY <1>4, <3>3 DEF MatchedRows, Matched
    <3>5. s.want \ have = s.want \ rows
      BY <3>3, <3>4 DEF MatchedRows
    <3> QED BY <1>7, <2>1, <2>2, <2>3, <2>6, <3>3, <3>5 DEF Compiling, Settled
  <2> QED BY <2>5, <2>6
<1>10. Ok(r, users, policies, stored)
  BY <1>7, <1>8, <1>9 DEF Ok
<1> QED BY <1>6, <1>7, <1>10, SessionGoesOn DEF ReadTable
LEMMA DeleteOk ==
  ASSUME IInv, NEW t \in Txns, NEW q \in Pending(t), Delete(t, q)
  PROVE  IInv'
<1> DEFINE s == sess[t]
           dead == s.dead \cup Targets(t, q)
           r == [s EXCEPT !.del = s.del \ {q}, !.born = s.born \ {q}, !.dead = dead]
<1>1. /\ s \in Session /\ s.pc = "apply" /\ Place(s, stored) /\ stored \subseteq RowCopies
      /\ s.dead \subseteq stored
      /\ s.quiet => Holds(s, users, policies) /\ Compiling(s, users, policies, stored)
  BY DEF IInv, Types, Ok, Delete, Place
<1>2. Targets(t, q) = {c \in stored : c \notin s.dead /\ c[1] = q}
  BY DEF Targets, Copies
<1>3. q \in s.del /\ Matched(q)
  BY <1>1 DEF Pending, Place
<1>4. dead \in SUBSET RowCopies /\ dead \subseteq stored /\ \A c \in dead : Matched(c[1])
  BY <1>1, <1>2, <1>3 DEF Place
<1> HIDE DEF dead
<1>5. /\ r \in Session /\ r.pc = s.pc
      /\ r.del = s.del \ {q} /\ r.born = s.born \ {q} /\ r.dead = dead
      /\ r.kind = s.kind /\ r.who = s.who /\ r.on = s.on
      /\ r.cache = s.cache /\ r.mine = s.mine /\ r.pcache = s.pcache /\ r.pmine = s.pmine
      /\ r.want = s.want /\ r.have = s.have /\ r.ins = s.ins /\ r.quiet = s.quiet
  BY <1>1, <1>4 DEF Session
<1> HIDE DEF r
<1>6. Place(r, stored)
  BY <1>1, <1>4, <1>5 DEF Place
<1>7. ASSUME s.quiet
      PROVE  Holds(r, users, policies) /\ Compiling(r, users, policies, stored)
  <2>1. /\ Left(r, users) = Left(s, users)
        /\ LeftPolicies(r, policies) = LeftPolicies(s, policies)
        /\ Wanted(r, users, policies) = Wanted(s, users, policies)
    BY <1>5 DEF Left, LeftPolicies, Wanted
  <2>2. Holds(r, users, policies)
    BY <1>1, <1>5, <1>7, <2>1 DEF Holds
  <2>3. LeftRows(r, stored) = LeftRows(s, stored) \ {q}
    BY <1>2, <1>5 DEF LeftRows, dead
  <2>4. /\ s.del = MatchedRows(LeftRows(s, stored)) \ Wanted(s, users, policies)
        /\ s.ins = Wanted(s, users, policies) \ LeftRows(s, stored)
    BY <1>1, <1>7 DEF Compiling
  <2>5. /\ r.del = MatchedRows(LeftRows(r, stored)) \ Wanted(s, users, policies)
        /\ r.ins = Wanted(s, users, policies) \ LeftRows(r, stored)
    BY <1>3, <1>5, <2>3, <2>4 DEF MatchedRows
  <2> QED BY <1>1, <1>5, <2>1, <2>2, <2>5 DEF Compiling, Settled
<1>8. Ok(r, users, policies, stored)
  BY <1>5, <1>6, <1>7 DEF Ok
<1>9. sess' = [sess EXCEPT ![t] = r]
  BY DEF Delete, r, dead
<1>10. \A u \in Txns \ {t} : dead \cap sess[u].dead = {}
  BY DEF IInv, Exclusive, Delete, Deleters, dead
<1> QED BY <1>5, <1>8, <1>9, <1>10, SessionDeletes DEF Delete

LEMMA InsertMissingOk ==
  ASSUME IInv, NEW t \in Txns, InsertMissing(t)
  PROVE  IInv'
<1> DEFINE s == sess[t]
           next == IF s.kind = "unlock" THEN "count" ELSE "commit"
           r == [s EXCEPT !.born = s.born \cup s.ins, !.ins = {}, !.pc = next]
<1>1. /\ s \in Session /\ s.pc = "apply" /\ s.del = {} /\ Place(s, stored)
      /\ stored \subseteq RowCopies
      /\ s.quiet => Holds(s, users, policies) /\ Compiling(s, users, policies, stored)
  BY DEF IInv, Types, Ok, InsertMissing
<1>2. /\ r \in Session /\ r.pc = next /\ r.born = s.born \cup s.ins /\ r.ins = {}
      /\ r.kind = s.kind /\ r.who = s.who /\ r.on = s.on
      /\ r.cache = s.cache /\ r.mine = s.mine /\ r.pcache = s.pcache /\ r.pmine = s.pmine
      /\ r.want = s.want /\ r.have = s.have /\ r.del = s.del /\ r.dead = s.dead
      /\ r.quiet = s.quiet
  BY <1>1 DEF Session
<1> HIDE DEF r
<1>3. Place(r, stored)
  BY <1>1, <1>2 DEF Place
<1>4. ASSUME s.quiet
      PROVE  Holds(r, users, policies) /\ Compiling(r, users, policies, stored)
  <2> DEFINE rows == LeftRows(s, stored)
             want == Wanted(s, users, policies)
  <2>1. /\ Left(r, users) = Left(s, users)
        /\ LeftPolicies(r, policies) = LeftPolicies(s, policies)
        /\ Wanted(r, users, policies) = want
    BY <1>2 DEF Left, LeftPolicies, Wanted
  <2>2. Holds(r, users, policies)
    BY <1>1, <1>2, <1>4, <2>1 DEF Holds
  <2>3. LeftRows(r, stored) = rows \cup s.ins
    BY <1>2 DEF LeftRows
  <2>4. MatchedRows(rows) \subseteq want /\ s.ins = want \ rows
    BY <1>1, <1>4 DEF Compiling
  <2>5. \A q \in want : Owned(q)
    <3>1. users \in UserTable /\ policies \in PolicyTable
      BY DEF IInv, Types, UserTable, PolicyTable
    <3>2. Left(s, users) \in UserTable /\ LeftPolicies(s, policies) \in PolicyTable
      BY <1>1, <3>1, LeftType
    <3> QED BY <3>2, DesiredOwned DEF Wanted
  <2> HIDE DEF rows, want
  <2>6. OwnedRows(rows \cup s.ins) = want
    BY <2>4, <2>5 DEF OwnedRows, MatchedRows, Matched
  <2> QED BY <1>2, <2>1, <2>2, <2>3, <2>6 DEF Compiling
<1>5. Ok(r, users, policies, stored)
  BY <1>2, <1>3, <1>4 DEF Ok
<1>6. sess' = [sess EXCEPT ![t] = r]
  BY DEF InsertMissing, r
<1> QED BY <1>2, <1>5, <1>6, SessionGoesOn DEF InsertMissing
-----------------------------------------------------------------------------
(* The end of a transaction. *)

\* A commit leaves what its session would.
LEMMA CommitLeaves ==
  ASSUME NEW t \in Txns, Commit(t)
  PROVE  /\ users' = Left(sess[t], users)
         /\ policies' = LeftPolicies(sess[t], policies)
         /\ Rows' = LeftRows(sess[t], stored)
<1>1. users' = Left(sess[t], users) /\ policies' = LeftPolicies(sess[t], policies)
  BY DEF Commit, Left, LeftPolicies
<1>2. stored' = (stored \ sess[t].dead) \cup {<<q, t>> : q \in sess[t].born}
  BY DEF Commit
<1>3. \A q : q \in Rows' <=> q \in LeftRows(sess[t], stored)
  <2> DEFINE kept == {c \in stored : c \notin sess[t].dead}
             added == {<<q, t>> : q \in sess[t].born}
  <2>1. Rows' = {c[1] : c \in kept \cup added}
    <3>1. stored' = kept \cup added
      BY <1>2
    <3> QED BY <3>1 DEF Rows
  <2>2. /\ \A q \in sess[t].born : <<q, t>> \in added /\ <<q, t>>[1] = q
        /\ \A c \in added : c[1] \in sess[t].born
    OBVIOUS
  <2>3. LeftRows(sess[t], stored) = {c[1] : c \in kept} \cup sess[t].born
    BY DEF LeftRows
  <2> HIDE DEF kept, added
  <2> QED BY <2>1, <2>2, <2>3
<1> QED BY <1>1, <1>3

LEMMA CommitOk ==
  ASSUME IInv, NEW t \in Txns, Commit(t)
  PROVE  IInv'
<1> DEFINE after(u) == IF u = t \/ u \notin Open THEN Idle ELSE [sess[u] EXCEPT !.quiet = FALSE]
<1>1. /\ users \in UserTable /\ policies \in PolicyTable /\ stored \subseteq RowCopies
      /\ \A u \in Txns : sess[u] \in Session /\ Place(sess[u], stored)
  BY DEF IInv, Types, Ok, UserTable, PolicyTable
<1>2. sess' = [u \in Txns |-> after(u)]
  BY DEF Commit
<1>3. users' \in UserTable /\ policies' \in PolicyTable
  BY <1>1, CommitLeaves, LeftType
<1>4. stored' = (stored \ sess[t].dead) \cup {<<q, t>> : q \in sess[t].born}
  BY DEF Commit
<1>5. stored' \subseteq RowCopies
  BY <1>1, <1>4 DEF RowCopies, Session
<1>6. ASSUME NEW u \in Txns
      PROVE  /\ Ok(after(u), users', policies', stored')
             /\ after(u).dead = {} \/ after(u).dead = sess[u].dead
  <2>1. CASE u = t \/ u \notin Open
    BY <1>3, <2>1, IdleOk DEF Idle
  <2>2. CASE u # t /\ u \in Open
    <3> DEFINE s == sess[u]
               r == [s EXCEPT !.quiet = FALSE]
    <3>1. s \in Session /\ Place(s, stored) /\ s.pc # "idle"
      BY <1>1, <2>2 DEF Open
    <3>2. /\ r \in Session /\ r.quiet = FALSE
          /\ r.pc = s.pc /\ r.kind = s.kind /\ r.policy = s.policy /\ r.on = s.on
          /\ r.todo = s.todo /\ r.cache = s.cache /\ r.pcache = s.pcache
          /\ r.mine = s.mine /\ r.pmine = s.pmine /\ r.seen = s.seen /\ r.want = s.want
          /\ r.have = s.have /\ r.k = s.k /\ r.del = s.del /\ r.ins = s.ins
          /\ r.dead = s.dead /\ r.born = s.born
      BY <3>1 DEF Session
    <3>3. s.dead \subseteq stored'
      BY <1>4, <2>2, <3>1 DEF IInv, Exclusive, Place
    <3>4. after(u) = r
      BY <2>2
    <3> HIDE DEF r, s, after
    <3>5. Place(r, stored')
      BY <3>1, <3>2, <3>3 DEF Place
    <3> QED BY <3>2, <3>4, <3>5 DEF Ok, s
  <2> QED BY <2>1, <2>2
<1> HIDE DEF after
<1>7. Types'
  BY <1>2, <1>3, <1>5, <1>6 DEF Types, Ok, UserTable, PolicyTable
<1>8. Exclusive'
  BY <1>2, <1>6 DEF IInv, Exclusive
<1>9. \A u \in Txns : Ok(sess'[u], users', policies', stored')
  BY <1>2, <1>6
<1> QED BY <1>7, <1>8, <1>9 DEF IInv

LEMMA AbortOk ==
  ASSUME IInv, NEW t \in Txns, Abort(t)
  PROVE  IInv'
<1>1. Ok(Idle, users, policies, stored)
  BY IdleOk DEF IInv, Types, UserTable, PolicyTable
<1> QED BY <1>1, SessionGoesOn DEF Abort, Idle

LEMMA CrashOk ==
  ASSUME IInv, Crash
  PROVE  IInv'
<1>1. Ok(Idle, users, policies, stored)
  BY IdleOk DEF IInv, Types, UserTable, PolicyTable
<1>2. Idle \in Session /\ Idle.dead = {}
  BY <1>1 DEF Ok, Idle
<1>3. \A t \in Txns : sess'[t] = Idle
  BY DEF Crash
<1>4. Types' /\ Exclusive'
  BY <1>2, <1>3 DEF Crash, IInv, Types, Exclusive
<1> QED BY <1>1, <1>3, <1>4 DEF Crash, IInv

\* No session is open when time passes.
LEMMA TickOk ==
  ASSUME IInv, Tick
  PROVE  IInv'
<1>1. users' \in UserTable
  <2> SUFFICES ASSUME NEW a \in Accounts
               PROVE  users'[a] \in UserRow
    BY DEF Tick, UserTable
  <2>1. users[a] \in UserRow
    BY DEF IInv, Types
  <2>2. users[a].until # NULL /\ users[a].until > 0 => users[a].until - 1 \in Nat
    BY <2>1 DEF UserRow
  <2> QED BY <2>1, <2>2 DEF Tick, UserRow
<1>2. \A t \in Txns : sess[t] = Idle
  BY DEF Tick, Open, IInv, Ok, Place
<1>3. Ok(Idle, users', policies, stored)
  BY <1>1, IdleOk DEF IInv, Types, PolicyTable
<1>4. Types' /\ Exclusive'
  BY <1>1 DEF Tick, IInv, Types, Exclusive, UserTable
<1> QED BY <1>2, <1>3, <1>4 DEF Tick, IInv

-----------------------------------------------------------------------------
(* The invariant. *)

LEMMA InvInit == Init => IInv
<1> SUFFICES ASSUME Init
             PROVE  IInv
  OBVIOUS
<1>1. users \in UserTable /\ policies \in PolicyTable
  BY TxnAssumption DEF Init, UserTable, PolicyTable
<1>2. \A q \in DesiredRows(users, policies) : q \in Universe
  BY <1>1, DesiredOwned
<1>3. stored \subseteq RowCopies
  BY <1>2 DEF Init, RowCopies, Universe
<1>4. Ok(Idle, users, policies, stored)
  BY <1>1, IdleOk
<1>5. Idle \in Session /\ Idle.dead = {}
  BY <1>4 DEF Ok, Idle
<1> QED BY <1>1, <1>3, <1>4, <1>5 DEF Init, IInv, Types, Exclusive, UserTable, PolicyTable

LEMMA InvStep == IInv /\ [Next]_vars => IInv'
<1> SUFFICES ASSUME IInv, [Next]_vars
             PROVE  IInv'
  OBVIOUS
<1>1. ASSUME NEW t \in Txns, Request(t)
      PROVE  IInv'
  BY <1>1, UpdateStatusOk, AssignPolicyOk, TogglePolicyOk, OpsCompileOk, SweepOk DEF Request
<1>2. ASSUME NEW t \in Txns, Handler(t)
      PROVE  IInv'
  BY <1>2, LoadAccountsOk, UpdateAccountOk, LookAtOk, UpdatePolicyOk, CountFailuresOk, EndSweepOk
     DEF Handler
<1>3. ASSUME NEW t \in Txns, Compile(t)
      PROVE  IInv'
  BY <1>3, ReadPoliciesOk, ReadUsersOk, ReadTableOk, DeleteOk, InsertMissingOk DEF Compile
<1>4. ASSUME NEW t \in Txns, Commit(t) \/ Victim(t)
      PROVE  IInv'
  BY <1>4, CommitOk, AbortOk DEF Victim
<1>5. CASE UNCHANGED vars
  BY <1>5 DEF vars, IInv, Types, Exclusive
<1> QED BY <1>1, <1>2, <1>3, <1>4, <1>5, CrashOk, TickOk DEF Next, Proceed

\* What every session knows at each of its statements, and that none takes rows
\* from under another.
THEOREM Inductive == Spec => []IInv
BY InvInit, InvStep, PTL DEF Spec

\* A session holds row versions of the right shape, and deletes rows that are
\* there: no commit of another takes them away first.
THEOREM TypeCorrect == Spec => []TypeOK
<1>1. IInv => TypeOK
  BY DEF IInv, Types, Ok, Place, Session, UserCopies, TypeOK
<1> QED BY <1>1, Inductive, PTL

-----------------------------------------------------------------------------
(* The transactions implement Admission. *)

\* Admission speaks of the same rows.
LEMMA SameRows ==
  /\ \A us, ps : Adm!DesiredRows(us, ps) = DesiredRows(us, ps)
  /\ \A rs : Adm!OwnedRows(rs) = OwnedRows(rs)
  /\ \A rs : Adm!MatchedRows(rs) = MatchedRows(rs)
<1>1. ASSUME NEW us, NEW ps
      PROVE  Adm!DesiredRows(us, ps) = DesiredRows(us, ps)
  <2>1. Adm!GroupRows(ps) = GroupRows(ps)
    BY DEF Adm!GroupRows, GroupRows, Adm!Enabled, Enabled
  <2>2. Adm!MemberRows(us, ps) = MemberRows(us, ps)
    BY DEF Adm!MemberRows, MemberRows, Adm!Members, Members, Adm!Enabled, Enabled
  <2>3. Adm!RejectRows(us) = RejectRows(us)
    BY DEF Adm!RejectRows, RejectRows, Adm!Blocked, Blocked
  <2> QED BY <2>1, <2>2, <2>3 DEF Adm!DesiredRows, DesiredRows
<1>2. \A row : /\ Adm!Owned(row) <=> Owned(row)
               /\ Adm!Matched(row) <=> Matched(row)
  BY DEF Adm!Owned, Owned, Adm!Matched, Matched
<1> QED BY <1>1, <1>2 DEF Adm!OwnedRows, OwnedRows, Adm!MatchedRows, MatchedRows

\* A transaction that nothing else commits into is one step of Admission, however
\* wrong the rows were when it began: it leaves exactly the compiled rows of the
\* tables it commits, every row it does not match, and no status that docs/02
\* does not allow.
THEOREM QuietCommits == Spec => QuietCommitImplements
<1>1. IInv /\ [Next]_vars =>
        [\A t \in Txns : Commit(t) /\ sess[t].quiet /\ Compiles(t) => Adm!Next]_vars
  <2> SUFFICES ASSUME IInv, NEW t \in Txns, Commit(t), sess[t].quiet, Compiles(t)
               PROVE  Adm!Next
    OBVIOUS
  <2> DEFINE s == sess[t]
  <2>1. /\ s \in Session /\ Place(s, stored)
        /\ Holds(s, users, policies) /\ Compiling(s, users, policies, stored)
    BY DEF IInv, Ok
  <2>2. /\ users' = Left(s, users) /\ policies' = LeftPolicies(s, policies)
        /\ Rows' = LeftRows(s, stored)
    BY CommitLeaves
  <2>3. Adm!Consistent'
    <3>1. Settled(s)
      BY DEF Settled, Commit, Compiles
    <3>2. OwnedRows(Rows') = DesiredRows(users', policies')
      BY <2>1, <2>2, <3>1 DEF Compiling, Wanted
    <3> QED BY <3>2, SameRows DEF Adm!Consistent
  <2>4. Rows' \ MatchedRows(Rows') = Rows \ MatchedRows(Rows)
    <3>1. \A q : ~Matched(q) => (q \in LeftRows(s, stored) <=> q \in Rows)
      BY <2>1 DEF Place, LeftRows, Rows, Matched
    <3> QED BY <2>2, <3>1 DEF MatchedRows
  <2>5. ASSUME NEW a \in Accounts
        PROVE  Adm!Move(users[a], users'[a])
    <3>1. users[a] \in UserRow /\ users'[a] = IF s.mine[a] # NULL THEN s.mine[a] ELSE users[a]
      BY <2>2 DEF IInv, Types, Left
    <3>2. users[a] # NULL
      BY <3>1, NullAssumption
    <3> QED BY <2>1, <3>1, <3>2 DEF Adm!Move, Holds
  <2> QED BY <2>3, <2>4, <2>5, SameRows DEF Adm!Next
<1> QED BY <1>1, Inductive, PTL DEF Spec, QuietCommitImplements
=============================================================================
