------------------------- MODULE AccessControlProofs -------------------------
(***************************************************************************)
(* Proofs about AccessControl, for any accounts, policies, thresholds and   *)
(* seeded rows.                                                             *)
(***************************************************************************)
EXTENDS AccessControl, TLAPS, FiniteSetTheorems

-----------------------------------------------------------------------------
(* The compiler. *)

PolicyTable == [Policies -> PolicyRow \cup {NULL}]
UserTable == [Accounts -> UserRow \cup {NULL}]

\* Every row compile_all wants is one it recognises as its own.
LEMMA DesiredOwned ==
  ASSUME NEW us, NEW ps \in PolicyTable, NEW r \in DesiredRows(us, ps)
  PROVE  Owned(r)
<1>1. \A p \in Enabled(ps) : ps[p].slug \in Slugs
  BY DEF Enabled, PolicyTable, PolicyRow
<1>2. CASE r \in GroupRows(ps)
  BY <1>1, <1>2 DEF GroupRows, Owned
<1>3. CASE r \in MemberRows(us, ps)
  BY <1>1, <1>3 DEF MemberRows, Members, Owned
<1>4. CASE r \in RejectRows(us)
  BY <1>4 DEF RejectRows, Owned
<1> QED BY <1>2, <1>3, <1>4 DEF DesiredRows

\* A recompile leaves exactly the desired rows among its own, and every row no
\* pattern of it matches.
LEMMA CompiledRows ==
  ASSUME NEW rs, NEW us, NEW ps \in PolicyTable
  PROVE  /\ OwnedRows(Compiled(rs, us, ps)) = DesiredRows(us, ps)
         /\ Compiled(rs, us, ps) \ MatchedRows(Compiled(rs, us, ps)) = rs \ MatchedRows(rs)
<1>1. \A r \in DesiredRows(us, ps) : Owned(r)
  BY DesiredOwned
<1>2. \A r : Owned(r) => Matched(r)
  BY DEF Matched
<1> QED BY <1>1, <1>2 DEF Compiled, SyncRows, OwnedRows, MatchedRows

\* The desired rows depend on the users' status and policy only.
LEMMA DesiredSame ==
  ASSUME NEW us, NEW vs, NEW ps,
         \A a \in Accounts : /\ us[a] = NULL <=> vs[a] = NULL
                             /\ us[a] # NULL => /\ us[a].status = vs[a].status
                                                /\ us[a].policy = vs[a].policy
  PROVE  DesiredRows(us, ps) = DesiredRows(vs, ps)
<1>1. Members(us, ps) = Members(vs, ps)
  BY DEF Members
<1>2. MemberRows(us, ps) = MemberRows(vs, ps)
  BY <1>1 DEF MemberRows, Members
<1>3. Blocked(us) = Blocked(vs)
  BY DEF Blocked
<1>4. RejectRows(us) = RejectRows(vs)
  BY <1>3 DEF RejectRows, Blocked
<1> QED BY <1>2, <1>4 DEF DesiredRows

-----------------------------------------------------------------------------
(* Type correctness.  A step of one kind leaves one of the tables alone. *)

\* What is needed of the rows a transaction writes.
LEMMA RowUpdates ==
  ASSUME NEW u \in UserRow
  PROVE  /\ \A s \in Statuses : [u EXCEPT !.status = s] \in UserRow
         /\ \A s \in Statuses, d \in Nat \cup {NULL} :
              [u EXCEPT !.status = s, !.until = d] \in UserRow
         /\ \A p \in Policies : [u EXCEPT !.policy = p] \in UserRow
BY DEF UserRow

LEMMA UserOpsType ==
  ASSUME users \in UserTable, UserOps
  PROVE  /\ users' \in UserTable
         /\ UNCHANGED <<policies, fails>>
         /\ Recompile
<1> USE DEF UserTable
<1>1. PICK S \in SUBSET Accounts : \/ EnableUsers(S)
                                   \/ DisableUsers(S)
                                   \/ \E p \in Policies : AssignPolicy(S, p)
  BY DEF UserOps
<1>2. \A a \in S : Loadable(S) => users[a] \in UserRow
  BY <1>1 DEF Loadable
<1>3. CASE EnableUsers(S)
  BY <1>2, <1>3, RowUpdates DEF EnableUsers, Statuses
<1>4. CASE DisableUsers(S)
  BY <1>2, <1>4, RowUpdates DEF DisableUsers, Statuses
<1>5. CASE \E p \in Policies : AssignPolicy(S, p)
  <2>1. PICK p \in Policies : AssignPolicy(S, p)
    BY <1>5
  <2>2. \A a \in S : [users[a] EXCEPT !.policy = p] \in UserRow
    BY <1>2, <2>1, RowUpdates DEF AssignPolicy
  <2> QED BY <2>1, <2>2 DEF AssignPolicy
<1> QED BY <1>1, <1>3, <1>4, <1>5

LEMMA PolicyOpsType ==
  ASSUME policies \in PolicyTable, PolicyOps
  PROVE  /\ policies' \in PolicyTable
         /\ UNCHANGED <<users, fails>>
         /\ Recompile
<1> USE DEF PolicyTable
<1>1. PolicyBodies \subseteq PolicyRow
  BY AccessAssumption DEF PolicyBodies, PolicyRow
<1>2. CASE \E p \in Policies, row \in PolicyBodies : CreatePolicy(p, row)
  BY <1>1, <1>2 DEF CreatePolicy
<1>3. CASE \E p \in Policies, row \in PolicyBodies : UpdatePolicy(p, row)
  BY <1>1, <1>3 DEF UpdatePolicy
<1>4. CASE \E p \in Policies, on \in BOOLEAN : TogglePolicy(p, on)
  BY <1>4 DEF TogglePolicy, PolicyRow
<1>5. CASE \E order \in Orders : ReorderPolicies(order)
  <2>1. PICK S \in SUBSET Policies : \E order \in Bijection(1..Cardinality(S), S) :
                                       ReorderPolicies(order)
    BY <1>5 DEF Orders
  <2>2. PICK order \in Bijection(1..Cardinality(S), S) : ReorderPolicies(order)
    BY <2>1
  <2>3. Range(order) = Live /\ DOMAIN order = 1..Cardinality(S)
    BY <2>2 DEF ReorderPolicies, Bijection, Injection
  <2>4. \A p \in Live : Position(order, p) \in Int
    BY <2>3 DEF Position, Range
  <2>5. Cardinality(Live) \in Nat
    BY AccessAssumption, FS_Subset, FS_CardinalityType DEF Live
  <2>6. \A p \in Live : Cardinality(Live) + 1 - Position(order, p) \in Int
    BY <2>4, <2>5
  <2> QED BY <2>2, <2>6 DEF ReorderPolicies, Live, PolicyRow
<1>6. CASE \E p \in Policies : DeletePolicy(p)
  BY <1>6 DEF DeletePolicy
<1>7. CASE OpsCompile
  BY <1>7 DEF OpsCompile
<1> QED BY <1>2, <1>3, <1>4, <1>5, <1>6, <1>7 DEF PolicyOps

LEMMA SweepType ==
  ASSUME users \in UserTable, Sweep
  PROVE  /\ Unlocked \in UserTable
         /\ users' \in UserTable
<1> USE DEF UserTable
<1>1. \A a \in Accounts : users[a] # NULL => Unlocked[a] \in UserRow
  BY RowUpdates DEF Unlocked, Statuses
<1>2. \A a \in Accounts : users[a] = NULL => Unlocked[a] = NULL
  BY DEF Unlocked, Expired, Locked
<1>3. \A a \in Hot : LockedRow(Unlocked[a]) \in UserRow
  BY <1>1, RowUpdates, AccessAssumption DEF LockedRow, Statuses, Hot
<1>4. Unlocked \in UserTable
  BY <1>1, <1>2 DEF Unlocked
<1> QED BY <1>3, <1>4 DEF Sweep

LEMMA AdSyncType ==
  ASSUME users \in UserTable, NEW listed, NEW off, NEW touched, AdSync(listed, off, touched)
  PROVE  users' \in UserTable
BY RowUpdates DEF AdSync, UserTable, Statuses, Fresh, UserRow

LEMMA TickUsers ==
  ASSUME users \in UserTable, Tick
  PROVE  /\ users' \in UserTable
         /\ \A a \in Accounts : /\ users[a] = NULL <=> users'[a] = NULL
                                /\ users[a] # NULL =>
                                     /\ users'[a].status = users[a].status
                                     /\ users'[a].policy = users[a].policy
                                     /\ users'[a].until = NULL <=> users[a].until = NULL
<1>1. ASSUME NEW a \in Accounts, users[a] # NULL
      PROVE  /\ users'[a] \in UserRow
             /\ users'[a].status = users[a].status
             /\ users'[a].policy = users[a].policy
             /\ users'[a].until = NULL <=> users[a].until = NULL
  <2>1. users[a] \in UserRow
    BY <1>1 DEF UserTable
  <2>2. CASE users[a].until # NULL /\ users[a].until > 0
    <3>1. users'[a] = [users[a] EXCEPT !.until = @ - 1]
      BY <1>1, <2>2 DEF Tick
    <3>2. users[a].until - 1 \in Nat
      BY <2>1, <2>2 DEF UserRow
    <3> QED BY <2>1, <2>2, <3>1, <3>2, NullAssumption DEF UserRow
  <2>3. CASE ~(users[a].until # NULL /\ users[a].until > 0)
    BY <1>1, <2>1, <2>3 DEF Tick
  <2> QED BY <2>2, <2>3
<1>2. ASSUME NEW a \in Accounts, users[a] = NULL
      PROVE  users'[a] = NULL
  BY <1>2 DEF Tick
<1>3. DOMAIN users' = Accounts /\ users' = [a \in Accounts |-> users'[a]]
  BY DEF Tick
<1> QED BY <1>1, <1>2, <1>3, NullAssumption DEF UserTable

LEMMA LogType ==
  ASSUME TypeOK, NEW a \in Accounts, BareReject(a)
  PROVE  TypeOK'
<1>1. \A n \in 0..Threshold : Saturated(n + 1) \in 0..Threshold
  BY AccessAssumption DEF Saturated
<1>2. 1 \in 1..Window
  BY AccessAssumption
<1>3. fails'[a] \in [1..Window -> 0..Threshold]
  BY <1>1, <1>2 DEF BareReject, TypeOK
<1>4. fails' \in [Accounts -> [1..Window -> 0..Threshold]]
  BY <1>3 DEF BareReject, TypeOK
<1> QED BY <1>4 DEF BareReject, TypeOK

LEMMA TypeStep ==
  ASSUME TypeOK, [Next]_vars
  PROVE  TypeOK'
<1> USE DEF UserTable, PolicyTable
<1>1. CASE UserOps
  BY <1>1, UserOpsType DEF TypeOK
<1>2. CASE PolicyOps
  BY <1>2, PolicyOpsType DEF TypeOK
<1>3. CASE Sweep
  BY <1>3, SweepType DEF TypeOK, Sweep
<1>4. CASE \E listed, off \in SUBSET Accounts, touched \in BOOLEAN : AdSync(listed, off, touched)
  BY <1>4, AdSyncType DEF TypeOK, AdSync
<1>5. CASE \E a \in Accounts : BareReject(a)
  BY <1>5, LogType
<1>6. CASE Tick
  <2>1. \A a \in Accounts, i \in 1..Window : i # 1 => fails[a][i - 1] \in 0..Threshold
    BY AccessAssumption DEF TypeOK
  <2>2. fails' \in [Accounts -> [1..Window -> 0..Threshold]]
    BY <1>6, <2>1, AccessAssumption DEF Tick
  <2> QED BY <1>6, <2>2, TickUsers DEF TypeOK, Tick
<1>7. CASE UNCHANGED vars
  BY <1>7 DEF TypeOK, vars
<1> QED BY <1>1, <1>2, <1>3, <1>4, <1>5, <1>6, <1>7 DEF Next

LEMMA TypeInit == Init => TypeOK
BY AccessAssumption DEF Init, TypeOK, Fresh, UserRow, Statuses

\* The tables and the log keep their shape: a status outside the three, a count
\* that does not saturate or an order that leaves out a policy would break it.
THEOREM TypeCorrect == Spec => []TypeOK
BY TypeInit, TypeStep, PTL DEF Spec

-----------------------------------------------------------------------------
(* The radius schema follows the tables. *)

RowsInv == OwnedRows(rows) = DesiredRows(users, policies)

SlugsUnique == \A p, q \in Live : policies[p].slug = policies[q].slug => p = q

\* OnlyActiveAdmitted and OwnPolicyOnly say what FreeRADIUS makes of the rows;
\* inductive is that the rows are the desired ones, and that no two policies
\* share a group.
IInv == TypeOK /\ RowsInv /\ SlugsUnique /\ LockHasDeadline

\* One transaction: the compiler's rows become the desired ones, and the rows it
\* does not match stay.
RowsStep == /\ RowsInv'
            /\ rows' \ MatchedRows(rows') = rows \ MatchedRows(rows)

LEMMA RecompileRows ==
  ASSUME TypeOK', Recompile
  PROVE  RowsStep
BY CompiledRows DEF Recompile, RowsInv, RowsStep, TypeOK, PolicyTable

LEMMA SweepRows ==
  ASSUME TypeOK, RowsInv, Sweep
  PROVE  RowsStep
<1> DEFINE expired == {a \in Accounts : Expired(a)}
           opened == IF expired # {} THEN Compiled(rows, Unlocked, policies) ELSE rows
<1>1. /\ users' = [a \in Accounts |->
            IF a \in Hot THEN LockedRow(Unlocked[a]) ELSE Unlocked[a]]
      /\ rows' = IF Hot # {} THEN Compiled(opened, users', policies) ELSE opened
      /\ policies' = policies
  BY DEF Sweep
<1>2. policies \in PolicyTable
  BY DEF TypeOK, PolicyTable
<1>3. /\ OwnedRows(opened) = DesiredRows(Unlocked, policies)
      /\ opened \ MatchedRows(opened) = rows \ MatchedRows(rows)
  <2>1. CASE expired # {}
    BY <1>2, <2>1, CompiledRows
  <2>2. CASE expired = {}
    <3>1. \A a \in Accounts : Unlocked[a] = users[a]
      BY <2>2 DEF Unlocked
    <3>2. DesiredRows(Unlocked, policies) = DesiredRows(users, policies)
      BY <3>1, DesiredSame
    <3> QED BY <2>2, <3>2 DEF RowsInv
  <2> QED BY <2>1, <2>2
<1>4. CASE Hot # {}
  BY <1>1, <1>2, <1>3, <1>4, CompiledRows DEF RowsStep, RowsInv
<1>5. CASE Hot = {}
  <2>1. \A a \in Accounts : users'[a] = Unlocked[a]
    BY <1>1, <1>5
  <2>2. DesiredRows(users', policies) = DesiredRows(Unlocked, policies)
    BY <2>1, DesiredSame
  <2> QED BY <1>1, <1>3, <1>5, <2>2 DEF RowsStep, RowsInv
<1> QED BY <1>4, <1>5

LEMMA AdSyncRows ==
  ASSUME TypeOK', RowsInv, NEW listed, NEW off, NEW touched, AdSync(listed, off, touched)
  PROVE  RowsStep
<1>1. CASE Recompile
  BY <1>1, RecompileRows
<1>2. CASE UNCHANGED rows /\ \A a \in Accounts : users'[a] = users[a]
  <2>1. DesiredRows(users', policies) = DesiredRows(users, policies)
    BY <1>2, DesiredSame
  <2> QED BY <1>2, <2>1 DEF RowsStep, RowsInv, AdSync
<1> QED BY <1>1, <1>2 DEF AdSync

LEMMA RowsStepHolds ==
  ASSUME TypeOK, RowsInv, [Next]_vars
  PROVE  RowsStep
<1>1. TypeOK'
  BY TypeStep
<1> USE DEF UserTable, PolicyTable
<1>2. CASE UserOps
  BY <1>1, <1>2, UserOpsType, RecompileRows DEF TypeOK
<1>3. CASE PolicyOps
  BY <1>1, <1>3, PolicyOpsType, RecompileRows DEF TypeOK
<1>4. CASE Sweep
  BY <1>4, SweepRows
<1>5. CASE \E listed, off \in SUBSET Accounts, touched \in BOOLEAN : AdSync(listed, off, touched)
  BY <1>1, <1>5, AdSyncRows
<1>6. CASE \E a \in Accounts : BareReject(a)
  BY <1>6 DEF BareReject, RowsStep, RowsInv
<1>7. CASE Tick
  <2>1. \A a \in Accounts : /\ users[a] = NULL <=> users'[a] = NULL
                            /\ users[a] # NULL => /\ users[a].status = users'[a].status
                                                  /\ users[a].policy = users'[a].policy
    BY <1>7, TickUsers DEF TypeOK
  <2>2. DesiredRows(users, policies) = DesiredRows(users', policies)
    BY <2>1, DesiredSame
  <2> QED BY <1>7, <2>2 DEF Tick, RowsStep, RowsInv
<1>8. CASE UNCHANGED vars
  BY <1>8 DEF vars, RowsStep, RowsInv
<1> QED BY <1>2, <1>3, <1>4, <1>5, <1>6, <1>7, <1>8 DEF Next

LEMMA SlugsStep ==
  ASSUME TypeOK, SlugsUnique, [Next]_vars
  PROVE  SlugsUnique'
<1> USE DEF SlugsUnique, Live
<1>1. CASE policies' = policies
  BY <1>1
<1>2. ASSUME NEW p \in Policies, NEW row \in PolicyBodies,
             CreatePolicy(p, row) \/ UpdatePolicy(p, row)
      PROVE  SlugsUnique'
  <2>1. \A q \in Live \ {p} : policies[q].slug # row.slug
    BY <1>2, NullAssumption DEF CreatePolicy, UpdatePolicy, SlugFree
  <2>2. policies' = [policies EXCEPT ![p] = row]
    BY <1>2 DEF CreatePolicy, UpdatePolicy
  <2> QED BY <2>1, <2>2 DEF TypeOK
<1>3. ASSUME NEW p \in Policies, NEW on \in BOOLEAN, TogglePolicy(p, on)
      PROVE  SlugsUnique'
  <2>1. /\ policies' = [policies EXCEPT ![p].enabled = on]
        /\ policies[p] \in PolicyRow
    BY <1>3 DEF TogglePolicy, TypeOK
  <2>2. policies'[p].slug = policies[p].slug
    BY <2>1 DEF TypeOK, PolicyRow
  <2> QED BY <2>1, <2>2, <1>3 DEF TogglePolicy, TypeOK
<1>4. ASSUME NEW order, ReorderPolicies(order)
      PROVE  SlugsUnique'
  <2>1. \A p \in Live : /\ policies[p] \in PolicyRow
                        /\ \E n : policies'[p] = [policies[p] EXCEPT !.priority = n]
    BY <1>4 DEF ReorderPolicies, TypeOK
  <2>2. \A p \in Live : policies'[p].slug = policies[p].slug
    BY <2>1 DEF PolicyRow
  <2>3. \A p \in Policies \ Live : policies'[p] = NULL
    BY <1>4 DEF ReorderPolicies
  <2> QED BY <2>2, <2>3
<1>5. ASSUME NEW p \in Policies, DeletePolicy(p)
      PROVE  SlugsUnique'
  BY <1>5 DEF DeletePolicy, TypeOK
<1>6. CASE PolicyOps
  BY <1>1, <1>2, <1>3, <1>4, <1>5, <1>6 DEF PolicyOps, OpsCompile
<1>7. CASE UserOps
  BY <1>1, <1>7, UserOpsType DEF TypeOK, UserTable
<1>8. CASE Sweep \/ Tick \/ (\E a \in Accounts : BareReject(a))
           \/ (\E listed, off \in SUBSET Accounts, touched \in BOOLEAN :
                 AdSync(listed, off, touched))
  BY <1>1, <1>8 DEF Sweep, Tick, BareReject, AdSync
<1>9. CASE UNCHANGED vars
  BY <1>1, <1>9 DEF vars
<1> QED BY <1>6, <1>7, <1>8, <1>9 DEF Next

LEMMA DeadlineStep ==
  ASSUME TypeOK, LockHasDeadline, [Next]_vars
  PROVE  LockHasDeadline'
<1> USE DEF LockHasDeadline, Locked
<1>1. CASE users' = users
  BY <1>1
<1>2. CASE UserOps
  <2>1. PICK S \in SUBSET Accounts : \/ EnableUsers(S)
                                     \/ DisableUsers(S)
                                     \/ \E p \in Policies : AssignPolicy(S, p)
    BY <1>2 DEF UserOps
  <2>2. \A a \in S : Loadable(S) => users[a] \in UserRow
    BY <2>1 DEF Loadable, TypeOK
  <2>3. CASE EnableUsers(S)
    <3>1. \A a \in S : users'[a].status = "active"
      BY <2>2, <2>3 DEF EnableUsers, UserRow
    <3> QED BY <2>3, <3>1 DEF EnableUsers
  <2>4. CASE DisableUsers(S)
    <3>1. \A a \in S : users'[a].status = "disabled"
      BY <2>2, <2>4 DEF DisableUsers, UserRow
    <3> QED BY <2>4, <3>1 DEF DisableUsers
  <2>5. ASSUME NEW p \in Policies, AssignPolicy(S, p)
        PROVE  LockHasDeadline'
    <3>1. \A a \in S : users'[a].status = users[a].status /\ users'[a].until = users[a].until
      BY <2>2, <2>5 DEF AssignPolicy, UserRow
    <3> QED BY <2>5, <3>1 DEF AssignPolicy, Loadable
  <2> QED BY <2>1, <2>3, <2>4, <2>5
<1>3. CASE Sweep
  <2>1. \A a \in Accounts : users[a] # NULL => users[a] \in UserRow
    BY DEF TypeOK
  <2>2. \A a \in Accounts : ~Expired(a) => Unlocked[a] = users[a]
    BY DEF Unlocked
  <2>3. \A a \in Accounts : Expired(a) => Unlocked[a].status = "active"
    BY <2>1 DEF Unlocked, Expired, UserRow
  <2>4. \A a \in Hot : users'[a].until = LockTicks
    <3>1. \A a \in Hot : Unlocked[a] \in UserRow
      BY <2>1, RowUpdates DEF Hot, Unlocked, Statuses
    <3> QED BY <1>3, <3>1 DEF Sweep, LockedRow, UserRow, Hot
  <2>5. \A a \in Accounts \ Hot : users'[a] = Unlocked[a]
    BY <1>3 DEF Sweep
  <2>6. LockTicks # NULL
    BY AccessAssumption, NullAssumption
  <2> QED BY <2>2, <2>3, <2>4, <2>5, <2>6 DEF Expired
<1>4. ASSUME NEW listed, NEW off, NEW touched, AdSync(listed, off, touched)
      PROVE  LockHasDeadline'
  <2>1. \A a \in Accounts : \/ users'[a] = users[a]
                            \/ users'[a] = Fresh
                            \/ users[a] # NULL /\ users'[a] = [users[a] EXCEPT !.status = "disabled"]
    BY <1>4 DEF AdSync
  <2>2. \A a \in Accounts : users[a] # NULL =>
           [users[a] EXCEPT !.status = "disabled"].status = "disabled"
    BY DEF TypeOK, UserRow
  <2>3. Fresh.status = "active"
    BY DEF Fresh
  <2>4. \A a \in Accounts : users'[a] = users[a] \/ users'[a].status # "locked"
    BY <2>1, <2>2, <2>3
  <2> QED BY <2>4
<1>5. CASE Tick
  <2>1. users \in UserTable
    BY DEF TypeOK, UserTable
  <2>2. \A a \in Accounts : /\ users[a] = NULL <=> users'[a] = NULL
                            /\ users[a] # NULL => /\ users[a].status = users'[a].status
                                                  /\ users'[a].until = NULL <=> users[a].until = NULL
    BY <1>5, <2>1, TickUsers
  <2> QED BY <2>2
<1>6. CASE PolicyOps
  BY <1>1, <1>6, PolicyOpsType DEF TypeOK, PolicyTable
<1>7. CASE (\E a \in Accounts : BareReject(a)) \/ UNCHANGED vars
  BY <1>1, <1>7 DEF BareReject, vars
<1> QED BY <1>2, <1>3, <1>4, <1>5, <1>6, <1>7 DEF Next

LEMMA InvInit == Init => IInv
<1> SUFFICES ASSUME Init PROVE IInv
  OBVIOUS
<1>1. \A a \in Accounts : users[a] = NULL \/ users[a] = Fresh
  BY DEF Init
<1>2. Live = {} /\ Enabled(policies) = {}
  BY DEF Init, Live, Enabled
<1>3. DesiredRows(users, policies) = {}
  BY <1>1, <1>2 DEF DesiredRows, GroupRows, MemberRows, Members, RejectRows, Blocked, Fresh
<1>4. RowsInv
  BY <1>3, AccessAssumption DEF Init, RowsInv, OwnedRows
<1>5. LockHasDeadline
  BY <1>1 DEF LockHasDeadline, Locked, Fresh
<1> QED BY <1>2, <1>4, <1>5, TypeInit DEF IInv, SlugsUnique

LEMMA InvStep == IInv /\ [Next]_vars => IInv'
BY TypeStep, RowsStepHolds, SlugsStep, DeadlineStep DEF IInv, RowsStep

\* The radius schema equals what the tables compile to, no two policies share a
\* group, and every lock has its deadline, after every transaction.
THEOREM Invariance == Spec => []IInv
BY InvInit, InvStep, PTL DEF Spec

-----------------------------------------------------------------------------
(* What FreeRADIUS makes of the rows. *)

LEMMA RowsDecide ==
  ASSUME TypeOK, RowsInv
  PROVE  OnlyActiveAdmitted
<1> SUFFICES ASSUME NEW a \in Accounts, users[a] # NULL
             PROVE  /\ IsRejected(rows, a) <=> users[a].status # "active"
                    /\ DenyReasons(rows, a) = {users[a].status} \ {"active"}
  BY DEF OnlyActiveAdmitted
<1>1. users[a].status \in Statuses
  BY DEF TypeOK, UserRow
<1>2. \A r : Owned(r) => (r \in rows <=> r \in DesiredRows(users, policies))
  BY DEF RowsInv, OwnedRows
<1>3. \A r \in GroupRows(policies) : r[1] = "radgroupreply" \/ r[1] = "radgroupcheck"
  BY DEF GroupRows
<1>4. \A r \in MemberRows(users, policies) : r[1] = "radusergroup"
  BY DEF MemberRows
<1>5. IsRejected(rows, a) <=> a \in Blocked(users)
  <2> DEFINE r == <<"radcheck", a, "Auth-Type", "Reject">>
  <2>1. Owned(r) /\ r[1] = "radcheck"
    BY DEF Owned
  <2>2. r \in RejectRows(users) <=> a \in Blocked(users)
    BY DEF RejectRows
  <2>3. r \in DesiredRows(users, policies) <=> r \in RejectRows(users)
    BY <1>3, <1>4, <2>1 DEF DesiredRows
  <2> QED BY <1>2, <2>1, <2>2, <2>3 DEF IsRejected
<1>6. ASSUME NEW s \in Statuses
      PROVE  s \in DenyReasons(rows, a) <=> a \in Blocked(users) /\ s = users[a].status
  <2> DEFINE r == <<"radreply", a, "Deny-Reason", s>>
  <2>1. Owned(r) /\ r[1] = "radreply"
    BY DEF Owned
  <2>2. r \in RejectRows(users) <=> a \in Blocked(users) /\ s = users[a].status
    BY DEF RejectRows
  <2>3. r \in DesiredRows(users, policies) <=> r \in RejectRows(users)
    BY <1>3, <1>4, <2>1 DEF DesiredRows
  <2> QED BY <1>2, <2>1, <2>2, <2>3 DEF DenyReasons
<1>7. a \in Blocked(users) <=> users[a].status # "active"
  BY DEF Blocked
<1>8. DenyReasons(rows, a) \subseteq Statuses
  BY DEF DenyReasons
<1> QED BY <1>1, <1>5, <1>6, <1>7, <1>8

LEMMA RowsGrant ==
  ASSUME TypeOK, RowsInv, SlugsUnique
  PROVE  OwnPolicyOnly
<1> SUFFICES ASSUME NEW a \in Accounts
             PROVE  GrantedProfiles(rows, a) =
                      {policies[p].profile : p \in {q \in Live : /\ policies[q].enabled
                                                              /\ users[a] # NULL
                                                              /\ users[a].status = "active"
                                                              /\ users[a].policy = q}}
  BY DEF OwnPolicyOnly
<1>1. \A p \in Live : policies[p].slug \in Slugs /\ policies[p].profile \in Profiles
  BY DEF Live, TypeOK, PolicyRow
<1>2. \A r : Owned(r) => (r \in rows <=> r \in DesiredRows(users, policies))
  BY DEF RowsInv, OwnedRows
<1>3. \A g \in Slugs, f \in Profiles :
        <<"radgroupreply", g, f>> \in rows
          <=> \E p \in Enabled(policies) : policies[p].slug = g /\ policies[p].profile = f
  <2> SUFFICES ASSUME NEW g \in Slugs, NEW f \in Profiles
               PROVE  <<"radgroupreply", g, f>> \in rows
                        <=> \E p \in Enabled(policies) :
                              policies[p].slug = g /\ policies[p].profile = f
    OBVIOUS
  <2> DEFINE r == <<"radgroupreply", g, f>>
  <2>1. Owned(r) /\ r[1] = "radgroupreply"
    BY DEF Owned
  <2>2. r \in GroupRows(policies)
          <=> \E p \in Enabled(policies) : policies[p].slug = g /\ policies[p].profile = f
    BY DEF GroupRows
  <2>3. r \notin MemberRows(users, policies) /\ r \notin RejectRows(users)
    BY DEF MemberRows, RejectRows
  <2> QED BY <1>2, <2>1, <2>2, <2>3 DEF DesiredRows
<1>4. \A g \in Slugs : g \in GroupsOf(rows, a)
        <=> a \in Members(users, policies) /\ policies[users[a].policy].slug = g
  <2>1. ASSUME NEW g \in GroupsOf(rows, a)
        PROVE  a \in Members(users, policies) /\ policies[users[a].policy].slug = g
    <3>1. PICK r \in rows : r[1] = "radusergroup" /\ r[2] = a /\ r[3] = g /\ g \in Slugs
      BY DEF GroupsOf
    <3>2. r \in DesiredRows(users, policies)
      BY <1>2, <3>1 DEF Owned
    <3>3. r \in MemberRows(users, policies)
      BY <3>1, <3>2 DEF DesiredRows, GroupRows, RejectRows
    <3> QED BY <3>1, <3>3 DEF MemberRows
  <2>2. ASSUME a \in Members(users, policies)
        PROVE  policies[users[a].policy].slug \in GroupsOf(rows, a)
    <3> DEFINE r == <<"radusergroup", a, policies[users[a].policy].slug,
                      policies[users[a].policy].priority>>
    <3>1. users[a].policy \in Live
      BY <2>2 DEF Members, Enabled, Live
    <3>2. r \in DesiredRows(users, policies)
      BY <2>2 DEF MemberRows, DesiredRows
    <3>3. Owned(r)
      BY <1>1, <3>1 DEF Owned
    <3>4. r \in rows
      BY <1>2, <3>2, <3>3
    <3>5. r[1] = "radusergroup" /\ r[2] = a /\ r[3] = policies[users[a].policy].slug
      OBVIOUS
    <3> HIDE DEF r
    <3> QED BY <1>1, <3>1, <3>4, <3>5 DEF GroupsOf
  <2> QED BY <2>1, <2>2
<1>5. \A p, q \in Enabled(policies) : policies[p].slug = policies[q].slug => p = q
  BY DEF SlugsUnique, Enabled, Live
<1>6. CASE a \in Members(users, policies)
  <2> DEFINE p == users[a].policy
  <2>1. p \in Enabled(policies) /\ p \in Live /\ users[a] # NULL /\ users[a].status = "active"
    BY <1>6 DEF Members, Enabled, Live
  <2>2. \A f \in Profiles : f \in GrantedProfiles(rows, a) <=> f = policies[p].profile
    <3>1. \A f \in Profiles : f \in GrantedProfiles(rows, a)
            <=> <<"radgroupreply", policies[p].slug, f>> \in rows
      BY <1>1, <1>4, <1>6, <2>1 DEF GrantedProfiles, GroupsOf
    <3>2. \A f \in Profiles : f \in GrantedProfiles(rows, a)
            <=> \E q \in Enabled(policies) :
                  policies[q].slug = policies[p].slug /\ policies[q].profile = f
      BY <1>1, <1>3, <2>1, <3>1
    <3> HIDE DEF p
    <3> QED BY <1>5, <2>1, <3>2
  <2>3. GrantedProfiles(rows, a) = {policies[p].profile}
    BY <1>1, <2>1, <2>2 DEF GrantedProfiles
  <2> QED BY <2>1, <2>3 DEF Enabled
<1>7. CASE a \notin Members(users, policies)
  <2>1. GroupsOf(rows, a) = {}
    BY <1>4, <1>7 DEF GroupsOf
  <2>2. GrantedProfiles(rows, a) = {}
    BY <2>1 DEF GrantedProfiles
  <2> QED BY <1>7, <2>2 DEF Members, Enabled, Live
<1> QED BY <1>6, <1>7

\* docs/02: the compiler guarantees Auth-Type := Reject, with the reason, for
\* every account whose status is not active - and for no other.
THEOREM RejectFollowsStatus == Spec => []OnlyActiveAdmitted
<1>1. IInv => OnlyActiveAdmitted
  BY RowsDecide DEF IInv
<1> QED BY <1>1, Invariance, PTL

\* Whatever was renamed, reordered, switched or deleted, an account is answered
\* with its own policy's attributes and nothing else.
THEOREM PolicyFollowsAssignment == Spec => []OwnPolicyOnly
<1>1. IInv => OwnPolicyOnly
  BY RowsGrant DEF IInv
<1> QED BY <1>1, Invariance, PTL

\* Every locked account carries the deadline that the sweeper selects it by.
THEOREM LocksCarryDeadline == Spec => []LockHasDeadline
<1>1. IInv => LockHasDeadline
  BY DEF IInv
<1> QED BY <1>1, Invariance, PTL

\* No step of any transaction touches a row that the compiler's patterns do not
\* match.
THEOREM ForeignRowsUntouched == Spec => ForeignRowsKept
<1>1. IInv /\ [Next]_vars => [rows' \ MatchedRows(rows') = rows \ MatchedRows(rows)]_vars
  BY RowsStepHolds DEF IInv, RowsStep
<1> QED BY <1>1, Invariance, PTL DEF Spec, ForeignRowsKept

-----------------------------------------------------------------------------
(* What no step may do to a user. *)

\* No transaction takes a policy away from a user who has one.
THEOREM PolicySurvives == Spec => AssignmentSurvives
<1>1. TypeOK /\ [Next]_vars =>
        [\A a \in Accounts : users[a] # NULL =>
           /\ users'[a] # NULL
           /\ users[a].policy # NULL => users'[a].policy # NULL]_vars
  <2> SUFFICES ASSUME TypeOK, [Next]_vars, NEW a \in Accounts, users[a] # NULL
               PROVE  /\ users'[a] # NULL
                      /\ users[a].policy # NULL => users'[a].policy # NULL
    OBVIOUS
  <2>1. users[a] \in UserRow
    BY DEF TypeOK
  <2>2. /\ \A s : [users[a] EXCEPT !.status = s].policy = users[a].policy
        /\ \A s, d : [users[a] EXCEPT !.status = s, !.until = d].policy = users[a].policy
        /\ \A p : [users[a] EXCEPT !.policy = p].policy = p
    BY <2>1 DEF UserRow
  <2>3. users'[a] = users[a] \/ (users'[a] # NULL /\ users'[a].policy = users[a].policy)
          \/ \E p \in Policies : users'[a] # NULL /\ users'[a].policy = p
    <3>1. users' \in UserTable
      BY TypeStep DEF TypeOK, UserTable
    <3>2. CASE UserOps
      <4>1. /\ [users[a] EXCEPT !.status = "active", !.until = NULL] \in UserRow
            /\ [users[a] EXCEPT !.status = "active", !.until = NULL].policy = users[a].policy
            /\ [users[a] EXCEPT !.status = "disabled"] \in UserRow
            /\ [users[a] EXCEPT !.status = "disabled"].policy = users[a].policy
            /\ \A p \in Policies : [users[a] EXCEPT !.policy = p] \in UserRow
            /\ \A p \in Policies : [users[a] EXCEPT !.policy = p].policy = p
        BY <2>1 DEF UserRow, Statuses
      <4>2. \/ users'[a] = users[a]
            \/ users'[a] = [users[a] EXCEPT !.status = "active", !.until = NULL]
            \/ users'[a] = [users[a] EXCEPT !.status = "disabled"]
            \/ \E p \in Policies : users'[a] = [users[a] EXCEPT !.policy = p]
        BY <3>2 DEF UserOps, EnableUsers, DisableUsers, AssignPolicy
      <4>3. CASE \E p \in Policies : users'[a] = [users[a] EXCEPT !.policy = p]
        <5>1. PICK p \in Policies : users'[a] = [users[a] EXCEPT !.policy = p]
          BY <4>3
        <5>2. users'[a] \in UserRow /\ users'[a].policy = p
          BY <4>1, <5>1
        <5> QED BY <5>2, NullAssumption
      <4>4. CASE users'[a] = [users[a] EXCEPT !.status = "active", !.until = NULL]
        BY <4>1, <4>4, NullAssumption
      <4>5. CASE users'[a] = [users[a] EXCEPT !.status = "disabled"]
        BY <4>1, <4>5, NullAssumption
      <4> QED BY <4>2, <4>3, <4>4, <4>5
    <3>3. CASE PolicyOps
      BY <3>3, PolicyOpsType DEF TypeOK, PolicyTable
    <3>4. CASE Sweep
      <4>1. Unlocked[a] = users[a] \/ Unlocked[a] = [users[a] EXCEPT !.status = "active", !.until = NULL]
        BY DEF Unlocked
      <4>2. Unlocked[a] \in UserRow /\ Unlocked[a].policy = users[a].policy
        BY <2>1, <4>1 DEF Statuses, UserRow
      <4>3. users'[a] = Unlocked[a] \/ users'[a] = LockedRow(Unlocked[a])
        BY <3>4 DEF Sweep
      <4>4. /\ LockedRow(Unlocked[a]) \in UserRow
            /\ LockedRow(Unlocked[a]).policy = Unlocked[a].policy
        BY <4>2, RowUpdates, AccessAssumption DEF LockedRow, Statuses, UserRow
      <4> QED BY <4>2, <4>3, <4>4, NullAssumption
    <3>5. CASE \E listed, off \in SUBSET Accounts, touched \in BOOLEAN : AdSync(listed, off, touched)
      <4>1. users'[a] = users[a] \/ users'[a] = [users[a] EXCEPT !.status = "disabled"]
        BY <3>5, AccessAssumption DEF AdSync
      <4> QED BY <2>1, <2>2, <4>1, RowUpdates, NullAssumption DEF Statuses
    <3>6. CASE Tick
      BY <3>6, TickUsers DEF TypeOK, UserTable
    <3>7. CASE (\E b \in Accounts : BareReject(b)) \/ UNCHANGED vars
      BY <3>7 DEF BareReject, vars
    <3> QED BY <3>2, <3>3, <3>4, <3>5, <3>6, <3>7 DEF Next
  <2> QED BY <2>3, NullAssumption
<1> QED BY <1>1, TypeCorrect, PTL DEF Spec, AssignmentSurvives

\* docs/02: disabled --> active is an administrator's enable.
THEOREM DisabledStays == Spec => DisabledNeedsEnable
<1>1. TypeOK /\ [Next]_vars =>
        [\A a \in Accounts :
           (/\ users[a] # NULL
            /\ users[a].status = "disabled"
            /\ users'[a].status # "disabled")
           => \E S \in SUBSET Accounts : a \in S /\ EnableUsers(S)]_vars
  <2> SUFFICES ASSUME TypeOK, Next, NEW a \in Accounts, users[a] # NULL,
                      users[a].status = "disabled", users'[a].status # "disabled"
               PROVE  \E S \in SUBSET Accounts : a \in S /\ EnableUsers(S)
    BY DEF vars
  <2>1. users[a] \in UserRow
    BY DEF TypeOK
  <2>2. users'[a] # users[a]
    OBVIOUS
  <2>3. /\ [users[a] EXCEPT !.status = "disabled"].status = "disabled"
        /\ \A p \in Policies : [users[a] EXCEPT !.policy = p].status = "disabled"
    BY <2>1 DEF UserRow
  <2>4. ~ Sweep
    BY <2>2 DEF Sweep, Unlocked, Expired, Locked, Hot
  <2>5. ~ \E listed, off \in SUBSET Accounts, touched \in BOOLEAN : AdSync(listed, off, touched)
    BY <2>2, <2>3, AccessAssumption DEF AdSync
  <2>6. ~ Tick
    BY TickUsers DEF TypeOK, UserTable
  <2>7. ~ PolicyOps /\ ~ \E b \in Accounts : BareReject(b)
    BY <2>2, PolicyOpsType DEF TypeOK, PolicyTable, BareReject
  <2>8. UserOps
    BY <2>4, <2>5, <2>6, <2>7 DEF Next
  <2>9. ASSUME NEW S \in SUBSET Accounts,
               DisableUsers(S) \/ \E p \in Policies : AssignPolicy(S, p)
        PROVE  FALSE
    BY <2>2, <2>3, <2>9 DEF DisableUsers, AssignPolicy
  <2>10. ASSUME NEW S \in SUBSET Accounts, EnableUsers(S)
         PROVE  a \in S
    BY <2>2, <2>10 DEF EnableUsers
  <2> QED BY <2>8, <2>9, <2>10 DEF UserOps
<1> QED BY <1>1, TypeCorrect, PTL DEF Spec, DisabledNeedsEnable

-----------------------------------------------------------------------------
(* The transactions implement Admission. *)

\* The status of a row a transaction writes.
LEMMA RowStatus ==
  ASSUME NEW u \in UserRow
  PROVE  /\ LET v == [u EXCEPT !.status = "active", !.until = NULL]
            IN v # NULL /\ v.status = "active"
         /\ LET v == [u EXCEPT !.status = "disabled"]
            IN v # NULL /\ v.status = "disabled"
         /\ \A p \in Policies : LET v == [u EXCEPT !.policy = p]
                                IN v # NULL /\ v.status = u.status
         /\ LockedRow(u) # NULL
<1>1. /\ [u EXCEPT !.status = "active", !.until = NULL] \in UserRow
      /\ [u EXCEPT !.status = "disabled"] \in UserRow
      /\ \A p \in Policies : [u EXCEPT !.policy = p] \in UserRow
      /\ LockedRow(u) \in UserRow
  BY RowUpdates, AccessAssumption DEF LockedRow, Statuses
<1>2. /\ [u EXCEPT !.status = "active", !.until = NULL].status = "active"
      /\ [u EXCEPT !.status = "disabled"].status = "disabled"
      /\ \A p \in Policies : [u EXCEPT !.policy = p].status = u.status
  BY DEF UserRow
<1> QED BY <1>1, <1>2, NullAssumption

\* Whatever transaction it is, the status moves along docs/02.
LEMMA MoveStep ==
  ASSUME TypeOK, [Next]_vars, NEW a \in Accounts
  PROVE  Adm!Move(users[a], users'[a])
<1> DEFINE enabled == [users[a] EXCEPT !.status = "active", !.until = NULL]
           disabled == [users[a] EXCEPT !.status = "disabled"]
           given(p) == [users[a] EXCEPT !.policy = p]
<1>1. users[a] # NULL => users[a] \in UserRow
  BY DEF TypeOK
<1>2. users[a] # NULL => /\ enabled # NULL /\ enabled.status = "active"
                         /\ disabled # NULL /\ disabled.status = "disabled"
                         /\ \A p \in Policies : /\ given(p) # NULL
                                                /\ given(p).status = users[a].status
  BY <1>1, RowStatus
<1>3. CASE UserOps
  <2>1. users[a] = NULL => users'[a] = NULL
    BY <1>3 DEF UserOps, EnableUsers, DisableUsers, AssignPolicy, Loadable
  <2>2. \/ users'[a] = users[a]
        \/ users'[a] = enabled
        \/ users'[a] = disabled
        \/ \E p \in Policies : users'[a] = given(p)
    BY <1>3 DEF UserOps, EnableUsers, DisableUsers, AssignPolicy
  <2> HIDE DEF enabled, disabled, given
  <2> QED BY <1>2, <2>1, <2>2 DEF Adm!Move
<1>4. CASE PolicyOps
  BY <1>4, PolicyOpsType DEF TypeOK, PolicyTable, Adm!Move
<1>5. CASE Sweep
  <2>1. users'[a] = IF a \in Hot THEN LockedRow(Unlocked[a]) ELSE Unlocked[a]
    BY <1>5 DEF Sweep
  <2>2. CASE a \in Hot
    <3>1. users[a] # NULL /\ users[a].status # "disabled"
      BY <2>2 DEF Hot, Unlocked, Expired, Locked
    <3>2. Unlocked[a] \in UserRow
      BY <1>1, <3>1, RowUpdates DEF Unlocked, Statuses
    <3> QED BY <2>1, <2>2, <3>1, <3>2, RowStatus DEF Adm!Move
  <2>3. CASE a \notin Hot /\ Expired(a)
    <3>1. Unlocked[a] = [users[a] EXCEPT !.status = "active", !.until = NULL]
      BY <2>3 DEF Unlocked
    <3>2. users[a] # NULL /\ users[a].status = "locked"
      BY <2>3 DEF Expired, Locked
    <3> QED BY <1>1, <2>1, <2>3, <3>1, <3>2, RowStatus DEF Adm!Move
  <2>4. CASE a \notin Hot /\ ~Expired(a)
    BY <2>1, <2>4 DEF Unlocked, Adm!Move
  <2> QED BY <2>2, <2>3, <2>4
<1>6. CASE \E listed, off \in SUBSET Accounts, touched \in BOOLEAN : AdSync(listed, off, touched)
  <2>1. \/ users'[a] = users[a]
        \/ users[a] = NULL /\ users'[a] = Fresh
        \/ users[a] # NULL /\ users'[a] = disabled
    BY <1>6, AccessAssumption DEF AdSync
  <2>2. Fresh.status = "active"
    BY DEF Fresh
  <2> HIDE DEF disabled
  <2> QED BY <1>2, <2>1, <2>2 DEF Adm!Move
<1>7. CASE Tick
  BY <1>7, TickUsers DEF TypeOK, UserTable, Adm!Move
<1>8. CASE (\E b \in Accounts : BareReject(b)) \/ UNCHANGED vars
  BY <1>8 DEF BareReject, vars, Adm!Move
<1> QED BY <1>3, <1>4, <1>5, <1>6, <1>7, <1>8 DEF Next

\* Admission speaks of the same rows.
LEMMA SameRows ==
  /\ \A us, ps : Adm!DesiredRows(us, ps) = DesiredRows(us, ps)
  /\ \A rs : Adm!OwnedRows(rs) = OwnedRows(rs)
  /\ \A rs : Adm!MatchedRows(rs) = MatchedRows(rs)
<1>1. ASSUME NEW us, NEW ps
      PROVE  Adm!DesiredRows(us, ps) = DesiredRows(us, ps)
  <2>1. Adm!GroupRows(ps) = GroupRows(ps)
    BY DEF Adm!GroupRows, GroupRows, Adm!Enabled, Enabled
  <2>2. Adm!MemberRows(us, ps) = MemberRows(us, ps)
    BY DEF Adm!MemberRows, MemberRows, Adm!Members, Members, Adm!Enabled, Enabled
  <2>3. Adm!RejectRows(us) = RejectRows(us)
    BY DEF Adm!RejectRows, RejectRows, Adm!Blocked, Blocked
  <2> QED BY <2>1, <2>2, <2>3 DEF Adm!DesiredRows, DesiredRows
<1>2. \A row : /\ Adm!Owned(row) <=> Owned(row)
               /\ Adm!Matched(row) <=> Matched(row)
  BY DEF Adm!Owned, Owned, Adm!Matched, Matched
<1> QED BY <1>1, <1>2 DEF Adm!OwnedRows, OwnedRows, Adm!MatchedRows, MatchedRows

\* Every transaction is one step of the abstract machine, or none: no commit
\* leaves the radius schema behind the tables.
THEOREM Implementation == Spec => ImplementsAdmission
<1>1. RowsInv <=> Adm!Consistent
  BY SameRows DEF RowsInv, Adm!Consistent
<1>2. Init => Adm!Init
  BY <1>1, InvInit DEF IInv, Adm!Init
<1>3. IInv /\ IInv' /\ [Next]_vars => [Adm!Next]_<<users, policies, rows>>
  <2> SUFFICES ASSUME IInv, IInv', [Next]_vars
               PROVE  Adm!Next
    OBVIOUS
  <2>1. Adm!Consistent'
    BY SameRows DEF IInv, RowsInv, Adm!Consistent
  <2>2. rows' \ MatchedRows(rows') = rows \ MatchedRows(rows)
    BY RowsStepHolds DEF IInv, RowsStep
  <2>3. \A a \in Accounts : Adm!Move(users[a], users'[a])
    BY MoveStep DEF IInv
  <2> QED BY <2>1, <2>2, <2>3, SameRows DEF Adm!Next
<1> QED BY <1>2, <1>3, Invariance, PTL DEF Spec, ImplementsAdmission, Adm!Spec
=============================================================================
