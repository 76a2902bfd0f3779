--------------------------- MODULE PolicyCompiler ---------------------------
(***************************************************************************)
(* The policy compiler (radius/compiler.py, compile_all): the pure part.   *)
(* It reads access_user and policy_group, computes the rows FreeRADIUS      *)
(* must see in the radius schema, and applies the difference to the rows    *)
(* that are there.  The five radius tables are one set of tuples whose      *)
(* first component names the table.  The radius tables have no unique key,  *)
(* but the compiler deletes by value, so rows equal in every column stand   *)
(* or fall together and a set is enough.                                    *)
(*                                                                          *)
(* A Profile stands for the compiled attributes of a policy (VLAN, ACL,     *)
(* timeouts, rate limit, flags); a Slug for the group name policy_<slug>.   *)
(***************************************************************************)
EXTENDS Integers

CONSTANTS
  Accounts,     \* access_user.account
  Policies,     \* policy_group.id
  Slugs,        \* policy_group.slug; the group is named policy_<slug>
  Lookalikes,   \* other group names that LIKE 'policy_%' matches, _ being a wildcard
  Profiles,     \* the attribute sets a policy can carry
  Flagged,      \* the profiles with a non-empty flag list
  NULL          \* SQL NULL, and "no such row"

Statuses == {"active", "disabled", "locked"}

\* locked_until is counted in ticks still to run: 0 is "now or past".
UserRow == [status: Statuses, until: Nat \cup {NULL}, policy: Policies \cup {NULL}]

PolicyRow == [slug: Slugs, enabled: BOOLEAN, priority: Int, profile: Profiles]

ASSUME NullAssumption ==
  /\ NULL \notin Policies
  /\ NULL \notin Nat
  /\ NULL \notin UserRow
  /\ NULL \notin PolicyRow

ASSUME FlaggedAssumption == Flagged \subseteq Profiles

ASSUME LookalikesAssumption == Lookalikes \cap Slugs = {}

-----------------------------------------------------------------------------
(* What compile_all wants in the radius schema. *)

Enabled(policies) == {p \in Policies : policies[p] # NULL /\ policies[p].enabled}

\* _desired_group_rows: one reply block per enabled policy, and a flags row
\* only when a flag is set.
GroupRows(policies) ==
  {<<"radgroupreply", policies[p].slug, policies[p].profile>> : p \in Enabled(policies)}
  \cup {<<"radgroupcheck", policies[p].slug, policies[p].profile>> :
          p \in {q \in Enabled(policies) : policies[q].profile \in Flagged}}

\* Active users of an enabled policy.
Members(users, policies) ==
  {a \in Accounts : /\ users[a] # NULL
                    /\ users[a].status = "active"
                    /\ users[a].policy \in Enabled(policies)}

MemberRows(users, policies) ==
  {<<"radusergroup", a, policies[users[a].policy].slug, policies[users[a].policy].priority>> :
     a \in Members(users, policies)}

\* Mutant of Blocked: an expired lock no longer blocks.
BlockedUnexpired(users) ==
  {a \in Accounts : users[a] # NULL /\ users[a].status # "active" /\ users[a].until # 0}

Blocked(users) == {a \in Accounts : users[a] # NULL /\ users[a].status # "active"}

\* Class, OpenRedius-Deny-Reason and Reply-Message are the same function of the
\* status: one radreply row stands for the three.
RejectRows(users) ==
  {<<"radcheck", a, "Auth-Type", "Reject">> : a \in Blocked(users)}
  \cup {<<"radreply", a, "Deny-Reason", users[a].status>> : a \in Blocked(users)}

DesiredRows(users, policies) ==
  GroupRows(policies) \cup MemberRows(users, policies) \cup RejectRows(users)

-----------------------------------------------------------------------------
(* What compile_all does to the rows it finds. *)

\* The rows the compiler writes: groups named policy_*, and the owned attributes
\* of the user tables.
Owned(row) ==
  \/ row[1] \in {"radgroupreply", "radgroupcheck"} /\ row[2] \in Slugs
  \/ row[1] = "radusergroup" /\ row[3] \in Slugs
  \/ row[1] = "radcheck" /\ row[3] = "Auth-Type"
  \/ row[1] = "radreply" /\ row[3] = "Deny-Reason"

OwnedRows(rows) == {r \in rows : Owned(r)}

\* The rows it reads back as its own: startswith("policy_") does not escape the
\* wildcard, so groups that only look like its own come with them.
Matched(row) ==
  \/ Owned(row)
  \/ row[1] \in {"radgroupreply", "radgroupcheck"} /\ row[2] \in Lookalikes
  \/ row[1] = "radusergroup" /\ row[3] \in Lookalikes

MatchedRows(rows) == {r \in rows : Matched(r)}

\* Mutant of SyncRows: it deletes all that is not desired.
SyncRowsAll(rows, existing, desired) == (rows \cap desired) \cup (desired \ existing)

\* _sync_rows: delete the stale, insert the missing.
SyncRows(rows, existing, desired) == (rows \ (existing \ desired)) \cup (desired \ existing)

Compiled(rows, users, policies) ==
  SyncRows(rows, MatchedRows(rows), DesiredRows(users, policies))

-----------------------------------------------------------------------------
(* What FreeRADIUS (rlm_sql, authorize) makes of the rows for one account. *)

IsRejected(rows, a) == <<"radcheck", a, "Auth-Type", "Reject">> \in rows

DenyReasons(rows, a) == {s \in Statuses : <<"radreply", a, "Deny-Reason", s>> \in rows}

GroupsOf(rows, a) ==
  {g \in Slugs : \E r \in rows : r[1] = "radusergroup" /\ r[2] = a /\ r[3] = g}

\* The attribute sets an accepted account is answered with.
GrantedProfiles(rows, a) ==
  {f \in Profiles : \E g \in GroupsOf(rows, a) : <<"radgroupreply", g, f>> \in rows}
=============================================================================
