---------------------------- MODULE MCCompileTxn ----------------------------
(* Instances of CompileTxn for TLC. *)
EXTENDS CompileTxn, TLC

CONSTANTS a1, a2, p1, s1, f1

User(status, until, policy) == [status |-> status, until |-> until, policy |-> policy]
Policy(slug, profile) == [slug |-> slug, enabled |-> TRUE, priority |-> 1, profile |-> profile]

\* One active account without a policy.
OneUser == a1 :> User("active", NULL, NULL)

\* Two active accounts of one policy: both have a row of its group.
BothInPolicy == a1 :> User("active", NULL, p1) @@ a2 :> User("active", NULL, p1)

OnePolicy == p1 :> Policy(s1, f1)
NoPolicies == [p \in {} |-> NULL]

UserTables == <<"radcheck", "radreply">>
AllTables == <<"radgroupreply", "radgroupcheck", "radusergroup", "radcheck", "radreply">>

MCSeedRows == {<<"radcheck", a1, "Cleartext-Password", "pw">>}

MCSymmetry == Permutations(Txns)
=============================================================================
