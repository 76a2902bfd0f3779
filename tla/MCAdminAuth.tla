---------------------------- MODULE MCAdminAuth ----------------------------
(* Instances of AdminAuth for TLC. *)
EXTENDS AdminAuth, TLC

CONSTANTS r1, r2, p1, p2

Account(until) == [role |-> "admin", status |-> "active", pw |-> p1, ver |-> 0,
                   fails |-> 0, first |-> NULL, until |-> until]

\* Two administrators, one of whom was locked before, and an id for a third.
TwoAdmins == <<Account(NULL), Account(0), NULL>>

OneAdmin == <<Account(NULL)>>

Body(role, status, pw) == [role |-> role, status |-> status, pw |-> pw]

MCBodies == {Body("operator", NULL, NULL), Body(NULL, "disabled", NULL),
             Body("admin", "active", NULL), Body(NULL, NULL, p2)}

MCSymmetry == Permutations(Requests)
=============================================================================
