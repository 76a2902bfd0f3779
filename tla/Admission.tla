------------------------------ MODULE Admission ------------------------------
(***************************************************************************)
(* What the database promises FreeRADIUS and the console, with nothing of   *)
(* how: the compiled rows always follow the tables, rows of others are not  *)
(* touched, and a user's status moves along the state machine of docs/02.   *)
(*                                                                         *)
(* AccessControl implements it; so does CompileTxn while one transaction    *)
(* runs at a time.                                                         *)
(***************************************************************************)
EXTENDS PolicyCompiler

VARIABLES users, policies, rows

Consistent == OwnedRows(rows) = DesiredRows(users, policies)

\* [*] --> active, and from then on every move but disabled --> locked: the
\* lockout engine takes active accounts only.
Move(u, v) ==
  \/ v = u
  \/ u = NULL /\ v.status = "active"
  \/ /\ u # NULL /\ v # NULL
     /\ ~(u.status = "disabled" /\ v.status = "locked")

Init == Consistent

Next ==
  /\ Consistent'
  /\ rows' \ MatchedRows(rows') = rows \ MatchedRows(rows)
  /\ \A a \in Accounts : Move(users[a], users'[a])

Spec == Init /\ [][Next]_<<users, policies, rows>>
=============================================================================
