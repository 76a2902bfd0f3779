--------------------------- MODULE MCAccessControl ---------------------------
(* Instances of AccessControl for TLC. *)
EXTENDS AccessControl, TLC

CONSTANTS a1, guests

\* A password row and a membership of a hand-made group, both outside what the
\* compiler owns.
MCSeedRows == {<<"radcheck", a1, "Cleartext-Password", "pw">>,
               <<"radusergroup", a1, guests, 0>>}

MCSymmetry == Permutations(Slugs) \cup Permutations(Policies)
=============================================================================
