--------------------------- MODULE AdminAuthProofs ---------------------------
(***************************************************************************)
(* The administrators and their tokens, for any number of accounts,         *)
(* requests and steps.  A token dies with the password; then, on that       *)
(* invariant: a lock stands, an administrator remains, a refresh token is   *)
(* used a bounded number of times, and guesses are few.                     *)
(*                                                                         *)
(* PasswordEndsTokens is not inductive: a request that is under way holds a *)
(* version and a password which it will put into a pair, and the two have   *)
(* to be as good as those of a pair already issued.                         *)
(***************************************************************************)
EXTENDS AdminAuth, TLAPS, FiniteSetTheorems

Body == [role: Roles \cup {NULL}, status: Statuses \cup {NULL}, pw: Passwords \cup {NULL}]

Request ==
  [pc: {"idle", "commit", "admin", "look", "target", "guard"},
   kind: {NULL, "login", "refresh", "logout", "update", "delete"},
   admin: Admins \cup {NULL}, row: Row \cup {NULL}, pair: Nat \cup {NULL},
   arg: Body \cup Passwords \cup {NULL}, at: Nat, known: BOOLEAN, fresh: BOOLEAN]

\* Version `v` of account `a` is past, or belongs to the password `pw`.
Current(rs, ls, a, v, pw) ==
  \/ rs[a] = NULL \/ <<a, "ver">> \in ls
  \/ v < rs[a].ver
  \/ v = rs[a].ver /\ pw = rs[a].pw

Good(p, rs, ls, last) ==
  p.admin <= last /\ Current(rs, ls, p.admin, p.ver, p.under)

\* A row in the hands of a request is one that the account had.
Held(q, rs, ls, last) ==
  q.row \in Row /\ q.admin <= last /\ Current(rs, ls, q.admin, q.row.ver, q.row.pw)

Sound(q, rs, ls, ps, last) ==
  /\ q \in Request
  /\ q.pc # "idle" => q.admin \in Admins
  /\ q.pc \in {"admin", "look", "target"} => q.pair \in DOMAIN ps
  /\ q.pc = "commit" /\ q.kind \in {"refresh", "logout"} => q.pair \in DOMAIN ps
  /\ q.pc = "commit" => q.kind \in {"login", "refresh", "logout", "update", "delete"}
  /\ q.pc \in {"target", "guard"} => q.kind \in {"update", "delete"}
  /\ q.pc # "idle" /\ q.kind \in {"update", "delete"} => q.arg \in Body
  /\ q.pc = "admin" => q.kind = "refresh"
  /\ q.pc \in {"admin", "look", "commit"} /\ q.kind = "refresh" => ps[q.pair].admin = q.admin
  /\ q.pc \in {"look", "commit"} /\ q.kind = "refresh" =>
       q.row \in Row /\ q.row.ver = ps[q.pair].ver
  /\ q.pc = "look" => q.kind \in {"refresh", "logout"}
  /\ q.pc = "target" => q.row \in Row
  /\ q.pc = "target" /\ q.admin = ps[q.pair].admin => Held(q, rs, ls, last)
  /\ q.pc = "guard" => Held(q, rs, ls, last)
  /\ q.pc = "commit" /\ q.kind \in {"login", "update", "delete"} => Held(q, rs, ls, last)

Types ==
  /\ rows \in [Admins -> Row \cup {NULL}]
  /\ lastId \in Nat
  /\ \A a \in Admins : a > lastId => rows[a] = NULL
  /\ pairs \in Seq(Pair)
  /\ revoked \subseteq DOMAIN pairs
  /\ lost \subseteq Admins \X Columns
  /\ now \in Nat
  /\ req \in [Requests -> Request]

IInv ==
  /\ Types
  /\ \A p \in DOMAIN pairs : Good(pairs[p], rows, lost, lastId)
  /\ \A r \in Requests : Sound(req[r], rows, lost, pairs, lastId)

\* What every step does to the accounts: what was past or belonged to the password
\* still does.
Keeps(rs, ls, last, rs2, ls2) ==
  \A a \in Admins : \A v \in Nat : \A pw \in Passwords \cup {NULL} :
    a <= last /\ Current(rs, ls, a, v, pw) => Current(rs2, ls2, a, v, pw)

-----------------------------------------------------------------------------
(* Lemmas about the operators. *)

LEMMA AdminsAreIds == \A a \in Admins : a \in Nat
<1>1. Cardinality(Admins) \in Nat
  BY AdminsAssumption, FS_CardinalityType
<1> QED
  BY <1>1, AdminsAssumption

LEMMA StillAtMost ==
  ASSUME NEW a \in Admins, NEW m \in Nat, NEW n \in Nat, a <= m, m <= n
  PROVE a <= n
<1>1. a \in Nat
  BY AdminsAreIds
<1> QED
  BY <1>1

LEMMA IdleSound ==
  ASSUME NEW rs, NEW ls, NEW ps, NEW last
  PROVE Sound(Idle, rs, ls, ps, last)
BY DEF Sound, Idle, Request

LEMMA WrittenType ==
  ASSUME NEW row \in Row, NEW old \in Row, NEW new \in Row
  PROVE /\ Written(row, old, new) \in Row
        /\ Written(row, old, new).ver = IF new.ver # old.ver THEN new.ver ELSE row.ver
        /\ new.pw = old.pw => Written(row, old, new).pw = row.pw
BY DEF Written, Row, Columns

\* Requests and pairs that were sound stay so: the pairs are only added to.
LEMMA SoundKept ==
  ASSUME NEW q, NEW rs, NEW ls, NEW ps \in Seq(Pair), NEW last \in Nat,
         NEW rs2, NEW ls2, NEW ps2 \in Seq(Pair), NEW last2 \in Nat,
         Sound(q, rs, ls, ps, last), Keeps(rs, ls, last, rs2, ls2), last <= last2,
         Len(ps) <= Len(ps2), \A p \in DOMAIN ps : ps2[p] = ps[p]
  PROVE Sound(q, rs2, ls2, ps2, last2)
<1>1. ASSUME Held(q, rs, ls, last), q.admin \in Admins
      PROVE Held(q, rs2, ls2, last2)
  <2> DEFINE a == q.admin
             v == q.row.ver
             pw == q.row.pw
  <2>1. q.row \in Row => q.row.ver \in Nat /\ q.row.pw \in Passwords \cup {NULL}
    BY DEF Row
  <2>2. v \in Nat /\ pw \in Passwords \cup {NULL} /\ a <= last /\ Current(rs, ls, a, v, pw)
    BY <1>1, <2>1 DEF Held
  <2>3. Current(rs2, ls2, a, v, pw)
    BY <1>1, <2>2 DEF Keeps
  <2>4. a <= last2
    BY <1>1, <2>2, StillAtMost
  <2> QED
    BY <1>1, <2>3, <2>4 DEF Held
<1>2. DOMAIN ps \subseteq DOMAIN ps2
  OBVIOUS
<1>3. q.pair \in DOMAIN ps => ps2[q.pair] = ps[q.pair]
  OBVIOUS
<1> QED
  BY <1>1, <1>2, <1>3 DEF Sound

LEMMA GoodKept ==
  ASSUME NEW p \in Pair, NEW rs, NEW ls, NEW last \in Nat,
         NEW rs2, NEW ls2, NEW last2 \in Nat,
         Good(p, rs, ls, last), Keeps(rs, ls, last, rs2, ls2), last <= last2
  PROVE Good(p, rs2, ls2, last2)
<1>1. p.admin \in Admins /\ p.ver \in Nat /\ p.under \in Passwords \cup {NULL}
  BY DEF Pair
<1>2. Current(rs2, ls2, p.admin, p.ver, p.under)
  BY <1>1 DEF Good, Keeps
<1>3. p.admin <= last2
  BY <1>1, StillAtMost DEF Good
<1> QED
  BY <1>2, <1>3 DEF Good

LEMMA KeepsSame ==
  ASSUME NEW rs, NEW ls, NEW last
  PROVE Keeps(rs, ls, last, rs, ls)
BY DEF Keeps

\* An UPDATE that leaves the password alone, or gives it the next version, takes no
\* account's past back.
LEMMA SaveKeeps ==
  ASSUME Types, NEW a \in Admins, NEW old \in Row, NEW new \in Row,
         (new.ver = old.ver /\ new.pw = old.pw) \/ new.ver = old.ver + 1,
         Save(a, old, new)
  PROVE /\ rows' \in [Admins -> Row \cup {NULL}]
        /\ \A b \in Admins : rows'[b] = NULL <=> rows[b] = NULL
        /\ lost' \subseteq Admins \X Columns
        /\ Keeps(rows, lost, lastId, rows', lost')
<1>1. CASE UNCHANGED <<rows, lost>>
  BY <1>1, KeepsSame DEF Types
<1>2. CASE /\ rows[a] # NULL
           /\ rows' = [rows EXCEPT ![a] = Written(@, old, new)]
           /\ lost' = lost \cup Overwritten(a, old, new)
  <2> DEFINE row == rows[a]
  <2>1. row \in Row
    BY <1>2 DEF Types
  <2>2. rows' \in [Admins -> Row \cup {NULL}]
    BY <1>2, <2>1, WrittenType DEF Types
  <2>3. rows'[a] = Written(row, old, new) /\ \A b \in Admins \ {a} : rows'[b] = rows[b]
    BY <1>2 DEF Types
  <2>4. rows'[a] \in Row
    BY <2>1, <2>3, WrittenType
  <2>5. \A b \in Admins : rows'[b] = NULL <=> rows[b] = NULL
    BY <1>2, <2>3, <2>4, NullAssumption
  <2>6. lost' \subseteq Admins \X Columns
    BY <1>2 DEF Overwritten, Types
  <2>7. new.ver # old.ver /\ row.ver # old.ver => <<a, "ver">> \in lost'
    BY <1>2 DEF Overwritten, Columns
  <2>8. ASSUME NEW v \in Nat, NEW pw \in Passwords \cup {NULL},
               Current(rows, lost, a, v, pw)
        PROVE Current(rows', lost', a, v, pw)
    <3>1. CASE new.ver = old.ver /\ new.pw = old.pw
      BY <1>2, <2>1, <2>3, <2>8, <3>1, WrittenType DEF Current
    <3>2. CASE new.ver = old.ver + 1 /\ row.ver # old.ver
      BY <2>7, <3>2 DEF Row, Current
    <3>3. CASE new.ver = old.ver + 1 /\ row.ver = old.ver
      <4>1. rows'[a].ver = row.ver + 1 /\ row.ver \in Nat
        BY <2>1, <2>3, <3>3, WrittenType DEF Row
      <4> QED
        BY <1>2, <2>8, <4>1 DEF Current
    <3> QED
      BY <3>1, <3>2, <3>3
  <2>9. Keeps(rows, lost, lastId, rows', lost')
    BY <1>2, <2>3, <2>8 DEF Keeps, Current
  <2> QED
    BY <2>2, <2>5, <2>6, <2>9
<1> QED
  BY <1>1, <1>2 DEF Save

-----------------------------------------------------------------------------
(* The shapes that the steps have. *)

\* A request goes on, and nothing else changes.
LEMMA RequestGoesOn ==
  ASSUME IInv, NEW r \in Requests, NEW q, Sound(q, rows, lost, pairs, lastId),
         req' = [req EXCEPT ![r] = q],
         UNCHANGED <<rows, lastId, pairs, revoked, now, lost>>
  PROVE IInv'
<1>1. q \in Request
  BY DEF Sound
<1>2. req' \in [Requests -> Request]
  BY <1>1 DEF IInv, Types
<1>3. \A s \in Requests : req'[s] = IF s = r THEN q ELSE req[s]
  BY DEF IInv, Types
<1>4. \A s \in Requests : Sound(req'[s], rows, lost, pairs, lastId)
  BY <1>3 DEF IInv
<1> QED
  BY <1>2, <1>4 DEF IInv, Types

LEMMA CloseSound ==
  ASSUME IInv, NEW r \in Requests, NEW o, Close(r, o)
  PROVE /\ req' \in [Requests -> Request]
        /\ \A s \in Requests : Sound(req'[s], rows, lost, pairs, lastId)
<1>1. SUFFICES ASSUME NEW s \in Requests
               PROVE Sound(req'[s], rows, lost, pairs, lastId)
  BY DEF Sound, Close
<1> DEFINE q == req[s]
<1>2. Sound(q, rows, lost, pairs, lastId) /\ q \in Request
  BY DEF IInv, Types
<1>3. CASE req'[s] = Idle
  BY <1>3, IdleSound
<1>4. CASE req'[s] = q
  BY <1>2, <1>4
<1>5. CASE req'[s] = [q EXCEPT !.fresh = FALSE]
  <2>1. [q EXCEPT !.fresh = FALSE] \in Request
    BY <1>2 DEF Request
  <2> QED
    BY <1>2, <1>5, <2>1 DEF Sound, Held, Request
<1> QED
  BY <1>3, <1>4, <1>5 DEF Close

\* A request ends, with what it commits to accounts, pairs and revoked tokens.
LEMMA RequestEnds ==
  ASSUME IInv, NEW r \in Requests, NEW o, Close(r, o),
         rows' \in [Admins -> Row \cup {NULL}],
         \A a \in Admins : rows[a] = NULL => rows'[a] = NULL,
         lost' \subseteq Admins \X Columns,
         Keeps(rows, lost, lastId, rows', lost'),
         pairs' \in Seq(Pair), Len(pairs) <= Len(pairs'),
         \A p \in DOMAIN pairs : pairs'[p] = pairs[p],
         \A p \in DOMAIN pairs' : p \in DOMAIN pairs \/ Good(pairs'[p], rows', lost', lastId),
         revoked' \subseteq DOMAIN pairs',
         UNCHANGED <<lastId, now>>
  PROVE IInv'
<1>1. lastId \in Nat /\ lastId <= lastId /\ pairs \in Seq(Pair)
  BY DEF IInv, Types
<1>2. \A s \in Requests : Sound(req'[s], rows', lost', pairs', lastId)
  <2>1. \A s \in Requests : Sound(req'[s], rows, lost, pairs, lastId)
    BY CloseSound
  <2> QED
    BY <1>1, <2>1, SoundKept
<1>3. ASSUME NEW p \in DOMAIN pairs
      PROVE Good(pairs'[p], rows', lost', lastId)
  <2>1. pairs[p] \in Pair /\ Good(pairs[p], rows, lost, lastId)
    BY <1>1 DEF IInv
  <2> QED
    BY <1>1, <2>1, GoodKept
<1>4. Types'
  BY CloseSound DEF IInv, Types
<1> QED
  BY <1>2, <1>3, <1>4 DEF IInv

\* What the actions of a login, and of a change of an account, give a row.
LEMMA AskedType ==
  ASSUME NEW body \in Body, NEW row \in Row
  PROVE /\ Asked(body, row) \in Row
        /\ \/ Asked(body, row).ver = row.ver /\ Asked(body, row).pw = row.pw
           \/ Asked(body, row).ver = row.ver + 1
<1> DEFINE role == IF body.role = NULL THEN row.role ELSE body.role
           status == IF body.status = NULL THEN row.status ELSE body.status
           pw == IF body.pw = NULL THEN row.pw ELSE body.pw
           ver == IF body.pw = NULL THEN row.ver ELSE row.ver + 1
           new == [row EXCEPT !.role = role, !.status = status, !.pw = pw, !.ver = ver]
<1>1. /\ role \in Roles /\ status \in Statuses
      /\ pw \in Passwords \cup {NULL} /\ ver \in Nat
  BY DEF Body, Row
<1>2. Asked(body, row) = new
  BY DEF Asked
<1>3. (ver = row.ver /\ pw = row.pw) \/ ver = row.ver + 1
  OBVIOUS
<1> HIDE DEF role, status, pw, ver
<1>4. new \in Row /\ new.ver = ver /\ new.pw = pw
  BY <1>1 DEF Row
<1> QED
  BY <1>2, <1>3, <1>4

LEMMA FailedType ==
  ASSUME NEW row \in Row, NEW at \in Nat
  PROVE /\ Failed(row, at) \in Row
        /\ Failed(row, at).ver = row.ver /\ Failed(row, at).pw = row.pw
        /\ Failed(row, at).role = row.role /\ Failed(row, at).status = row.status
<1> DEFINE Same(x) == /\ x \in Row /\ x.ver = row.ver /\ x.pw = row.pw
                      /\ x.role = row.role /\ x.status = row.status
           counted == Counted(row, at)
<1>1. Same([row EXCEPT !.fails = 1, !.first = at])
  BY DEF Row
<1>2. Same([row EXCEPT !.fails = @ + 1])
  BY DEF Row
<1>3. Same(counted)
  BY <1>1, <1>2 DEF Counted
<1> HIDE DEF counted
<1>4. at + Duration \in Nat
  BY LockoutAssumption
<1>5. Same([counted EXCEPT !.until = at + Duration, !.fails = 0, !.first = NULL])
  BY <1>3, <1>4 DEF Row
<1>6. Failed(row, at) = counted
      \/ Failed(row, at) = [counted EXCEPT !.until = at + Duration, !.fails = 0, !.first = NULL]
  BY DEF Failed, Locks, counted
<1> QED
  BY <1>3, <1>5, <1>6

-----------------------------------------------------------------------------
(* The steps. *)

LEMMA InitIInv == Init => IInv
<1> SUFFICES ASSUME Init PROVE IInv
  OBVIOUS
<1> DEFINE n == Cardinality(Created)
<1>1. n \in Nat /\ Created = 1..n
  <2>1. IsFiniteSet(Created)
    BY AdminsAssumption, FS_Subset DEF Created
  <2> QED
    BY <2>1, FS_CardinalityType, InitAssumption
<1>2. \A a \in Created : a \in Admins /\ InitRows[a] \in Row
  BY InitAssumption DEF Created
<1>3. \A a \in Created : FirstPair(a) \in Pair
  BY <1>1, <1>2 DEF FirstPair, Pair, Row
<1>4. pairs \in Seq(Pair) /\ DOMAIN pairs = Created
  BY <1>1, <1>3 DEF Init
<1>5. \A p \in DOMAIN pairs : Good(pairs[p], rows, lost, lastId)
  BY <1>1, <1>2, <1>4 DEF Init, Good, Current, FirstPair
<1>6. \A a \in Admins : a > lastId => rows[a] = NULL
  <2> SUFFICES ASSUME NEW a \in Admins, a > lastId, rows[a] # NULL
               PROVE FALSE
    OBVIOUS
  <2>1. a \in Created /\ lastId = n
    BY DEF Init, Created
  <2> QED
    BY <1>1, <2>1
<1>7. \A r \in Requests : Sound(req[r], rows, lost, pairs, lastId)
  BY IdleSound DEF Init
<1>8. req \in [Requests -> Request]
  BY DEF Init, Idle, Request
<1>9. rows \in [Admins -> Row \cup {NULL}]
  BY InitAssumption DEF Init
<1>10. /\ lastId \in Nat /\ now \in Nat
       /\ revoked \subseteq DOMAIN pairs /\ lost \subseteq Admins \X Columns
  BY <1>1 DEF Init
<1> QED
  BY <1>4, <1>5, <1>6, <1>7, <1>8, <1>9, <1>10 DEF IInv, Types

\* An account that is there has been given its id.
LEMMA PresentAtMost ==
  ASSUME Types, NEW a \in Admins, rows[a] # NULL
  PROVE a <= lastId /\ rows[a] \in Row
BY AdminsAreIds DEF Types

\* The pair of an accepted token is one, and its administrator's row is there.
LEMMA AcceptedPair ==
  ASSUME Types, NEW p \in PairIds, p <= Len(pairs)
  PROVE /\ p \in DOMAIN pairs /\ p \in Nat
        /\ pairs[p] \in Pair /\ pairs[p].admin \in Admins
<1>1. p \in DOMAIN pairs /\ p \in Nat
  <2>1. Cardinality(Admins) \in Nat /\ MaxRequests \in Nat
    BY AdminsAssumption, FS_CardinalityType, LockoutAssumption
  <2>2. p \in Nat /\ p >= 1
    BY <2>1 DEF PairIds
  <2>3. pairs \in Seq(Pair)
    BY DEF Types
  <2> QED
    BY <2>2, <2>3
<1>2. pairs[p] \in Pair
  BY <1>1 DEF Types
<1> QED
  BY <1>1, <1>2 DEF Pair

LEMMA BeginLoginStep ==
  ASSUME IInv, NEW r \in Requests, NEW a \in Admins, NEW pw \in Passwords, BeginLogin(r, a, pw)
  PROVE IInv'
<1> DEFINE q == [Idle EXCEPT !.pc = "commit", !.kind = "login", !.admin = a,
                             !.row = rows[a], !.arg = pw, !.at = now]
<1>1. a <= lastId /\ rows[a] \in Row
  BY PresentAtMost DEF BeginLogin, Active, IInv
<1>2. q \in Request
  BY <1>1 DEF Request, Idle, IInv, Types
<1>3. Held(q, rows, lost, lastId)
  BY <1>1 DEF Held, Current, Idle, Row
<1>4. Sound(q, rows, lost, pairs, lastId)
  BY <1>2, <1>3, NullAssumption DEF Sound, Idle
<1> QED
  BY <1>4, RequestGoesOn DEF BeginLogin, Open

LEMMA LoginSucceedsStep ==
  ASSUME IInv, NEW r \in Requests, LoginSucceeds(r)
  PROVE IInv'
<1> DEFINE a == req[r].admin
           old == req[r].row
           new == [old EXCEPT !.fails = 0, !.first = NULL, !.until = NULL]
           pair == [admin |-> a, ver |-> old.ver, under |-> old.pw, from |-> 0]
<1>1. a \in Admins /\ Held(req[r], rows, lost, lastId)
  BY DEF LoginSucceeds, IInv, Sound
<1>2. old \in Row /\ a <= lastId /\ Current(rows, lost, a, old.ver, old.pw)
  BY <1>1 DEF Held
<1>3. new \in Row /\ new.ver = old.ver /\ new.pw = old.pw
  BY <1>2 DEF Row
<1>4. Save(a, old, new)
  BY DEF LoginSucceeds
<1>5. /\ rows' \in [Admins -> Row \cup {NULL}]
      /\ \A b \in Admins : rows'[b] = NULL <=> rows[b] = NULL
      /\ lost' \subseteq Admins \X Columns
      /\ Keeps(rows, lost, lastId, rows', lost')
  BY <1>1, <1>2, <1>3, <1>4, SaveKeeps DEF IInv
<1>6. pair \in Pair
  BY <1>1, <1>2 DEF Pair, Row
<1>7. Good(pair, rows', lost', lastId)
  <2>1. old.ver \in Nat /\ old.pw \in Passwords \cup {NULL}
    BY <1>2 DEF Row
  <2> QED
    BY <1>1, <1>2, <1>5, <2>1 DEF Good, Keeps
<1>8. pairs \in Seq(Pair) /\ pairs' = Append(pairs, pair)
  BY DEF IInv, Types, LoginSucceeds, Issue
<1>9. /\ pairs' \in Seq(Pair) /\ Len(pairs) <= Len(pairs')
      /\ \A p \in DOMAIN pairs : pairs'[p] = pairs[p]
      /\ \A p \in DOMAIN pairs' : p \in DOMAIN pairs \/ pairs'[p] = pair
  BY <1>6, <1>8
<1>10. revoked' \subseteq DOMAIN pairs' /\ UNCHANGED <<lastId, now>>
  BY <1>8, <1>9 DEF LoginSucceeds, IInv, Types
<1>11. Close(r, Logins(a))
  BY DEF LoginSucceeds
<1> HIDE DEF pair
<1> QED
  BY <1>5, <1>7, <1>9, <1>10, <1>11, RequestEnds

LEMMA LoginFailsStep ==
  ASSUME IInv, NEW r \in Requests, LoginFails(r)
  PROVE IInv'
<1> DEFINE a == req[r].admin
           old == req[r].row
           new == Failed(old, req[r].at)
<1>1. a \in Admins /\ old \in Row /\ req[r].at \in Nat
  BY DEF LoginFails, IInv, Sound, Held, Request
<1>2. new \in Row /\ new.ver = old.ver /\ new.pw = old.pw
  BY <1>1, FailedType
<1>3. Save(a, old, new)
  BY DEF LoginFails
<1>4. /\ rows' \in [Admins -> Row \cup {NULL}]
      /\ \A b \in Admins : rows'[b] = NULL <=> rows[b] = NULL
      /\ lost' \subseteq Admins \X Columns
      /\ Keeps(rows, lost, lastId, rows', lost')
  BY <1>1, <1>2, <1>3, SaveKeeps DEF IInv
<1>5. /\ UNCHANGED <<lastId, now, pairs, revoked>>
      /\ pairs \in Seq(Pair) /\ revoked \subseteq DOMAIN pairs
  BY DEF LoginFails, IInv, Types
<1>6. PICK o : Close(r, o)
  BY DEF LoginFails
<1>7. /\ pairs' \in Seq(Pair) /\ Len(pairs) <= Len(pairs')
      /\ \A p \in DOMAIN pairs : pairs'[p] = pairs[p]
      /\ \A p \in DOMAIN pairs' : p \in DOMAIN pairs
      /\ revoked' \subseteq DOMAIN pairs'
  BY <1>5
<1> QED
  BY <1>4, <1>5, <1>6, <1>7, RequestEnds

LEMMA ValidateStep ==
  ASSUME IInv, NEW r \in Requests, NEW p \in PairIds, Validate(r, p)
  PROVE IInv'
<1> DEFINE q == [Idle EXCEPT !.pc = "admin", !.kind = "refresh", !.pair = p,
                             !.admin = pairs[p].admin]
<1>1. p \in DOMAIN pairs /\ p \in Nat /\ pairs[p].admin \in Admins
  BY AcceptedPair DEF Validate, IInv
<1>2. q \in Request
  BY <1>1 DEF Request, Idle
<1>3. Sound(q, rows, lost, pairs, lastId)
  BY <1>1, <1>2 DEF Sound, Idle
<1> QED
  BY <1>3, RequestGoesOn DEF Validate, Open

LEMMA ReadAdminStep ==
  ASSUME IInv, NEW r \in Requests, ReadAdmin(r)
  PROVE IInv'
<1> DEFINE q == req[r]
           a == q.admin
           q2 == [q EXCEPT !.pc = "look", !.row = rows[a]]
<1>1. /\ q \in Request /\ a \in Admins /\ q.kind = "refresh"
      /\ q.pair \in DOMAIN pairs /\ pairs[q.pair].admin = a
  BY DEF ReadAdmin, IInv, Types, Sound
<1>2. rows[a] \in Row /\ rows[a].ver = pairs[q.pair].ver
  BY <1>1, PresentAtMost DEF ReadAdmin, Accepted, Active, IInv
<1>3. q2 \in Request
  BY <1>1, <1>2 DEF Request
<1>4. /\ q2.pc = "look" /\ q2.kind = "refresh" /\ q2.admin = a
      /\ q2.pair = q.pair /\ q2.row = rows[a]
  BY <1>1 DEF Request
<1>5. Sound(q2, rows, lost, pairs, lastId)
  BY <1>1, <1>2, <1>3, <1>4 DEF Sound
<1> QED
  BY <1>5, RequestGoesOn DEF ReadAdmin, Step

LEMMA LookStep ==
  ASSUME IInv, NEW r \in Requests, Look(r)
  PROVE IInv'
<1> DEFINE q == req[r]
           known == q.pair \in revoked
           q2 == [q EXCEPT !.pc = "commit", !.known = known]
<1>1. /\ q \in Request /\ Sound(q, rows, lost, pairs, lastId)
      /\ q.pc = "look" /\ q.kind \in {"refresh", "logout"}
  BY DEF Look, IInv, Types
<1>2. q2 \in Request
  <2>1. known \in BOOLEAN
    OBVIOUS
  <2> HIDE DEF known
  <2> QED
    BY <1>1, <2>1 DEF Request
<1>3. /\ q2.pc = "commit" /\ q2.kind = q.kind /\ q2.admin = q.admin
      /\ q2.pair = q.pair /\ q2.row = q.row
  BY <1>1 DEF Request
<1>4. Sound(q2, rows, lost, pairs, lastId)
  BY <1>1, <1>2, <1>3 DEF Sound
<1> QED
  BY <1>4, RequestGoesOn DEF Look, Step

LEMMA RotateStep ==
  ASSUME IInv, NEW r \in Requests, Rotate(r)
  PROVE IInv'
<1> DEFINE q == req[r]
           pair == [admin |-> q.admin, ver |-> q.row.ver, under |-> pairs[q.pair].under,
                    from |-> q.pair]
<1>1. /\ q.admin \in Admins /\ q.pair \in DOMAIN pairs /\ q.row \in Row
      /\ pairs[q.pair].admin = q.admin /\ q.row.ver = pairs[q.pair].ver
  BY DEF Rotate, IInv, Sound
<1>2. /\ pairs \in Seq(Pair) /\ pairs[q.pair] \in Pair
      /\ Good(pairs[q.pair], rows, lost, lastId)
  BY <1>1 DEF IInv, Types
<1>3. pair \in Pair
  BY <1>1, <1>2 DEF Pair
<1>4. Good(pair, rows, lost, lastId)
  BY <1>1, <1>2 DEF Good
<1>5. /\ pairs' = Append(pairs, pair) /\ Close(r, {})
      /\ UNCHANGED <<rows, lost, lastId, now>> /\ revoked' = revoked \cup {q.pair}
  BY DEF Rotate, Revoke, Issue
<1>6. /\ pairs' \in Seq(Pair) /\ Len(pairs) <= Len(pairs')
      /\ \A p \in DOMAIN pairs : p \in DOMAIN pairs' /\ pairs'[p] = pairs[p]
      /\ \A p \in DOMAIN pairs' : p \in DOMAIN pairs \/ pairs'[p] = pair
  BY <1>2, <1>3, <1>5
<1>7. revoked' \subseteq DOMAIN pairs'
  BY <1>1, <1>5, <1>6 DEF IInv, Types
<1>8. /\ rows' \in [Admins -> Row \cup {NULL}] /\ lost' \subseteq Admins \X Columns
      /\ Keeps(rows, lost, lastId, rows', lost')
  BY <1>5, KeepsSame DEF IInv, Types
<1> HIDE DEF pair
<1> QED
  BY <1>4, <1>5, <1>6, <1>7, <1>8, RequestEnds

LEMMA BeginLogoutStep ==
  ASSUME IInv, NEW r \in Requests, NEW p \in PairIds, NEW p2 \in PairIds, BeginLogout(r, p, p2)
  PROVE IInv'
<1> DEFINE q == [Idle EXCEPT !.pc = "look", !.kind = "logout", !.pair = p2,
                             !.admin = pairs[p].admin]
<1>1. p2 \in DOMAIN pairs /\ p2 \in Nat /\ pairs[p].admin \in Admins
  BY AcceptedPair DEF BeginLogout, Accepted, IInv
<1>2. q \in Request
  BY <1>1 DEF Request, Idle
<1>3. Sound(q, rows, lost, pairs, lastId)
  BY <1>1, <1>2 DEF Sound, Idle
<1> QED
  BY <1>3, RequestGoesOn DEF BeginLogout, Open

LEMMA LogoutStep ==
  ASSUME IInv, NEW r \in Requests, Logout(r)
  PROVE IInv'
<1>1. /\ Close(r, {}) /\ UNCHANGED <<rows, pairs, lost, lastId, now>>
      /\ revoked' = revoked \cup {req[r].pair} /\ req[r].pair \in DOMAIN pairs
  BY DEF Logout, Revoke, IInv, Sound
<1>2. /\ rows' \in [Admins -> Row \cup {NULL}] /\ lost' \subseteq Admins \X Columns
      /\ Keeps(rows, lost, lastId, rows', lost') /\ revoked' \subseteq DOMAIN pairs'
  BY <1>1, KeepsSame DEF IInv, Types
<1>3. /\ pairs' \in Seq(Pair) /\ Len(pairs) <= Len(pairs')
      /\ \A p \in DOMAIN pairs : pairs'[p] = pairs[p]
      /\ \A p \in DOMAIN pairs' : p \in DOMAIN pairs
  <2>1. pairs \in Seq(Pair)
    BY DEF IInv, Types
  <2> QED
    BY <1>1, <2>1
<1> QED
  BY <1>1, <1>2, <1>3, RequestEnds

LEMMA BeginPasswordStep ==
  ASSUME IInv, NEW r \in Requests, NEW p \in PairIds, NEW pw \in Passwords,
         BeginPassword(r, p, pw)
  PROVE IInv'
<1> DEFINE a == pairs[p].admin
           q == [Idle EXCEPT !.pc = "commit", !.kind = "update", !.admin = a,
                             !.row = rows[a], !.arg = OwnPassword(pw)]
<1>1. a \in Admins /\ a <= lastId /\ rows[a] \in Row
  BY AcceptedPair, PresentAtMost DEF BeginPassword, Accepted, Active, IInv
<1>2. OwnPassword(pw) \in Body
  BY DEF OwnPassword, Body
<1>3. q \in Request
  BY <1>1, <1>2 DEF Request, Idle
<1>4. Held(q, rows, lost, lastId)
  BY <1>1 DEF Held, Current, Idle, Row
<1>5. Sound(q, rows, lost, pairs, lastId)
  BY <1>1, <1>2, <1>3, <1>4 DEF Sound, Idle
<1> QED
  BY <1>5, RequestGoesOn DEF BeginPassword, Open

LEMMA BeginManageStep ==
  ASSUME IInv, NEW r \in Requests, NEW p \in PairIds, NEW kind \in {"update", "delete"},
         NEW a \in Admins, NEW body \in Body, BeginManage(r, p, kind, a, body)
  PROVE IInv'
<1> DEFINE row == rows[pairs[p].admin]
           q == [Idle EXCEPT !.pc = "target", !.kind = kind, !.admin = a, !.arg = body,
                             !.pair = p, !.row = row]
<1>1. /\ p \in DOMAIN pairs /\ p \in Nat /\ pairs[p].admin \in Admins
      /\ pairs[p].admin <= lastId /\ row \in Row
  BY AcceptedPair, PresentAtMost DEF BeginManage, Accepted, Active, IInv
<1>2. q \in Request
  BY <1>1 DEF Request, Idle
<1>3. a = pairs[p].admin => Held(q, rows, lost, lastId)
  BY <1>1 DEF Held, Current, Idle, Row
<1>4. Sound(q, rows, lost, pairs, lastId)
  BY <1>1, <1>2, <1>3 DEF Sound, Idle
<1> QED
  BY <1>4, RequestGoesOn DEF BeginManage, Open

LEMMA ReadTargetStep ==
  ASSUME IInv, NEW r \in Requests, ReadTarget(r)
  PROVE IInv'
<1> DEFINE q == req[r]
           row == IF q.admin = pairs[q.pair].admin THEN q.row ELSE rows[q.admin]
           q2 == [q EXCEPT !.pc = "guard", !.row = row]
<1>1. /\ q \in Request /\ q.admin \in Admins /\ q.arg \in Body
      /\ q.pc = "target" /\ q.kind \in {"update", "delete"}
      /\ q.admin = pairs[q.pair].admin => Held(q, rows, lost, lastId)
  BY DEF ReadTarget, IInv, Types, Sound
<1>2. /\ row \in Row /\ q.admin <= lastId
      /\ Current(rows, lost, q.admin, row.ver, row.pw)
  <2>1. CASE q.admin = pairs[q.pair].admin
    BY <1>1, <2>1 DEF Held
  <2>2. CASE q.admin # pairs[q.pair].admin
    BY <1>1, <2>2, PresentAtMost DEF ReadTarget, IInv, Current, Row
  <2> QED
    BY <2>1, <2>2
<1> HIDE DEF row
<1>3. q2 \in Request
  BY <1>1, <1>2 DEF Request
<1>4. /\ q2.pc = "guard" /\ q2.kind = q.kind /\ q2.admin = q.admin
      /\ q2.arg = q.arg /\ q2.row = row
  BY <1>1 DEF Request
<1>5. Held(q2, rows, lost, lastId)
  BY <1>2, <1>4 DEF Held
<1>6. Sound(q2, rows, lost, pairs, lastId)
  BY <1>1, <1>3, <1>4, <1>5 DEF Sound
<1> QED
  BY <1>6, RequestGoesOn DEF ReadTarget, Step, row

LEMMA GuardLastAdminStep ==
  ASSUME IInv, NEW r \in Requests, GuardLastAdmin(r)
  PROVE IInv'
<1> DEFINE q == req[r]
           q2 == [q EXCEPT !.pc = "commit", !.pair = NULL]
<1>1. /\ q \in Request /\ q.admin \in Admins /\ q.arg \in Body
      /\ q.kind \in {"update", "delete"} /\ Held(q, rows, lost, lastId)
  BY DEF GuardLastAdmin, IInv, Types, Sound
<1>2. q2 \in Request
  BY <1>1 DEF Request
<1>3. /\ q2.pc = "commit" /\ q2.kind = q.kind /\ q2.admin = q.admin
      /\ q2.arg = q.arg /\ q2.row = q.row
  BY <1>1 DEF Request
<1>4. Held(q2, rows, lost, lastId)
  BY <1>1, <1>3 DEF Held
<1>5. Sound(q2, rows, lost, pairs, lastId)
  BY <1>1, <1>2, <1>3, <1>4 DEF Sound
<1> QED
  BY <1>5, RequestGoesOn DEF GuardLastAdmin, Step

\* A request that ends and leaves the tokens alone.
LEMMA AccountChanges ==
  ASSUME IInv, NEW r \in Requests, NEW o, Close(r, o),
         rows' \in [Admins -> Row \cup {NULL}],
         \A a \in Admins : rows[a] = NULL => rows'[a] = NULL,
         lost' \subseteq Admins \X Columns,
         Keeps(rows, lost, lastId, rows', lost'),
         UNCHANGED <<lastId, pairs, revoked, now>>
  PROVE IInv'
<1>1. pairs \in Seq(Pair) /\ revoked \subseteq DOMAIN pairs
  BY DEF IInv, Types
<1>2. /\ pairs' \in Seq(Pair) /\ Len(pairs) <= Len(pairs')
      /\ \A p \in DOMAIN pairs : pairs'[p] = pairs[p]
      /\ \A p \in DOMAIN pairs' : p \in DOMAIN pairs
      /\ revoked' \subseteq DOMAIN pairs'
  BY <1>1
<1> QED
  BY <1>2, RequestEnds

LEMMA UpdateStep ==
  ASSUME IInv, NEW r \in Requests, Update(r)
  PROVE IInv'
<1> DEFINE a == req[r].admin
           old == req[r].row
           new == Asked(req[r].arg, old)
<1>1. a \in Admins /\ old \in Row /\ req[r].arg \in Body
  BY DEF Update, IInv, Sound, Held
<1>2. /\ new \in Row
      /\ (new.ver = old.ver /\ new.pw = old.pw) \/ new.ver = old.ver + 1
  BY <1>1, AskedType
<1>3. Save(a, old, new) /\ Close(r, Changes) /\ UNCHANGED <<lastId, pairs, revoked, now>>
  BY DEF Update
<1>4. /\ rows' \in [Admins -> Row \cup {NULL}]
      /\ \A b \in Admins : rows'[b] = NULL <=> rows[b] = NULL
      /\ lost' \subseteq Admins \X Columns
      /\ Keeps(rows, lost, lastId, rows', lost')
  BY <1>1, <1>2, <1>3, SaveKeeps DEF IInv
<1> QED
  BY <1>3, <1>4, AccountChanges

LEMMA DeleteStep ==
  ASSUME IInv, NEW r \in Requests, Delete(r)
  PROVE IInv'
<1>1. /\ rows' = [rows EXCEPT ![req[r].admin] = NULL] /\ Close(r, Changes)
      /\ UNCHANGED <<lastId, pairs, revoked, now, lost>>
      /\ rows \in [Admins -> Row \cup {NULL}] /\ lost \subseteq Admins \X Columns
  BY DEF Delete, IInv, Types
<1>2. \A b \in Admins : rows'[b] = rows[b] \/ rows'[b] = NULL
  BY <1>1
<1>3. Keeps(rows, lost, lastId, rows', lost')
  BY <1>1, <1>2 DEF Keeps, Current
<1>4. rows' \in [Admins -> Row \cup {NULL}]
  BY <1>1
<1>5. lost' \subseteq Admins \X Columns
  BY <1>1
<1>6. \A b \in Admins : rows[b] = NULL => rows'[b] = NULL
  BY <1>2
<1> QED
  BY <1>1, <1>3, <1>4, <1>5, <1>6, AccountChanges

\* A new account has an id that no pair and no request knows.
LEMMA AccountAdded ==
  ASSUME IInv, NEW a \in Admins, a = lastId + 1, NEW row \in Row,
         rows' = [rows EXCEPT ![a] = row], lastId' = a,
         req' \in [Requests -> Request],
         \A s \in Requests : req'[s] = req[s] \/ req'[s] = Idle,
         UNCHANGED <<pairs, revoked, now, lost>>
  PROVE IInv'
<1>1. /\ rows \in [Admins -> Row \cup {NULL}] /\ lastId \in Nat /\ pairs \in Seq(Pair)
      /\ \A b \in Admins : b > lastId => rows[b] = NULL
  BY DEF IInv, Types
<1>2. /\ rows' \in [Admins -> Row \cup {NULL}] /\ lastId' \in Nat /\ lastId <= lastId'
      /\ \A b \in Admins : b # a => rows'[b] = rows[b]
  BY <1>1
<1>3. \A b \in Admins : b > lastId' => rows'[b] = NULL
  BY <1>1, <1>2, AdminsAreIds
<1>4. Keeps(rows, lost, lastId, rows', lost')
  <2>1. \A b \in Admins : b <= lastId => rows'[b] = rows[b]
    BY <1>1, <1>2
  <2> QED
    BY <2>1 DEF Keeps, Current
<1>5. Len(pairs) <= Len(pairs')
  BY <1>1
<1>6. ASSUME NEW s \in Requests
      PROVE Sound(req'[s], rows', lost', pairs', lastId')
  <2>1. Sound(req[s], rows, lost, pairs, lastId)
    BY DEF IInv
  <2>2. Sound(req[s], rows', lost', pairs, lastId')
    BY <1>1, <1>2, <1>4, <2>1, SoundKept
  <2> QED
    BY <2>2, IdleSound
<1>7. ASSUME NEW p \in DOMAIN pairs'
      PROVE Good(pairs'[p], rows', lost', lastId')
  <2>1. pairs[p] \in Pair /\ Good(pairs[p], rows, lost, lastId)
    BY <1>1 DEF IInv
  <2> QED
    BY <1>1, <1>2, <1>4, <2>1, GoodKept
<1> QED
  BY <1>1, <1>2, <1>3, <1>6, <1>7 DEF IInv, Types

LEMMA NewRowType ==
  ASSUME NEW role \in Roles, NEW pw \in Passwords \cup {NULL}
  PROVE NewRow(role, pw) \in Row
BY DEF NewRow, Row, Statuses

LEMMA CreateStep ==
  ASSUME IInv, NEW r \in Requests, NEW p \in PairIds, NEW role \in Roles,
         NEW pw \in Passwords \cup {NULL}, Create(r, p, role, pw)
  PROVE IInv'
<1>1. req' = req /\ req \in [Requests -> Request]
  BY DEF Create, IInv, Types
<1> QED
  BY <1>1, NewRowType, AccountAdded DEF Create

LEMMA RestartStep ==
  ASSUME IInv, Restart
  PROVE IInv'
<1>1. /\ \A s \in Requests : req'[s] = Idle
      /\ req' \in [Requests -> Request]
      /\ UNCHANGED <<pairs, revoked, now, lost>>
  BY DEF Restart, Idle, Request
<1>2. CASE UNCHANGED <<rows, lastId>>
  <2>1. \A s \in Requests : Sound(req'[s], rows, lost, pairs, lastId)
    BY <1>1, IdleSound
  <2> QED
    BY <1>1, <1>2, <2>1 DEF IInv, Types
<1>3. CASE /\ lastId + 1 \in Admins
           /\ rows' = [rows EXCEPT ![lastId + 1] = NewRow("admin", BootstrapPassword)]
           /\ lastId' = lastId + 1
  <2>1. NewRow("admin", BootstrapPassword) \in Row
    BY NewRowType, BootstrapAssumption DEF Roles
  <2> QED
    BY <1>1, <1>3, <2>1, AccountAdded
<1> QED
  BY <1>2, <1>3 DEF Restart

LEMMA AbortStep ==
  ASSUME IInv, NEW r \in Requests, Abort(r)
  PROVE IInv'
BY IdleSound, RequestGoesOn DEF Abort, Step

LEMMA TickStep ==
  ASSUME IInv, Tick
  PROVE IInv'
BY DEF Tick, IInv, Types

-----------------------------------------------------------------------------
(* The theorems. *)

LEMMA StepIInv ==
  ASSUME IInv, [Next]_vars
  PROVE IInv'
<1>1. ASSUME NEW r \in Requests, Login(r)
      PROVE IInv'
  BY <1>1, BeginLoginStep, LoginSucceedsStep, LoginFailsStep DEF Login
<1>2. ASSUME NEW r \in Requests, Tokens(r)
      PROVE IInv'
  BY <1>2, ValidateStep, ReadAdminStep, LookStep, RotateStep, BeginLogoutStep, LogoutStep
     DEF Tokens
<1>3. ASSUME NEW r \in Requests, Accounts(r)
      PROVE IInv'
  <2>1. ASSUME NEW p \in PairIds, NEW a \in Admins, NEW body \in Bodies,
               BeginManage(r, p, "update", a, body)
        PROVE IInv'
    <3>1. body \in Body
      BY BodiesAssumption DEF Body
    <3> QED
      BY <2>1, <3>1, BeginManageStep
  <2>2. ASSUME NEW p \in PairIds, NEW a \in Admins, BeginDelete(r, p, a)
        PROVE IInv'
    <3> DEFINE body == [role |-> NULL, status |-> "disabled", pw |-> NULL]
    <3>1. body \in Body
      BY DEF Body, Statuses
    <3> QED
      BY <2>2, <3>1, BeginManageStep DEF BeginDelete
  <2> QED
    BY <1>3, <2>1, <2>2, BeginPasswordStep, ReadTargetStep, GuardLastAdminStep, UpdateStep,
       DeleteStep, CreateStep DEF Accounts
<1>4. CASE UNCHANGED vars
  <2>1. UNCHANGED <<rows, lastId, pairs, revoked, req, now, lost>>
    BY <1>4 DEF vars
  <2> QED
    BY <2>1 DEF IInv, Types
<1> QED
  BY <1>1, <1>2, <1>3, <1>4, AbortStep, RestartStep, TickStep DEF Next

\* The inductive invariant holds in every reachable state.
THEOREM Inductive == Spec => []IInv
BY InitIInv, StepIInv, PTL DEF Spec

\* The types of the accounts, the pairs and the rows that the requests hold, for
\* every instance.
THEOREM TypeCorrect == Spec => []TypeOK
<1>1. IInv => TypeOK
  <2> SUFFICES ASSUME IInv, NEW r \in Requests, req[r].pc \in {"guard", "commit"},
                      req[r].kind # "logout"
               PROVE req[r].row \in Row
    BY DEF TypeOK, IInv, Types
  <2>1. Sound(req[r], rows, lost, pairs, lastId)
    BY DEF IInv
  <2> QED
    BY <2>1 DEF Sound, Held
<1> QED
  BY <1>1, Inductive, PTL

\* api/auth.py and api/admins.py: a change of the password ends every token of the
\* account, whatever logins, refreshes and changes are under way, as long as no
\* change of the password was lost to another.
THEOREM TokensEnd == Spec => []PasswordEndsTokens
<1>1. IInv => PasswordEndsTokens
  <2> SUFFICES ASSUME IInv, NEW p \in DOMAIN pairs,
                      rows[pairs[p].admin] # NULL,
                      rows[pairs[p].admin].ver = pairs[p].ver,
                      <<pairs[p].admin, "ver">> \notin lost
               PROVE rows[pairs[p].admin].pw = pairs[p].under
    BY DEF PasswordEndsTokens
  <2>1. pairs[p] \in Pair /\ Good(pairs[p], rows, lost, lastId)
    BY DEF IInv, Types
  <2>2. pairs[p].ver \in Nat
    BY <2>1 DEF Pair
  <2> QED
    BY <2>1, <2>2 DEF Good, Current
<1> QED
  BY <1>1, Inductive, PTL

-----------------------------------------------------------------------------
(* Locks.  A login begins when no lock is in force, and what has read no     *)
(* later end of a count (it is fresh) finds none when it commits: who writes *)
(* over a lock in force was under way when it came.                          *)

LoginsUnlocked ==
  \A r \in Requests : req[r].pc = "commit" /\ req[r].kind = "login" =>
    /\ req[r].row.until # NULL => req[r].row.until <= req[r].at
    /\ req[r].fresh /\ rows[req[r].admin] # NULL => ~Locked(rows[req[r].admin])

\* A step writes no deadline that a fresh login could meet.
NoNewLock ==
  \A s \in Requests :
    req'[s].pc = "commit" /\ req'[s].kind = "login" /\ req'[s].fresh =>
      \/ rows'[req'[s].admin] = NULL \/ rows'[req'[s].admin].until = NULL
      \/ /\ rows[req'[s].admin] # NULL
         /\ rows'[req'[s].admin].until = rows[req'[s].admin].until

\* A step gives no request the row of a login.
NoNewLogin ==
  \A s \in Requests :
    req'[s].pc = "commit" /\ req'[s].kind = "login" =>
      /\ req[s].pc = "commit" /\ req[s].kind = "login"
      /\ req[s].row = req'[s].row /\ req[s].admin = req'[s].admin /\ req[s].at = req'[s].at
      /\ req'[s].fresh => req[s].fresh

LEMMA ClosedLogins ==
  ASSUME IInv, NEW r \in Requests, NEW o, Close(r, o)
  PROVE  NoNewLogin
<1> SUFFICES ASSUME NEW s \in Requests
             PROVE  req'[s].pc = "commit" /\ req'[s].kind = "login" =>
                      /\ req[s].pc = "commit" /\ req[s].kind = "login"
                      /\ req[s].row = req'[s].row /\ req[s].admin = req'[s].admin
                      /\ req[s].at = req'[s].at
                      /\ req'[s].fresh => req[s].fresh
  BY DEF NoNewLogin
<1>1. req[s] \in Request
  BY DEF IInv, Types
<1>2. req'[s] \in {Idle, req[s], [req[s] EXCEPT !.fresh = FALSE]}
  BY DEF Close
<1>3. Idle.pc = "idle"
  BY DEF Idle
<1> QED
  BY <1>1, <1>2, <1>3 DEF Request

LEMMA ReplacedLogins ==
  ASSUME IInv, NEW r \in Requests, NEW q, req' = [req EXCEPT ![r] = q],
         q.pc # "commit" \/ q.kind # "login"
  PROVE  NoNewLogin
<1>1. \A s \in Requests : req'[s] = IF s = r THEN q ELSE req[s]
  BY DEF IInv, Types
<1> QED
  BY <1>1 DEF NoNewLogin

LEMMA OpenedLogins ==
  ASSUME IInv, NEW r \in Requests, NEW p \in PairIds,
         \/ Validate(r, p)
         \/ \E q \in PairIds : BeginLogout(r, p, q)
         \/ \E pw \in Passwords : BeginPassword(r, p, pw)
         \/ \E a \in Admins, kind \in {"update", "delete"} : \E body :
              BeginManage(r, p, kind, a, body)
  PROVE  NoNewLogin
<1>1. CASE Validate(r, p)
  <2> DEFINE q == [Idle EXCEPT !.pc = "admin", !.kind = "refresh", !.pair = p,
                               !.admin = pairs[p].admin]
  <2>1. q.pc = "admin" /\ req' = [req EXCEPT ![r] = q]
    BY <1>1 DEF Validate, Open, Idle
  <2> HIDE DEF q
  <2> QED
    BY <2>1, ReplacedLogins
<1>2. ASSUME NEW p2 \in PairIds, BeginLogout(r, p, p2)
      PROVE  NoNewLogin
  <2> DEFINE q == [Idle EXCEPT !.pc = "look", !.kind = "logout", !.pair = p2,
                               !.admin = pairs[p].admin]
  <2>1. q.pc = "look" /\ req' = [req EXCEPT ![r] = q]
    BY <1>2 DEF BeginLogout, Open, Idle
  <2> HIDE DEF q
  <2> QED
    BY <2>1, ReplacedLogins
<1>3. ASSUME NEW pw \in Passwords, BeginPassword(r, p, pw)
      PROVE  NoNewLogin
  <2> DEFINE a == pairs[p].admin
             q == [Idle EXCEPT !.pc = "commit", !.kind = "update", !.admin = a,
                               !.row = rows[a], !.arg = OwnPassword(pw)]
  <2>1. q.kind = "update" /\ req' = [req EXCEPT ![r] = q]
    BY <1>3 DEF BeginPassword, Open, Idle
  <2> HIDE DEF q
  <2> QED
    BY <2>1, ReplacedLogins
<1>4. ASSUME NEW a \in Admins, NEW body, NEW kind \in {"update", "delete"},
             BeginManage(r, p, kind, a, body)
      PROVE  NoNewLogin
  <2> DEFINE q == [Idle EXCEPT !.pc = "target", !.kind = kind, !.admin = a, !.arg = body,
                               !.pair = p, !.row = rows[pairs[p].admin]]
  <2>1. q.pc = "target" /\ req' = [req EXCEPT ![r] = q]
    BY <1>4 DEF BeginManage, Open, Idle
  <2> HIDE DEF q
  <2> QED
    BY <2>1, ReplacedLogins
<1> QED
  BY <1>1, <1>2, <1>3, <1>4

LEMMA SteppedLogins ==
  ASSUME IInv, NEW r \in Requests,
         ReadAdmin(r) \/ Look(r) \/ ReadTarget(r) \/ GuardLastAdmin(r) \/ Abort(r)
  PROVE  NoNewLogin
<1>1. req[r] \in Request /\ Sound(req[r], rows, lost, pairs, lastId)
  BY DEF IInv, Types
<1>2. PICK q : req' = [req EXCEPT ![r] = q] /\ (q.pc # "commit" \/ q.kind # "login")
  <2>1. CASE ReadAdmin(r)
    <3> DEFINE q == [req[r] EXCEPT !.pc = "look", !.row = rows[req[r].admin]]
    <3>1. q.pc = "look" /\ req' = [req EXCEPT ![r] = q]
      BY <1>1, <2>1 DEF ReadAdmin, Step, Request
    <3> QED
      BY <3>1
  <2>2. CASE Look(r)
    <3> DEFINE known == req[r].pair \in revoked
               q == [req[r] EXCEPT !.pc = "commit", !.known = known]
    <3>1. req' = [req EXCEPT ![r] = q] /\ req[r].kind \in {"refresh", "logout"}
      BY <2>2 DEF Look, Step
    <3> HIDE DEF known
    <3>2. q.kind = req[r].kind
      BY <1>1 DEF Request
    <3> QED
      BY <3>1, <3>2
  <2>3. CASE ReadTarget(r)
    <3> DEFINE row == IF req[r].admin = pairs[req[r].pair].admin THEN req[r].row
                      ELSE rows[req[r].admin]
               q == [req[r] EXCEPT !.pc = "guard", !.row = row]
    <3>1. req' = [req EXCEPT ![r] = q]
      BY <2>3 DEF ReadTarget, Step
    <3> HIDE DEF row
    <3>2. q.pc = "guard"
      BY <1>1 DEF Request
    <3> QED
      BY <3>1, <3>2
  <2>4. CASE GuardLastAdmin(r)
    <3> DEFINE q == [req[r] EXCEPT !.pc = "commit", !.pair = NULL]
    <3>1. /\ q.kind = req[r].kind /\ req' = [req EXCEPT ![r] = q]
          /\ req[r].kind \in {"update", "delete"}
      BY <1>1, <2>4 DEF GuardLastAdmin, Step, Request, Sound
    <3> QED
      BY <3>1
  <2>5. CASE Abort(r)
    <3>1. Idle.pc = "idle" /\ req' = [req EXCEPT ![r] = Idle]
      BY <2>5 DEF Abort, Step, Idle
    <3> QED
      BY <3>1
  <2> QED
    BY <2>1, <2>2, <2>3, <2>4, <2>5
<1> QED
  BY <1>2, ReplacedLogins

\* Every step but the first of a login leaves the logins as they are.
LEMMA UnlockedKept ==
  ASSUME IInv, LoginsUnlocked, NoNewLogin, NoNewLock, now' \in Nat, now <= now'
  PROVE  LoginsUnlocked'
<1> SUFFICES ASSUME NEW r \in Requests, req'[r].pc = "commit", req'[r].kind = "login"
             PROVE  /\ req'[r].row.until # NULL => req'[r].row.until <= req'[r].at
                    /\ req'[r].fresh /\ rows'[req'[r].admin] # NULL =>
                         ~(/\ rows'[req'[r].admin].until # NULL
                           /\ rows'[req'[r].admin].until > now')
  BY DEF LoginsUnlocked, Locked
<1>1. /\ req[r].pc = "commit" /\ req[r].kind = "login" /\ req[r].row = req'[r].row
      /\ req[r].admin = req'[r].admin /\ req[r].at = req'[r].at
      /\ req'[r].fresh => req[r].fresh
  BY DEF NoNewLogin
<1>2. req[r].row.until # NULL => req[r].row.until <= req[r].at
  BY <1>1 DEF LoginsUnlocked
<1>3. ASSUME req'[r].fresh, rows'[req[r].admin] # NULL, rows'[req[r].admin].until # NULL
      PROVE  ~(rows'[req[r].admin].until > now')
  <2> DEFINE a == req[r].admin
  <2>1. a \in Admins /\ rows \in [Admins -> Row \cup {NULL}] /\ now \in Nat
    BY <1>1 DEF IInv, Sound, Types
  <2>2. rows[a] # NULL /\ rows'[a].until = rows[a].until /\ rows'[a].until # NULL
    BY <1>1, <1>3 DEF NoNewLock
  <2>3. ~(rows[a].until # NULL /\ rows[a].until > now)
    BY <1>1, <1>3, <2>2 DEF LoginsUnlocked, Locked
  <2>4. rows[a].until \in Nat \cup {NULL}
    BY <2>1, <2>2 DEF Row
  <2> HIDE DEF a
  <2>5. ~(rows'[a].until > now')
    BY <2>1, <2>2, <2>3, <2>4
  <2> QED
    BY <2>5 DEF a
<1> QED
  BY <1>1, <1>2, <1>3

LEMMA SameRowsNoLock ==
  ASSUME IInv, NoNewLogin, rows' = rows
  PROVE  NoNewLock
BY DEF NoNewLogin, NoNewLock

\* An account is deleted, or one is added without a deadline.
LEMMA OtherRowNoLock ==
  ASSUME IInv, NoNewLogin, NEW a, NEW row, rows' = [rows EXCEPT ![a] = row],
         row = NULL \/ row.until = NULL
  PROVE  NoNewLock
<1> SUFFICES ASSUME NEW s \in Requests, req'[s].pc = "commit", req'[s].kind = "login",
                    rows'[req'[s].admin] # NULL, rows'[req'[s].admin].until # NULL
             PROVE  /\ rows[req'[s].admin] # NULL
                    /\ rows'[req'[s].admin].until = rows[req'[s].admin].until
  BY DEF NoNewLock
<1>1. req'[s].admin \in Admins
  BY DEF NoNewLogin, IInv, Sound
<1>2. rows'[req'[s].admin] = IF req'[s].admin = a THEN row ELSE rows[req'[s].admin]
  BY <1>1 DEF IInv, Types
<1> QED
  BY <1>2

\* What an UPDATE does to a deadline: the session's replaces it, or nothing does.
LEMMA SavedUntil ==
  ASSUME Types, NEW a \in Admins, NEW old \in Row, NEW new \in Row, Save(a, old, new),
         NEW b \in Admins
  PROVE  /\ rows'[b] = NULL <=> rows[b] = NULL
         /\ rows[b] # NULL =>
              \/ rows'[b].until = rows[b].until
              \/ b = a /\ new.until # old.until /\ rows'[b].until = new.until
<1>1. CASE rows' = rows
  BY <1>1
<1>2. CASE rows[a] # NULL /\ rows' = [rows EXCEPT ![a] = Written(@, old, new)]
  <2>1. CASE b # a
    BY <1>2, <2>1 DEF Types
  <2>2. CASE b = a
    <3>1. rows'[a] = Written(rows[a], old, new)
      BY <1>2 DEF Types
    <3>2. Written(rows[a], old, new) \in Row
      BY <1>2, WrittenType DEF Types
    <3>3. rows'[a].until = IF new.until # old.until THEN new.until ELSE rows[a].until
      BY <3>1 DEF Written, Columns
    <3> QED
      BY <1>2, <2>2, <3>1, <3>2, <3>3, NullAssumption
  <2> QED
    BY <2>1, <2>2
<1> QED
  BY <1>1, <1>2 DEF Save

\* The deadline that a login writes, if it writes one.
LEMMA LoginSaves ==
  ASSUME IInv, NEW r \in Requests, LoginSucceeds(r) \/ LoginFails(r)
  PROVE  /\ req[r].pc = "commit" /\ req[r].kind = "login" /\ req[r].admin \in Admins
         /\ req[r].row \in Row /\ req[r].at \in Nat
         /\ \E new \in Row :
              /\ Save(req[r].admin, req[r].row, new)
              /\ new.until # req[r].row.until =>
                   \/ LoginSucceeds(r) /\ new.until = NULL
                   \/ /\ LoginFails(r) /\ Locks(req[r].row, req[r].at)
                      /\ new.until = req[r].at + Duration
<1> DEFINE a == req[r].admin
           old == req[r].row
           at == req[r].at
<1>1. /\ req[r].pc = "commit" /\ req[r].kind = "login"
      /\ Sound(req[r], rows, lost, pairs, lastId)
  BY DEF LoginSucceeds, LoginFails, IInv
<1>2. a \in Admins /\ old \in Row /\ at \in Nat
  BY <1>1 DEF Sound, Held, Request
<1>3. CASE LoginSucceeds(r)
  <2> DEFINE new == [old EXCEPT !.fails = 0, !.first = NULL, !.until = NULL]
  <2>1. new \in Row /\ new.until = NULL
    BY <1>2 DEF Row
  <2>2. Save(a, old, new)
    BY <1>3 DEF LoginSucceeds
  <2> HIDE DEF new
  <2> QED
    BY <1>1, <1>2, <1>3, <2>1, <2>2
<1>4. CASE LoginFails(r)
  <2> DEFINE new == Failed(old, at)
  <2>1. new \in Row /\ Save(a, old, new)
    BY <1>2, <1>4, FailedType DEF LoginFails
  <2>2. new.until = IF Locks(old, at) THEN at + Duration ELSE old.until
    BY <1>2 DEF Failed, Counted, Row
  <2> HIDE DEF new
  <2> QED
    BY <1>1, <1>2, <1>4, <2>1, <2>2
<1> QED
  BY <1>3, <1>4

\* A login that succeeds writes no deadline; one that locks overtakes the others.
LEMMA LoginNoLock ==
  ASSUME IInv, NEW r \in Requests, LoginSucceeds(r) \/ LoginFails(r)
  PROVE  NoNewLogin /\ NoNewLock
<1> DEFINE a == req[r].admin
<1>1. NoNewLogin
  BY ClosedLogins DEF LoginSucceeds, LoginFails
<1>2. a \in Admins /\ req[r].row \in Row
  BY LoginSaves
<1>3. PICK new \in Row :
        /\ Save(a, req[r].row, new)
        /\ new.until # req[r].row.until =>
             \/ new.until = NULL
             \/ LoginFails(r) /\ Locks(req[r].row, req[r].at)
  BY LoginSaves
<1>4. ASSUME NEW s \in Requests, req'[s].pc = "commit", req'[s].kind = "login",
             req'[s].fresh, rows'[req'[s].admin] # NULL, rows'[req'[s].admin].until # NULL
      PROVE  /\ rows[req'[s].admin] # NULL
             /\ rows'[req'[s].admin].until = rows[req'[s].admin].until
  <2> DEFINE b == req'[s].admin
  <2>1. /\ req[s].pc = "commit" /\ req[s].kind = "login" /\ req[s].admin = b
        /\ b \in Admins
    BY <1>1, <1>4 DEF NoNewLogin, IInv, Sound
  <2>2. /\ rows[b] # NULL
        /\ \/ rows'[b].until = rows[b].until
           \/ b = a /\ LoginFails(r) /\ Locks(req[r].row, req[r].at)
    BY <1>2, <1>3, <1>4, <2>1, SavedUntil DEF IInv
  <2>3. ASSUME b = a, LoginFails(r), Locks(req[r].row, req[r].at)
        PROVE  FALSE
    <3>1. Close(r, Logins(a))
      BY <2>3 DEF LoginFails
    <3>2. s \in Logins(a)
      BY <2>1, <2>3 DEF Logins
    <3>3. req'[s] = IF s = r THEN Idle ELSE [req[s] EXCEPT !.fresh = FALSE]
      BY <3>1, <3>2 DEF Close
    <3>4. req[s] \in Request
      BY DEF IInv, Types
    <3> QED
      BY <1>4, <3>3, <3>4 DEF Idle, Request
  <2> QED
    BY <2>2, <2>3
<1> QED
  BY <1>1, <1>4 DEF NoNewLock

LEMMA UpdateSaves ==
  ASSUME IInv, NEW r \in Requests, Update(r)
  PROVE  /\ req[r].admin \in Admins /\ req[r].row \in Row
         /\ \E new \in Row : Save(req[r].admin, req[r].row, new) /\ new.until = req[r].row.until
<1> DEFINE a == req[r].admin
           old == req[r].row
           new == Asked(req[r].arg, old)
<1>1. Sound(req[r], rows, lost, pairs, lastId) /\ Save(a, old, new)
  BY DEF Update, IInv
<1>2. a \in Admins /\ old \in Row /\ req[r].arg \in Body
  BY <1>1 DEF Update, Sound, Held
<1>3. new \in Row
  BY <1>2, AskedType
<1>4. new.until = old.until
  BY <1>2 DEF Asked, Row
<1> HIDE DEF new
<1> QED
  BY <1>1, <1>2, <1>3, <1>4

LEMMA UpdateNoLock ==
  ASSUME IInv, NEW r \in Requests, Update(r)
  PROVE  NoNewLogin /\ NoNewLock
<1>1. NoNewLogin
  BY ClosedLogins DEF Update
<1>2. PICK new \in Row :
        Save(req[r].admin, req[r].row, new) /\ new.until = req[r].row.until
  BY UpdateSaves
<1>3. \A b \in Admins : rows'[b] = NULL \/ (rows[b] # NULL /\ rows'[b].until = rows[b].until)
  BY <1>2, UpdateSaves, SavedUntil DEF IInv
<1>4. \A s \in Requests : req'[s].pc = "commit" /\ req'[s].kind = "login" =>
        req'[s].admin \in Admins
  BY <1>1 DEF NoNewLogin, IInv, Sound
<1> QED
  BY <1>1, <1>3, <1>4 DEF NoNewLock

LEMMA BeginLoginUnlocked ==
  ASSUME IInv, LoginsUnlocked, NEW r \in Requests, NEW a \in Admins, NEW pw, BeginLogin(r, a, pw)
  PROVE  LoginsUnlocked'
<1> DEFINE q == [Idle EXCEPT !.pc = "commit", !.kind = "login", !.admin = a,
                             !.row = rows[a], !.arg = pw, !.at = now]
<1>1. /\ q.row = rows[a] /\ q.admin = a /\ q.at = now /\ req' = [req EXCEPT ![r] = q]
      /\ ~Locked(rows[a]) /\ now' = now /\ rows' = rows
  BY DEF BeginLogin, Open, Idle
<1>2. \A s \in Requests : req'[s] = IF s = r THEN q ELSE req[s]
  BY <1>1 DEF IInv, Types
<1>3. rows[a] \in Row /\ now \in Nat
  BY DEF BeginLogin, Active, IInv, Types
<1>4. rows[a].until # NULL => rows[a].until <= now
  BY <1>1, <1>3 DEF Locked, Row
<1> HIDE DEF q
<1> QED
  BY <1>1, <1>2, <1>4 DEF LoginsUnlocked, Locked

LEMMA StepUnlocked ==
  ASSUME IInv, LoginsUnlocked, [Next]_vars
  PROVE  LoginsUnlocked'
<1>1. now \in Nat /\ now' \in Nat /\ now <= now'
  <2>1. now \in Nat
    BY DEF IInv, Types
  <2>2. IInv'
    BY StepIInv
  <2>3. now' = now \/ now' = now + 1
    BY DEF Next, vars, Tick, Restart, Abort, Step, Open, Login, Tokens, Accounts, BeginLogin,
           LoginSucceeds, LoginFails, Validate, BeginLogout, ReadAdmin, Look, Rotate, Logout,
           BeginPassword, BeginManage, BeginDelete, ReadTarget, GuardLastAdmin, Update, Delete,
           Create
  <2> QED
    BY <2>1, <2>3
<1>2. CASE NoNewLogin /\ NoNewLock
  BY <1>1, <1>2, UnlockedKept
<1>3. ASSUME NEW r \in Requests, Login(r)
      PROVE  LoginsUnlocked'
  <2>1. ASSUME NEW a \in Admins, NEW pw \in Passwords, BeginLogin(r, a, pw)
        PROVE  LoginsUnlocked'
    BY <2>1, BeginLoginUnlocked
  <2>2. CASE LoginSucceeds(r) \/ LoginFails(r)
    BY <1>2, <2>2, LoginNoLock
  <2> QED
    BY <1>3, <2>1, <2>2 DEF Login
<1>4. ASSUME NEW r \in Requests, Tokens(r)
      PROVE  NoNewLogin /\ NoNewLock
  <2>1. NoNewLogin
    <3>1. CASE Rotate(r) \/ Logout(r)
      BY <3>1, ClosedLogins DEF Rotate, Logout
    <3> QED
      BY <1>4, <3>1, OpenedLogins, SteppedLogins DEF Tokens
  <2>2. rows' = rows
    BY <1>4 DEF Tokens, Validate, BeginLogout, ReadAdmin, Look, Rotate, Logout, Open, Step
  <2> QED
    BY <2>1, <2>2, SameRowsNoLock
<1>5. ASSUME NEW r \in Requests, Accounts(r)
      PROVE  NoNewLogin /\ NoNewLock
  <2>1. CASE Update(r)
    BY <2>1, UpdateNoLock
  <2>2. CASE Delete(r)
    BY <2>2, ClosedLogins, OtherRowNoLock DEF Delete
  <2>3. ASSUME NEW p \in PairIds, NEW role \in Roles, NEW pw \in Passwords \cup {NULL},
               Create(r, p, role, pw)
        PROVE  NoNewLogin /\ NoNewLock
    <3>1. NoNewLogin
      BY <2>3 DEF Create, NoNewLogin
    <3>2. NewRow(role, pw).until = NULL
      BY DEF NewRow
    <3>3. rows' = [rows EXCEPT ![lastId + 1] = NewRow(role, pw)]
      BY <2>3 DEF Create
    <3> QED
      BY <3>1, <3>2, <3>3, OtherRowNoLock
  <2>4. ASSUME NEW p \in PairIds, NEW a \in Admins, BeginDelete(r, p, a)
        PROVE  NoNewLogin /\ NoNewLock
    <3>1. NoNewLogin
      BY <2>4, OpenedLogins DEF BeginDelete
    <3>2. rows' = rows
      BY <2>4 DEF BeginDelete, BeginManage, Open
    <3> QED
      BY <3>1, <3>2, SameRowsNoLock
  <2>5. CASE \E p \in PairIds, a \in Admins, body \in Bodies : BeginManage(r, p, "update", a, body)
    BY <2>5, OpenedLogins, SameRowsNoLock DEF BeginManage, Open
  <2>6. CASE \E p \in PairIds, pw \in Passwords : BeginPassword(r, p, pw)
    BY <2>6, OpenedLogins, SameRowsNoLock DEF BeginPassword, Open
  <2>7. CASE ReadTarget(r) \/ GuardLastAdmin(r)
    BY <2>7, SteppedLogins, SameRowsNoLock DEF ReadTarget, GuardLastAdmin, Step
  <2> QED
    BY <1>5, <2>1, <2>2, <2>3, <2>4, <2>5, <2>6, <2>7 DEF Accounts
<1>6. ASSUME NEW r \in Requests, Abort(r)
      PROVE  NoNewLogin /\ NoNewLock
  BY <1>6, SteppedLogins, SameRowsNoLock DEF Abort, Step
<1>7. CASE Restart
  BY <1>2, <1>7 DEF Restart, Idle, NoNewLogin, NoNewLock
<1>8. CASE Tick \/ UNCHANGED vars
  BY <1>2, <1>8, SameRowsNoLock DEF Tick, vars, NoNewLogin
<1> QED
  BY <1>2, <1>3, <1>4, <1>5, <1>6, <1>7, <1>8 DEF Next

LEMMA InitUnlocked == Init => LoginsUnlocked
BY DEF Init, LoginsUnlocked, Idle

\* What LockStands allows a login to do to the lock of `b`.
Overrides(b) ==
  \E r \in Logins(b) :
    /\ ~req[r].fresh
    /\ \/ LoginFails(r) /\ rows'[b].until = req[r].at + Duration
       \/ /\ LoginSucceeds(r)
          /\ req[r].row.until # NULL /\ req[r].row.until <= req[r].at

Stands(b) ==
  \/ rows'[b].until # NULL /\ rows'[b].until >= rows[b].until
  \/ Overrides(b)

LEMMA SameUntilStands ==
  ASSUME Types, NEW b \in Admins, rows[b] # NULL, Locked(rows[b]),
         rows'[b].until = rows[b].until
  PROVE  Stands(b)
<1>1. rows[b].until \in Nat /\ rows[b].until # NULL
  BY DEF Types, Locked, Row
<1> QED
  BY <1>1 DEF Stands

LEMMA LoginStands ==
  ASSUME IInv, LoginsUnlocked, NEW r \in Requests, LoginSucceeds(r) \/ LoginFails(r),
         NEW b \in Admins, rows[b] # NULL, Locked(rows[b])
  PROVE  Stands(b)
<1> DEFINE a == req[r].admin
           old == req[r].row
<1>1. req[r].pc = "commit" /\ req[r].kind = "login" /\ a \in Admins /\ old \in Row
  BY LoginSaves
<1>2. PICK new \in Row :
        /\ Save(a, old, new)
        /\ new.until # old.until =>
             \/ LoginSucceeds(r) /\ new.until = NULL
             \/ LoginFails(r) /\ new.until = req[r].at + Duration
  BY LoginSaves
<1>3. CASE rows'[b].until = rows[b].until
  BY <1>3, SameUntilStands DEF IInv
<1>4. CASE b = a /\ new.until # old.until /\ rows'[b].until = new.until
  <2>1. ~req[r].fresh /\ (old.until # NULL => old.until <= req[r].at)
    BY <1>1, <1>4 DEF LoginsUnlocked
  <2>2. r \in Logins(b)
    BY <1>1, <1>4 DEF Logins
  <2>3. \/ LoginSucceeds(r) /\ old.until # NULL
        \/ LoginFails(r) /\ rows'[b].until = req[r].at + Duration
    BY <1>2, <1>4
  <2> QED
    BY <2>1, <2>2, <2>3 DEF Stands, Overrides
<1> QED
  BY <1>1, <1>2, <1>3, <1>4, SavedUntil DEF IInv

LEMMA UpdateStands ==
  ASSUME IInv, NEW r \in Requests, Update(r), NEW b \in Admins, rows[b] # NULL, Locked(rows[b])
  PROVE  Stands(b)
<1>1. PICK new \in Row :
        Save(req[r].admin, req[r].row, new) /\ new.until = req[r].row.until
  BY UpdateSaves
<1>2. rows'[b].until = rows[b].until
  BY <1>1, UpdateSaves, SavedUntil DEF IInv
<1> QED
  BY <1>2, SameUntilStands DEF IInv

\* An account is deleted, or one is added under an id that none has.
LEMMA OthersStand ==
  ASSUME IInv, NEW a, NEW row, rows' = [rows EXCEPT ![a] = row],
         row = NULL \/ a = lastId + 1,
         NEW b \in Admins, rows[b] # NULL, rows'[b] # NULL, Locked(rows[b])
  PROVE  Stands(b)
<1>1. Types
  BY DEF IInv
<1>2. b # a
  <2>1. b <= lastId /\ b \in Nat /\ lastId \in Nat
    BY <1>1, PresentAtMost, AdminsAreIds DEF Types
  <2> QED
    BY <1>1, <2>1 DEF Types
<1> QED
  BY <1>1, <1>2, SameUntilStands DEF Types

LEMMA StepStands ==
  ASSUME IInv, LoginsUnlocked, [Next]_vars,
         NEW b \in Admins, rows[b] # NULL, rows'[b] # NULL, Locked(rows[b])
  PROVE  Stands(b)
<1>1. Types
  BY DEF IInv
<1>2. CASE rows' = rows
  BY <1>1, <1>2, SameUntilStands
<1>3. ASSUME NEW r \in Requests, Login(r)
      PROVE  Stands(b)
  BY <1>2, <1>3, LoginStands DEF Login, BeginLogin, Open
<1>4. ASSUME NEW r \in Requests, Tokens(r)
      PROVE  rows' = rows
  BY <1>4 DEF Tokens, Validate, BeginLogout, ReadAdmin, Look, Rotate, Logout, Open, Step
<1>5. ASSUME NEW r \in Requests, Accounts(r)
      PROVE  Stands(b)
  <2>1. CASE Update(r)
    BY <2>1, UpdateStands
  <2>2. CASE Delete(r)
    BY <2>2, OthersStand DEF Delete
  <2>3. ASSUME NEW p \in PairIds, NEW role \in Roles, NEW pw \in Passwords \cup {NULL},
               Create(r, p, role, pw)
        PROVE  Stands(b)
    BY <2>3, OthersStand DEF Create
  <2>4. CASE \/ ReadTarget(r) \/ GuardLastAdmin(r)
             \/ \E p \in PairIds, pw \in Passwords : BeginPassword(r, p, pw)
             \/ \E p \in PairIds, a \in Admins, body \in Bodies :
                  BeginManage(r, p, "update", a, body)
             \/ \E p \in PairIds, a \in Admins : BeginDelete(r, p, a)
    BY <1>2, <2>4 DEF ReadTarget, GuardLastAdmin, BeginPassword, BeginManage, BeginDelete,
                      Open, Step
  <2> QED
    BY <1>5, <2>1, <2>2, <2>3, <2>4 DEF Accounts
<1>6. CASE Restart
  BY <1>2, <1>6, OthersStand DEF Restart
<1>7. CASE Tick \/ UNCHANGED vars
  BY <1>2, <1>7 DEF Tick, vars
<1>8. ASSUME NEW r \in Requests, Abort(r)
      PROVE  rows' = rows
  BY <1>8 DEF Abort, Step
<1> QED
  BY <1>2, <1>3, <1>4, <1>5, <1>6, <1>7, <1>8 DEF Next

\* api/auth.py, _register_failure and login: no change of an account and no login begun
\* later touches a lock in force.  A failure that was under way when the lock came, and
\* fills the count it had read, writes its own end, Duration from when it began, which
\* may be sooner; a success that was under way clears the lock only if it had read an
\* earlier one, over by then.
THEOREM LocksStand == Spec => LockStands
<1> DEFINE P == \A a \in Admins :
              rows[a] # NULL /\ rows'[a] # NULL /\ Locked(rows[a]) => Stands(a)
<1>1. IInv /\ LoginsUnlocked /\ [Next]_vars => [P]_vars
  BY StepStands
<1>2. IInv /\ LoginsUnlocked /\ [Next]_vars => LoginsUnlocked'
  BY StepUnlocked
<1>3. Spec => [][P]_vars
  BY <1>1, <1>2, InitUnlocked, Inductive, PTL DEF Spec
<1> QED
  BY <1>3 DEF LockStands, Stands, Overrides

-----------------------------------------------------------------------------
(* The last administrator.  A change counts the others before it commits:    *)
(* as long as no other change is committed in between (the request is        *)
(* fresh), the row it holds has the standing that the account has, and the   *)
(* administrator that it counted is still one.                               *)

SameStanding(rs, a, row) ==
  rs[a] # NULL /\ rs[a].role = row.role /\ rs[a].status = row.status

Knows(q, rs, ps) ==
  /\ q.pc # "idle" /\ q.kind = "delete" => q.arg.status = "disabled"
  /\ q.fresh /\ q.kind \in {"update", "delete"} =>
       /\ q.pc = "target" => SameStanding(rs, ps[q.pair].admin, q.row)
       /\ q.pc \in {"guard", "commit"} => SameStanding(rs, q.admin, q.row)
       /\ q.pc = "commit" /\ ActiveAdmin(q.row) /\ ~ActiveAdmin(Asked(q.arg, q.row)) =>
            \E b \in Admins \ {q.admin} : rs[b] # NULL /\ ActiveAdmin(rs[b])

KnowsInv == \A r \in Requests : Knows(req[r], rows, pairs)

\* Accounts may come, and keep their standing.
Calm(rs, rs2) == \A a \in Admins : rs[a] # NULL => SameStanding(rs2, a, rs[a])

LEMMA KnowsKept ==
  ASSUME NEW q, NEW rs, NEW rs2, NEW ps, NEW ps2, Knows(q, rs, ps), Calm(rs, rs2),
         q.pc # "idle" => q.admin \in Admins,
         q.pc = "target" => q.pair \in DOMAIN ps /\ ps[q.pair].admin \in Admins,
         \A p \in DOMAIN ps : ps2[p] = ps[p]
  PROVE  Knows(q, rs2, ps2)
<1>1. ASSUME NEW a \in Admins, SameStanding(rs, a, q.row)
      PROVE  SameStanding(rs2, a, q.row)
  BY <1>1 DEF SameStanding, Calm
<1>2. ASSUME NEW b \in Admins, rs[b] # NULL, ActiveAdmin(rs[b])
      PROVE  rs2[b] # NULL /\ ActiveAdmin(rs2[b])
  BY <1>2 DEF SameStanding, Calm, ActiveAdmin
<1>3. q.pc = "target" => ps2[q.pair] = ps[q.pair]
  OBVIOUS
<1> QED
  BY <1>1, <1>2, <1>3 DEF Knows

LEMMA IdleKnows ==
  ASSUME NEW rs, NEW ps
  PROVE  Knows(Idle, rs, ps)
BY DEF Idle, Knows

\* What is no longer fresh claims less.
LEMMA StaleKnows ==
  ASSUME NEW q \in Request, NEW rs, NEW ps, Knows(q, rs, ps)
  PROVE  Knows([q EXCEPT !.fresh = FALSE], rs, ps)
<1> DEFINE p == [q EXCEPT !.fresh = FALSE]
<1>1. p.pc = q.pc /\ p.kind = q.kind /\ p.arg = q.arg /\ p.fresh = FALSE
  BY DEF Request
<1> HIDE DEF p
<1> QED
  BY <1>1 DEF Knows

\* A request goes on, and accounts and pairs are as they were.
LEMMA GoesOnKnows ==
  ASSUME IInv, KnowsInv, NEW r \in Requests, NEW q, Knows(q, rows, pairs),
         req' = [req EXCEPT ![r] = q], UNCHANGED <<rows, pairs>>
  PROVE  KnowsInv'
<1>1. \A s \in Requests : req'[s] = IF s = r THEN q ELSE req[s]
  BY DEF IInv, Types
<1> QED
  BY <1>1 DEF KnowsInv

\* Requests end or go on as they are, and no account loses its standing.
LEMMA CalmKnows ==
  ASSUME IInv, KnowsInv, Calm(rows, rows'), \A p \in DOMAIN pairs : pairs'[p] = pairs[p],
         \A s \in Requests : req'[s] \in {Idle, req[s], [req[s] EXCEPT !.fresh = FALSE]}
  PROVE  KnowsInv'
<1>1. ASSUME NEW s \in Requests
      PROVE  Knows(req[s], rows', pairs')
  <2>1. /\ Sound(req[s], rows, lost, pairs, lastId) /\ Knows(req[s], rows, pairs)
        /\ pairs \in Seq(Pair)
    BY DEF IInv, Types, KnowsInv
  <2>2. req[s].pc = "target" =>
          req[s].pair \in DOMAIN pairs /\ pairs[req[s].pair].admin \in Admins
    <3>1. req[s].pc = "target" => req[s].pair \in DOMAIN pairs
      BY <2>1 DEF Sound
    <3>2. \A p \in DOMAIN pairs : pairs[p] \in Pair
      BY <2>1
    <3>3. \A p \in Pair : p.admin \in Admins
      BY DEF Pair
    <3> QED
      BY <3>1, <3>2, <3>3
  <2>3. req[s].pc # "idle" => req[s].admin \in Admins
    BY <2>1 DEF Sound
  <2> QED
    BY <2>1, <2>2, <2>3, KnowsKept
<1>2. ASSUME NEW s \in Requests
      PROVE  Knows([req[s] EXCEPT !.fresh = FALSE], rows', pairs')
  <2>1. req[s] \in Request
    BY DEF IInv, Types
  <2> QED
    BY <1>1, <2>1, StaleKnows
<1> QED
  BY <1>1, <1>2, IdleKnows DEF KnowsInv

LEMMA ChangeKnows ==
  ASSUME IInv, KnowsInv, NEW r \in Requests, Close(r, Changes)
  PROVE  KnowsInv'
<1> SUFFICES ASSUME NEW s \in Requests
             PROVE  Knows(req'[s], rows', pairs')
  BY DEF KnowsInv
<1>1. req[s] \in Request /\ Knows(req[s], rows, pairs)
  BY DEF IInv, Types, KnowsInv
<1>2. CASE s = r
  BY <1>2, IdleKnows DEF Close
<1>3. CASE s # r /\ req[s].kind \notin {"update", "delete"}
  BY <1>3 DEF Close, Changes, Knows
<1>4. CASE s # r /\ req[s].kind \in {"update", "delete"}
  <2> DEFINE q == [req[s] EXCEPT !.fresh = FALSE]
  <2>1. req'[s] = q
    BY <1>4 DEF Close, Changes
  <2>2. /\ q.pc = req[s].pc /\ q.kind = req[s].kind /\ q.arg = req[s].arg
        /\ q.fresh = FALSE
    BY <1>1 DEF Request
  <2> HIDE DEF q
  <2> QED
    BY <1>1, <2>1, <2>2 DEF Knows
<1> QED
  BY <1>2, <1>3, <1>4

\* What a session writes has the standing that it holds, and not the one it read,
\* where it changed it.
LEMMA SaveStanding ==
  ASSUME Types, NEW a \in Admins, NEW old \in Row, NEW new \in Row, Save(a, old, new)
  PROVE  /\ \A b \in Admins \ {a} : rows'[b] = rows[b]
         /\ new.role = old.role /\ new.status = old.status => Calm(rows, rows')
         /\ SameStanding(rows, a, old) => SameStanding(rows', a, new)
<1>1. CASE new = old /\ UNCHANGED <<rows, lost>>
  BY <1>1 DEF Calm, SameStanding
<1>2. CASE rows[a] # NULL /\ rows' = [rows EXCEPT ![a] = Written(@, old, new)]
  <2>1. rows'[a] = Written(rows[a], old, new) /\ \A b \in Admins \ {a} : rows'[b] = rows[b]
    BY <1>2 DEF Types
  <2>2. rows[a] \in Row
    BY <1>2 DEF Types
  <2>3. rows'[a] \in Row
    BY <2>1, <2>2, WrittenType
  <2>4. /\ rows'[a].role = IF new.role # old.role THEN new.role ELSE rows[a].role
        /\ rows'[a].status = IF new.status # old.status THEN new.status ELSE rows[a].status
    BY <2>1 DEF Written, Columns
  <2>5. rows'[a] # NULL
    BY <2>3, NullAssumption
  <2> QED
    BY <1>2, <2>1, <2>4, <2>5 DEF Calm, SameStanding
<1> QED
  BY <1>1, <1>2 DEF Save

LEMMA CalmSame == Calm(rows, rows)
BY DEF Calm, SameStanding

\* An account is added under an id that none has.
LEMMA AddedCalm ==
  ASSUME Types, NEW row, rows' = [rows EXCEPT ![lastId + 1] = row]
  PROVE  Calm(rows, rows')
<1>1. \A b \in Admins : rows[b] # NULL => b # lastId + 1
  <2>1. \A b \in Admins : rows[b] # NULL => b <= lastId /\ b \in Nat /\ lastId \in Nat
    BY PresentAtMost, AdminsAreIds DEF Types
  <2> QED
    BY <2>1
<1> QED
  BY <1>1 DEF Types, Calm, SameStanding

\* The steps that only read.
LEMMA BegunKnows ==
  ASSUME IInv, KnowsInv, NEW r \in Requests,
         \/ \E a \in Admins, pw \in Passwords : BeginLogin(r, a, pw)
         \/ \E p \in PairIds : Validate(r, p)
         \/ \E p \in PairIds, pw \in Passwords : BeginPassword(r, p, pw)
         \/ \E p \in PairIds, p2 \in PairIds : BeginLogout(r, p, p2)
  PROVE  KnowsInv'
<1>1. ASSUME NEW a \in Admins, NEW pw \in Passwords, BeginLogin(r, a, pw)
      PROVE  KnowsInv'
  <2> DEFINE q == [Idle EXCEPT !.pc = "commit", !.kind = "login", !.admin = a,
                               !.row = rows[a], !.arg = pw, !.at = now]
  <2>1. q.kind = "login" /\ req' = [req EXCEPT ![r] = q] /\ UNCHANGED <<rows, pairs>>
    BY <1>1 DEF BeginLogin, Open, Idle
  <2> HIDE DEF q
  <2>2. Knows(q, rows, pairs)
    BY <2>1 DEF Knows
  <2> QED
    BY <2>1, <2>2, GoesOnKnows
<1>2. ASSUME NEW p \in PairIds, Validate(r, p)
      PROVE  KnowsInv'
  <2> DEFINE q == [Idle EXCEPT !.pc = "admin", !.kind = "refresh", !.pair = p,
                               !.admin = pairs[p].admin]
  <2>1. q.kind = "refresh" /\ req' = [req EXCEPT ![r] = q] /\ UNCHANGED <<rows, pairs>>
    BY <1>2 DEF Validate, Open, Idle
  <2> HIDE DEF q
  <2>2. Knows(q, rows, pairs)
    BY <2>1 DEF Knows
  <2> QED
    BY <2>1, <2>2, GoesOnKnows
<1>3. ASSUME NEW p \in PairIds, NEW pw \in Passwords, BeginPassword(r, p, pw)
      PROVE  KnowsInv'
  <2> DEFINE b == pairs[p].admin
             q == [Idle EXCEPT !.pc = "commit", !.kind = "update", !.admin = b,
                               !.row = rows[b], !.arg = OwnPassword(pw)]
  <2>1. /\ q.kind = "update" /\ q.pc = "commit" /\ q.admin = b /\ q.row = rows[b]
        /\ q.arg = OwnPassword(pw)
        /\ req' = [req EXCEPT ![r] = q] /\ UNCHANGED <<rows, pairs>>
    BY <1>3 DEF BeginPassword, Open, Idle
  <2>2. rows[b] \in Row /\ rows[b] # NULL
    BY <1>3, AcceptedPair, PresentAtMost DEF BeginPassword, Accepted, Active, IInv
  <2>3. ActiveAdmin(rows[b]) => ActiveAdmin(Asked(OwnPassword(pw), rows[b]))
    BY <2>2 DEF ActiveAdmin, Asked, OwnPassword, Row
  <2> HIDE DEF q
  <2>4. Knows(q, rows, pairs)
    BY <2>1, <2>2, <2>3 DEF Knows, SameStanding
  <2> QED
    BY <2>1, <2>4, GoesOnKnows
<1>4. ASSUME NEW p \in PairIds, NEW p2 \in PairIds, BeginLogout(r, p, p2)
      PROVE  KnowsInv'
  <2> DEFINE q == [Idle EXCEPT !.pc = "look", !.kind = "logout", !.pair = p2,
                               !.admin = pairs[p].admin]
  <2>1. q.kind = "logout" /\ req' = [req EXCEPT ![r] = q] /\ UNCHANGED <<rows, pairs>>
    BY <1>4 DEF BeginLogout, Open, Idle
  <2> HIDE DEF q
  <2>2. Knows(q, rows, pairs)
    BY <2>1 DEF Knows
  <2> QED
    BY <2>1, <2>2, GoesOnKnows
<1> QED
  BY <1>1, <1>2, <1>3, <1>4

LEMMA BeginManageKnows ==
  ASSUME IInv, KnowsInv, NEW r \in Requests, NEW p \in PairIds,
         NEW kind \in {"update", "delete"}, NEW a \in Admins, NEW body \in Body,
         kind = "delete" => body.status = "disabled", BeginManage(r, p, kind, a, body)
  PROVE  KnowsInv'
<1> DEFINE row == rows[pairs[p].admin]
           q == [Idle EXCEPT !.pc = "target", !.kind = kind, !.admin = a, !.arg = body,
                             !.pair = p, !.row = row]
<1>1. /\ q.pc = "target" /\ q.kind = kind /\ q.arg = body /\ q.pair = p /\ q.row = row
      /\ req' = [req EXCEPT ![r] = q] /\ UNCHANGED <<rows, pairs>>
  BY DEF BeginManage, Open, Idle
<1>2. row # NULL
  BY DEF BeginManage, Accepted, Active
<1> HIDE DEF q
<1>3. Knows(q, rows, pairs)
  BY <1>1, <1>2 DEF Knows, SameStanding
<1> QED
  BY <1>1, <1>3, GoesOnKnows

LEMMA ReadKnows ==
  ASSUME IInv, KnowsInv, NEW r \in Requests, ReadAdmin(r) \/ Look(r)
  PROVE  KnowsInv'
<1>1. req[r] \in Request
  BY DEF IInv, Types
<1>2. PICK q : /\ q.kind \in {"refresh", "logout"} /\ req' = [req EXCEPT ![r] = q]
               /\ UNCHANGED <<rows, pairs>>
  <2>1. CASE ReadAdmin(r)
    <3> DEFINE q == [req[r] EXCEPT !.pc = "look", !.row = rows[req[r].admin]]
    <3>1. /\ q.kind = "refresh" /\ req' = [req EXCEPT ![r] = q] /\ UNCHANGED <<rows, pairs>>
      BY <1>1, <2>1 DEF ReadAdmin, Step, Request
    <3> QED
      BY <3>1
  <2>2. CASE Look(r)
    <3> DEFINE known == req[r].pair \in revoked
               q == [req[r] EXCEPT !.pc = "commit", !.known = known]
    <3>1. /\ req' = [req EXCEPT ![r] = q] /\ req[r].kind \in {"refresh", "logout"}
          /\ UNCHANGED <<rows, pairs>>
      BY <2>2 DEF Look, Step
    <3> HIDE DEF known
    <3>2. q.kind = req[r].kind
      BY <1>1 DEF Request
    <3> QED
      BY <3>1, <3>2
  <2> QED
    BY <2>1, <2>2
<1>3. Knows(q, rows, pairs)
  BY <1>2 DEF Knows
<1> QED
  BY <1>2, <1>3, GoesOnKnows

LEMMA ReadTargetKnows ==
  ASSUME IInv, KnowsInv, NEW r \in Requests, ReadTarget(r)
  PROVE  KnowsInv'
<1> DEFINE q == req[r]
           row == IF q.admin = pairs[q.pair].admin THEN q.row ELSE rows[q.admin]
           q2 == [q EXCEPT !.pc = "guard", !.row = row]
<1>1. /\ q \in Request /\ q.pc = "target" /\ q.kind \in {"update", "delete"}
      /\ Knows(q, rows, pairs) /\ row # NULL
      /\ req' = [req EXCEPT ![r] = q2] /\ UNCHANGED <<rows, pairs>>
  BY DEF ReadTarget, Step, IInv, Types, KnowsInv
<1>2. q.fresh => SameStanding(rows, q.admin, row)
  BY <1>1 DEF Knows, SameStanding
<1> HIDE DEF row
<1>3. /\ q2.pc = "guard" /\ q2.kind = q.kind /\ q2.admin = q.admin
      /\ q2.arg = q.arg /\ q2.row = row /\ q2.fresh = q.fresh
  BY <1>1 DEF Request
<1> HIDE DEF q2
<1>4. Knows(q2, rows, pairs)
  BY <1>1, <1>2, <1>3 DEF Knows
<1> QED
  BY <1>1, <1>4, GoesOnKnows

LEMMA GuardKnows ==
  ASSUME IInv, KnowsInv, NEW r \in Requests, GuardLastAdmin(r)
  PROVE  KnowsInv'
<1> DEFINE q == req[r]
           q2 == [q EXCEPT !.pc = "commit", !.pair = NULL]
<1>1. /\ q \in Request /\ q.pc = "guard"
      /\ Knows(q, rows, pairs)
      /\ req' = [req EXCEPT ![r] = q2] /\ UNCHANGED <<rows, pairs>>
  BY DEF GuardLastAdmin, Step, IInv, Types, KnowsInv
<1>2. ActiveAdmin(q.row) /\ ~ActiveAdmin(Asked(q.arg, q.row)) =>
        \E b \in Admins \ {q.admin} : rows[b] # NULL /\ ActiveAdmin(rows[b])
  BY DEF GuardLastAdmin, ActiveAdmins, Active, ActiveAdmin
<1>3. /\ q2.pc = "commit" /\ q2.kind = q.kind /\ q2.admin = q.admin
      /\ q2.arg = q.arg /\ q2.row = q.row /\ q2.fresh = q.fresh
  BY <1>1 DEF Request
<1> HIDE DEF q2
<1>4. Knows(q2, rows, pairs)
  BY <1>1, <1>2, <1>3 DEF Knows
<1> QED
  BY <1>1, <1>4, GoesOnKnows

\* The other steps that leave the standing of the accounts alone.
CalmStep == Calm(rows, rows') /\ \A p \in DOMAIN pairs : pairs'[p] = pairs[p]

LEMMA LoginCalm ==
  ASSUME IInv, NEW r \in Requests, LoginSucceeds(r) \/ LoginFails(r)
  PROVE  CalmStep
<1> DEFINE a == req[r].admin
           old == req[r].row
<1>1. /\ Types /\ Sound(req[r], rows, lost, pairs, lastId)
      /\ req[r].pc = "commit" /\ req[r].kind = "login"
  BY DEF LoginSucceeds, LoginFails, IInv
<1>2. a \in Admins /\ old \in Row /\ req[r].at \in Nat
  BY <1>1 DEF Sound, Held, Request
<1>3. PICK new \in Row : Save(a, old, new) /\ new.role = old.role /\ new.status = old.status
  <2>1. CASE LoginSucceeds(r)
    <3> DEFINE new == [old EXCEPT !.fails = 0, !.first = NULL, !.until = NULL]
    <3>1. new \in Row /\ new.role = old.role /\ new.status = old.status
      BY <1>2 DEF Row
    <3>2. Save(a, old, new)
      BY <2>1 DEF LoginSucceeds
    <3> QED
      BY <3>1, <3>2
  <2>2. CASE LoginFails(r)
    BY <1>2, <2>2, FailedType DEF LoginFails
  <2> QED
    BY <2>1, <2>2
<1> HIDE DEF a, old
<1>4. Calm(rows, rows')
  BY <1>1, <1>2, <1>3, SaveStanding
<1>5. pairs' = pairs \/ \E pair : pairs' = Append(pairs, pair)
  BY DEF LoginSucceeds, LoginFails, Issue
<1>6. pairs \in Seq(Pair)
  BY <1>1 DEF Types
<1>7. \A p \in DOMAIN pairs : pairs'[p] = pairs[p]
  BY <1>5, <1>6
<1> QED
  BY <1>4, <1>7 DEF CalmStep

LEMMA StepCalm ==
  ASSUME IInv, [Next]_vars, \A r \in Requests : ~(Update(r) \/ Delete(r))
  PROVE  CalmStep
<1>1. CASE UNCHANGED <<rows, pairs>>
  BY <1>1, CalmSame DEF CalmStep
<1>2. ASSUME NEW r \in Requests, Login(r)
      PROVE  CalmStep
  BY <1>1, <1>2, LoginCalm DEF Login, BeginLogin, Open
<1>3. ASSUME NEW r \in Requests, Tokens(r)
      PROVE  CalmStep
  <2>1. CASE Rotate(r)
    <3>1. rows' = rows /\ \A p \in DOMAIN pairs : pairs'[p] = pairs[p]
      BY <2>1 DEF Rotate, Issue, IInv, Types
    <3> QED
      BY <3>1, CalmSame DEF CalmStep
  <2>2. CASE ~Rotate(r)
    BY <1>1, <1>3, <2>2
       DEF Tokens, Validate, BeginLogout, ReadAdmin, Look, Logout, Open, Step
  <2> QED
    BY <2>1, <2>2
<1>4. ASSUME NEW r \in Requests, Accounts(r)
      PROVE  CalmStep
  <2>1. CASE \E p \in PairIds, role \in Roles, pw \in Passwords \cup {NULL} :
               Create(r, p, role, pw)
    BY <2>1, AddedCalm DEF Create, CalmStep, IInv
  <2>2. CASE \/ ReadTarget(r) \/ GuardLastAdmin(r)
             \/ \E p \in PairIds, pw \in Passwords : BeginPassword(r, p, pw)
             \/ \E p \in PairIds, a \in Admins, body \in Bodies :
                  BeginManage(r, p, "update", a, body)
             \/ \E p \in PairIds, a \in Admins : BeginDelete(r, p, a)
    BY <1>1, <2>2 DEF ReadTarget, GuardLastAdmin, BeginPassword, BeginManage, BeginDelete,
                      Open, Step
  <2> QED
    BY <1>4, <2>1, <2>2 DEF Accounts
<1>5. CASE Restart
  <2>1. pairs' = pairs
    BY <1>5 DEF Restart
  <2> QED
    BY <1>1, <1>5, <2>1, AddedCalm DEF Restart, CalmStep, IInv
<1>6. CASE Tick \/ UNCHANGED vars
  BY <1>1, <1>6 DEF Tick, vars
<1>7. ASSUME NEW r \in Requests, Abort(r)
      PROVE  CalmStep
  BY <1>1, <1>7 DEF Abort, Step
<1> QED
  BY <1>2, <1>3, <1>4, <1>5, <1>6, <1>7 DEF Next

LEMMA StepKnows ==
  ASSUME IInv, KnowsInv, [Next]_vars
  PROVE  KnowsInv'
<1>1. ASSUME NEW r \in Requests, Update(r) \/ Delete(r)
      PROVE  KnowsInv'
  BY <1>1, ChangeKnows DEF Update, Delete
<1> SUFFICES ASSUME \A r \in Requests : ~(Update(r) \/ Delete(r))
             PROVE  KnowsInv'
  BY <1>1
<1>2. CalmStep
  BY StepCalm
<1>3. CASE \A s \in Requests : req'[s] \in {Idle, req[s], [req[s] EXCEPT !.fresh = FALSE]}
  BY <1>2, <1>3, CalmKnows DEF CalmStep
<1>4. ASSUME NEW r \in Requests, NEW o, Close(r, o)
      PROVE  KnowsInv'
  BY <1>3, <1>4 DEF Close
<1>5. ASSUME NEW r \in Requests, Login(r)
      PROVE  KnowsInv'
  BY <1>4, <1>5, BegunKnows DEF Login, LoginSucceeds, LoginFails
<1>6. ASSUME NEW r \in Requests, Tokens(r)
      PROVE  KnowsInv'
  BY <1>4, <1>6, BegunKnows, ReadKnows DEF Tokens, Rotate, Logout
<1>7. ASSUME NEW r \in Requests, Accounts(r)
      PROVE  KnowsInv'
  <2>1. ASSUME NEW p \in PairIds, NEW a \in Admins, NEW body \in Bodies,
               BeginManage(r, p, "update", a, body)
        PROVE  KnowsInv'
    <3>1. body \in Body
      BY BodiesAssumption DEF Body
    <3> QED
      BY <2>1, <3>1, BeginManageKnows
  <2>2. ASSUME NEW p \in PairIds, NEW a \in Admins, BeginDelete(r, p, a)
        PROVE  KnowsInv'
    <3> DEFINE body == [role |-> NULL, status |-> "disabled", pw |-> NULL]
    <3>1. body \in Body /\ body.status = "disabled"
      BY DEF Body, Statuses
    <3> QED
      BY <2>2, <3>1, BeginManageKnows DEF BeginDelete
  <2>3. CASE \E p \in PairIds, role \in Roles, pw \in Passwords \cup {NULL} :
               Create(r, p, role, pw)
    BY <1>3, <2>3 DEF Create
  <2> QED
    BY <1>7, <2>1, <2>2, <2>3, BegunKnows, ReadTargetKnows, GuardKnows DEF Accounts
<1>8. CASE Restart
  BY <1>3, <1>8 DEF Restart
<1>9. CASE Tick \/ UNCHANGED vars
  BY <1>3, <1>9 DEF Tick, vars
<1>10. ASSUME NEW r \in Requests, Abort(r)
       PROVE  KnowsInv'
  <2>1. \A s \in Requests : req'[s] = Idle \/ req'[s] = req[s]
    BY <1>10 DEF Abort, Step, IInv, Types
  <2> QED
    BY <1>3, <2>1
<1> QED
  BY <1>5, <1>6, <1>7, <1>8, <1>9, <1>10 DEF Next

LEMMA InitKnows == Init => KnowsInv
BY IdleKnows DEF Init, KnowsInv

LEMMA FreshKeeps ==
  ASSUME IInv, KnowsInv, NEW r \in Requests, Update(r) \/ Delete(r), req[r].fresh,
         ActiveAdmins # {}
  PROVE  ActiveAdmins' # {}
<1> DEFINE q == req[r]
           a == q.admin
           old == q.row
           new == Asked(q.arg, old)
<1>1. /\ Types /\ Sound(q, rows, lost, pairs, lastId) /\ Knows(q, rows, pairs)
      /\ q.pc = "commit" /\ q.kind \in {"update", "delete"}
  BY DEF Update, Delete, IInv, KnowsInv
<1>2. a \in Admins /\ old \in Row /\ q.arg \in Body
  BY <1>1 DEF Sound, Held
<1>3. /\ SameStanding(rows, a, old)
      /\ q.kind = "delete" => q.arg.status = "disabled"
      /\ ActiveAdmin(old) /\ ~ActiveAdmin(new) =>
           \E b \in Admins \ {a} : rows[b] # NULL /\ ActiveAdmin(rows[b])
  BY <1>1 DEF Knows
<1>4. \A b \in Admins \ {a} : rows'[b] = rows[b]
  <2>1. CASE Update(r)
    BY <1>1, <1>2, <2>1, AskedType, SaveStanding DEF Update
  <2>2. CASE Delete(r)
    BY <1>1, <2>2 DEF Delete, Types
  <2> QED
    BY <2>1, <2>2
<1>5. ASSUME NEW b \in Admins \ {a}, rows[b] # NULL, ActiveAdmin(rows[b])
      PROVE  ActiveAdmins' # {}
  BY <1>4, <1>5 DEF ActiveAdmins, Active, ActiveAdmin
<1>6. CASE ActiveAdmin(old) /\ ~ActiveAdmin(new)
  BY <1>3, <1>5, <1>6
<1>7. CASE ~ActiveAdmin(old)
  <2>1. PICK b \in Admins : rows[b] # NULL /\ ActiveAdmin(rows[b])
    BY DEF ActiveAdmins, Active, ActiveAdmin
  <2>2. b # a
    BY <1>3, <1>7, <2>1 DEF SameStanding, ActiveAdmin
  <2> QED
    BY <1>5, <2>1, <2>2
<1>8. CASE ActiveAdmin(new)
  <2>1. CASE Update(r)
    <3>1. SameStanding(rows', a, new)
      BY <1>1, <1>2, <1>3, <2>1, AskedType, SaveStanding DEF Update
    <3> QED
      BY <1>2, <1>8, <3>1 DEF SameStanding, ActiveAdmins, Active, ActiveAdmin
  <2>2. CASE Delete(r)
    <3>1. q.arg.status = "disabled" /\ "disabled" # NULL
      BY <1>3, <2>2, NullAssumption DEF Delete, Statuses
    <3>2. new.status = "disabled"
      BY <1>2, <3>1 DEF Asked, Row
    <3> QED
      BY <1>8, <3>2 DEF ActiveAdmin
  <2> QED
    BY <2>1, <2>2
<1> QED
  BY <1>6, <1>7, <1>8

\* api/admins.py, _guard_last_active_admin: no step leaves the console without an
\* administrator but a change that overlaps another one.
THEOREM AdminKept == Spec => ActiveAdminKept
<1> DEFINE P == ActiveAdmins # {} /\ ActiveAdmins' = {} =>
                  \E r \in Requests : (Update(r) \/ Delete(r)) /\ ~req[r].fresh
<1>1. ASSUME IInv, KnowsInv, [Next]_vars
      PROVE  P
  <2>1. CASE \E r \in Requests : Update(r) \/ Delete(r)
    BY <1>1, <2>1, FreshKeeps
  <2>2. CASE \A r \in Requests : ~(Update(r) \/ Delete(r))
    <3>1. Calm(rows, rows')
      BY <1>1, <2>2, StepCalm DEF CalmStep
    <3>2. ActiveAdmins # {} => ActiveAdmins' # {}
      BY <3>1 DEF Calm, SameStanding, ActiveAdmins, Active
    <3> QED
      BY <3>2
  <2> QED
    BY <2>1, <2>2
<1>2. IInv /\ KnowsInv /\ [Next]_vars => [P]_vars
  BY <1>1
<1>3. Spec => [][P]_vars
  BY <1>2, StepKnows, InitKnows, Inductive, PTL DEF Spec
<1> QED
  BY <1>3 DEF ActiveAdminKept

-----------------------------------------------------------------------------
(* Reuse.  A refresh token can still yield as many pairs as there are         *)
(* requests that passed the look at the table before it was revoked: those    *)
(* and the pairs made so far are never more than the requests that the        *)
(* server has open at a time.                                                 *)

From(ps, p) == {q \in DOMAIN ps : ps[q].from = p}

Refreshing(rq, p) ==
  {r \in Requests : rq[r].pc # "idle" /\ rq[r].kind = "refresh" /\ rq[r].pair = p}

ReuseInv ==
  \A p \in DOMAIN pairs :
    /\ pairs[p].from < p
    /\ p \notin revoked => From(pairs, p) = {}
    /\ Cardinality(From(pairs, p)) + Cardinality(Refreshing(req, p)) <= Cardinality(Requests)

LEMMA SetsFinite ==
  ASSUME NEW ps \in Seq(Pair), NEW rq, NEW p
  PROVE  /\ IsFiniteSet(From(ps, p)) /\ Cardinality(From(ps, p)) \in Nat
         /\ IsFiniteSet(Refreshing(rq, p)) /\ Cardinality(Refreshing(rq, p)) \in Nat
         /\ Cardinality(Refreshing(rq, p)) <= Cardinality(Requests)
         /\ Cardinality(Requests) \in Nat
<1>1. From(ps, p) \subseteq 1..Len(ps) /\ Len(ps) \in Nat
  BY DEF From
<1>2. IsFiniteSet(1..Len(ps))
  BY <1>1, FS_Interval
<1>3. IsFiniteSet(From(ps, p))
  BY <1>1, <1>2, FS_Subset
<1>4. Refreshing(rq, p) \subseteq Requests
  BY DEF Refreshing
<1>5. /\ IsFiniteSet(Refreshing(rq, p))
      /\ Cardinality(Refreshing(rq, p)) <= Cardinality(Requests)
  BY <1>4, RequestsAssumption, FS_Subset
<1> QED
  BY <1>3, <1>5, RequestsAssumption, FS_CardinalityType

\* A step that gives no pair for a refresh token, and opens no refresh.
LEMMA ReuseKept ==
  ASSUME IInv, IInv', ReuseInv, revoked \subseteq revoked',
         pairs' = pairs \/ \E pair \in Pair : pair.from = 0 /\ pairs' = Append(pairs, pair),
         \A p \in DOMAIN pairs : Refreshing(req', p) \subseteq Refreshing(req, p)
  PROVE  ReuseInv'
<1>1. pairs \in Seq(Pair) /\ pairs' \in Seq(Pair)
  BY DEF IInv, Types
<1>2. /\ \A p \in DOMAIN pairs : p \in DOMAIN pairs' /\ pairs'[p] = pairs[p]
      /\ \A p \in DOMAIN pairs' : p \in DOMAIN pairs \/ pairs'[p].from = 0
      /\ DOMAIN pairs \subseteq Nat \ {0} /\ DOMAIN pairs' \subseteq Nat \ {0}
  BY <1>1
<1>3. \A p \in DOMAIN pairs' : From(pairs', p) = From(pairs, p)
  BY <1>2 DEF From
<1>4. ASSUME NEW p \in DOMAIN pairs'
      PROVE  /\ pairs'[p].from < p
             /\ p \notin revoked' => From(pairs', p) = {}
             /\ Cardinality(From(pairs', p)) + Cardinality(Refreshing(req', p))
                  <= Cardinality(Requests)
  <2>1. CASE p \in DOMAIN pairs
    <3>1. /\ pairs[p].from < p
          /\ p \notin revoked => From(pairs, p) = {}
          /\ Cardinality(From(pairs, p)) + Cardinality(Refreshing(req, p))
               <= Cardinality(Requests)
      BY <2>1 DEF ReuseInv
    <3>2. Cardinality(Refreshing(req', p)) <= Cardinality(Refreshing(req, p))
      BY <1>1, <2>1, SetsFinite, FS_Subset
    <3>3. Cardinality(From(pairs, p)) + Cardinality(Refreshing(req', p))
            <= Cardinality(Requests)
      BY <1>1, <3>1, <3>2, SetsFinite
    <3> QED
      BY <1>2, <1>3, <2>1, <3>1, <3>3
  <2>2. CASE p \notin DOMAIN pairs
    <3>1. pairs'[p].from = 0 /\ p \in Nat \ {0}
      BY <1>2, <2>2
    <3>2. From(pairs, p) = {}
      <4> SUFFICES ASSUME NEW q \in DOMAIN pairs, pairs[q].from = p
                   PROVE  FALSE
        BY DEF From
      <4>1. p < q /\ q \in 1..Len(pairs) /\ Len(pairs) \in Nat
        BY <1>1 DEF ReuseInv
      <4>2. p \in 1..Len(pairs)
        BY <3>1, <4>1
      <4> QED
        BY <1>1, <2>2, <4>2
    <3>3. Cardinality(From(pairs', p)) = 0
      BY <1>3, <3>2, FS_EmptySet
    <3>4. Cardinality(Refreshing(req', p)) <= Cardinality(Requests)
      BY <1>1, SetsFinite
    <3> QED
      BY <1>1, <1>3, <3>1, <3>2, <3>3, <3>4, SetsFinite
  <2> QED
    BY <2>1, <2>2
<1> QED
  BY <1>4 DEF ReuseInv

LEMMA ValidateReuse ==
  ASSUME IInv, ReuseInv, NEW r \in Requests, NEW p \in PairIds, Validate(r, p)
  PROVE  ReuseInv'
<1> DEFINE q == [Idle EXCEPT !.pc = "admin", !.kind = "refresh", !.pair = p,
                             !.admin = pairs[p].admin]
<1>1. q.pair = p /\ req' = [req EXCEPT ![r] = q] /\ UNCHANGED <<pairs, revoked>>
  BY DEF Validate, Open, Idle
<1>2. p \in DOMAIN pairs /\ pairs \in Seq(Pair) /\ p \notin revoked
  BY AcceptedPair DEF Validate, IInv, Types
<1> HIDE DEF q
<1>3. \A s \in Requests : req'[s] = IF s = r THEN q ELSE req[s]
  BY <1>1 DEF IInv, Types
<1> SUFFICES ASSUME NEW x \in DOMAIN pairs
             PROVE  /\ pairs[x].from < x
                    /\ x \notin revoked => From(pairs, x) = {}
                    /\ Cardinality(From(pairs, x)) + Cardinality(Refreshing(req', x))
                         <= Cardinality(Requests)
  BY <1>1 DEF ReuseInv
<1>4. /\ pairs[x].from < x
      /\ x \notin revoked => From(pairs, x) = {}
      /\ Cardinality(From(pairs, x)) + Cardinality(Refreshing(req, x)) <= Cardinality(Requests)
  BY DEF ReuseInv
<1>5. CASE x = p
  <2>1. Cardinality(From(pairs, x)) = 0
    BY <1>2, <1>4, <1>5, FS_EmptySet
  <2>2. /\ Cardinality(Refreshing(req', x)) <= Cardinality(Requests)
        /\ Cardinality(Refreshing(req', x)) \in Nat
    BY <1>2, SetsFinite
  <2>3. Cardinality(Requests) \in Nat
    BY <1>2, SetsFinite
  <2> QED
    BY <1>4, <2>1, <2>2, <2>3
<1>6. CASE x # p
  <2>1. Refreshing(req', x) \subseteq Refreshing(req, x)
    BY <1>1, <1>3, <1>6 DEF Refreshing
  <2>2. Cardinality(Refreshing(req', x)) <= Cardinality(Refreshing(req, x))
    BY <1>2, <2>1, SetsFinite, FS_Subset
  <2> QED
    BY <1>2, <1>4, <2>2, SetsFinite
<1> QED
  BY <1>5, <1>6

LEMMA RotateReuse ==
  ASSUME IInv, IInv', ReuseInv, NEW r \in Requests, Rotate(r)
  PROVE  ReuseInv'
<1> DEFINE p == req[r].pair
           n == Len(pairs) + 1
           pair == [admin |-> req[r].admin, ver |-> req[r].row.ver,
                    under |-> pairs[p].under, from |-> p]
<1>1. /\ req[r].pc = "commit" /\ req[r].kind = "refresh" /\ Close(r, {})
      /\ pairs' = Append(pairs, pair) /\ revoked' = revoked \cup {p}
  BY DEF Rotate, Revoke, Issue
<1>2. /\ pairs \in Seq(Pair) /\ pairs' \in Seq(Pair) /\ req \in [Requests -> Request]
      /\ \A s \in Requests : Sound(req[s], rows, lost, pairs, lastId)
  BY DEF IInv, Types
<1>3. p \in DOMAIN pairs /\ p \in Nat /\ pair.from = p
  <2>1. p \in DOMAIN pairs
    BY <1>1, <1>2 DEF Sound
  <2> QED
    BY <1>2, <2>1
<1> HIDE DEF pair
<1>4. /\ n \in Nat /\ DOMAIN pairs' = DOMAIN pairs \cup {n} /\ n \notin DOMAIN pairs
      /\ pairs'[n] = pair /\ p < n /\ \A x \in DOMAIN pairs : pairs'[x] = pairs[x] /\ x < n
  BY <1>1, <1>2, <1>3
<1>5. \A s \in Requests : req'[s] = IF s = r THEN Idle ELSE req[s]
  BY <1>1 DEF Close
<1>6. \A x : Refreshing(req', x) = Refreshing(req, x) \ {r}
  BY <1>5 DEF Refreshing, Idle
<1>7. /\ pairs[p].from < p /\ pairs'[n].from < n
      /\ Cardinality(From(pairs, p)) + Cardinality(Refreshing(req, p)) <= Cardinality(Requests)
  BY <1>3, <1>4 DEF ReuseInv
<1>8. Cardinality(From(pairs', p)) + Cardinality(Refreshing(req', p)) <= Cardinality(Requests)
  <2>1. From(pairs', p) = From(pairs, p) \cup {n} /\ n \notin From(pairs, p)
    BY <1>3, <1>4 DEF From
  <2>2. r \in Refreshing(req, p)
    BY <1>1 DEF Refreshing
  <2>3. Cardinality(From(pairs', p)) = Cardinality(From(pairs, p)) + 1
    BY <1>2, <2>1, SetsFinite, FS_AddElement
  <2>4. Cardinality(Refreshing(req', p)) = Cardinality(Refreshing(req, p)) - 1
    BY <1>2, <1>6, <2>2, SetsFinite, FS_RemoveElement
  <2> QED
    BY <1>2, <1>7, <2>3, <2>4, SetsFinite
<1>9. From(pairs', n) = {} /\ Refreshing(req', n) = {}
  <2>1. From(pairs', n) = {}
    <3>1. \A x \in DOMAIN pairs : x \in Nat /\ pairs[x].from < x /\ pairs[x].from \in Nat
      <4>1. \A x \in DOMAIN pairs : pairs[x] \in Pair /\ x \in Nat
        BY <1>2
      <4> QED
        BY <4>1 DEF ReuseInv, Pair
    <3>2. \A x \in DOMAIN pairs : pairs[x].from # n
      BY <1>4, <3>1
    <3> QED
      BY <1>3, <1>4, <3>2 DEF From
  <2>2. \A s \in Requests : req[s].pc # "idle" /\ req[s].kind = "refresh" =>
                             req[s].pair \in DOMAIN pairs
    <3> SUFFICES ASSUME NEW s \in Requests, req[s].pc # "idle", req[s].kind = "refresh"
                 PROVE  req[s].pair \in DOMAIN pairs
      OBVIOUS
    <3>1. req[s].pc \in {"idle", "commit", "admin", "look", "target", "guard"}
      BY <1>2 DEF Request
    <3>2. req[s].pc \notin {"target", "guard"}
      BY <1>2 DEF Sound
    <3> QED
      BY <1>2, <3>1, <3>2 DEF Sound
  <2>3. Refreshing(req, n) = {}
    BY <1>4, <2>2 DEF Refreshing
  <2> QED
    BY <1>6, <2>1, <2>3
<1>10. ASSUME NEW x \in DOMAIN pairs, x # p
       PROVE  /\ pairs'[x].from < x
              /\ x \notin revoked' => From(pairs', x) = {}
              /\ Cardinality(From(pairs', x)) + Cardinality(Refreshing(req', x))
                   <= Cardinality(Requests)
  <2>1. From(pairs', x) = From(pairs, x)
    BY <1>3, <1>4, <1>10 DEF From
  <2>2. Cardinality(Refreshing(req', x)) <= Cardinality(Refreshing(req, x))
    BY <1>2, <1>6, SetsFinite, FS_Subset
  <2>3. /\ pairs[x].from < x
        /\ x \notin revoked => From(pairs, x) = {}
        /\ Cardinality(From(pairs, x)) + Cardinality(Refreshing(req, x)) <= Cardinality(Requests)
    BY <1>10 DEF ReuseInv
  <2>4. Cardinality(From(pairs, x)) + Cardinality(Refreshing(req', x)) <= Cardinality(Requests)
    BY <1>2, <2>2, <2>3, SetsFinite
  <2> QED
    BY <1>1, <1>4, <2>1, <2>3, <2>4
<1>11. 0 + 0 <= Cardinality(Requests)
  BY RequestsAssumption, FS_CardinalityType
<1> QED
  BY <1>1, <1>3, <1>4, <1>7, <1>8, <1>9, <1>10, <1>11, FS_EmptySet DEF ReuseInv

\* A step opens no refresh: each that is open was open before.
NoNewRefresh ==
  \A s \in Requests :
    req'[s].pc # "idle" /\ req'[s].kind = "refresh" =>
      req[s].pc # "idle" /\ req[s].kind = "refresh" /\ req[s].pair = req'[s].pair

LEMMA OneRefresh ==
  ASSUME IInv, NEW r \in Requests, NEW q, req' = [req EXCEPT ![r] = q],
         q.pc # "idle" /\ q.kind = "refresh" =>
           req[r].pc # "idle" /\ req[r].kind = "refresh" /\ req[r].pair = q.pair
  PROVE  NoNewRefresh
<1>1. \A s \in Requests : req'[s] = IF s = r THEN q ELSE req[s]
  BY DEF IInv, Types
<1> QED
  BY <1>1 DEF NoNewRefresh

LEMMA ClosedRefresh ==
  ASSUME IInv, NEW r \in Requests, NEW o, Close(r, o)
  PROVE  NoNewRefresh
<1> SUFFICES ASSUME NEW s \in Requests
             PROVE  req'[s].pc # "idle" /\ req'[s].kind = "refresh" =>
                      /\ req[s].pc # "idle" /\ req[s].kind = "refresh"
                      /\ req[s].pair = req'[s].pair
  BY DEF NoNewRefresh
<1>1. req[s] \in Request
  BY DEF IInv, Types
<1>2. req'[s] \in {Idle, req[s], [req[s] EXCEPT !.fresh = FALSE]}
  BY DEF Close
<1>3. Idle.pc = "idle"
  BY DEF Idle
<1> QED
  BY <1>1, <1>2, <1>3 DEF Request

LEMMA OpenedRefresh ==
  ASSUME IInv, NEW r \in Requests,
         \/ \E a \in Admins, pw \in Passwords : BeginLogin(r, a, pw)
         \/ \E p \in PairIds, pw \in Passwords : BeginPassword(r, p, pw)
         \/ \E p \in PairIds, p2 \in PairIds : BeginLogout(r, p, p2)
         \/ \E p \in PairIds, a \in Admins, body \in Bodies :
              BeginManage(r, p, "update", a, body)
         \/ \E p \in PairIds, a \in Admins : BeginDelete(r, p, a)
  PROVE  NoNewRefresh
<1>1. PICK q : q.kind # "refresh" /\ req' = [req EXCEPT ![r] = q]
  <2>1. ASSUME NEW a \in Admins, NEW pw \in Passwords, BeginLogin(r, a, pw)
        PROVE  \E q : q.kind # "refresh" /\ req' = [req EXCEPT ![r] = q]
    <3> DEFINE q == [Idle EXCEPT !.pc = "commit", !.kind = "login", !.admin = a,
                                 !.row = rows[a], !.arg = pw, !.at = now]
    <3>1. q.kind = "login" /\ req' = [req EXCEPT ![r] = q]
      BY <2>1 DEF BeginLogin, Open, Idle
    <3> QED
      BY <3>1
  <2>2. ASSUME NEW p \in PairIds, NEW pw \in Passwords, BeginPassword(r, p, pw)
        PROVE  \E q : q.kind # "refresh" /\ req' = [req EXCEPT ![r] = q]
    <3> DEFINE a == pairs[p].admin
               q == [Idle EXCEPT !.pc = "commit", !.kind = "update", !.admin = a,
                                 !.row = rows[a], !.arg = OwnPassword(pw)]
    <3>1. q.kind = "update" /\ req' = [req EXCEPT ![r] = q]
      BY <2>2 DEF BeginPassword, Open, Idle
    <3> QED
      BY <3>1
  <2>3. ASSUME NEW p \in PairIds, NEW p2 \in PairIds, BeginLogout(r, p, p2)
        PROVE  \E q : q.kind # "refresh" /\ req' = [req EXCEPT ![r] = q]
    <3> DEFINE q == [Idle EXCEPT !.pc = "look", !.kind = "logout", !.pair = p2,
                                 !.admin = pairs[p].admin]
    <3>1. q.kind = "logout" /\ req' = [req EXCEPT ![r] = q]
      BY <2>3 DEF BeginLogout, Open, Idle
    <3> QED
      BY <3>1
  <2>4. ASSUME NEW p \in PairIds, NEW kind \in {"update", "delete"}, NEW a \in Admins, NEW body,
               BeginManage(r, p, kind, a, body)
        PROVE  \E q : q.kind # "refresh" /\ req' = [req EXCEPT ![r] = q]
    <3> DEFINE q == [Idle EXCEPT !.pc = "target", !.kind = kind, !.admin = a, !.arg = body,
                                 !.pair = p, !.row = rows[pairs[p].admin]]
    <3>1. q.kind = kind /\ req' = [req EXCEPT ![r] = q]
      BY <2>4 DEF BeginManage, Open, Idle
    <3> HIDE DEF q
    <3> QED
      BY <3>1
  <2> QED
    BY <2>1, <2>2, <2>3, <2>4 DEF BeginDelete
<1> QED
  BY <1>1, OneRefresh

LEMMA SteppedRefresh ==
  ASSUME IInv, NEW r \in Requests,
         ReadAdmin(r) \/ Look(r) \/ ReadTarget(r) \/ GuardLastAdmin(r) \/ Abort(r)
  PROVE  NoNewRefresh
<1> DEFINE q == req[r]
           Same(q2) == /\ req' = [req EXCEPT ![r] = q2]
                       /\ q2.pc # "idle" /\ q2.kind = "refresh" =>
                            q.pc # "idle" /\ q.kind = "refresh" /\ q.pair = q2.pair
<1>1. q \in Request /\ Sound(q, rows, lost, pairs, lastId)
  BY DEF IInv, Types
<1>2. \E q2 : Same(q2)
  <2>1. CASE ReadAdmin(r)
    <3> DEFINE q2 == [q EXCEPT !.pc = "look", !.row = rows[q.admin]]
    <3>1. q2.pair = q.pair /\ q.kind = "refresh" /\ q.pc # "idle" /\ req' = [req EXCEPT ![r] = q2]
      BY <1>1, <2>1 DEF ReadAdmin, Step, Request
    <3> QED
      BY <3>1
  <2>2. CASE Look(r)
    <3> DEFINE known == q.pair \in revoked
               q2 == [q EXCEPT !.pc = "commit", !.known = known]
    <3>1. req' = [req EXCEPT ![r] = q2] /\ q.pc # "idle"
      BY <2>2 DEF Look, Step
    <3> HIDE DEF known
    <3>2. q2.kind = q.kind /\ q2.pair = q.pair
      BY <1>1 DEF Request
    <3> QED
      BY <3>1, <3>2
  <2>3. CASE ReadTarget(r)
    <3> DEFINE row == IF q.admin = pairs[q.pair].admin THEN q.row ELSE rows[q.admin]
               q2 == [q EXCEPT !.pc = "guard", !.row = row]
    <3>1. req' = [req EXCEPT ![r] = q2] /\ q.pc # "idle"
      BY <2>3 DEF ReadTarget, Step
    <3> HIDE DEF row
    <3>2. q2.kind = q.kind /\ q2.pair = q.pair
      BY <1>1 DEF Request
    <3> QED
      BY <3>1, <3>2
  <2>4. CASE GuardLastAdmin(r)
    <3> DEFINE q2 == [q EXCEPT !.pc = "commit", !.pair = NULL]
    <3>1. q.pc = "guard" /\ q2.kind = q.kind /\ req' = [req EXCEPT ![r] = q2]
      BY <1>1, <2>4 DEF GuardLastAdmin, Step, Request
    <3>2. q.kind # "refresh"
      BY <1>1, <3>1 DEF Sound
    <3> QED
      BY <3>1, <3>2
  <2>5. CASE Abort(r)
    <3>1. Idle.pc = "idle" /\ req' = [req EXCEPT ![r] = Idle]
      BY <2>5 DEF Abort, Step, Idle
    <3> QED
      BY <3>1
  <2> QED
    BY <2>1, <2>2, <2>3, <2>4, <2>5
<1>3. PICK q2 : Same(q2)
  BY <1>2
<1> QED
  BY <1>3, OneRefresh

LEMMA LoginPairs ==
  ASSUME IInv, NEW r \in Requests, LoginSucceeds(r)
  PROVE  \E pair \in Pair : pair.from = 0 /\ pairs' = Append(pairs, pair)
<1> DEFINE a == req[r].admin
           old == req[r].row
           pair == [admin |-> a, ver |-> old.ver, under |-> old.pw, from |-> 0]
<1>1. a \in Admins /\ old \in Row
  BY DEF LoginSucceeds, IInv, Sound, Held
<1>2. pair \in Pair /\ pair.from = 0
  BY <1>1 DEF Pair, Row
<1>3. pairs' = Append(pairs, pair)
  BY DEF LoginSucceeds, Issue
<1> QED
  BY <1>2, <1>3

LEMMA StepReuse ==
  ASSUME IInv, IInv', ReuseInv, [Next]_vars
  PROVE  ReuseInv'
<1>1. CASE /\ NoNewRefresh /\ revoked \subseteq revoked'
           /\ pairs' = pairs \/ \E pair \in Pair : pair.from = 0 /\ pairs' = Append(pairs, pair)
  BY <1>1, ReuseKept DEF NoNewRefresh, Refreshing
<1>2. ASSUME NEW r \in Requests, Login(r)
      PROVE  ReuseInv'
  <2>1. CASE \E a \in Admins, pw \in Passwords : BeginLogin(r, a, pw)
    <3>1. UNCHANGED <<pairs, revoked>>
      BY <2>1 DEF BeginLogin, Open
    <3> QED
      BY <1>1, <2>1, <3>1, OpenedRefresh
  <2>2. CASE LoginSucceeds(r)
    <3>1. Close(r, Logins(req[r].admin)) /\ UNCHANGED revoked
      BY <2>2 DEF LoginSucceeds
    <3> QED
      BY <1>1, <2>2, <3>1, ClosedRefresh, LoginPairs
  <2>3. CASE LoginFails(r)
    <3>1. (\E o : Close(r, o)) /\ UNCHANGED <<pairs, revoked>>
      BY <2>3 DEF LoginFails
    <3> QED
      BY <1>1, <3>1, ClosedRefresh
  <2> QED
    BY <1>2, <2>1, <2>2, <2>3 DEF Login
<1>3. ASSUME NEW r \in Requests, Tokens(r)
      PROVE  ReuseInv'
  <2>1. CASE \E p \in PairIds, p2 \in PairIds : BeginLogout(r, p, p2)
    <3>1. UNCHANGED <<pairs, revoked>>
      BY <2>1 DEF BeginLogout, Open
    <3> QED
      BY <1>1, <2>1, <3>1, OpenedRefresh
  <2>2. CASE ReadAdmin(r) \/ Look(r)
    <3>1. UNCHANGED <<pairs, revoked>>
      BY <2>2 DEF ReadAdmin, Look, Step
    <3> QED
      BY <1>1, <2>2, <3>1, SteppedRefresh
  <2>3. CASE Logout(r)
    <3>1. Close(r, {}) /\ UNCHANGED pairs /\ revoked \subseteq revoked'
      BY <2>3 DEF Logout, Revoke
    <3> QED
      BY <1>1, <3>1, ClosedRefresh
  <2> QED
    BY <1>3, <2>1, <2>2, <2>3, ValidateReuse, RotateReuse DEF Tokens
<1>4. ASSUME NEW r \in Requests, Accounts(r)
      PROVE  ReuseInv'
  <2>1. UNCHANGED <<pairs, revoked>>
    BY <1>4 DEF Accounts, BeginPassword, BeginManage, BeginDelete, ReadTarget, GuardLastAdmin,
                Update, Delete, Create, Open, Step
  <2>2. CASE Update(r) \/ Delete(r)
    BY <1>1, <2>1, <2>2, ClosedRefresh DEF Update, Delete
  <2>3. CASE ReadTarget(r) \/ GuardLastAdmin(r)
    BY <1>1, <2>1, <2>3, SteppedRefresh
  <2>4. CASE \E p \in PairIds, role \in Roles, pw \in Passwords \cup {NULL} :
               Create(r, p, role, pw)
    <3>1. req' = req
      BY <2>4 DEF Create
    <3> QED
      BY <1>1, <2>1, <3>1 DEF NoNewRefresh
  <2> QED
    BY <1>1, <1>4, <2>1, <2>2, <2>3, <2>4, OpenedRefresh DEF Accounts
<1>5. CASE Restart
  <2>1. NoNewRefresh /\ UNCHANGED <<pairs, revoked>>
    BY <1>5 DEF Restart, Idle, NoNewRefresh
  <2> QED
    BY <1>1, <2>1
<1>6. CASE Tick \/ UNCHANGED vars
  <2>1. NoNewRefresh /\ UNCHANGED <<pairs, revoked>>
    BY <1>6 DEF Tick, vars, NoNewRefresh
  <2> QED
    BY <1>1, <2>1
<1>7. ASSUME NEW r \in Requests, Abort(r)
      PROVE  ReuseInv'
  <2>1. UNCHANGED <<pairs, revoked>>
    BY <1>7 DEF Abort, Step
  <2> QED
    BY <1>1, <1>7, <2>1, SteppedRefresh
<1> QED
  BY <1>2, <1>3, <1>4, <1>5, <1>6, <1>7 DEF Next

LEMMA InitReuse ==
  ASSUME Init
  PROVE  ReuseInv
<1>1. IInv
  BY InitIInv
<1>2. pairs \in Seq(Pair)
  BY <1>1 DEF IInv, Types
<1>3. \A p \in DOMAIN pairs : p \in Nat \ {0} /\ pairs[p].from = 0
  <2>1. \A p \in DOMAIN pairs : p \in Nat \ {0}
    BY <1>2
  <2>2. \A p \in DOMAIN pairs : pairs[p].from = 0
    BY DEF Init, FirstPair
  <2> QED
    BY <2>1, <2>2
<1> SUFFICES ASSUME NEW p \in DOMAIN pairs
             PROVE  /\ pairs[p].from < p
                    /\ From(pairs, p) = {}
                    /\ Cardinality(From(pairs, p)) + Cardinality(Refreshing(req, p))
                         <= Cardinality(Requests)
  BY DEF ReuseInv
<1>4. From(pairs, p) = {}
  BY <1>3 DEF From
<1>5. Refreshing(req, p) = {}
  BY DEF Init, Refreshing, Idle
<1>6. Cardinality({}) = 0 /\ Cardinality(Requests) \in Nat
  BY FS_EmptySet, RequestsAssumption, FS_CardinalityType
<1> QED
  BY <1>3, <1>4, <1>5, <1>6

\* api/auth.py, refresh: a refresh token presented again after its rotation yields
\* nothing, and presented many times at once it yields at most as many pairs as the
\* server has requests open at a time, for any number of them.
THEOREM ReuseIsBounded == Spec => []ReuseBounded
<1>1. ASSUME IInv, ReuseInv
      PROVE  ReuseBounded
  <2> SUFFICES ASSUME NEW p \in DOMAIN pairs
               PROVE  Cardinality(From(pairs, p)) <= Cardinality(Requests)
    BY DEF ReuseBounded, From
  <2>1. pairs \in Seq(Pair)
    BY <1>1 DEF IInv, Types
  <2>2. Cardinality(From(pairs, p)) + Cardinality(Refreshing(req, p)) <= Cardinality(Requests)
    BY <1>1 DEF ReuseInv
  <2> QED
    BY <2>1, <2>2, SetsFinite
<1>2. IInv /\ ReuseInv => ReuseBounded
  BY <1>1
<1>3. IInv /\ ReuseInv /\ [Next]_vars => ReuseInv'
  BY StepIInv, StepReuse
<1> QED
  BY <1>2, <1>3, InitReuse, Inductive, PTL DEF Spec

-----------------------------------------------------------------------------
(* How many guesses there are.  The guesses since the last login, the row's  *)
(* count and its lock are related as follows, as long as no failure is       *)
(* counted that should not be.                                               *)

\* A row as the failures of logins leave it.
Counts(row) == (row.first = NULL <=> row.fails = 0) /\ row.fails < MaxFails

\* A guess at time `t` is further back than the window when the lock ends.
Past(row, t) == row.until # NULL /\ t + Window < row.until

\* The guesses up to the p-th are of earlier windows.  The next one began the window
\* that the row counts; or that one began under a lock, as nobody's guess.
Anchored(row, g, p) ==
  /\ p < Len(g) /\ g[p + 1] = row.first /\ Len(g) <= p + row.fails
  /\ \A i \in 1..p : g[i] <= row.first \/ Past(row, g[i])
  /\ Cardinality({i \in 1..p : g[i] + Window >= row.first}) + 2 <= MaxFails

Continued(row, g, p) ==
  Len(g) < p + row.fails /\ \A i \in 1..p : Past(row, g[i])

Windows(row, g) ==
  IF row.first = NULL THEN \A i \in DOMAIN g : Past(row, g[i])
  ELSE /\ \A i \in DOMAIN g : g[i] <= row.first + Window \/ Past(row, g[i])
       /\ \E p \in 0..Len(g) : Anchored(row, g, p) \/ Continued(row, g, p)

\* The lock, if there is one, is over at time `t`.
Over(row, t) == row.until = NULL \/ row.until <= t

Agrees(old, row) == old.fails = row.fails /\ old.first = row.first

\* The row has been counted on since `old` was read.
Behind(old, row) ==
  /\ row.first # NULL
  /\ \/ old.first = NULL \/ old.first < row.first
     \/ old.first = row.first /\ old.fails < row.fails

\* What a login has read, against the row that it will write to.
Begun(q, row, g) ==
  /\ Counts(q.row)
  /\ q.fresh =>
       /\ Over(row, q.at)
       /\ \/ Agrees(q.row, row) /\ \A i \in DOMAIN g : g[i] <= q.at
          \/ Behind(q.row, row)

\* Nothing is written over that was not read.
Unlost(old, row, new) ==
  /\ new.fails # old.fails => row.fails = old.fails
  /\ new.first # old.first => row.first = old.first
  /\ new.until # old.until => row.until = old.until

Near(g, t) == {i \in DOMAIN g : g[i] + Window >= t}

Bound(g, t) == Cardinality(Near(g, t)) <= MaxFails \/ Cardinality(Near(g, t)) <= 2 * MaxFails - 2

LEMMA RowFields ==
  ASSUME NEW row \in Row
  PROVE  /\ row.fails \in Nat /\ row.first \in Nat \cup {NULL} /\ row.until \in Nat \cup {NULL}
         /\ NULL \notin Nat
BY NullAssumption DEF Row

LEMMA WrittenCount ==
  ASSUME NEW row \in Row, NEW old \in Row, NEW new \in Row
  PROVE  LET row2 == Written(row, old, new)
         IN /\ row2 \in Row
            /\ row2.fails = IF new.fails # old.fails THEN new.fails ELSE row.fails
            /\ row2.first = IF new.first # old.first THEN new.first ELSE row.first
            /\ row2.until = IF new.until # old.until THEN new.until ELSE row.until
BY DEF Written, Row, Columns

\* What _register_failure makes of a row: it goes on counting, starts a window, or locks.
LEMMA FailedCount ==
  ASSUME NEW old \in Row, NEW at \in Nat
  PROVE  LET new == Failed(old, at)
             starts == old.first = NULL \/ at > old.first + Window
             fails == IF starts THEN 1 ELSE old.fails + 1
         IN /\ Locks(old, at) <=> fails >= MaxFails
            /\ Locks(old, at) => new.fails = 0 /\ new.first = NULL /\ new.until = at + Duration
            /\ ~Locks(old, at) =>
                 /\ new.fails = fails /\ new.until = old.until
                 /\ new.first = IF starts THEN at ELSE old.first
<1> DEFINE starts == old.first = NULL \/ at > old.first + Window
           counted == Counted(old, at)
<1>1. CASE starts
  <2>1. counted = [old EXCEPT !.fails = 1, !.first = at]
    BY <1>1 DEF Counted
  <2> HIDE DEF counted
  <2>2. counted \in Row /\ counted.fails = 1 /\ counted.first = at /\ counted.until = old.until
    BY <2>1 DEF Row
  <2>3. LET new == [counted EXCEPT !.until = at + Duration, !.fails = 0, !.first = NULL]
        IN new.fails = 0 /\ new.first = NULL /\ new.until = at + Duration
    BY <2>2 DEF Row
  <2> QED
    BY <1>1, <2>2, <2>3 DEF Failed, Locks, counted
<1>2. CASE ~starts
  <2>1. counted = [old EXCEPT !.fails = @ + 1]
    BY <1>2 DEF Counted
  <2>2. /\ counted \in Row /\ counted.fails = old.fails + 1 /\ counted.first = old.first
        /\ counted.until = old.until
    BY <2>1 DEF Row
  <2> HIDE DEF counted
  <2>3. LET new == [counted EXCEPT !.until = at + Duration, !.fails = 0, !.first = NULL]
        IN new.fails = 0 /\ new.first = NULL /\ new.until = at + Duration
    BY <2>2 DEF Row
  <2> QED
    BY <1>2, <2>2, <2>3 DEF Failed, Locks, counted
<1> QED
  BY <1>1, <1>2

\* The same for the row that it is written to, which may be another than was read.
LEMMA WrittenFailed ==
  ASSUME NEW row \in Row, NEW old \in Row, NEW at \in Nat, Counts(row), Counts(old),
         Over(old, at), Unlost(old, row, Failed(old, at))
  PROVE  LET row2 == Written(row, old, Failed(old, at))
         IN /\ row2 \in Row /\ Counts(row2)
            /\ \/ /\ Locks(old, at) /\ Agrees(old, row) /\ row.until = old.until
                  /\ row2.fails = 0 /\ row2.first = NULL /\ row2.until = at + Duration
               \/ /\ ~Locks(old, at) /\ old.first # NULL /\ at <= old.first + Window
                  /\ row.first # NULL /\ row2.fails = row.fails + 1 /\ row.fails = old.fails
                  /\ row2.first = row.first /\ row2.until = row.until
               \/ /\ ~Locks(old, at)
                  /\ old.first = NULL \/ at > old.first + Window
                  /\ row.first = old.first /\ row2.fails > 0 /\ row2.first = at
                  /\ row2.until = row.until
<1> DEFINE new == Failed(old, at)
           row2 == Written(row, old, new)
           starts == old.first = NULL \/ at > old.first + Window
<1>1. new \in Row
  BY FailedType
<1>2. /\ row2 \in Row
      /\ row2.fails = IF new.fails # old.fails THEN new.fails ELSE row.fails
      /\ row2.first = IF new.first # old.first THEN new.first ELSE row.first
      /\ row2.until = IF new.until # old.until THEN new.until ELSE row.until
  BY <1>1, WrittenCount
<1>3. /\ Unlost(old, row, new) /\ old.fails \in Nat /\ row.fails \in Nat /\ NULL \notin Nat
      /\ old.first \in Nat \cup {NULL} /\ row.first \in Nat \cup {NULL}
      /\ old.until \in Nat \cup {NULL} /\ row.until \in Nat \cup {NULL}
  BY RowFields
<1>4. MaxFails \in Nat /\ MaxFails > 0 /\ Window \in Nat /\ Duration \in Nat /\ Duration > Window
  BY LockoutAssumption
<1>5. CASE Locks(old, at)
  <2>1. new.fails = 0 /\ new.first = NULL /\ new.until = at + Duration
    BY <1>5, FailedCount
  <2>2. (IF starts THEN 1 ELSE old.fails + 1) >= MaxFails
    BY <1>5, FailedCount
  <2> HIDE DEF row2, new
  <2>3. new.until # old.until
    BY <1>3, <1>4, <2>1 DEF Over
  <2>4. Agrees(old, row)
    BY <1>3, <1>4, <2>1, <2>2 DEF Agrees, Counts, Unlost
  <2>5. row.until = old.until /\ row2.until = at + Duration
    BY <1>2, <1>3, <2>1, <2>3 DEF Unlost
  <2>6. row2.fails = 0 /\ row2.first = NULL
    BY <1>2, <2>1, <2>4 DEF Agrees
  <2> QED
    BY <1>2, <1>4, <1>5, <2>4, <2>5, <2>6 DEF Counts, row2, new
<1>6. CASE ~Locks(old, at) /\ ~starts
  <2>1. /\ new.fails = old.fails + 1 /\ new.first = old.first /\ new.until = old.until
        /\ old.fails + 1 < MaxFails
    BY <1>3, <1>4, <1>6, FailedCount
  <2> HIDE DEF row2, new
  <2>2. row.fails = old.fails /\ row2.fails = row.fails + 1
    BY <1>2, <1>3, <2>1 DEF Unlost
  <2>3. row.first # NULL /\ row2.first = row.first /\ row2.until = row.until
    BY <1>2, <1>6, <2>1, <2>2 DEF Counts
  <2>4. Counts(row2)
    BY <1>3, <2>1, <2>2, <2>3 DEF Counts
  <2> QED
    BY <1>2, <1>3, <1>4, <1>6, <2>2, <2>3, <2>4 DEF row2, new
<1>7. CASE ~Locks(old, at) /\ starts
  <2>1. /\ new.fails = 1 /\ new.first = at /\ new.until = old.until /\ 1 < MaxFails
    BY <1>3, <1>4, <1>7, FailedCount
  <2> HIDE DEF row2, new
  <2>2. at # old.first
    BY <1>3, <1>4, <1>7
  <2>3. row.first = old.first /\ row2.first = at /\ row2.until = row.until
    BY <1>2, <1>3, <2>1, <2>2 DEF Unlost
  <2>4. row2.fails > 0 /\ row2.fails < MaxFails
    BY <1>2, <1>3, <1>4, <2>1, <2>3 DEF Counts
  <2>5. Counts(row2)
    BY <1>2, <1>3, <2>3, <2>4 DEF Counts
  <2> QED
    BY <1>2, <1>7, <2>3, <2>4, <2>5 DEF row2, new
<1> QED
  BY <1>5, <1>6, <1>7

-----------------------------------------------------------------------------
(* How many guesses are near a time. *)

LEMMA NearFinite ==
  ASSUME NEW g \in Seq(Nat), NEW t \in Nat
  PROVE  /\ Near(g, t) \subseteq 1..Len(g) /\ IsFiniteSet(Near(g, t))
         /\ Cardinality(Near(g, t)) \in Nat
<1>1. Near(g, t) \subseteq 1..Len(g)
  BY DEF Near
<1>2. IsFiniteSet(1..Len(g))
  BY FS_Interval
<1>3. IsFiniteSet(Near(g, t))
  BY <1>1, <1>2, FS_Subset
<1> QED
  BY <1>1, <1>3, FS_CardinalityType

\* A set, and indices after the p-th.
LEMMA TailBound ==
  ASSUME NEW A, IsFiniteSet(A), NEW p \in Nat, NEW n \in Nat, p <= n,
         NEW S, S \subseteq A \cup ((p + 1)..n)
  PROVE  /\ IsFiniteSet(S) /\ Cardinality(S) \in Nat /\ Cardinality(A) \in Nat
         /\ Cardinality(S) <= Cardinality(A) + (n - p)
<1> DEFINE I == (p + 1)..n
<1>1. IsFiniteSet(I) /\ Cardinality(I) = n - p
  <2>1. p + 1 \in Int /\ n \in Int
    OBVIOUS
  <2>2. IsFiniteSet(I) /\ Cardinality(I) = IF p + 1 > n THEN 0 ELSE n - (p + 1) + 1
    BY <2>1, FS_Interval
  <2> QED
    BY <2>2
<1> HIDE DEF I
<1>2. IsFiniteSet(A \cup I) /\ Cardinality(A \cup I) = Cardinality(A) + Cardinality(I) - Cardinality(A \cap I)
  BY <1>1, FS_Union
<1>3. IsFiniteSet(A \cap I)
  BY <1>1, FS_Subset
<1>4. IsFiniteSet(S) /\ Cardinality(S) <= Cardinality(A \cup I)
  BY <1>2, FS_Subset DEF I
<1>5. /\ Cardinality(A \cap I) \in Nat /\ Cardinality(A) \in Nat /\ Cardinality(S) \in Nat
      /\ Cardinality(A \cup I) \in Nat
  BY <1>2, <1>3, <1>4, FS_CardinalityType
<1> QED
  BY <1>1, <1>2, <1>4, <1>5

\* Those of the former windows, and those that the row counts.
LEMMA NearBound ==
  ASSUME NEW row \in Row, NEW g \in Seq(Nat), NEW t \in Nat, Windows(row, g),
         Over(row, t), row.first # NULL => row.first <= t
  PROVE  /\ row.first = NULL => Near(g, t) = {}
         /\ row.first # NULL => \/ Cardinality(Near(g, t)) + 2 <= MaxFails + row.fails
                                \/ Cardinality(Near(g, t)) < row.fails
<1>1. /\ row.fails \in Nat /\ row.first \in Nat \cup {NULL} /\ row.until \in Nat \cup {NULL}
      /\ NULL \notin Nat /\ Window \in Nat /\ MaxFails \in Nat /\ Len(g) \in Nat
      /\ \A i \in 1..Len(g) : g[i] \in Nat
  BY RowFields, LockoutAssumption
<1>2. \A i \in 1..Len(g) : Past(row, g[i]) => ~(g[i] + Window >= t)
  BY <1>1 DEF Past, Over
<1>3. CASE row.first = NULL
  BY <1>1, <1>2, <1>3 DEF Windows, Near
<1>4. CASE row.first # NULL
  <2>1. PICK p \in 0..Len(g) : Anchored(row, g, p) \/ Continued(row, g, p)
    BY <1>4 DEF Windows
  <2>2. CASE Anchored(row, g, p)
    <3> DEFINE A == {i \in 1..p : g[i] + Window >= row.first}
    <3>1. IsFiniteSet(A)
      <4>1. IsFiniteSet(1..p) /\ A \in SUBSET (1..p)
        BY FS_Interval
      <4> QED
        BY <4>1, FS_Subset
    <3>2. Near(g, t) \subseteq A \cup ((p + 1)..Len(g))
      BY <1>1, <1>4 DEF Near
    <3> HIDE DEF A
    <3>3. /\ Cardinality(A) \in Nat /\ Cardinality(Near(g, t)) \in Nat
          /\ Cardinality(Near(g, t)) <= Cardinality(A) + (Len(g) - p)
      <4>1. p \in Nat /\ p <= Len(g)
        BY <1>1
      <4> QED
        BY <1>1, <3>1, <3>2, <4>1, TailBound
    <3>4. Cardinality(A) + 2 <= MaxFails /\ Len(g) <= p + row.fails
      BY <2>2 DEF Anchored, A
    <3> QED
      BY <1>1, <1>4, <3>3, <3>4
  <2>3. CASE Continued(row, g, p)
    <3>1. Near(g, t) \subseteq {} \cup ((p + 1)..Len(g))
      BY <1>1, <1>2, <2>3 DEF Near, Continued
    <3>2. /\ Cardinality(Near(g, t)) \in Nat
          /\ Cardinality(Near(g, t)) <= Cardinality({}) + (Len(g) - p)
      BY <1>1, <3>1, TailBound, FS_EmptySet
    <3> QED
      BY <1>1, <1>4, <2>3, <3>2, FS_EmptySet DEF Continued
  <2> QED
    BY <2>1, <2>2, <2>3
<1> QED
  BY <1>3, <1>4

LEMMA CountedBound ==
  ASSUME NEW row \in Row, NEW g \in Seq(Nat), NEW t \in Nat, NEW at \in Nat, Windows(row, g),
         Counts(row), Over(row, t), row.first # NULL => row.first <= t
  PROVE  Bound(Append(g, at), t)
<1> DEFINE h == Append(g, at)
           n == Len(g)
<1>1. h \in Seq(Nat) /\ n \in Nat /\ Len(h) = n + 1 /\ \A i \in 1..n : h[i] = g[i]
  OBVIOUS
<1> HIDE DEF h
<1>2. Near(h, t) \subseteq Near(g, t) \cup ((n + 1)..(n + 1))
  <2>1. \A i \in DOMAIN h : i \in DOMAIN g \/ i \in (n + 1)..(n + 1)
    BY <1>1
  <2>2. \A i \in DOMAIN g : h[i] = g[i]
    BY <1>1
  <2> QED
    BY <2>1, <2>2 DEF Near
<1>3. IsFiniteSet(Near(g, t)) /\ n + 1 \in Nat
  BY <1>1, NearFinite
<1>4. /\ Cardinality(Near(h, t)) \in Nat /\ Cardinality(Near(g, t)) \in Nat
      /\ Cardinality(Near(h, t)) <= Cardinality(Near(g, t)) + 1
  <2>1. Cardinality(Near(h, t)) <= Cardinality(Near(g, t)) + ((n + 1) - n)
    BY <1>1, <1>2, <1>3, TailBound
  <2>2. Cardinality(Near(h, t)) \in Nat /\ Cardinality(Near(g, t)) \in Nat
    BY <1>1, NearFinite
  <2> QED
    BY <1>1, <2>1, <2>2
<1>5. MaxFails \in Nat /\ MaxFails > 0 /\ row.fails \in Nat /\ row.fails < MaxFails
  BY LockoutAssumption, RowFields DEF Counts
<1>6. CASE row.first = NULL
  <2>1. Cardinality(Near(g, t)) = 0
    BY <1>6, NearBound, FS_EmptySet
  <2> QED
    BY <1>4, <1>5, <2>1 DEF Bound, h
<1>7. CASE row.first # NULL
  <2>1. \/ Cardinality(Near(g, t)) + 2 <= MaxFails + row.fails
        \/ Cardinality(Near(g, t)) < row.fails
    BY <1>7, NearBound
  <2> QED
    BY <1>4, <1>5, <2>1 DEF Bound, h
<1> QED
  BY <1>6, <1>7

\* At the start of a window: of the last one, all but the first can be near.
LEMMA StartBound ==
  ASSUME NEW row \in Row, NEW g \in Seq(Nat), NEW at \in Nat, Windows(row, g), Over(row, at),
         row.first # NULL => at > row.first + Window
  PROVE  IF row.first = NULL THEN Near(g, at) = {} ELSE Cardinality(Near(g, at)) < row.fails
<1>1. /\ row.fails \in Nat /\ row.first \in Nat \cup {NULL} /\ row.until \in Nat \cup {NULL}
      /\ NULL \notin Nat /\ Window \in Nat /\ MaxFails \in Nat /\ Len(g) \in Nat
      /\ \A i \in 1..Len(g) : g[i] \in Nat
  BY RowFields, LockoutAssumption
<1>2. \A i \in 1..Len(g) : Past(row, g[i]) => ~(g[i] + Window >= at)
  BY <1>1 DEF Past, Over
<1>3. CASE row.first = NULL
  BY <1>1, <1>2, <1>3 DEF Windows, Near
<1>4. CASE row.first # NULL
  <2>1. PICK p \in 0..Len(g) : Anchored(row, g, p) \/ Continued(row, g, p)
    BY <1>4 DEF Windows
  <2>2. CASE Anchored(row, g, p)
    <3>1. ASSUME NEW i \in 1..(p + 1)
          PROVE  ~(g[i] + Window >= at)
      <4>1. p \in Nat /\ p < Len(g) /\ g[p + 1] = row.first
        BY <2>2 DEF Anchored
      <4>2. CASE i = p + 1
        BY <1>1, <1>4, <4>1, <4>2
      <4>3. CASE i \in 1..p
        <5>1. g[i] <= row.first \/ Past(row, g[i])
          BY <2>2, <4>3 DEF Anchored
        <5>2. i \in 1..Len(g)
          BY <1>1, <4>1, <4>3
        <5> QED
          BY <1>1, <1>2, <1>4, <5>1, <5>2
      <4> QED
        BY <4>1, <4>2, <4>3
    <3>2. Near(g, at) \subseteq {} \cup ((p + 1 + 1)..Len(g))
      BY <1>1, <3>1 DEF Near
    <3>3. p + 1 \in Nat /\ p + 1 <= Len(g) /\ Len(g) <= p + row.fails
      BY <1>1, <2>2 DEF Anchored
    <3>4. /\ Cardinality(Near(g, at)) \in Nat
          /\ Cardinality(Near(g, at)) <= Cardinality({}) + (Len(g) - (p + 1))
      BY <1>1, <3>2, <3>3, TailBound, FS_EmptySet
    <3> QED
      BY <1>1, <1>4, <3>3, <3>4, FS_EmptySet
  <2>3. CASE Continued(row, g, p)
    <3>1. Near(g, at) \subseteq {} \cup ((p + 1)..Len(g))
      BY <1>1, <1>2, <2>3 DEF Near, Continued
    <3>2. /\ Cardinality(Near(g, at)) \in Nat
          /\ Cardinality(Near(g, at)) <= Cardinality({}) + (Len(g) - p)
      BY <1>1, <3>1, TailBound, FS_EmptySet
    <3> QED
      BY <1>1, <1>4, <2>3, <3>2, FS_EmptySet DEF Continued
  <2> QED
    BY <2>1, <2>2, <2>3
<1> QED
  BY <1>3, <1>4

\* The three ways in which a failure is counted.
LEMMA WindowStarts ==
  ASSUME NEW row \in Row, NEW g \in Seq(Nat), NEW at \in Nat, Counts(row), Windows(row, g),
         Over(row, at), row.first # NULL => at > row.first + Window,
         NEW row2 \in Row, Counts(row2), row2.first = at, row2.fails > 0, row2.until = row.until
  PROVE  Windows(row2, Append(g, at))
<1> DEFINE h == Append(g, at)
           n == Len(g)
<1>1. h \in Seq(Nat) /\ n \in Nat /\ Len(h) = n + 1 /\ h[n + 1] = at /\ \A i \in 1..n : h[i] = g[i]
  OBVIOUS
<1> HIDE DEF h
<1>2. /\ row.fails \in Nat /\ row.first \in Nat \cup {NULL} /\ row.until \in Nat \cup {NULL}
      /\ row2.fails \in Nat /\ NULL \notin Nat /\ Window \in Nat /\ MaxFails \in Nat
      /\ \A i \in 1..n : g[i] \in Nat
  BY RowFields, LockoutAssumption
<1>3. ASSUME NEW i \in 1..n
      PROVE  h[i] <= row2.first \/ Past(row2, h[i])
  <2>1. h[i] = g[i] /\ g[i] \in Nat /\ i \in DOMAIN g
    BY <1>1, <1>2
  <2>2. Past(row2, g[i]) <=> Past(row, g[i])
    BY DEF Past
  <2>3. CASE row.first = NULL
    BY <2>1, <2>2, <2>3 DEF Windows
  <2>4. CASE row.first # NULL
    <3>1. g[i] <= row.first + Window \/ Past(row, g[i])
      BY <2>1, <2>4 DEF Windows
    <3> QED
      BY <1>2, <2>1, <2>2, <2>4, <3>1
  <2> QED
    BY <2>3, <2>4
<1>4. {i \in 1..n : h[i] + Window >= row2.first} = Near(g, at)
  BY <1>1 DEF Near
<1>5. Cardinality(Near(g, at)) + 2 <= MaxFails
  <2>1. row2.fails < MaxFails /\ row.fails < MaxFails
    BY DEF Counts
  <2>2. Cardinality(Near(g, at)) \in Nat
    BY NearFinite
  <2>3. IF row.first = NULL THEN Near(g, at) = {} ELSE Cardinality(Near(g, at)) < row.fails
    BY StartBound
  <2>4. Cardinality({}) = 0
    BY FS_EmptySet
  <2>5. CASE row.first = NULL
    <3>1. Cardinality(Near(g, at)) = 0
      BY <2>3, <2>4, <2>5
    <3>2. row2.fails > 0
      OBVIOUS
    <3> QED
      BY <1>2, <2>1, <3>1, <3>2
  <2>6. CASE row.first # NULL
    BY <1>2, <2>1, <2>2, <2>3, <2>6
  <2> QED
    BY <2>5, <2>6
<1>6. Anchored(row2, h, n)
  <2>1. n < Len(h) /\ h[n + 1] = row2.first /\ Len(h) <= n + row2.fails
    BY <1>1, <1>2
  <2> QED
    BY <1>3, <1>4, <1>5, <2>1 DEF Anchored
<1>7. ASSUME NEW i \in DOMAIN h
      PROVE  h[i] <= row2.first + Window \/ Past(row2, h[i])
  <2>1. i \in 1..n \/ i = n + 1
    BY <1>1
  <2>2. CASE i \in 1..n
    <3>1. h[i] \in Nat
      BY <1>1, <1>2, <2>2
    <3> QED
      BY <1>2, <1>3, <2>2, <3>1
  <2>3. CASE i = n + 1
    BY <1>1, <1>2, <2>3
  <2> QED
    BY <2>1, <2>2, <2>3
<1>8. row2.first # NULL /\ n \in 0..Len(h)
  BY <1>1, <1>2
<1> QED
  BY <1>6, <1>7, <1>8 DEF Windows, h

LEMMA WindowGoesOn ==
  ASSUME NEW row \in Row, NEW g \in Seq(Nat), NEW at \in Nat, Windows(row, g),
         row.first # NULL, at <= row.first + Window,
         NEW row2 \in Row, row2.first = row.first, row2.fails = row.fails + 1,
         row2.until = row.until
  PROVE  Windows(row2, Append(g, at))
<1> DEFINE h == Append(g, at)
           n == Len(g)
<1>1. h \in Seq(Nat) /\ n \in Nat /\ Len(h) = n + 1 /\ h[n + 1] = at /\ \A i \in 1..n : h[i] = g[i]
  OBVIOUS
<1> HIDE DEF h
<1>2. /\ row.fails \in Nat /\ row2.fails \in Nat
      /\ \A t : Past(row2, t) <=> Past(row, t)
  BY RowFields DEF Past
<1>3. \A i \in DOMAIN h : h[i] <= row2.first + Window \/ Past(row2, h[i])
  <2>1. \A i \in DOMAIN h : i \in 1..n \/ i = n + 1
    BY <1>1
  <2> QED
    BY <1>1, <1>2, <2>1 DEF Windows
<1>4. PICK p \in 0..n : Anchored(row, g, p) \/ Continued(row, g, p)
  BY DEF Windows
<1>5. p \in 0..Len(h) /\ 1..p \subseteq 1..n
  BY <1>1
<1>6. ASSUME Anchored(row, g, p)
      PROVE  Anchored(row2, h, p)
  <2>1. {i \in 1..p : h[i] + Window >= row2.first} = {i \in 1..p : g[i] + Window >= row.first}
    BY <1>1, <1>5
  <2>2. p < Len(h) /\ h[p + 1] = row2.first /\ Len(h) <= p + row2.fails
    <3>1. p \in 0..n /\ p < n /\ g[p + 1] = row.first /\ n <= p + row.fails
      BY <1>6 DEF Anchored
    <3>2. p + 1 \in 1..n
      BY <1>1, <3>1
    <3> QED
      BY <1>1, <1>2, <3>1, <3>2
  <2>3. \A i \in 1..p : h[i] <= row2.first \/ Past(row2, h[i])
    BY <1>1, <1>2, <1>5, <1>6 DEF Anchored
  <2> QED
    BY <1>6, <2>1, <2>2, <2>3 DEF Anchored
<1>7. ASSUME Continued(row, g, p)
      PROVE  Continued(row2, h, p)
  BY <1>1, <1>2, <1>5, <1>7 DEF Continued
<1> QED
  BY <1>3, <1>4, <1>5, <1>6, <1>7 DEF Windows, h

LEMMA WindowLocks ==
  ASSUME NEW g \in Seq(Nat), NEW at \in Nat, \A i \in DOMAIN g : g[i] <= at,
         NEW row2 \in Row, row2.first = NULL, row2.until = at + Duration
  PROVE  /\ Windows(row2, Append(g, at))
         /\ \A i \in DOMAIN Append(g, at) : Past(row2, Append(g, at)[i])
<1> DEFINE h == Append(g, at)
<1>1. \A i \in DOMAIN h : h[i] \in Nat /\ h[i] <= at
  OBVIOUS
<1> HIDE DEF h
<1>2. NULL \notin Nat /\ at + Duration \in Nat /\ Window \in Nat /\ Duration \in Nat /\ Window < Duration
  BY RowFields, LockoutAssumption
<1>3. \A i \in DOMAIN h : Past(row2, h[i])
  BY <1>1, <1>2 DEF Past
<1> QED
  BY <1>3 DEF Windows, h

\* A failure that is counted under a lock, and is nobody's guess.
LEMMA WindowUnderLock ==
  ASSUME NEW row \in Row, NEW g \in Seq(Nat), \A i \in DOMAIN g : Past(row, g[i]),
         NEW row2 \in Row, row2.first # NULL, row2.fails > 0, row2.until = row.until
  PROVE  Windows(row2, g)
<1>1. \A i \in DOMAIN g : Past(row2, g[i])
  BY DEF Past
<1>2. Len(g) \in 0..Len(g) /\ Len(g) < Len(g) + row2.fails
  BY RowFields
<1>3. Continued(row2, g, Len(g))
  BY <1>1, <1>2 DEF Continued
<1> QED
  BY <1>1, <1>2, <1>3 DEF Windows

-----------------------------------------------------------------------------
(* The invariant. *)

IsLogin(q) == q.pc = "commit" /\ q.kind = "login"

\* No failure of the account was counted that should not be.
Free(a) == a \notin late /\ \A c \in {"fails", "first", "until"} : <<a, c>> \notin lost

Right(a) ==
  /\ Bound(guesses[a], now)
  /\ \A i \in DOMAIN guesses[a] : guesses[a][i] <= now
  /\ rows[a] # NULL =>
       /\ Counts(rows[a]) /\ Windows(rows[a], guesses[a])
       /\ rows[a].first # NULL => rows[a].first <= now
       /\ Locked(rows[a]) => \A i \in DOMAIN guesses[a] : Past(rows[a], guesses[a][i])
       /\ \A r \in Requests :
            IsLogin(req[r]) /\ req[r].admin = a => Begun(req[r], rows[a], guesses[a])

GuessInv ==
  /\ guesses \in [Admins -> Seq(Nat)]
  /\ \A a \in Admins : a > lastId => guesses[a] = <<>>
  /\ \A r \in Requests : IsLogin(req[r]) => req[r].at <= now /\ Over(req[r].row, req[r].at)
  /\ \A a \in Admins : Free(a) => Right(a)

SameCount(row, row2) ==
  row2.fails = row.fails /\ row2.first = row.first /\ row2.until = row.until

\* The count of an account in a step that is not an answer to a login.
KeptCount(a) ==
  rows'[a] # NULL =>
    \/ rows[a] # NULL /\ SameCount(rows[a], rows'[a])
    \/ /\ rows[a] = NULL /\ a > lastId
       /\ rows'[a].fails = 0 /\ rows'[a].first = NULL /\ rows'[a].until = NULL

LEMMA LoginHolds ==
  ASSUME IInv, NEW r \in Requests, IsLogin(req[r])
  PROVE  /\ req[r].admin \in Admins /\ req[r].row \in Row /\ req[r].at \in Nat
         /\ req[r].admin <= lastId
BY DEF IInv, Types, Sound, Held, Request, IsLogin

LEMMA NoneNear ==
  ASSUME NEW t
  PROVE  Bound(<<>>, t)
<1>1. Near(<<>>, t) = {}
  BY DEF Near
<1>2. Cardinality(Near(<<>>, t)) = 0
  BY <1>1, FS_EmptySet
<1> QED
  BY <1>2, LockoutAssumption DEF Bound

LEMMA BoundLater ==
  ASSUME NEW g \in Seq(Nat), NEW t \in Nat, NEW u \in Nat, t <= u, Bound(g, t)
  PROVE  Bound(g, u)
<1>1. \A i \in DOMAIN g : g[i] \in Nat
  OBVIOUS
<1>2. Window \in Nat /\ MaxFails \in Nat
  BY LockoutAssumption
<1>3. Near(g, u) \subseteq Near(g, t)
  BY <1>1, <1>2 DEF Near
<1>4. /\ IsFiniteSet(Near(g, t)) /\ Cardinality(Near(g, t)) \in Nat
      /\ Cardinality(Near(g, u)) \in Nat
  BY NearFinite
<1>5. Cardinality(Near(g, u)) <= Cardinality(Near(g, t))
  BY <1>3, <1>4, FS_Subset
<1> QED
  BY <1>2, <1>4, <1>5 DEF Bound

LEMMA SameWindows ==
  ASSUME NEW row, NEW row2, SameCount(row, row2)
  PROVE  /\ Counts(row2) <=> Counts(row)
         /\ \A t : Past(row2, t) <=> Past(row, t)
         /\ \A g : Windows(row2, g) <=> Windows(row, g)
         /\ Locked(row2) <=> Locked(row)
         /\ \A q, g : Begun(q, row2, g) <=> Begun(q, row, g)
<1>1. (Counts(row2) <=> Counts(row)) /\ (Locked(row2) <=> Locked(row))
  BY DEF Counts, Locked, SameCount
<1>2. \A t : Past(row2, t) <=> Past(row, t)
  BY DEF Past, SameCount
<1>3. \A g, p : (Anchored(row2, g, p) <=> Anchored(row, g, p))
                /\ (Continued(row2, g, p) <=> Continued(row, g, p))
  BY <1>2 DEF Anchored, Continued, SameCount
<1>4. \A g : Windows(row2, g) <=> Windows(row, g)
  BY <1>2, <1>3 DEF Windows, SameCount
<1>5. \A q, g : Begun(q, row2, g) <=> Begun(q, row, g)
  BY DEF Begun, Over, Agrees, Behind, SameCount
<1> QED
  BY <1>1, <1>2, <1>4, <1>5

LEMMA SaneNow == IInv => now \in Nat /\ lastId \in Nat /\ (\A a \in Admins : a \in Nat)
BY AdminsAreIds DEF IInv, Types

\* An account that no login is answered for.
LEMMA RightKept ==
  ASSUME IInv, GuessInv, NEW a \in Admins, Right(a), guesses'[a] = guesses[a],
         now' \in Nat, now <= now', NoNewLogin,
         rows'[a] # NULL => rows[a] # NULL /\ SameCount(rows[a], rows'[a])
  PROVE  Right(a)'
<1> DEFINE g == guesses[a]
           row == rows[a]
           row2 == rows'[a]
<1>1. g \in Seq(Nat) /\ now \in Nat /\ \A i \in DOMAIN g : g[i] \in Nat /\ g[i] <= now
  BY SaneNow DEF GuessInv, Right
<1>2. Bound(g, now')
  BY <1>1, BoundLater DEF Right
<1>3. \A i \in DOMAIN g : g[i] <= now'
  BY <1>1
<1>4. ASSUME row2 # NULL
      PROVE  /\ Counts(row2) /\ Windows(row2, g)
             /\ row2.first # NULL => row2.first <= now'
             /\ row2.until # NULL /\ row2.until > now' => \A i \in DOMAIN g : Past(row2, g[i])
             /\ \A r \in Requests :
                  IsLogin(req'[r]) /\ req'[r].admin = a => Begun(req'[r], row2, g)
  <2>1. row # NULL /\ SameCount(row, row2) /\ row \in Row
    BY <1>4 DEF IInv, Types
  <2>2. /\ Counts(row) /\ Windows(row, g) /\ (row.first # NULL => row.first <= now)
        /\ Locked(row) => \A i \in DOMAIN g : Past(row, g[i])
        /\ \A r \in Requests : IsLogin(req[r]) /\ req[r].admin = a => Begun(req[r], row, g)
    BY <2>1 DEF Right
  <2>3. /\ Counts(row2) /\ Windows(row2, g)
        /\ \A t : Past(row2, t) <=> Past(row, t)
        /\ \A q : Begun(q, row2, g) <=> Begun(q, row, g)
    BY <2>1, <2>2, SameWindows
  <2>4. row2.first # NULL => row2.first <= now'
    BY <1>1, <2>1, <2>2, RowFields DEF SameCount
  <2>5. row2.until # NULL /\ row2.until > now' => Locked(row)
    BY <1>1, <2>1, RowFields DEF SameCount, Locked
  <2>6. ASSUME NEW r \in Requests, IsLogin(req'[r]), req'[r].admin = a
        PROVE  Begun(req'[r], row2, g)
    <3>1. /\ IsLogin(req[r]) /\ req[r].admin = a /\ req[r].row = req'[r].row
          /\ req[r].at = req'[r].at /\ (req'[r].fresh => req[r].fresh)
      BY <2>6 DEF NoNewLogin, IsLogin
    <3>2. Begun(req[r], row2, g)
      BY <2>2, <2>3, <3>1
    <3> QED
      BY <3>1, <3>2 DEF Begun
  <2> QED
    BY <2>2, <2>3, <2>4, <2>5, <2>6
<1> QED
  BY <1>2, <1>3, <1>4 DEF Right, Locked

\* An account that is new.
LEMMA RightNew ==
  ASSUME IInv, GuessInv, NEW a \in Admins, guesses'[a] = guesses[a], NoNewLogin,
         a > lastId, rows'[a].fails = 0, rows'[a].first = NULL
  PROVE  Right(a)'
<1>1. guesses'[a] = <<>>
  BY DEF GuessInv
<1>2. \A r \in Requests : ~(IsLogin(req'[r]) /\ req'[r].admin = a)
  <2>1. SUFFICES ASSUME NEW r \in Requests, IsLogin(req'[r]), req'[r].admin = a
                 PROVE  FALSE
    OBVIOUS
  <2>2. IsLogin(req[r]) /\ req[r].admin = a
    BY <2>1 DEF NoNewLogin, IsLogin
  <2> QED
    BY <2>2, LoginHolds, SaneNow
<1>3. Counts(rows'[a]) /\ Windows(rows'[a], <<>>)
  BY LockoutAssumption DEF Counts, Windows
<1> QED
  BY <1>1, <1>2, <1>3, NoneNear DEF Right

\* A step that is not a login's.
LEMMA OtherGuess ==
  ASSUME IInv, GuessInv, NoNewLogin, UNCHANGED guesses, now' \in Nat, now <= now',
         lastId' \in Nat, lastId <= lastId', lost \subseteq lost', late \subseteq late',
         \A a \in Admins : KeptCount(a)
  PROVE  GuessInv'
<1>1. \A a \in Admins : a > lastId' => guesses'[a] = <<>>
  BY SaneNow DEF GuessInv
<1>2. ASSUME NEW r \in Requests, IsLogin(req'[r])
      PROVE  req'[r].at <= now' /\ Over(req'[r].row, req'[r].at)
  <2>1. IsLogin(req[r]) /\ req[r].row = req'[r].row /\ req[r].at = req'[r].at
    BY <1>2 DEF NoNewLogin, IsLogin
  <2>2. req[r].at <= now /\ Over(req[r].row, req[r].at) /\ req[r].at \in Nat /\ now \in Nat
    BY <2>1, LoginHolds, SaneNow DEF GuessInv
  <2> QED
    BY <2>1, <2>2
<1>3. ASSUME NEW a \in Admins, Free(a)'
      PROVE  Right(a)'
  <2>1. Free(a) /\ Right(a)
    BY <1>3 DEF Free, GuessInv
  <2>2. KeptCount(a)
    OBVIOUS
  <2>3. CASE rows'[a] # NULL => rows[a] # NULL /\ SameCount(rows[a], rows'[a])
    BY <2>1, <2>3, RightKept
  <2>4. CASE a > lastId /\ rows'[a].fails = 0 /\ rows'[a].first = NULL
    BY <2>4, RightNew
  <2> QED
    BY <2>2, <2>3, <2>4 DEF KeptCount
<1> QED
  BY <1>1, <1>2, <1>3 DEF GuessInv

LEMMA InitGuess == Init => GuessInv
<1> SUFFICES ASSUME Init PROVE GuessInv
  OBVIOUS
<1>1. guesses = [a \in Admins |-> <<>>] /\ rows = InitRows /\ req = [r \in Requests |-> Idle]
  BY DEF Init
<1>2. \A r \in Requests : ~IsLogin(req[r])
  BY <1>1 DEF IsLogin, Idle
<1>3. ASSUME NEW a \in Admins
      PROVE  Right(a)
  <2>1. guesses[a] = <<>>
    BY <1>1
  <2>2. ASSUME rows[a] # NULL
        PROVE  rows[a].fails = 0 /\ rows[a].first = NULL
    BY <1>1, <2>2, InitAssumption DEF Created
  <2> QED
    BY <1>2, <2>1, <2>2, NoneNear, LockoutAssumption DEF Right, Counts, Windows
<1> QED
  BY <1>1, <1>2, <1>3 DEF GuessInv

-----------------------------------------------------------------------------
(* The steps of a login. *)

LEMMA BeginLoginGuess ==
  ASSUME IInv, GuessInv, NEW r \in Requests, NEW a \in Admins, NEW pw, BeginLogin(r, a, pw)
  PROVE  GuessInv'
<1> DEFINE q == [Idle EXCEPT !.pc = "commit", !.kind = "login", !.admin = a,
                             !.row = rows[a], !.arg = pw, !.at = now]
<1>1. /\ q.row = rows[a] /\ q.at = now /\ q.admin = a /\ IsLogin(q)
      /\ req' = [req EXCEPT ![r] = q] /\ ~Locked(rows[a]) /\ rows[a] # NULL
      /\ UNCHANGED <<rows, lastId, now, lost, guesses, late>>
  BY DEF BeginLogin, Open, Idle, IsLogin, Active
<1>2. \A s \in Requests : req'[s] = IF s = r THEN q ELSE req[s]
  BY <1>1 DEF IInv, Types
<1> HIDE DEF q
<1>3. rows[a] \in Row /\ now \in Nat
  BY <1>1 DEF IInv, Types
<1>4. Over(rows[a], now)
  BY <1>1, <1>3, RowFields DEF Locked, Over
<1>5. ASSUME NEW s \in Requests, IsLogin(req'[s])
      PROVE  req'[s].at <= now' /\ Over(req'[s].row, req'[s].at)
  BY <1>1, <1>2, <1>3, <1>4, <1>5 DEF GuessInv
<1>6. ASSUME NEW b \in Admins, Free(b)'
      PROVE  Right(b)'
  <2>1. Right(b)
    BY <1>1, <1>6 DEF Free, GuessInv
  <2>2. ASSUME rows[b] # NULL, NEW s \in Requests, IsLogin(req'[s]), req'[s].admin = b
        PROVE  Begun(req'[s], rows[b], guesses[b])
    <3>1. CASE s = r
      <4>1. b = a /\ req'[s] = q
        BY <1>1, <1>2, <2>2, <3>1
      <4>2. Agrees(q.row, rows[a]) /\ Over(rows[a], q.at) /\ Counts(q.row)
        BY <1>1, <1>4, <2>1, <4>1 DEF Agrees, Right
      <4>3. \A i \in DOMAIN guesses[a] : guesses[a][i] <= q.at
        BY <1>1, <2>1, <4>1 DEF Right
      <4> QED
        BY <4>1, <4>2, <4>3 DEF Begun
    <3>2. CASE s # r
      BY <1>2, <2>1, <2>2, <3>2 DEF Right
    <3> QED
      BY <3>1, <3>2
  <2>3. \A row : Locked(row)' <=> Locked(row)
    BY <1>1 DEF Locked
  <2> QED
    BY <1>1, <2>1, <2>2, <2>3 DEF Right
<1> QED
  BY <1>1, <1>5, <1>6 DEF GuessInv

\* The logins that a request leaves behind when it ends.
LEMMA LeftLogins ==
  ASSUME IInv, NEW r \in Requests, NEW o, Close(r, o), NEW s \in Requests, IsLogin(req'[s])
  PROVE  /\ s # r /\ IsLogin(req[s]) /\ req'[s].row = req[s].row /\ req'[s].at = req[s].at
         /\ req'[s].admin = req[s].admin /\ req'[s].fresh \in BOOLEAN
         /\ req'[s].fresh => req[s].fresh /\ s \notin o
<1>1. req[s] \in Request
  BY DEF IInv, Types
<1>2. Idle.pc = "idle"
  BY DEF Idle
<1>3. s # r /\ req'[s] = IF s \in o THEN [req[s] EXCEPT !.fresh = FALSE] ELSE req[s]
  BY <1>2 DEF Close, IsLogin
<1> QED
  BY <1>1, <1>3 DEF Request, IsLogin

\* What is left to show of a login's answer: the account that it is about.
LEMMA AnsweredGuess ==
  ASSUME IInv, GuessInv, NEW r \in Requests, NEW o, Close(r, o), IsLogin(req[r]),
         NEW a \in Admins, req[r].admin = a,
         NEW h \in Seq(Nat), guesses' = [guesses EXCEPT ![a] = h],
         \A b \in Admins : b # a => rows'[b] = rows[b],
         UNCHANGED <<lastId, now>>, lost \subseteq lost', late \subseteq late',
         Free(a)' => Right(a)'
  PROVE  GuessInv'
<1>1. a <= lastId /\ now \in Nat /\ lastId \in Nat /\ a \in Nat
  BY LoginHolds, SaneNow
<1>2. /\ guesses' \in [Admins -> Seq(Nat)] /\ guesses'[a] = h
      /\ \A b \in Admins : b # a => guesses'[b] = guesses[b]
  BY <1>1 DEF GuessInv
<1>3. NoNewLogin
  BY ClosedLogins
<1>4. \A b \in Admins : b > lastId' => guesses'[b] = <<>>
  BY <1>1, <1>2, SaneNow DEF GuessInv
<1>5. ASSUME NEW s \in Requests, IsLogin(req'[s])
      PROVE  req'[s].at <= now' /\ Over(req'[s].row, req'[s].at)
  <2>1. IsLogin(req[s]) /\ req'[s].row = req[s].row /\ req'[s].at = req[s].at
    BY <1>5, LeftLogins
  <2> QED
    BY <2>1 DEF GuessInv
<1>6. ASSUME NEW b \in Admins, b # a, Free(b)'
      PROVE  Right(b)'
  <2>1. Right(b)
    BY <1>6 DEF Free, GuessInv
  <2>2. rows'[b] = rows[b] /\ SameCount(rows[b], rows'[b])
    BY <1>6 DEF SameCount
  <2> QED
    BY <1>1, <1>2, <1>3, <1>6, <2>1, <2>2, RightKept
<1>7. \A b \in Admins : Free(b)' => Right(b)'
  BY <1>6
<1> QED
  BY <1>2, <1>4, <1>5, <1>7 DEF GuessInv

\* The logins of the account that are left have read a count that has ended.
LEMMA LeftLate ==
  ASSUME IInv, NEW r \in Requests, NEW a, Close(r, Logins(a)), NEW s \in Requests,
         IsLogin(req'[s]), req'[s].admin = a
  PROVE  ~req'[s].fresh
<1>1. IsLogin(req[s]) /\ req[s].admin = a /\ (req'[s].fresh => s \notin Logins(a))
  BY LeftLogins
<1> QED
  BY <1>1 DEF Logins, IsLogin

LEMMA LoginSucceedsGuess ==
  ASSUME IInv, GuessInv, NEW r \in Requests, LoginSucceeds(r)
  PROVE  GuessInv'
<1>1. PICK a \in Admins : a = req[r].admin
  BY LoginHolds DEF LoginSucceeds, IsLogin
<1>2. PICK old \in Row : old = req[r].row
  BY LoginHolds DEF LoginSucceeds, IsLogin
<1> DEFINE new == [old EXCEPT !.fails = 0, !.first = NULL, !.until = NULL]
<1>3. /\ new \in Row /\ new.fails = 0 /\ new.first = NULL /\ new.until = NULL
      /\ new.ver = old.ver /\ new.pw = old.pw
  BY DEF Row
<1>4. /\ IsLogin(req[r]) /\ Save(a, old, new) /\ guesses' = [guesses EXCEPT ![a] = <<>>]
      /\ Close(r, Logins(a)) /\ UNCHANGED <<lastId, now, late>>
  BY <1>1, <1>2 DEF LoginSucceeds, IsLogin
<1> HIDE DEF new
<1>5. /\ rows \in [Admins -> Row \cup {NULL}] /\ guesses \in [Admins -> Seq(Nat)]
      /\ now \in Nat
  BY DEF IInv, Types, GuessInv
<1>6. /\ \A b \in Admins : b # a => rows'[b] = rows[b]
      /\ rows'[a] # NULL =>
           rows[a] # NULL /\ (rows'[a] = rows[a] \/ rows'[a] = Written(rows[a], old, new))
      /\ lost \subseteq lost'
  BY <1>4, <1>5 DEF Save
<1>7. ASSUME Free(a)'
      PROVE  Right(a)'
  <2>1. Right(a) /\ guesses'[a] = <<>>
    BY <1>4, <1>5, <1>6, <1>7 DEF Free, GuessInv
  <2>2. ASSUME rows'[a] # NULL
        PROVE  /\ Counts(rows'[a]) /\ Windows(rows'[a], <<>>)
               /\ rows'[a].first # NULL => rows'[a].first <= now
               /\ \A s \in Requests :
                    IsLogin(req'[s]) /\ req'[s].admin = a => Begun(req'[s], rows'[a], <<>>)
    <3>1. rows[a] \in Row /\ rows[a] # NULL /\ Counts(rows[a])
      BY <1>5, <1>6, <2>1, <2>2 DEF Right
    <3>2. Counts(old)
      BY <1>1, <1>2, <1>4, <2>1, <3>1 DEF Right, Begun
    <3>3. /\ rows'[a] \in Row /\ Counts(rows'[a])
          /\ rows'[a].first # NULL => rows'[a].first = rows[a].first
      <4>1. CASE rows'[a] = rows[a]
        BY <3>1, <4>1
      <4>2. CASE rows'[a] = Written(rows[a], old, new)
        <5>1. /\ rows'[a] \in Row
              /\ rows'[a].fails = IF 0 # old.fails THEN 0 ELSE rows[a].fails
              /\ rows'[a].first = IF NULL # old.first THEN NULL ELSE rows[a].first
          BY <1>3, <3>1, <4>2, WrittenCount
        <5> QED
          BY <3>1, <3>2, <5>1, LockoutAssumption DEF Counts
      <4> QED
        BY <1>6, <2>2, <4>1, <4>2
    <3>4. Windows(rows'[a], <<>>)
      <4>1. CASE rows'[a].first = NULL
        BY <4>1 DEF Windows
      <4>2. CASE rows'[a].first # NULL
        <5>1. rows'[a].fails \in Nat /\ rows'[a].fails # 0
          BY <3>3, <4>2, RowFields DEF Counts
        <5>2. Continued(rows'[a], <<>>, 0)
          BY <5>1 DEF Continued
        <5> QED
          BY <4>2, <5>2 DEF Windows
      <4> QED
        BY <4>1, <4>2
    <3>5. rows'[a].first # NULL => rows'[a].first <= now
      BY <2>1, <3>1, <3>3 DEF Right
    <3>6. ASSUME NEW s \in Requests, IsLogin(req'[s]), req'[s].admin = a
          PROVE  Begun(req'[s], rows'[a], <<>>)
      <4>1. IsLogin(req[s]) /\ req[s].admin = a /\ req'[s].row = req[s].row
        BY <1>4, <3>6, LeftLogins
      <4>2. ~req'[s].fresh
        BY <1>4, <3>6, LeftLate
      <4>3. Counts(req[s].row)
        BY <2>1, <3>1, <4>1 DEF Right, Begun
      <4> QED
        BY <4>1, <4>2, <4>3 DEF Begun
    <3> QED
      BY <3>3, <3>4, <3>5, <3>6
  <2>3. now' = now
    BY <1>4
  <2> QED
    BY <2>1, <2>2, <2>3, NoneNear DEF Right
<1>8. <<>> \in Seq(Nat) /\ late \subseteq late'
  BY <1>4
<1> QED
  BY <1>1, <1>4, <1>6, <1>7, <1>8, AnsweredGuess

\* What a failure writes is never what there was.
LEMMA FailedChanges ==
  ASSUME NEW old \in Row, NEW at \in Nat, Over(old, at)
  PROVE  Failed(old, at) # old
<1> DEFINE new == Failed(old, at)
<1>1. /\ old.fails \in Nat /\ old.first \in Nat \cup {NULL} /\ old.until \in Nat \cup {NULL}
      /\ NULL \notin Nat /\ Window \in Nat /\ Duration \in Nat /\ Duration > Window
  BY RowFields, LockoutAssumption
<1>2. CASE Locks(old, at)
  <2>1. new.until = at + Duration
    BY <1>2, FailedCount
  <2> QED
    BY <1>1, <2>1 DEF Over
<1>3. CASE ~Locks(old, at)
  <2> DEFINE starts == old.first = NULL \/ at > old.first + Window
  <2>1. /\ new.fails = IF starts THEN 1 ELSE old.fails + 1
        /\ new.first = IF starts THEN at ELSE old.first
    BY <1>3, FailedCount
  <2> HIDE DEF new
  <2>2. CASE starts
    BY <1>1, <2>1, <2>2 DEF new
  <2>3. CASE ~starts
    BY <1>1, <2>1, <2>3 DEF new
  <2> QED
    BY <2>2, <2>3
<1> QED
  BY <1>2, <1>3

\* A fresh login that is left, when another one's failure has been counted.
LEMMA FreshBehind ==
  ASSUME NEW s, NEW row \in Row, NEW g, s.row \in Row, Begun(s, row, g), s.fresh,
         NEW row2 \in Row, row2.until = row.until,
         \/ row.first # NULL /\ row2.first = row.first /\ row2.fails = row.fails + 1
         \/ /\ row2.first \in Nat
            /\ row.first # NULL => row.first < row2.first
  PROVE  \A h : Begun(s, row2, h)
<1>1. /\ row.fails \in Nat /\ row.first \in Nat \cup {NULL} /\ row2.fails \in Nat
      /\ s.row.fails \in Nat /\ s.row.first \in Nat \cup {NULL} /\ row2.first \in Nat \cup {NULL}
      /\ NULL \notin Nat
  BY RowFields
<1>2. Agrees(s.row, row) \/ Behind(s.row, row)
  BY DEF Begun
<1>3. Behind(s.row, row2)
  BY <1>1, <1>2 DEF Agrees, Behind
<1>4. Over(row2, s.at)
  BY DEF Begun, Over
<1> QED
  BY <1>3, <1>4 DEF Begun

\* A failure that is answered under a lock: it counts, but is nobody's guess.
LEMMA UnderLockRight ==
  ASSUME IInv, GuessInv, NEW r \in Requests, NEW o, Close(r, o), IsLogin(req[r]),
         NEW a \in Admins, req[r].admin = a, Right(a), rows[a] # NULL, Locked(rows[a]),
         rows'[a] = Written(rows[a], req[r].row, Failed(req[r].row, req[r].at)),
         Unlost(req[r].row, rows[a], Failed(req[r].row, req[r].at)),
         guesses' = guesses, now' = now
  PROVE  Right(a)'
<1> DEFINE old == req[r].row
           at == req[r].at
           row == rows[a]
           row2 == rows'[a]
           g == guesses[a]
<1>1. /\ old \in Row /\ at \in Nat /\ row \in Row /\ g \in Seq(Nat) /\ now \in Nat
      /\ at <= now /\ Over(old, at) /\ NULL \notin Nat
      /\ row.until \in Nat /\ row.until > now
  <2>1. rows[a] \in Row /\ now \in Nat
    BY DEF IInv, Types
  <2> QED
    BY <2>1, LoginHolds, RowFields DEF GuessInv, Locked
<1>2. /\ Counts(row) /\ (row.first # NULL => row.first <= now)
      /\ \A i \in DOMAIN g : Past(row, g[i])
      /\ \A s \in Requests : IsLogin(req[s]) /\ req[s].admin = a => Begun(req[s], row, g)
  BY DEF Right
<1>3. Counts(old)
  BY <1>2 DEF Begun
<1> HIDE DEF old, at, row, row2, g
<1>4. /\ row2 \in Row /\ Counts(row2)
      /\ \/ row.until = old.until
         \/ row2.first = row.first /\ row.first # NULL /\ row2.until = row.until
         \/ row2.first = at /\ row2.until = row.until
  <2> DEFINE w == Written(row, old, Failed(old, at))
  <2>1. row2 = w /\ Unlost(old, row, Failed(old, at))
    BY DEF old, at, row, row2
  <2> QED
    BY <1>1, <1>2, <1>3, <2>1, WrittenFailed
<1>5. row.until # old.until
  BY <1>1 DEF Over
<1>6. row2.first # NULL /\ row2.first <= now /\ row2.until = row.until
  BY <1>1, <1>2, <1>4, <1>5
<1>7. Windows(row2, g) /\ \A i \in DOMAIN g : Past(row2, g[i])
  <2>1. row2.fails > 0
    BY <1>4, <1>6, RowFields DEF Counts
  <2>2. \A i \in DOMAIN g : Past(row2, g[i])
    BY <1>2, <1>6 DEF Past
  <2> QED
    BY <1>1, <1>2, <1>4, <1>6, <2>1, <2>2, WindowUnderLock
<1>8. ASSUME NEW s \in Requests, IsLogin(req'[s]), req'[s].admin = a
      PROVE  Begun(req'[s], row2, g)
  <2>1. /\ IsLogin(req[s]) /\ req[s].admin = a /\ req'[s].row = req[s].row
        /\ req'[s].fresh => req[s].fresh
    BY <1>8, LeftLogins
  <2>2. Begun(req[s], row, g) /\ req[s].at \in Nat /\ req[s].at <= now
    BY <1>2, <2>1, LoginHolds DEF GuessInv
  <2>3. ~Over(row, req[s].at)
    BY <1>1, <2>2 DEF Over
  <2> QED
    BY <2>1, <2>2, <2>3 DEF Begun
<1>9. Bound(g, now) /\ \A i \in DOMAIN g : g[i] <= now
  BY DEF Right, g
<1> QED
  BY <1>4, <1>6, <1>7, <1>8, <1>9 DEF Right, row2, g

\* A failure that is a guess.
LEMMA GuessRight ==
  ASSUME IInv, GuessInv, NEW r \in Requests, IsLogin(req[r]),
         NEW a \in Admins, req[r].admin = a, Right(a), rows[a] # NULL, ~Locked(rows[a]),
         req[r].fresh,
         Close(r, IF Locks(req[r].row, req[r].at) THEN Logins(a) ELSE {}),
         rows'[a] = Written(rows[a], req[r].row, Failed(req[r].row, req[r].at)),
         Unlost(req[r].row, rows[a], Failed(req[r].row, req[r].at)),
         guesses'[a] = Append(guesses[a], req[r].at), now' = now
  PROVE  Right(a)'
<1> DEFINE old == req[r].row
           at == req[r].at
           row == rows[a]
           row2 == rows'[a]
           g == guesses[a]
           h == Append(g, at)
<1>1. /\ old \in Row /\ at \in Nat /\ row \in Row /\ g \in Seq(Nat) /\ now \in Nat
      /\ at <= now /\ Over(old, at) /\ NULL \notin Nat /\ MaxFails \in Nat
      /\ old.fails \in Nat /\ row.fails \in Nat
      /\ old.first \in Nat \cup {NULL} /\ row.first \in Nat \cup {NULL}
  <2>1. rows[a] \in Row /\ now \in Nat
    BY DEF IInv, Types
  <2> QED
    BY <2>1, LoginHolds, RowFields, LockoutAssumption DEF GuessInv
<1>2. /\ Counts(row) /\ Windows(row, g) /\ (row.first # NULL => row.first <= now)
      /\ \A i \in DOMAIN g : g[i] <= now
      /\ \A s \in Requests : IsLogin(req[s]) /\ req[s].admin = a => Begun(req[s], row, g)
  BY DEF Right
<1>3. /\ Counts(old) /\ Over(row, at)
      /\ (Agrees(old, row) /\ \A i \in DOMAIN g : g[i] <= at) \/ Behind(old, row)
  BY <1>2 DEF Begun
<1>4. Over(row, now)
  BY <1>1, RowFields DEF Over, Locked
<1> HIDE DEF old, at, row, row2, g, h
<1>5. Bound(h, now)
  BY <1>1, <1>2, <1>4, CountedBound DEF h
<1>6. \A i \in DOMAIN h : h[i] <= now
  BY <1>1, <1>2 DEF h
<1>7. /\ row2 \in Row /\ Counts(row2)
      /\ \/ /\ Locks(old, at) /\ Agrees(old, row)
            /\ row2.first = NULL /\ row2.until = at + Duration
         \/ /\ ~Locks(old, at) /\ old.first # NULL /\ at <= old.first + Window
            /\ row.first # NULL /\ row2.fails = row.fails + 1
            /\ row2.first = row.first /\ row2.until = row.until
         \/ /\ ~Locks(old, at)
            /\ old.first = NULL \/ at > old.first + Window
            /\ row.first = old.first /\ row2.fails > 0 /\ row2.first = at
            /\ row2.until = row.until
  <2> DEFINE w == Written(row, old, Failed(old, at))
  <2>1. row2 = w /\ Unlost(old, row, Failed(old, at))
    BY DEF old, at, row, row2
  <2> QED
    BY <1>1, <1>2, <1>3, <2>1, WrittenFailed
<1>8. SUFFICES /\ Windows(row2, h)
               /\ row2.first # NULL => row2.first <= now
               /\ Locked(row2) => \A i \in DOMAIN h : Past(row2, h[i])
               /\ \A s \in Requests :
                    IsLogin(req'[s]) /\ req'[s].admin = a => Begun(req'[s], row2, h)
  BY <1>5, <1>6, <1>7 DEF Right, Locked, row2, h, g, at
<1>9. ASSUME NEW s \in Requests, IsLogin(req'[s]), req'[s].admin = a
      PROVE  /\ req'[s].row \in Row /\ Begun(req[s], row, g) /\ Counts(req'[s].row)
             /\ req[s].row = req'[s].row /\ req[s].at = req'[s].at
             /\ req'[s].fresh => req[s].fresh /\ ~Locks(old, at)
  <2>1. PICK o : Close(r, o) /\ (Locks(old, at) => o = Logins(a))
    BY DEF old, at
  <2>2. /\ IsLogin(req[s]) /\ req[s].admin = a /\ req'[s].row = req[s].row
        /\ req'[s].at = req[s].at /\ (req'[s].fresh => req[s].fresh)
    BY <1>9, <2>1, LeftLogins
  <2>3. Begun(req[s], row, g) /\ req[s].row \in Row
    BY <1>2, <2>2, LoginHolds
  <2>4. Locks(old, at) => ~req'[s].fresh
    BY <1>9, <2>1, LeftLate
  <2> QED
    BY <2>2, <2>3, <2>4 DEF Begun
<1>10. CASE Locks(old, at)
  <2>1. Agrees(old, row) /\ row2.first = NULL /\ row2.until = at + Duration
    BY <1>7, <1>10
  <2>2. \A i \in DOMAIN g : g[i] <= at
    BY <1>1, <1>3, <2>1 DEF Agrees, Behind
  <2>3. Windows(row2, h) /\ \A i \in DOMAIN h : Past(row2, h[i])
    BY <1>1, <1>7, <2>1, <2>2, WindowLocks DEF h
  <2>4. ASSUME NEW s \in Requests, IsLogin(req'[s]), req'[s].admin = a
        PROVE  Begun(req'[s], row2, h)
    BY <1>9, <1>10, <2>4 DEF Begun
  <2> QED
    BY <2>1, <2>3, <2>4
<1>11. ASSUME row2.until = row.until,
              \/ row.first # NULL /\ row2.first = row.first /\ row2.fails = row.fails + 1
              \/ row2.first \in Nat /\ (row.first # NULL => row.first < row2.first)
       PROVE  /\ ~Locked(row2)
              /\ \A s \in Requests :
                   IsLogin(req'[s]) /\ req'[s].admin = a => Begun(req'[s], row2, h)
  <2>1. ~Locked(row2)
    BY <1>11 DEF Locked, row
  <2>2. ASSUME NEW s \in Requests, IsLogin(req'[s]), req'[s].admin = a
        PROVE  Begun(req'[s], row2, h)
    <3>1. /\ req'[s].row \in Row /\ Begun(req[s], row, g) /\ Counts(req'[s].row)
          /\ req[s].row = req'[s].row /\ req[s].at = req'[s].at
          /\ req'[s].fresh => req[s].fresh
      BY <1>9, <2>2
    <3>2. CASE ~req'[s].fresh
      BY <3>1, <3>2 DEF Begun
    <3>3. CASE req[s].fresh
      <4>1. Begun(req[s], row2, h)
        BY <1>1, <1>7, <1>11, <3>1, <3>3, FreshBehind
      <4> QED
        BY <3>1, <4>1 DEF Begun
    <3> QED
      BY <3>1, <3>2, <3>3
  <2> QED
    BY <2>1, <2>2
<1>12. CASE /\ old.first # NULL /\ at <= old.first + Window
            /\ row.first # NULL /\ row2.fails = row.fails + 1
            /\ row2.first = row.first /\ row2.until = row.until
  <2>1. old.first <= row.first
    BY <1>1, <1>3, <1>12 DEF Agrees, Behind
  <2>2. Window \in Nat
    BY LockoutAssumption
  <2>3. at <= row.first + Window
    BY <1>1, <1>12, <2>1, <2>2
  <2>4. Windows(row2, h)
    BY <1>1, <1>2, <1>7, <1>12, <2>3, WindowGoesOn DEF h
  <2> QED
    BY <1>2, <1>11, <1>12, <2>4
<1>13. CASE /\ old.first = NULL \/ at > old.first + Window
            /\ row.first = old.first /\ row2.fails > 0 /\ row2.first = at
            /\ row2.until = row.until
  <2>1. Window \in Nat
    BY LockoutAssumption
  <2>2. row.first # NULL => at > row.first + Window
    BY <1>13
  <2>3. Windows(row2, h)
    BY <1>1, <1>2, <1>3, <1>7, <1>13, <2>2, WindowStarts DEF h
  <2>4. row.first # NULL => row.first < row2.first
    BY <1>1, <1>13, <2>1, <2>2
  <2> QED
    BY <1>1, <1>11, <1>13, <2>3, <2>4
<1> QED
  BY <1>7, <1>10, <1>12, <1>13

LEMMA LoginFailsGuess ==
  ASSUME IInv, GuessInv, NEW r \in Requests, LoginFails(r)
  PROVE  GuessInv'
<1>1. PICK a \in Admins : a = req[r].admin
  BY LoginHolds DEF LoginFails, IsLogin
<1>2. PICK old \in Row, at \in Nat : old = req[r].row /\ at = req[r].at
  BY LoginHolds DEF LoginFails, IsLogin
<1>3. PICK new : new = Failed(old, at)
  OBVIOUS
<1>4. /\ IsLogin(req[r]) /\ Save(a, old, new) /\ UNCHANGED <<lastId, now>>
      /\ IF Locked(rows[a]) THEN UNCHANGED <<guesses, late>>
         ELSE /\ guesses' = [guesses EXCEPT ![a] = Append(@, at)]
              /\ late' = IF req[r].fresh THEN late ELSE late \cup {a}
      /\ Close(r, IF Locks(old, at) THEN Logins(a) ELSE {})
  BY <1>1, <1>2, <1>3 DEF LoginFails, IsLogin
<1>5. PICK o : Close(r, o)
  BY <1>4
<1>6. /\ rows \in [Admins -> Row \cup {NULL}] /\ guesses \in [Admins -> Seq(Nat)]
      /\ now \in Nat
  BY DEF IInv, Types, GuessInv
<1>7. Over(old, at)
  BY <1>2, <1>4 DEF GuessInv
<1>8. /\ rows[a] # NULL /\ rows' = [rows EXCEPT ![a] = Written(@, old, new)]
      /\ lost' = lost \cup Overwritten(a, old, new)
  BY <1>3, <1>4, <1>7, FailedChanges DEF Save
<1>9. /\ rows'[a] = Written(rows[a], old, new)
      /\ \A b \in Admins : b # a => rows'[b] = rows[b]
  BY <1>6, <1>8
<1>10. PICK h \in Seq(Nat) :
         /\ guesses' = [guesses EXCEPT ![a] = h]
         /\ h = IF Locked(rows[a]) THEN guesses[a] ELSE Append(guesses[a], at)
  <2>1. CASE Locked(rows[a])
    <3>1. guesses' = [guesses EXCEPT ![a] = guesses[a]] /\ guesses[a] \in Seq(Nat)
      BY <1>4, <1>6, <2>1
    <3> QED
      BY <2>1, <3>1
  <2>2. CASE ~Locked(rows[a])
    <3>1. guesses' = [guesses EXCEPT ![a] = Append(guesses[a], at)]
      BY <1>4, <2>2
    <3>2. Append(guesses[a], at) \in Seq(Nat)
      BY <1>6
    <3> QED
      BY <2>2, <3>1, <3>2
  <2> QED
    BY <2>1, <2>2
<1>11. lost \subseteq lost' /\ late \subseteq late'
  BY <1>4, <1>8
<1>12. ASSUME Free(a)'
       PROVE  Right(a)'
  <2>1. Free(a) /\ Right(a)
    BY <1>11, <1>12 DEF Free, GuessInv
  <2>2. Unlost(old, rows[a], new)
    <3>1. \A c \in {"fails", "first", "until"} : <<a, c>> \notin Overwritten(a, old, new)
      BY <1>8, <1>12 DEF Free
    <3> QED
      BY <3>1 DEF Overwritten, Columns, Unlost
  <2>3. CASE Locked(rows[a])
    BY <1>1, <1>2, <1>3, <1>4, <1>5, <1>8, <1>9, <2>1, <2>2, <2>3, UnderLockRight
  <2>4. CASE ~Locked(rows[a])
    <3>1. req[r].fresh
      BY <1>4, <1>12, <2>4 DEF Free
    <3>2. guesses'[a] = Append(guesses[a], at)
      BY <1>6, <1>10, <2>4
    <3> QED
      BY <1>1, <1>2, <1>3, <1>4, <1>8, <1>9, <2>1, <2>2, <2>4, <3>1, <3>2, GuessRight
  <2> QED
    BY <2>3, <2>4
<1> QED
  BY <1>1, <1>4, <1>5, <1>9, <1>10, <1>11, <1>12, AnsweredGuess

-----------------------------------------------------------------------------
(* The other steps. *)

LEMMA SameRowsKept ==
  ASSUME rows' = rows
  PROVE  \A a \in Admins : KeptCount(a)
BY DEF KeptCount, SameCount

\* An account is deleted, or one is added under an id that none has.
LEMMA OneRowKept ==
  ASSUME IInv, NEW a, NEW row, rows' = [rows EXCEPT ![a] = row],
         \/ row = NULL
         \/ a = lastId + 1 /\ row.fails = 0 /\ row.first = NULL /\ row.until = NULL
  PROVE  \A b \in Admins : KeptCount(b)
<1> SUFFICES ASSUME NEW b \in Admins PROVE KeptCount(b)
  OBVIOUS
<1>1. rows \in [Admins -> Row \cup {NULL}] /\ lastId \in Nat
      /\ \A c \in Admins : c > lastId => rows[c] = NULL
  BY DEF IInv, Types
<1>2. CASE b # a
  BY <1>1, <1>2 DEF KeptCount, SameCount
<1>3. CASE b = a
  BY <1>1, <1>3 DEF KeptCount
<1> QED
  BY <1>2, <1>3

LEMMA AskedCount ==
  ASSUME NEW body, NEW row \in Row
  PROVE  SameCount(row, Asked(body, row))
<1> DEFINE role == IF body.role = NULL THEN row.role ELSE body.role
           status == IF body.status = NULL THEN row.status ELSE body.status
           pw == IF body.pw = NULL THEN row.pw ELSE body.pw
           ver == IF body.pw = NULL THEN row.ver ELSE row.ver + 1
<1>1. Asked(body, row) = [row EXCEPT !.role = role, !.status = status, !.pw = pw, !.ver = ver]
  BY DEF Asked
<1> HIDE DEF role, status, pw, ver
<1> QED
  BY <1>1 DEF SameCount, Row

LEMMA UpdateKept ==
  ASSUME IInv, NEW r \in Requests, Update(r)
  PROVE  (\A a \in Admins : KeptCount(a)) /\ lost \subseteq lost'
<1> DEFINE a == req[r].admin
           old == req[r].row
           new == Asked(req[r].arg, old)
<1>1. a \in Admins /\ old \in Row /\ req[r].arg \in Body
  BY DEF Update, IInv, Sound, Held
<1>2. new \in Row /\ SameCount(old, new)
  BY <1>1, AskedType, AskedCount
<1>3. Save(a, old, new) /\ rows \in [Admins -> Row \cup {NULL}]
  BY DEF Update, IInv, Types
<1> HIDE DEF a, old, new
<1>4. CASE rows' = rows /\ lost' = lost
  BY <1>4, SameRowsKept
<1>5. CASE /\ rows[a] # NULL /\ rows' = [rows EXCEPT ![a] = Written(@, old, new)]
           /\ lost' = lost \cup Overwritten(a, old, new)
  <2>1. rows[a] \in Row /\ rows'[a] = Written(rows[a], old, new)
        /\ \A b \in Admins : b # a => rows'[b] = rows[b]
    BY <1>1, <1>3, <1>5
  <2>2. SameCount(rows[a], rows'[a])
    BY <1>1, <1>2, <2>1, WrittenCount DEF SameCount
  <2> QED
    BY <1>5, <2>1, <2>2 DEF KeptCount, SameCount
<1> QED
  BY <1>3, <1>4, <1>5 DEF Save

LEMMA StepGuess ==
  ASSUME IInv, IInv', GuessInv, [Next]_vars
  PROVE  GuessInv'
<1>1. /\ now \in Nat /\ lastId \in Nat /\ now' \in Nat /\ lastId' \in Nat
      /\ now <= now /\ lastId <= lastId
  BY SaneNow DEF IInv, Types
<1>2. CASE /\ NoNewLogin /\ UNCHANGED <<guesses, late, now, lastId>>
           /\ lost \subseteq lost' /\ \A a \in Admins : KeptCount(a)
  BY <1>1, <1>2, OtherGuess
<1>3. CASE NoNewLogin /\ UNCHANGED <<guesses, late, now, lastId, lost, rows>>
  BY <1>2, <1>3, SameRowsKept
<1>4. ASSUME NEW r \in Requests, Login(r)
      PROVE  GuessInv'
  BY <1>4, BeginLoginGuess, LoginSucceedsGuess, LoginFailsGuess DEF Login
<1>5. ASSUME NEW r \in Requests, Tokens(r)
      PROVE  GuessInv'
  <2>1. UNCHANGED <<guesses, late, now, lastId, lost, rows>>
    BY <1>5 DEF Tokens, Validate, BeginLogout, ReadAdmin, Look, Rotate, Logout, Open, Step
  <2>2. NoNewLogin
    <3>1. CASE Rotate(r) \/ Logout(r)
      BY <3>1, ClosedLogins DEF Rotate, Logout
    <3> QED
      BY <1>5, <3>1, OpenedLogins, SteppedLogins DEF Tokens
  <2> QED
    BY <1>3, <2>1, <2>2
<1>6. ASSUME NEW r \in Requests, Accounts(r)
      PROVE  GuessInv'
  <2>1. CASE Update(r)
    <3>1. NoNewLogin /\ UNCHANGED <<guesses, late, now, lastId>>
      BY <2>1, ClosedLogins DEF Update
    <3> QED
      BY <1>2, <2>1, <3>1, UpdateKept
  <2>2. CASE Delete(r)
    <3>1. NoNewLogin /\ UNCHANGED <<guesses, late, now, lastId, lost>>
      BY <2>2, ClosedLogins DEF Delete
    <3>2. \A a \in Admins : KeptCount(a)
      BY <2>2, OneRowKept DEF Delete
    <3> QED
      BY <1>2, <3>1, <3>2
  <2>3. ASSUME NEW p \in PairIds, NEW role \in Roles, NEW pw \in Passwords \cup {NULL},
               Create(r, p, role, pw)
        PROVE  GuessInv'
    <3>1. NoNewLogin /\ UNCHANGED <<guesses, late, now, lost>> /\ lastId' = lastId + 1
      BY <2>3 DEF Create, NoNewLogin
    <3>2. \A a \in Admins : KeptCount(a)
      <4>1. rows' = [rows EXCEPT ![lastId + 1] = NewRow(role, pw)]
        BY <2>3 DEF Create
      <4> QED
        BY <4>1, OneRowKept DEF NewRow
    <3> QED
      BY <1>1, <3>1, <3>2, OtherGuess
  <2>4. CASE \/ ReadTarget(r) \/ GuardLastAdmin(r)
             \/ \E p \in PairIds, pw \in Passwords : BeginPassword(r, p, pw)
             \/ \E p \in PairIds, a \in Admins, body \in Bodies :
                  BeginManage(r, p, "update", a, body)
             \/ \E p \in PairIds, a \in Admins : BeginDelete(r, p, a)
    <3>1. UNCHANGED <<guesses, late, now, lastId, lost, rows>>
      BY <2>4 DEF ReadTarget, GuardLastAdmin, BeginPassword, BeginManage, BeginDelete, Open, Step
    <3>2. NoNewLogin
      <4>1. CASE \E p \in PairIds, a \in Admins : BeginDelete(r, p, a)
        BY <4>1, OpenedLogins DEF BeginDelete
      <4>2. CASE \E p \in PairIds, a \in Admins, body \in Bodies :
                   BeginManage(r, p, "update", a, body)
        BY <4>2, OpenedLogins
      <4> QED
        BY <2>4, <4>1, <4>2, OpenedLogins, SteppedLogins
    <3> QED
      BY <1>3, <3>1, <3>2
  <2> QED
    BY <1>6, <2>1, <2>2, <2>3, <2>4 DEF Accounts
<1>7. CASE Restart
  <2>1. NoNewLogin /\ UNCHANGED <<guesses, late, now, lost>>
    BY <1>7 DEF Restart, Idle, NoNewLogin
  <2>2. CASE UNCHANGED <<rows, lastId>>
    BY <1>3, <2>1, <2>2
  <2>3. CASE /\ rows' = [rows EXCEPT ![lastId + 1] = NewRow("admin", BootstrapPassword)]
             /\ lastId' = lastId + 1
    <3>1. \A a \in Admins : KeptCount(a)
      BY <2>3, OneRowKept DEF NewRow
    <3> QED
      BY <1>1, <2>1, <2>3, <3>1, OtherGuess
  <2> QED
    BY <1>7, <2>2, <2>3 DEF Restart
<1>8. CASE Tick
  <2>1. /\ NoNewLogin /\ UNCHANGED <<guesses, late, lastId, lost, rows>> /\ now <= now'
    BY <1>1, <1>8 DEF Tick, NoNewLogin
  <2> QED
    BY <1>1, <2>1, SameRowsKept, OtherGuess
<1>9. CASE UNCHANGED vars
  BY <1>3, <1>9 DEF vars, NoNewLogin
<1>10. ASSUME NEW r \in Requests, Abort(r)
       PROVE  GuessInv'
  <2>1. UNCHANGED <<guesses, late, now, lastId, lost, rows>>
    BY <1>10 DEF Abort, Step
  <2> QED
    BY <1>3, <1>10, <2>1, SteppedLogins
<1> QED
  BY <1>4, <1>5, <1>6, <1>7, <1>8, <1>9, <1>10 DEF Next

\* services/auth.py, _register_failure: nobody has more guesses in a stretch of time as
\* long as the window than the two windows that it can touch leave room for, unless a
\* failure is counted that should not be.
THEOREM GuessesFew == Spec => []GuessesBounded
<1>1. GuessInv => GuessesBounded
  BY DEF GuessInv, GuessesBounded, Free, Right, Bound, Near, Recent
<1>2. IInv /\ IInv' /\ GuessInv /\ [Next]_vars => GuessInv'
  BY StepGuess
<1> QED
  BY <1>1, <1>2, InitGuess, Inductive, PTL DEF Spec
=============================================================================
