------------------------- MODULE DirectorySyncProofs -------------------------
(***************************************************************************)
(* Who has left the directory is disabled by every sync that commits, for   *)
(* any accounts, directory, number of overlapping syncs and bounds.         *)
(* LeaversAreDisabled judges one step.  What makes it true is spread over a *)
(* session's life: when it searched, when it read the users, what it has    *)
(* disabled since, and what others may commit meanwhile.                    *)
(***************************************************************************)
EXTENDS DirectorySync, TLAPS

Own == [Accounts -> {NULL, "active", "disabled"}]

Session ==
  [pc: {"idle", "search", "read", "write", "commit"}, since: Nat \cup {NULL},
   listed: SUBSET Accounts, off: SUBSET Accounts, added: SUBSET Accounts,
   disabled: SUBSET Accounts, mine: Own, finished: Nat \cup {NULL},
   left: SUBSET Accounts, reopened: SUBSET Accounts]

\* A leaver is disabled, will be by this session, or was enabled by an operator.
Covered(s, us, a) ==
  a \in s.disabled \/ s.mine[a] = "disabled" \/ us[a] = "disabled" \/ a \in s.reopened

Sound(s, us, time) ==
  /\ s \in Session
  /\ s.pc = "read" => s.left \cap s.listed \subseteq s.off
  /\ s.pc \in {"write", "commit"} =>
       \A a \in s.left : us[a] # NULL /\ (a # BootstrapAdmin => Covered(s, us, a))
  /\ s.pc = "commit" => s.disabled = {} /\ s.finished \in 0..time
  /\ \A a \in Accounts : s.mine[a] = "active" => us[a] = NULL

\* A row lock has one holder.
Exclusive ==
  \A t, u \in Sessions, a \in Accounts :
    sess[t].mine[a] # NULL /\ sess[u].mine[a] # NULL => t = u

Types ==
  /\ directory \in [Accounts -> Entry \cup {NULL}]
  /\ users \in [Accounts -> Statuses \cup {NULL}]
  /\ now \in Nat
  /\ watermark \in (0..now) \cup {NULL}
  /\ sess \in [Sessions -> Session]

IInv ==
  /\ Types
  /\ \A t \in Sessions : Sound(sess[t], users, now)
  /\ Exclusive

-----------------------------------------------------------------------------
(* Lemmas about the operators. *)

LEMMA NullIsNoStatus == NULL \notin Statuses /\ NULL # "active" /\ NULL # "disabled"
BY NullAssumption DEF Statuses

LEMMA IdleSound ==
  ASSUME NEW us, NEW time
  PROVE  Sound(Idle, us, time) /\ \A a \in Accounts : Idle.mine[a] = NULL
<1>1. Idle \in Session
  BY DEF Idle, Session, Own
<1>2. /\ Idle.pc = "idle"
      /\ \A a \in Accounts : Idle.mine[a] = NULL
  BY DEF Idle
<1> QED
  BY <1>1, <1>2, NullIsNoStatus DEF Sound

LEMMA LaterType ==
  ASSUME NEW m, NEW n \in Nat, NEW k \in 0..n, m \in (0..n) \cup {NULL}
  PROVE  (IF m = NULL THEN k ELSE Max({m, k})) \in 0..n
<1>1. CASE m = NULL
  BY <1>1
<1>2. CASE m # NULL
  <2>1. m \in Int /\ k \in Int
    BY <1>2
  <2>2. \E x \in {m, k} : \A y \in {m, k} : x >= y
    BY <2>1
  <2>3. Max({m, k}) \in {m, k}
    BY <2>2 DEF Max
  <2> QED
    BY <1>2, <2>3
<1> QED
  BY <1>1, <1>2

-----------------------------------------------------------------------------
(* The shapes that the steps have. *)

\* A session goes on.  It takes no row that another one holds.
LEMMA SessionGoesOn ==
  ASSUME IInv, NEW t \in Sessions, NEW s, Sound(s, users, now),
         \A a \in Accounts : s.mine[a] = NULL \/ sess[t].mine[a] # NULL \/ Holders(t, a) = {},
         sess' = [sess EXCEPT ![t] = s],
         UNCHANGED <<directory, users, watermark, now>>
  PROVE  IInv'
<1>1. sess' \in [Sessions -> Session] /\ s \in Session
  BY DEF IInv, Types, Sound
<1>2. sess'[t] = s /\ \A u \in Sessions \ {t} : sess'[u] = sess[u]
  BY DEF IInv, Types
<1>3. \A u \in Sessions : Sound(sess'[u], users, now)
  BY <1>2 DEF IInv
<1>4. \A u \in Sessions \ {t}, a \in Accounts : sess[u].mine[a] # NULL => s.mine[a] = NULL
  <2> SUFFICES ASSUME NEW u \in Sessions \ {t}, NEW a \in Accounts, sess[u].mine[a] # NULL
               PROVE  s.mine[a] = NULL
    OBVIOUS
  <2>1. u \in Holders(t, a)
    BY DEF Holders
  <2>2. sess[t].mine[a] = NULL
    BY DEF IInv, Exclusive
  <2> QED
    BY <2>1, <2>2
<1>5. Exclusive'
  BY <1>2, <1>4 DEF Exclusive, IInv
<1> QED
  BY <1>1, <1>3, <1>5 DEF IInv, Types

\* What other sessions commit, and what operators do, to the status of a user.
Gentle(us, us2) ==
  \A a \in Accounts : /\ us[a] # NULL => us2[a] # NULL
                      /\ us[a] = "disabled" => us2[a] = "disabled"

LEMMA SoundKept ==
  ASSUME NEW s, NEW us, NEW us2, NEW time \in Nat, NEW time2 \in Nat, time <= time2,
         Sound(s, us, time), Gentle(us, us2),
         \A a \in Accounts : s.mine[a] # NULL => us2[a] = us[a]
  PROVE  Sound(s, us2, time2)
<1>1. s \in Session
  BY DEF Sound
<1>2. s.left \subseteq Accounts
  BY <1>1 DEF Session
<1>3. \A a \in Accounts : s.mine[a] = "active" => us2[a] = NULL
  BY NullIsNoStatus DEF Sound
<1>4. \A a \in Accounts : Covered(s, us, a) => Covered(s, us2, a)
  BY DEF Covered, Gentle
<1>5. s.pc = "commit" => s.finished \in 0..time2
  BY DEF Sound
<1> QED
  BY <1>1, <1>2, <1>3, <1>4, <1>5 DEF Sound, Gentle

-----------------------------------------------------------------------------
(* The steps. *)

LEMMA InitIInv == Init => IInv
<1> SUFFICES ASSUME Init PROVE IInv
  OBVIOUS
<1>1. \A t \in Sessions : /\ sess[t] = Idle
                          /\ Sound(sess[t], users, now)
                          /\ \A a \in Accounts : sess[t].mine[a] = NULL
  BY IdleSound DEF Init
<1>2. Types
  <2>1. sess \in [Sessions -> Session]
    BY <1>1 DEF Init, Sound
  <2>2. directory \in [Accounts -> Entry \cup {NULL}]
    <3>1. [enabled |-> TRUE, whenChanged |-> 0] \in Entry
      BY DEF Entry
    <3> QED
      BY <3>1 DEF Init
  <2>3. users \in [Accounts -> Statuses \cup {NULL}]
    BY DEF Init, Statuses
  <2> QED
    BY <2>1, <2>2, <2>3 DEF Init, Types
<1>3. Exclusive
  BY <1>1 DEF Exclusive
<1> QED
  BY <1>1, <1>2, <1>3 DEF IInv

LEMMA EndStep ==
  ASSUME IInv, NEW t \in Sessions, sess' = [sess EXCEPT ![t] = Idle],
         UNCHANGED <<directory, users, watermark, now>>
  PROVE  IInv'
<1> DEFINE s == Idle
<1>1. Sound(s, users, now) /\ \A a \in Accounts : s.mine[a] = NULL
  BY IdleSound
<1>2. sess' = [sess EXCEPT ![t] = s]
  OBVIOUS
<1>3. \A a \in Accounts : s.mine[a] = NULL \/ sess[t].mine[a] # NULL \/ Holders(t, a) = {}
  BY <1>1
<1> HIDE DEF s
<1> QED
  BY <1>1, <1>2, <1>3, SessionGoesOn

LEMMA StartStep ==
  ASSUME IInv, NEW t \in Sessions, Start(t)
  PROVE  IInv'
<1> DEFINE s == [Idle EXCEPT !.pc = "search", !.since = watermark]
<1>1. Idle \in Session /\ \A a \in Accounts : Idle.mine[a] = NULL
  BY IdleSound DEF Sound
<1>2. watermark \in Nat \cup {NULL}
  BY DEF IInv, Types
<1>3. s \in Session /\ s.pc = "search" /\ \A a \in Accounts : s.mine[a] = NULL
  BY <1>1, <1>2 DEF Session
<1>4. Sound(s, users, now)
  BY <1>3, NullIsNoStatus DEF Sound
<1>5. sess' = [sess EXCEPT ![t] = s] /\ UNCHANGED <<directory, users, watermark, now>>
  BY DEF Start
<1>6. \A a \in Accounts : s.mine[a] = NULL \/ sess[t].mine[a] # NULL \/ Holders(t, a) = {}
  BY <1>3
<1> HIDE DEF s
<1> QED
  BY <1>4, <1>5, <1>6, SessionGoesOn

LEMMA SearchStep ==
  ASSUME IInv, NEW t \in Sessions, NEW refused, Search(t, refused)
  PROVE  IInv'
<1> DEFINE listed == IF refused THEN {} ELSE Matching(sess[t].since)
           off == {a \in listed : ~directory[a].enabled}
           left == {a \in Accounts : ~Enabled(a)}
           s == [sess[t] EXCEPT !.pc = "read", !.since = NULL, !.listed = listed,
                                !.off = off, !.left = left]
<1>1. /\ listed \subseteq Accounts /\ off \subseteq Accounts /\ left \subseteq Accounts
      /\ left \cap listed \subseteq off
  BY DEF Matching, Enabled
<1>2. sess' = [sess EXCEPT ![t] = s] /\ UNCHANGED <<directory, users, watermark, now>>
  BY DEF Search
<1>3. sess[t] \in Session /\ Sound(sess[t], users, now)
  BY DEF IInv, Types
<1> HIDE DEF listed, off, left
<1>4. /\ s \in Session /\ s.pc = "read" /\ s.mine = sess[t].mine
      /\ s.listed = listed /\ s.off = off /\ s.left = left
  BY <1>1, <1>3 DEF Session
<1>5. Sound(s, users, now)
  BY <1>1, <1>3, <1>4 DEF Sound
<1> QED
  BY <1>2, <1>4, <1>5, SessionGoesOn

\* Of those who had no enabled entry, the AD users are disabled already or will be.
LEMMA ReadUsersStep ==
  ASSUME IInv, NEW t \in Sessions, ReadUsers(t)
  PROVE  IInv'
<1> DEFINE q == sess[t]
           left == q.left \cap Known
           added == q.listed \ (q.off \cup Known \cup {BootstrapAdmin})
           disabled == {a \in Gone(q) : users[a] # "disabled"}
           s == [q EXCEPT !.pc = "write", !.left = left, !.added = added, !.disabled = disabled]
<1>1. q \in Session /\ Sound(q, users, now) /\ q.pc = "read"
  BY DEF IInv, Types, ReadUsers
<1>2. /\ left \subseteq Accounts /\ added \subseteq Accounts /\ disabled \subseteq Accounts
      /\ left \subseteq Known
  BY <1>1 DEF Session, Known, Gone
<1>3. \A a \in left \ {BootstrapAdmin} : a \in disabled \/ users[a] = "disabled"
  BY <1>1 DEF Gone, Sound
<1>4. sess' = [sess EXCEPT ![t] = s] /\ UNCHANGED <<directory, users, watermark, now>>
  BY DEF ReadUsers
<1> HIDE DEF left, added, disabled
<1>5. /\ s \in Session /\ s.pc = "write" /\ s.mine = q.mine /\ s.left = left
      /\ s.disabled = disabled
  BY <1>1, <1>2 DEF Session
<1>6. \A a \in left : users[a] # NULL
  BY <1>2 DEF Known
<1>7. Sound(s, users, now)
  BY <1>1, <1>3, <1>5, <1>6 DEF Sound, Covered
<1> QED
  BY <1>4, <1>5, <1>7, SessionGoesOn

LEMMA InsertStep ==
  ASSUME IInv, NEW t \in Sessions, NEW a \in Accounts, Insert(t, a)
  PROVE  IInv'
<1> DEFINE q == sess[t]
           s == [q EXCEPT !.added = @ \ {a}, !.mine[a] = "active"]
<1>1. q \in Session /\ Sound(q, users, now) /\ q.pc = "write"
      /\ Holders(t, a) = {} /\ users[a] = NULL
  BY DEF IInv, Types, Insert
<1>2. /\ s \in Session /\ s.pc = "write" /\ s.mine[a] = "active"
      /\ \A b \in Accounts \ {a} : s.mine[b] = q.mine[b]
      /\ s.left = q.left /\ s.disabled = q.disabled /\ s.reopened = q.reopened
  BY <1>1 DEF Session, Own
<1>3. q.left \subseteq Accounts /\ a \notin q.left
  BY <1>1 DEF Session, Sound
<1>4. Sound(s, users, now)
  BY <1>1, <1>2, <1>3 DEF Sound, Covered
<1>5. sess' = [sess EXCEPT ![t] = s] /\ UNCHANGED <<directory, users, watermark, now>>
  BY DEF Insert
<1>6. \A b \in Accounts : s.mine[b] = NULL \/ sess[t].mine[b] # NULL \/ Holders(t, b) = {}
  BY <1>1, <1>2
<1> HIDE DEF s
<1> QED
  BY <1>4, <1>5, <1>6, SessionGoesOn

LEMMA DisableStep ==
  ASSUME IInv, NEW t \in Sessions, NEW a \in Accounts, Disable(t, a)
  PROVE  IInv'
<1> DEFINE q == sess[t]
           s == [q EXCEPT !.disabled = @ \ {a}, !.mine[a] = "disabled"]
<1>1. q \in Session /\ Sound(q, users, now) /\ q.pc = "write" /\ Holders(t, a) = {}
  BY DEF IInv, Types, Disable
<1>2. /\ s \in Session /\ s.pc = "write" /\ s.mine[a] = "disabled"
      /\ \A b \in Accounts \ {a} : s.mine[b] = q.mine[b]
      /\ s.left = q.left /\ s.disabled = q.disabled \ {a} /\ s.reopened = q.reopened
  BY <1>1 DEF Session, Own
<1>3. q.left \subseteq Accounts
  BY <1>1 DEF Session
<1>4. Sound(s, users, now)
  BY <1>1, <1>2, <1>3 DEF Sound, Covered
<1>5. sess' = [sess EXCEPT ![t] = s] /\ UNCHANGED <<directory, users, watermark, now>>
  BY DEF Disable
<1>6. \A b \in Accounts : s.mine[b] = NULL \/ sess[t].mine[b] # NULL \/ Holders(t, b) = {}
  BY <1>1, <1>2
<1> HIDE DEF s
<1> QED
  BY <1>4, <1>5, <1>6, SessionGoesOn

LEMMA FinishStep ==
  ASSUME IInv, NEW t \in Sessions, Finish(t)
  PROVE  IInv'
<1> DEFINE q == sess[t]
           s == [q EXCEPT !.pc = "commit", !.finished = now, !.listed = {}, !.off = {}]
<1>1. q \in Session /\ Sound(q, users, now) /\ q.pc = "write" /\ q.disabled = {} /\ now \in Nat
  BY DEF IInv, Types, Finish
<1>2. /\ s \in Session /\ s.pc = "commit" /\ s.mine = q.mine /\ s.finished = now
      /\ s.left = q.left /\ s.disabled = {} /\ s.reopened = q.reopened
  BY <1>1 DEF Session
<1>3. now \in 0..now
  BY <1>1
<1>4. Sound(s, users, now)
  BY <1>1, <1>2, <1>3 DEF Sound, Covered
<1>5. sess' = [sess EXCEPT ![t] = s] /\ UNCHANGED <<directory, users, watermark, now>>
  BY DEF Finish
<1>6. \A b \in Accounts : s.mine[b] = NULL \/ sess[t].mine[b] # NULL \/ Holders(t, b) = {}
  BY <1>2
<1> HIDE DEF s
<1> QED
  BY <1>4, <1>5, <1>6, SessionGoesOn

\* The statuses that a session commits are those of nobody else's rows.
LEMMA CommitStep ==
  ASSUME IInv, NEW t \in Sessions, Commit(t)
  PROVE  IInv'
<1> DEFINE q == sess[t]
<1>1. /\ q \in Session /\ Sound(q, users, now) /\ q.pc = "commit"
      /\ users \in [Accounts -> Statuses \cup {NULL}]
      /\ sess \in [Sessions -> Session] /\ now \in Nat
  BY DEF IInv, Types, Commit
<1>2. /\ users' = [a \in Accounts |-> IF q.mine[a] # NULL THEN q.mine[a] ELSE users[a]]
      /\ sess' = [sess EXCEPT ![t] = Idle]
      /\ UNCHANGED <<directory, now>>
      /\ watermark' = IF watermark = NULL THEN q.finished ELSE Max({watermark, q.finished})
  BY DEF Commit
<1>3. users' \in [Accounts -> Statuses \cup {NULL}]
  BY <1>1, <1>2 DEF Session, Own, Statuses
<1>4. watermark' \in 0..now
  BY <1>1, <1>2, LaterType DEF Sound, IInv, Types
<1>5. Gentle(users, users')
  BY <1>1, <1>2, NullIsNoStatus DEF Gentle, Sound, Session, Own
<1>6. ASSUME NEW u \in Sessions \ {t}
      PROVE  Sound(sess[u], users', now)
  <2>1. \A a \in Accounts : sess[u].mine[a] # NULL => users'[a] = users[a]
    BY <1>2 DEF IInv, Exclusive
  <2> QED
    BY <1>1, <1>5, <2>1, SoundKept DEF IInv
<1>7. sess' \in [Sessions -> Session]
  BY <1>1, <1>2, IdleSound DEF Sound
<1>8. sess'[t] = Idle /\ \A u \in Sessions \ {t} : sess'[u] = sess[u]
  BY <1>1, <1>2
<1>9. Exclusive'
  BY <1>8, IdleSound DEF Exclusive, IInv
<1>10. \A u \in Sessions : Sound(sess'[u], users', now')
  BY <1>2, <1>6, <1>8, IdleSound
<1> QED
  BY <1>2, <1>3, <1>4, <1>7, <1>9, <1>10 DEF IInv, Types

LEMMA ChangeStep ==
  ASSUME IInv, NEW a \in Accounts, Join(a) \/ Leave(a)
  PROVE  IInv'
<1>1. PICK entry \in Entry \cup {NULL} : Change(a, entry)
  BY DEF Join, Leave, Entry, IInv, Types
<1>2. directory' \in [Accounts -> Entry \cup {NULL}]
  BY <1>1 DEF Change, IInv, Types
<1> QED
  BY <1>1, <1>2 DEF Change, IInv, Types, Exclusive

\* An operator's write waits for every session that holds the row.
LEMMA SetStatusKept ==
  ASSUME IInv, NEW a \in Accounts, NEW from \in Statuses, NEW to \in Statuses,
         SetStatus(a, from, to)
  PROVE  /\ users' \in [Accounts -> Statuses \cup {NULL}]
         /\ users[a] = from /\ users'[a] = to
         /\ \A b \in Accounts \ {a} : users'[b] = users[b]
         /\ \A t \in Sessions : sess[t].mine[a] = NULL
         /\ UNCHANGED <<directory, watermark, now>>
BY DEF SetStatus, IInv, Types

LEMMA EnableUserStep ==
  ASSUME IInv, NEW a \in Accounts, EnableUser(a)
  PROVE  IInv'
<1>1. /\ users' \in [Accounts -> Statuses \cup {NULL}]
      /\ users[a] = "disabled" /\ users'[a] = "active"
      /\ \A b \in Accounts \ {a} : users'[b] = users[b]
      /\ \A t \in Sessions : sess[t].mine[a] = NULL
      /\ UNCHANGED <<directory, watermark, now>>
  BY SetStatusKept DEF EnableUser, Statuses
<1>2. ASSUME NEW t \in Sessions
      PROVE  Sound(sess'[t], users', now) /\ sess'[t].mine = sess[t].mine
  <2> DEFINE q == sess[t]
             s == [q EXCEPT !.reopened = @ \cup ({a} \cap q.left)]
  <2>1. q \in Session /\ Sound(q, users, now)
    BY DEF IInv, Types
  <2>2. \A b \in Accounts : q.mine[b] = "active" => users'[b] = NULL
    BY <1>1, <2>1, NullIsNoStatus DEF Sound
  <2>3. CASE q.pc \in {"write", "commit"}
    <3>1. sess'[t] = s
      BY <2>3 DEF EnableUser
    <3>2. /\ s \in Session /\ s.pc = q.pc /\ s.mine = q.mine /\ s.left = q.left
          /\ s.disabled = q.disabled /\ s.finished = q.finished
          /\ s.reopened = q.reopened \cup ({a} \cap q.left)
      BY <2>1 DEF Session
    <3>3. \A b \in q.left : users'[b] # NULL /\ (Covered(q, users, b) => Covered(s, users', b))
      BY <1>1, <2>1, <2>3, <3>2, NullIsNoStatus DEF Covered, Sound, Session
    <3> QED
      BY <2>1, <2>2, <2>3, <3>1, <3>2, <3>3 DEF Sound
  <2>4. CASE q.pc \notin {"write", "commit"}
    BY <2>1, <2>2, <2>4 DEF EnableUser, Sound
  <2> QED
    BY <2>3, <2>4
<1>3. sess' \in [Sessions -> Session]
  BY <1>2 DEF EnableUser, Sound
<1>4. Exclusive'
  BY <1>2 DEF Exclusive, IInv
<1> QED
  BY <1>1, <1>2, <1>3, <1>4 DEF IInv, Types

LEMMA DisableUserStep ==
  ASSUME IInv, NEW a \in Accounts, DisableUser(a)
  PROVE  IInv'
<1>1. /\ users' \in [Accounts -> Statuses \cup {NULL}]
      /\ users[a] = "active" /\ users'[a] = "disabled"
      /\ \A b \in Accounts \ {a} : users'[b] = users[b]
      /\ \A t \in Sessions : sess[t].mine[a] = NULL
      /\ UNCHANGED <<directory, watermark, now, sess>>
  BY SetStatusKept DEF DisableUser, Statuses
<1>2. Gentle(users, users') /\ now \in Nat
  BY <1>1, NullIsNoStatus DEF Gentle, IInv, Types
<1>3. \A t \in Sessions : Sound(sess[t], users', now)
  BY <1>1, <1>2, SoundKept DEF IInv
<1> QED
  BY <1>1, <1>3 DEF IInv, Types, Exclusive

LEMMA TickStep ==
  ASSUME IInv, Tick
  PROVE  IInv'
<1>1. now \in Nat /\ now' = now + 1 /\ UNCHANGED <<directory, users, watermark, sess>>
  BY DEF Tick, IInv, Types
<1>2. Gentle(users, users)
  BY DEF Gentle
<1>3. \A t \in Sessions : Sound(sess[t], users, now')
  BY <1>1, <1>2, SoundKept DEF IInv
<1> QED
  BY <1>1, <1>3 DEF IInv, Types, Exclusive

-----------------------------------------------------------------------------
(* The theorems. *)

LEMMA StepIInv ==
  ASSUME IInv, [Next]_vars
  PROVE  IInv'
<1>1. ASSUME NEW t \in Sessions, Proceed(t)
      PROVE  IInv'
  <2>1. CASE Answer(t)
    BY <2>1, SearchStep DEF Answer
  <2>2. CASE Write(t)
    <3>1. PICK a \in Accounts : Insert(t, a) \/ Duplicate(t, a) \/ Disable(t, a)
      BY <2>2 DEF Write
    <3>2. CASE Duplicate(t, a)
      BY <3>2, EndStep DEF Duplicate
    <3> QED
      BY <3>1, <3>2, InsertStep, DisableStep
  <2>3. CASE Victim(t)
    BY <2>3, EndStep DEF Victim
  <2> QED
    BY <1>1, <2>1, <2>2, <2>3, ReadUsersStep, FinishStep, CommitStep DEF Proceed
<1>2. ASSUME NEW t \in Sessions, SearchFails(t)
      PROVE  IInv'
  BY <1>2, EndStep DEF SearchFails
<1>3. CASE Others
  BY <1>3, ChangeStep, EnableUserStep, DisableUserStep DEF Others
<1>4. CASE UNCHANGED vars
  BY <1>4 DEF vars, IInv, Types, Exclusive
<1> QED
  BY <1>1, <1>2, <1>3, <1>4, StartStep, TickStep DEF Next

\* The inductive invariant holds in every reachable state.
THEOREM Inductive == Spec => []IInv
BY InitIInv, StepIInv, PTL DEF Spec

\* The types of the directory, the users and the uncommitted rows; the watermark is
\* never ahead of the clock, whichever syncs overlap.
THEOREM TypeCorrect == Spec => []TypeOK
<1>1. IInv => TypeOK
  <2> SUFFICES ASSUME IInv, NEW t \in Sessions
               PROVE  sess[t].mine \in [Accounts -> {NULL, "active", "disabled"}]
    BY DEF IInv, Types, TypeOK
  <2> QED
    BY DEF IInv, Types, Session, Own
<1> QED
  BY <1>1, Inductive, PTL

\* ldap_sync/sync.py, _process_users and run_ad_sync: whoever has no enabled entry when a
\* sync searches is disabled when it commits, whatever it was told and whatever commits
\* in between, unless an operator has enabled the user since.
THEOREM LeaversDisabled == Spec => LeaversAreDisabled
<1> DEFINE Disabled == \A t \in Sessions : Commit(t) =>
             \A a \in sess[t].left \ {BootstrapAdmin} :
               users'[a] = "disabled" \/ a \in sess[t].reopened
<1>1. IInv /\ [Next]_vars => Disabled
  <2> SUFFICES ASSUME IInv, NEW t \in Sessions, Commit(t),
                      NEW a \in sess[t].left \ {BootstrapAdmin}
               PROVE  users'[a] = "disabled" \/ a \in sess[t].reopened
    OBVIOUS
  <2> DEFINE s == sess[t]
  <2>1. s \in Session /\ Sound(s, users, now) /\ s.pc = "commit" /\ a \in Accounts
    BY DEF IInv, Types, Commit, Session
  <2>2. users[a] # NULL /\ Covered(s, users, a) /\ s.disabled = {}
    BY <2>1 DEF Sound
  <2>3. s.mine[a] \in {NULL, "disabled"}
    BY <2>1, <2>2 DEF Sound, Session, Own
  <2>4. users'[a] = IF s.mine[a] # NULL THEN s.mine[a] ELSE users[a]
    BY <2>1 DEF Commit
  <2> QED
    BY <2>2, <2>3, <2>4, NullIsNoStatus DEF Covered
<1>2. [][Next]_vars /\ []IInv => [][Disabled]_vars
  BY <1>1, PTL
<1> QED
  BY <1>2, Inductive, PTL DEF Spec, LeaversAreDisabled
=============================================================================
