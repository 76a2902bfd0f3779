-------------------------- MODULE ClientAuthProofs --------------------------
(***************************************************************************)
(* No call is carried out twice, and what localStorage holds can be         *)
(* renewed, for any tabs and calls and any bounds.                          *)
(***************************************************************************)
EXTENDS ClientAuth, TLAPS

\* An answer that carries a new pair is on its way or waits to be taken.
Carries(r) ==
  \/ r.pc = "renewed"
  \/ r.pc = "answered" /\ r.kind = "login" /\ r.status = 200

\* The service has only refused the call so far.
Unserved(r) ==
  \/ r.pc \in {"sent", "renewing", "renewed", "refused"}
  \/ r.pc = "answered" /\ r.status = 401

\* Only a call that was refused renews, and a login does not.
Sound(r) ==
  r.pc \in {"renewing", "renewed", "refused"} => r.status = 401 /\ r.kind # "login"

Issued == 1..issued

Known ==
  /\ mem \in [Tabs -> Issued \cup {NULL}]
  /\ store \in Issued \cup {NULL}
  /\ \A c \in Calls : call[c].pc = "renewing" => call[c].rt \in Issued

Once == \A c \in Calls : applied[c] <= 1 /\ (Unserved(call[c]) => applied[c] = 0)

\* Nobody else has the pair that an answer carries.
Fresh == \A c \in Calls : Carries(call[c]) =>
  /\ call[c].new \in Issued \ spent
  /\ store # call[c].new
  /\ \A t \in Tabs : mem[t] # call[c].new
  /\ \A d \in Calls : call[d].pc = "renewing" => call[d].rt # call[c].new
  /\ \A d \in Calls : d # c /\ Carries(call[d]) => call[d].new # call[c].new

IInv ==
  /\ TypeOK
  /\ Known
  /\ Once
  /\ \A c \in Calls : Sound(call[c])
  /\ Fresh
  /\ StoreIsUnspent
-----------------------------------------------------------------------------
LEMMA IdleType == Idle \in CallType /\ Idle.pc = "idle" /\ Idle.kind = "page"
  BY DEF Idle, CallType, Phases, Kinds

LEMMA InitInv == Init => IInv
<1> SUFFICES ASSUME Init PROVE IInv
  OBVIOUS
<1>1. \A c \in Calls : call[c] = Idle
  BY DEF Init
<1>2. TypeOK
  <2>1. call \in [Calls -> CallType] /\ applied \in [Calls -> Nat]
    <3>1. call = [c \in Calls |-> Idle] /\ applied = [c \in Calls |-> 0] /\ Idle \in CallType
      BY IdleType DEF Init
    <3>2. call \in [Calls -> CallType]
      BY <3>1
    <3> QED
      BY <3>1, <3>2
  <2>2. mem \in [Tabs -> Nat \cup {NULL}] /\ route \in [Tabs -> {"login", "app"}]
    BY DEF Init
  <2>3. store \in Nat \cup {NULL} /\ issued \in Nat /\ {started, faults} \subseteq Nat
    BY DEF Init
  <2>4. dropped \in BOOLEAN /\ {spent, old, expired} \subseteq SUBSET (1..issued)
    <3>1. dropped = FALSE /\ spent = {} /\ old = {} /\ expired = {}
      BY DEF Init
    <3> QED
      BY ONLY <3>1
  <2> QED
    BY <2>1, <2>2, <2>3, <2>4 DEF TypeOK
<1>3. \A c \in Calls : Sound(call[c]) /\ ~Carries(call[c]) /\ ~Unserved(call[c])
  BY <1>1, IdleType DEF Sound, Carries, Unserved
<1>4. Known /\ Once /\ Fresh
  BY <1>1, <1>3, IdleType DEF Init, Known, Once, Fresh, Issued
<1>5. StoreIsUnspent
  BY DEF Init, StoreIsUnspent
<1> QED
  BY <1>2, <1>3, <1>4, <1>5 DEF IInv
-----------------------------------------------------------------------------
(* What the steps of one call have in common. *)

\* One call changes, the others stay.
Becomes(c, r) ==
  /\ call' \in [Calls -> CallType]
  /\ call'[c] = r
  /\ \A d \in Calls : d # c => call'[d] = call[d]

Keeps(c) == \A d \in Calls : d # c => applied'[d] = applied[d]

\* What the rest of a step leaves of the variables that IInv says little of.
Shape ==
  /\ route' \in [Tabs -> {"login", "app"}]
  /\ {old', expired'} \subseteq SUBSET Issued
  /\ {started', faults'} \subseteq Nat
  /\ dropped' \in BOOLEAN /\ (dropped => dropped')
  /\ applied' \in [Calls -> Nat]

LEMMA OneCall == ASSUME call \in [Calls -> CallType], NEW c \in Calls, NEW r \in CallType,
                        call' = [call EXCEPT ![c] = r]
                 PROVE  Becomes(c, r)
  BY DEF Becomes

\* The renewed pair of a call that somebody waits for excuses a stored pair that is spent.
Excuses(d) == call[d].pc = "renewed" /\ Waits(d)

LEMMA SameTypes == ASSUME TypeOK, Shape, NEW I \in SUBSET Nat, I = Issued,
                          mem' \in [Tabs -> I \cup {NULL}], store' \in I \cup {NULL},
                          call' \in [Calls -> CallType], UNCHANGED <<issued, spent>>
                   PROVE  TypeOK'
<1>1. mem' \in [Tabs -> Nat \cup {NULL}] /\ store' \in Nat \cup {NULL}
  OBVIOUS
<1>2. {spent', old', expired'} \subseteq SUBSET (1..issued')
  BY DEF TypeOK, Shape, Issued
<1> QED
  BY <1>1, <1>2 DEF TypeOK, Shape

\* A step of one call that neither issues a pair nor takes one.
LEMMA Goes == ASSUME IInv, NEW c \in Calls, NEW r \in CallType, Becomes(c, r),
                     Sound(r), ~Carries(r),
                     r.pc = "renewing" => r.rt \in Issued /\ \E t \in Tabs : r.rt = mem[t],
                     Keeps(c), applied'[c] <= 1, Unserved(r) => applied'[c] = 0,
                     mem' \in [Tabs -> Issued \cup {NULL}],
                     \A t \in Tabs : mem'[t] \in {mem[t], NULL},
                     store' \in {store, NULL},
                     UNCHANGED <<issued, spent>>, Shape,
                     Excuses(c) => dropped'
              PROVE  IInv'
<1>1. TypeOK /\ Known /\ Once /\ Fresh /\ StoreIsUnspent /\ \A d \in Calls : Sound(call[d])
  BY DEF IInv
<1>2. Issued' = Issued /\ Issued \in SUBSET Nat /\ store' \in Issued \cup {NULL}
  BY <1>1 DEF Issued, Known
<1>3. TypeOK'
  BY <1>1, <1>2, SameTypes DEF Becomes
<1>4. Known'
  BY <1>1, <1>2 DEF Known, Becomes
<1>5. Once'
  BY <1>1 DEF Once, Becomes, Keeps
<1>6. \A d \in Calls : Sound(call'[d])
  BY <1>1 DEF Becomes
<1>7. \A d \in Calls : Carries(call'[d]) => d # c /\ Carries(call[d]) /\ call'[d] = call[d]
  BY DEF Becomes
<1>8. spent' = spent /\ \A d \in Calls : Carries(call[d]) => call[d].new # NULL
  BY <1>1, <1>2, NullAssumption DEF Fresh
<1>9. \A d, e \in Calls : Carries(call'[d]) /\ call'[e].pc = "renewing" => call'[e].rt # call'[d].new
  BY <1>1, <1>7 DEF Fresh, Becomes
<1>10. Fresh'
  BY <1>1, <1>2, <1>7, <1>8, <1>9 DEF Fresh
<1>11. StoreIsUnspent'
  <2> SUFFICES ASSUME store' \in spent', ~dropped'
               PROVE  \E d \in Calls : call'[d].pc = "renewed" /\ call'[d].rt = store' /\ call'[d].tab # NULL
    BY DEF StoreIsUnspent, Waits
  <2>1. store' = store /\ store \in spent /\ ~dropped
    BY <1>1, NullAssumption DEF TypeOK, Shape
  <2>2. PICK d \in Calls : call[d].pc = "renewed" /\ call[d].rt = store /\ Waits(d)
    BY <1>1, <2>1 DEF StoreIsUnspent
  <2>3. d # c
    BY <2>2 DEF Excuses
  <2> QED
    BY <2>1, <2>2, <2>3 DEF Becomes, Waits
<1> QED
  BY <1>3, <1>4, <1>5, <1>6, <1>10, <1>11 DEF IInv

\* A step that issues a pair to one call.
LEMMA Issues == ASSUME IInv, NEW c \in Calls, NEW r \in CallType, Becomes(c, r),
                       Sound(r), r.new = issued + 1, r.pc # "renewing",
                       applied' = applied, Unserved(r) => applied[c] = 0,
                       UNCHANGED <<mem, store, old, expired>>,
                       issued' = issued + 1,
                       Shape, spent' \in SUBSET Issued,
                       \A d \in Calls : Carries(call[d]) => call[d].new \notin spent',
                       Excuses(c) => dropped',
                       store \in spent' =>
                         store \in spent \/ (r.pc = "renewed" /\ r.rt = store /\ r.tab # NULL) \/ dropped'
                PROVE  IInv'
<1>1. TypeOK /\ Known /\ Once /\ Fresh /\ StoreIsUnspent /\ \A d \in Calls : Sound(call[d])
  BY DEF IInv
<1>2. /\ issued \in Nat /\ Issued' = Issued \cup {issued + 1}
      /\ issued + 1 \notin Issued /\ NULL \notin Issued'
  BY <1>1, NullAssumption DEF Issued, TypeOK
<1>3. TypeOK'
  BY <1>1, <1>2 DEF TypeOK, Shape, Becomes, Issued
<1>4. Known'
  BY <1>1, <1>2 DEF Known, Becomes
<1>5. Once'
  BY <1>1 DEF Once, Becomes
<1>6. \A d \in Calls : Sound(call'[d])
  BY <1>1 DEF Becomes
<1>7. \A d \in Calls : Carries(call'[d]) =>
        \/ d = c /\ call'[d].new = issued + 1
        \/ d # c /\ Carries(call[d]) /\ call'[d] = call[d] /\ call[d].new \in Issued \ spent'
  BY <1>1 DEF Becomes, Fresh
<1>8. \A d \in Calls : Carries(call'[d]) => call'[d].new \in Issued' \ spent'
  BY <1>2, <1>7
<1>9. \A d \in Calls : Carries(call'[d]) =>
        store' # call'[d].new /\ \A t \in Tabs : mem'[t] # call'[d].new
  BY <1>1, <1>2, <1>7 DEF Fresh, Known
<1>10. \A d, e \in Calls : Carries(call'[d]) /\ call'[e].pc = "renewing" => call'[e].rt # call'[d].new
  <2> SUFFICES ASSUME NEW d \in Calls, NEW e \in Calls, Carries(call'[d]), call'[e].pc = "renewing"
               PROVE  call'[e].rt # call'[d].new
    OBVIOUS
  <2>1. call'[e] = call[e] /\ call[e].rt \in Issued
    BY <1>1 DEF Becomes, Known
  <2> QED
    BY <1>1, <1>2, <1>7, <2>1 DEF Fresh
<1>11. \A d, e \in Calls : d # e /\ Carries(call'[d]) /\ Carries(call'[e]) => call'[e].new # call'[d].new
  BY <1>1, <1>2, <1>7 DEF Fresh
<1>12. Fresh'
  BY <1>8, <1>9, <1>10, <1>11 DEF Fresh
<1>13. StoreIsUnspent'
  <2> SUFFICES ASSUME store \in spent', ~dropped'
               PROVE  \E d \in Calls : call'[d].pc = "renewed" /\ call'[d].rt = store /\ call'[d].tab # NULL
    BY DEF StoreIsUnspent, Waits
  <2>1. CASE r.pc = "renewed" /\ r.rt = store /\ r.tab # NULL
    BY <2>1 DEF Becomes
  <2>2. CASE store \in spent
    <3>1. PICK d \in Calls : call[d].pc = "renewed" /\ call[d].rt = store /\ Waits(d)
      BY <1>1, <2>2 DEF StoreIsUnspent, Shape, TypeOK
    <3>2. d # c
      BY <3>1 DEF Excuses
    <3> QED
      BY <3>1, <3>2 DEF Becomes, Waits
  <2> QED
    BY <2>1, <2>2
<1> QED
  BY <1>3, <1>4, <1>5, <1>6, <1>12, <1>13 DEF IInv

\* A tab takes the pair that an answer carries.
LEMMA Takes == ASSUME IInv, NEW c \in Calls, NEW r \in CallType, Becomes(c, r), Carries(call[c]),
                      Sound(r), ~Carries(r), r.pc # "renewing",
                      applied' = applied, Unserved(r) => applied[c] = 0,
                      NEW t \in Tabs, mem' = [mem EXCEPT ![t] = call[c].new], store' = call[c].new,
                      UNCHANGED <<issued, spent>>, Shape
               PROVE  IInv'
<1>1. TypeOK /\ Known /\ Once /\ Fresh /\ StoreIsUnspent /\ \A d \in Calls : Sound(call[d])
  BY DEF IInv
<1> DEFINE p == call[c].new
<1>2. Issued' = Issued /\ Issued \in SUBSET Nat /\ p \in Issued /\ p \notin spent
  BY <1>1 DEF Issued, Fresh
<1>3. mem' \in [Tabs -> Issued \cup {NULL}] /\ \A u \in Tabs : mem'[u] \in {mem[u], p}
  BY <1>1, <1>2 DEF Known
<1>4. TypeOK'
  BY <1>1, <1>2, <1>3, SameTypes DEF Becomes
<1>5. Known'
  BY <1>1, <1>2, <1>3 DEF Known, Becomes
<1>6. Once'
  BY <1>1 DEF Once, Becomes
<1>7. \A d \in Calls : Sound(call'[d])
  BY <1>1 DEF Becomes
<1>8. \A d \in Calls : Carries(call'[d]) => d # c /\ Carries(call[d]) /\ call'[d] = call[d]
  BY DEF Becomes
<1>9. \A d \in Calls : Carries(call'[d]) => p # call[d].new
  BY <1>1, <1>8 DEF Fresh
<1>10. \A d, e \in Calls : Carries(call'[d]) /\ call'[e].pc = "renewing" => call'[e].rt # call'[d].new
  BY <1>1, <1>8 DEF Fresh, Becomes
<1>11. Fresh'
  BY <1>1, <1>2, <1>3, <1>8, <1>9, <1>10 DEF Fresh
<1>12. StoreIsUnspent'
  BY <1>2 DEF StoreIsUnspent
<1> QED
  BY <1>4, <1>5, <1>6, <1>7, <1>11, <1>12 DEF IInv
-----------------------------------------------------------------------------
(* One lemma per action. *)

LEMMA SameShape == ASSUME IInv, UNCHANGED <<route, old, expired, started, faults, dropped, applied>>
                   PROVE  Shape
  BY DEF IInv, TypeOK, Shape, Issued

\* What an open call is, and that a step which keeps the tokens keeps what Goes asks of them.
LEMMA Open == ASSUME IInv, NEW c \in Calls
              PROVE  /\ call[c] \in CallType /\ Sound(call[c])
                     /\ applied[c] <= 1 /\ (Unserved(call[c]) => applied[c] = 0)
                     /\ applied \in [Calls -> Nat] /\ call \in [Calls -> CallType]
                     /\ mem \in [Tabs -> Issued \cup {NULL}] /\ store \in Issued \cup {NULL}
  BY DEF IInv, TypeOK, Once, Known

LEMMA StartStep == ASSUME IInv, NEW t \in Tabs, NEW c \in Calls, NEW kind \in Kinds, Start(t, c, kind)
                   PROVE  IInv'
<1> DEFINE r == [Idle EXCEPT !.pc = "sent", !.kind = kind, !.tab = t, !.sent = mem[t]]
<1>1. mem[t] \in Nat \cup {NULL}
  BY DEF IInv, TypeOK
<1>2. r \in CallType /\ r.pc = "sent"
  BY <1>1 DEF Idle, CallType, Phases
<1>3. call' = [call EXCEPT ![c] = r]
  BY DEF Start
<1> HIDE DEF r
<1>4. Becomes(c, r)
  BY <1>2, <1>3, OneCall, Open
<1>5. Sound(r) /\ ~Carries(r) /\ Unserved(r)
  BY <1>2 DEF Sound, Carries, Unserved
<1>6. Keeps(c) /\ applied'[c] = 0 /\ applied' \in [Calls -> Nat]
  BY Open DEF Start, Keeps
<1>7. Shape
  <2>1. route' \in [Tabs -> {"login", "app"}]
    BY DEF Start, IInv, TypeOK
  <2>2. started' \in Nat /\ UNCHANGED <<old, expired, faults, dropped>>
    BY DEF Start, IInv, TypeOK, service
  <2> QED
    BY <1>6, <2>1, <2>2 DEF IInv, TypeOK, Shape, Issued
<1>8. ~Excuses(c) /\ UNCHANGED <<mem, store, issued, spent>>
  BY DEF Start, Excuses, KeepTokens, service
<1> QED
  BY <1>2, <1>4, <1>5, <1>6, <1>7, <1>8, Open, Goes

LEMMA PairType == ASSUME NEW q \in CallType, NEW p \in Nat
                  PROVE  /\ [q EXCEPT !.pc = "answered", !.status = 200, !.new = p] \in CallType
                         /\ [q EXCEPT !.pc = "renewed", !.new = p] \in CallType
<1>1. p \in Nat \cup {NULL} /\ {"answered", "renewed"} \subseteq Phases /\ 200 \in Nat
  BY DEF Phases
<1> QED
  BY <1>1 DEF CallType

\* An answer without a pair.
LEMMA Answers == ASSUME IInv, NEW c \in Calls, call[c].pc = "sent", NEW status \in Nat,
                        Answer(c, status), call[c].kind = "login" => status # 200,
                        Keeps(c), applied' \in [Calls -> Nat], applied'[c] <= 1,
                        status = 401 => applied'[c] = 0,
                        old' \in SUBSET Issued,
                        UNCHANGED <<issued, spent, expired, tabs, started, faults, dropped>>
                 PROVE  IInv'
<1> DEFINE r == [call[c] EXCEPT !.pc = "answered", !.status = status]
<1>1. call[c] \in CallType
  BY Open
<1>2. r \in CallType /\ r.pc = "answered" /\ r.status = status /\ r.kind = call[c].kind
  BY <1>1 DEF CallType, Phases
<1>3. call' = [call EXCEPT ![c] = r]
  BY Open DEF Answer
<1> HIDE DEF r
<1>4. Becomes(c, r)
  BY <1>2, <1>3, OneCall, Open
<1>5. Sound(r) /\ ~Carries(r) /\ (Unserved(r) => applied'[c] = 0)
  BY <1>2 DEF Sound, Carries, Unserved
<1>7. Shape
  BY DEF IInv, TypeOK, Shape, Issued, tabs
<1>8. ~Excuses(c) /\ UNCHANGED <<mem, store>>
  BY DEF Excuses, tabs
<1> QED
  BY <1>2, <1>4, <1>5, <1>7, <1>8, Open, Goes

LEMMA LoginStep == ASSUME IInv, NEW c \in Calls, call[c].pc = "sent", ServeLogin(c),
                          UNCHANGED <<tabs, started, faults, dropped>>
                   PROVE  IInv'
<1>1. CASE Answer(c, 401) /\ UNCHANGED issued
  <2>1. Keeps(c) /\ applied' = applied /\ applied[c] = 0 /\ old' \in SUBSET Issued
    BY Open DEF ServeLogin, IInv, TypeOK, Issued, Keeps, Unserved
  <2> QED
    BY <1>1, <2>1, Open, Answers DEF ServeLogin
<1>2. CASE /\ issued' = issued + 1
           /\ call' = [call EXCEPT ![c].pc = "answered", ![c].status = 200, ![c].new = issued + 1]
  <2>1. call[c] \in CallType /\ applied[c] = 0 /\ issued + 1 \in Nat
    BY Open DEF Unserved, IInv, TypeOK
  <2> DEFINE p == issued + 1
             r == [call[c] EXCEPT !.pc = "answered", !.status = 200, !.new = p]
  <2>3. call' = [call EXCEPT ![c] = r]
    BY <1>2, Open
  <2>8. p \in Nat /\ p = issued + 1
    BY <2>1
  <2> HIDE DEF p
  <2>2. r \in CallType /\ r.pc = "answered" /\ r.status = 200 /\ r.new = p
    <3>1. r \in CallType
      BY <2>1, <2>8, PairType
    <3> QED
      BY <2>1, <3>1 DEF CallType
  <2> HIDE DEF r
  <2>4. Becomes(c, r)
    BY <2>2, <2>3, OneCall, Open
  <2>5. Sound(r)
    BY <2>2 DEF Sound
  <2>6. Shape /\ UNCHANGED <<mem, store, old, expired, applied>> /\ spent' = spent
    BY SameShape DEF ServeLogin, tabs
  <2>7. /\ ~Excuses(c) /\ spent \in SUBSET Issued
        /\ \A d \in Calls : Carries(call[d]) => call[d].new \notin spent
    BY DEF Excuses, IInv, Fresh, TypeOK, Issued
  <2> QED
    BY <1>2, <2>1, <2>2, <2>4, <2>5, <2>6, <2>7, <2>8, Issues
<1> QED
  BY <1>1, <1>2 DEF ServeLogin

LEMMA ServeStep == ASSUME IInv, NEW c \in Calls, Serve(c) PROVE IInv'
<1>1. call[c].pc = "sent" /\ UNCHANGED <<tabs, started, faults, dropped>>
  BY DEF Serve
<1>2. old \in SUBSET Issued /\ applied[c] = 0 /\ applied \in [Calls -> Nat]
  BY <1>1, Open DEF IInv, TypeOK, Issued, Unserved
<1> DEFINE Carried == /\ Keeps(c) /\ applied'[c] = 1 /\ applied' \in [Calls -> Nat]
<1>8. ASSUME applied' = [applied EXCEPT ![c] = @ + 1] PROVE Carried
  BY <1>2, <1>8 DEF Keeps
<1>3. CASE ServeLogin(c)
  BY <1>1, <1>3, LoginStep
<1>4. CASE ServeRefused(c)
  <2>1. Keeps(c) /\ applied' = applied /\ old' = old
    BY <1>4 DEF ServeRefused, Keeps, service
  <2> QED
    BY <1>1, <1>2, <1>4, <2>1, Answers DEF ServeRefused, service
<1>5. CASE ServePage(c)
  <2>1. PICK status \in {200, 422, 500} : Answer(c, status)
    BY <1>5 DEF ServePage
  <2> QED
    BY <1>1, <1>2, <1>5, <1>8, <2>1, Answers DEF ServePage, service
<1>6. CASE ServePassword(c)
  <2>1. PICK status \in {200, 422} : Answer(c, status)
    BY <1>6 DEF ServePassword
  <2>2. old' \in SUBSET Issued
    BY <1>2, <1>6 DEF ServePassword, Issued
  <2> QED
    BY <1>1, <1>6, <1>8, <2>1, <2>2, Answers DEF ServePassword
<1>7. CASE ServeLogout(c)
  <2>1. Answer(c, 422) /\ spent' = spent
    BY <1>7 DEF ServeLogout, LogoutBody
  <2> QED
    BY <1>1, <1>2, <1>7, <1>8, <2>1, Answers DEF ServeLogout
<1> QED
  BY <1>3, <1>4, <1>5, <1>6, <1>7 DEF Serve

LEMMA ServeRefreshStep == ASSUME IInv, NEW c \in Calls, ServeRefresh(c) PROVE IInv'
<1>1. /\ call[c].pc = "renewing" /\ UNCHANGED <<mem, store, route, old, expired, started, faults, applied>>
      /\ call[c] \in CallType /\ Sound(call[c]) /\ call[c].rt \in Issued
      /\ applied[c] = 0 /\ applied \in [Calls -> Nat]
  BY Open DEF ServeRefresh, tabs, IInv, Known, Unserved
<1>2. ~Carries(call[c]) /\ ~Excuses(c)
  BY <1>1 DEF Carries, Excuses
<1>3. CASE Usable(call[c].rt)
  <2> DEFINE p == issued + 1
             r == [call[c] EXCEPT !.pc = "renewed", !.new = p]
  <2>1. /\ issued' = p /\ spent' = spent \cup {call[c].rt}
        /\ call' = [call EXCEPT ![c] = r]
        /\ dropped' = (dropped \/ call[c].tab = NULL)
    BY <1>1, <1>3, Open DEF ServeRefresh
  <2>2. p \in Nat /\ p = issued + 1
    BY DEF IInv, TypeOK
  <2> HIDE DEF p
  <2>3. /\ r \in CallType /\ r.pc = "renewed" /\ r.status = call[c].status /\ r.kind = call[c].kind
        /\ r.new = p /\ r.rt = call[c].rt /\ r.tab = call[c].tab
    <3>1. r \in CallType
      BY <1>1, <2>2, PairType
    <3> QED
      BY <1>1, <3>1 DEF CallType
  <2> HIDE DEF r
  <2>4. Becomes(c, r)
    BY <2>1, <2>3, OneCall, Open
  <2>5. Sound(r)
    BY <1>1, <2>3 DEF Sound
  <2>6. Shape
    BY <1>1, <2>1 DEF IInv, TypeOK, Shape, Issued
  <2>7. spent' \in SUBSET Issued /\ \A d \in Calls : Carries(call[d]) => call[d].new \notin spent'
    BY <1>1, <2>1 DEF IInv, TypeOK, Fresh, Issued
  <2>8. store \in spent' =>
          store \in spent \/ (r.pc = "renewed" /\ r.rt = store /\ r.tab # NULL) \/ dropped'
    BY <2>1, <2>3
  <2> QED
    BY <1>1, <1>2, <2>1, <2>2, <2>3, <2>4, <2>5, <2>6, <2>7, <2>8, Issues
<1>4. CASE ~Usable(call[c].rt)
  <2> DEFINE r == [call[c] EXCEPT !.pc = "refused"]
  <2>1. call' = [call EXCEPT ![c] = r] /\ UNCHANGED <<issued, spent, dropped>>
    BY <1>4 DEF ServeRefresh
  <2>2. r \in CallType /\ r.pc = "refused" /\ r.status = call[c].status /\ r.kind = call[c].kind
    BY <1>1 DEF CallType, Phases
  <2> HIDE DEF r
  <2>3. Becomes(c, r)
    BY <2>1, <2>2, OneCall, Open
  <2>4. Sound(r) /\ ~Carries(r)
    BY <1>1, <2>2 DEF Sound, Carries
  <2>5. Shape /\ Keeps(c)
    BY <1>1, <2>1, SameShape DEF Keeps
  <2> QED
    BY <1>1, <1>2, <2>1, <2>2, <2>3, <2>4, <2>5, Open, Goes
<1> QED
  BY <1>3, <1>4

LEMMA ExpireStep == IInv /\ Expire => IInv'
<1> SUFFICES ASSUME IInv, Expire PROVE IInv'
  OBVIOUS
<1>1. UNCHANGED <<mem, store, route, call, issued, spent, old, started, faults, dropped, applied>>
  BY DEF Expire, tabs
<1>2. expired' \in SUBSET (1..issued)
  <2>1. PICK p \in Pairs : p <= issued /\ expired' = expired \cup {p}
    BY DEF Expire
  <2>2. p \in 1..issued
    BY <2>1, BoundsAssumption DEF Pairs, IInv, TypeOK
  <2> QED
    BY <2>1, <2>2 DEF IInv, TypeOK
<1>3. TypeOK'
  BY <1>1, <1>2 DEF IInv, TypeOK
<1> QED
  BY <1>1, <1>3 DEF IInv, Known, Once, Fresh, StoreIsUnspent, Waits, Issued

LEMMA RenewStep == ASSUME IInv, NEW c \in Calls, Renew(c) PROVE IInv'
<1> DEFINE t == call[c].tab
           r == [call[c] EXCEPT !.pc = "renewing", !.rt = mem[t]]
<1>1. /\ call[c].pc = "answered" /\ call[c].status = 401 /\ call[c].kind # "login"
      /\ call[c] \in CallType /\ t \in Tabs /\ mem[t] # NULL
      /\ UNCHANGED <<service, tabs, started, faults, dropped, applied>>
  BY Open DEF Renew, Waits, Retries, IsAuthRequest, IsAuthenticated, CallType
<1>2. mem[t] \in Issued /\ mem[t] \in Nat
  BY <1>1, Open DEF Issued
<1>3. call' = [call EXCEPT ![c] = r]
  BY Open DEF Renew
<1>4. /\ r \in CallType /\ r.pc = "renewing" /\ r.rt = mem[t] /\ r.status = 401
      /\ r.kind = call[c].kind
  BY <1>1, <1>2 DEF CallType, Phases
<1> HIDE DEF r
<1>5. Becomes(c, r)
  BY <1>3, <1>4, OneCall, Open
<1>6. Sound(r) /\ ~Carries(r) /\ applied[c] = 0 /\ ~Excuses(c)
  BY <1>1, <1>4, Open DEF Sound, Carries, Unserved, Excuses
<1>7. Shape /\ Keeps(c) /\ UNCHANGED <<mem, store, issued, spent, applied>>
  BY <1>1, SameShape DEF Keeps, tabs, service
<1> QED
  BY <1>1, <1>2, <1>4, <1>5, <1>6, <1>7, Open, Goes

LEMMA ResendStep == ASSUME IInv, NEW c \in Calls, Resend(c) PROVE IInv'
<1> DEFINE t == call[c].tab
           r == [call[c] EXCEPT !.pc = "sent", !.sent = call[c].new, !.retried = TRUE]
<1>1. /\ call[c].pc = "renewed" /\ call[c] \in CallType /\ t \in Tabs /\ applied[c] = 0
      /\ UNCHANGED <<service, route, started, faults, dropped, applied>>
  BY Open DEF Resend, Waits, CallType, Unserved
<1>2. call' = [call EXCEPT ![c] = r]
  BY Open DEF Resend
<1>3. r \in CallType /\ r.pc = "sent"
  BY <1>1 DEF CallType, Phases
<1> HIDE DEF r
<1>4. Becomes(c, r)
  BY <1>2, <1>3, OneCall, Open
<1>5. Carries(call[c]) /\ Sound(r) /\ ~Carries(r)
  BY <1>1, <1>3 DEF Carries, Sound
<1>6. /\ mem' = [mem EXCEPT ![t] = call[c].new] /\ store' = call[c].new
      /\ UNCHANGED <<issued, spent>> /\ Shape
  BY <1>1, SameShape DEF Resend, Persist, service
<1> QED
  BY <1>1, <1>3, <1>4, <1>5, <1>6, Takes

LEMMA FinishStep == ASSUME IInv, NEW c \in Calls, Waits(c), NEW status \in Nat, Finish(c, status),
                           call[c].kind = "login" /\ status = 200 => Carries(call[c]),
                           faults' \in Nat, dropped' \in BOOLEAN, dropped => dropped',
                           Excuses(c) => dropped'
                    PROVE  IInv'
<1> DEFINE t == call[c].tab
<1>1. /\ call' = [call EXCEPT ![c] = Idle] /\ t \in Tabs
      /\ UNCHANGED <<issued, spent, old, expired, started, applied>>
  BY Open DEF Finish, Waits, CallType, service
<1>2. Becomes(c, Idle)
  BY <1>1, OneCall, Open, IdleType
<1>3. Sound(Idle) /\ ~Carries(Idle) /\ ~Unserved(Idle) /\ Idle.pc # "renewing"
  BY IdleType DEF Sound, Carries, Unserved
<1>4. Keeps(c) /\ applied'[c] <= 1
  BY <1>1, Open DEF Keeps
<1>5. route' \in [Tabs -> {"login", "app"}] => Shape
  BY <1>1 DEF IInv, TypeOK, Shape, Issued
<1>6. route \in [Tabs -> {"login", "app"}]
  BY DEF IInv, TypeOK
<1>7. CASE call[c].kind = "login" /\ status = 200
  <2>1. Persist(t, call[c].new) /\ route' = [route EXCEPT ![t] = "app"]
    BY <1>7 DEF Finish, Settle
  <2>2. Shape
    BY <1>5, <1>6, <2>1
  <2> QED
    BY <1>1, <1>2, <1>3, <1>7, <2>1, <2>2, IdleType, Takes DEF Persist
<1>8. CASE call[c].kind = "logout"
  <2>1. ClearAuth(t) /\ UNCHANGED route
    BY <1>8 DEF Finish, Settle
  <2>2. /\ mem' \in [Tabs -> Issued \cup {NULL}]
        /\ \A u \in Tabs : mem'[u] \in {mem[u], NULL}
        /\ store' \in {store, NULL}
    BY <2>1, Open DEF ClearAuth
  <2> QED
    BY <1>1, <1>2, <1>3, <1>4, <1>5, <1>6, <2>1, <2>2, IdleType, Goes
<1>9. CASE ~(call[c].kind = "login" /\ status = 200) /\ call[c].kind # "logout"
  <2>1. KeepTokens /\ UNCHANGED route
    BY <1>9 DEF Finish, Settle
  <2> QED
    BY <1>1, <1>2, <1>3, <1>4, <1>5, <1>6, <2>1, IdleType, Open, Goes DEF KeepTokens
<1> QED
  BY <1>7, <1>8, <1>9

LEMMA ReceiveStep == ASSUME IInv, NEW c \in Calls, Receive(c) PROVE IInv'
<1>1. /\ Waits(c) /\ Finish(c, call[c].status) /\ UNCHANGED <<faults, dropped>>
      /\ call[c].status \in Nat /\ Sound(call[c])
      /\ call[c].pc \in {"refused", "answered"}
  BY Open DEF Receive, CallType
<1>2. faults \in Nat /\ dropped \in BOOLEAN
  BY DEF IInv, TypeOK
<1>3. call[c].kind = "login" /\ call[c].status = 200 => Carries(call[c])
  BY <1>1 DEF Carries, Sound
<1> QED
  BY <1>1, <1>2, <1>3, FinishStep DEF Excuses

LEMMA LoseStep == ASSUME IInv, NEW c \in Calls, Lose(c) PROVE IInv'
<1>1. /\ Waits(c) /\ Finish(c, 0)
      /\ faults' = faults + 1 /\ dropped' = (dropped \/ call[c].pc = "renewed")
  BY DEF Lose
<1>2. faults' \in Nat
  BY <1>1 DEF IInv, TypeOK
<1>3. dropped' \in BOOLEAN /\ (dropped => dropped') /\ (Excuses(c) => dropped')
  BY <1>1, Zenon DEF Excuses
<1> QED
  BY <1>1, <1>2, <1>3, FinishStep

LEMMA DiscardStep == ASSUME IInv, NEW c \in Calls, Discard(c) PROVE IInv'
<1>1. /\ call' = [call EXCEPT ![c] = Idle] /\ ~Excuses(c)
      /\ UNCHANGED <<service, tabs, started, faults, dropped, applied>>
  BY DEF Discard, Excuses
<1>2. Becomes(c, Idle)
  BY <1>1, OneCall, Open, IdleType
<1>3. Sound(Idle) /\ ~Carries(Idle) /\ ~Unserved(Idle) /\ Idle.pc # "renewing"
  BY IdleType DEF Sound, Carries, Unserved
<1>4. Shape /\ Keeps(c) /\ applied'[c] <= 1 /\ UNCHANGED <<mem, store, issued, spent>>
  BY <1>1, SameShape, Open DEF Keeps, service, tabs
<1> QED
  BY <1>1, <1>2, <1>3, <1>4, IdleType, Open, Goes

\* The tab takes what is stored, and nobody waits for the calls of its former page.
LEMMA ReloadStep == ASSUME IInv, NEW t \in Tabs, Reload(t) PROVE IInv'
<1>1. /\ TypeOK /\ Known /\ Once /\ Fresh /\ StoreIsUnspent /\ \A d \in Calls : Sound(call[d])
      /\ call \in [Calls -> CallType]
      /\ UNCHANGED <<store, issued, spent, old, expired, started, applied>>
      /\ mem' = [mem EXCEPT ![t] = store] /\ Issued' = Issued
  BY DEF IInv, TypeOK, Reload, service, Issued
<1>2. \A d \in Calls :
        /\ call'[d] \in CallType /\ call'[d].pc = call[d].pc /\ call'[d].kind = call[d].kind
        /\ call'[d].status = call[d].status /\ call'[d].rt = call[d].rt /\ call'[d].new = call[d].new
        /\ call[d].tab # t => call'[d] = call[d]
  <2> SUFFICES ASSUME NEW d \in Calls
               PROVE  /\ call'[d] \in CallType /\ call'[d].pc = call[d].pc /\ call'[d].kind = call[d].kind
                      /\ call'[d].status = call[d].status /\ call'[d].rt = call[d].rt
                      /\ call'[d].new = call[d].new
                      /\ call[d].tab # t => call'[d] = call[d]
    OBVIOUS
  <2>1. call'[d] = IF call[d].tab = t THEN [call[d] EXCEPT !.tab = NULL] ELSE call[d]
    BY DEF Reload
  <2> QED
    BY <1>1, <2>1 DEF CallType
<1>3. call' \in [Calls -> CallType]
  BY <1>2 DEF Reload
<1>4. mem' \in [Tabs -> Issued \cup {NULL}] /\ \A u \in Tabs : mem'[u] \in {mem[u], store}
  BY <1>1 DEF Known
<1>5. route' \in [Tabs -> {"login", "app"}]
  BY <1>1 DEF Reload, TypeOK
<1>6. TypeOK'
  <2>1. faults' \in Nat /\ dropped' \in BOOLEAN /\ (dropped => dropped')
    BY <1>1 DEF Reload, TypeOK
  <2>2. Shape
    BY <1>1, <1>5, <2>1 DEF Shape, TypeOK, Issued
  <2>3. Issued \in SUBSET Nat /\ store' \in Issued \cup {NULL}
    BY <1>1 DEF Issued, Known
  <2> QED
    BY <1>1, <1>3, <1>4, <2>2, <2>3, SameTypes
<1>7. Known' /\ Once' /\ \A d \in Calls : Sound(call'[d])
  BY <1>1, <1>2, <1>4 DEF Known, Once, Sound, Unserved
<1>8. \A d \in Calls : Carries(call'[d]) <=> Carries(call[d])
  BY <1>2 DEF Carries
<1>9. Fresh'
  BY <1>1, <1>2, <1>4, <1>8 DEF Fresh
<1>10. StoreIsUnspent'
  <2> SUFFICES ASSUME store \in spent, ~dropped'
               PROVE  \E d \in Calls : call'[d].pc = "renewed" /\ call'[d].rt = store /\ call'[d].tab # NULL
    BY <1>1 DEF StoreIsUnspent, Waits
  <2>1. ~dropped /\ \A d \in Calls : ~(call[d].tab = t /\ call[d].pc = "renewed")
    BY DEF Reload
  <2>2. PICK d \in Calls : call[d].pc = "renewed" /\ call[d].rt = store /\ Waits(d)
    BY <1>1, <2>1 DEF StoreIsUnspent
  <2> QED
    BY <1>2, <2>1, <2>2 DEF Waits
<1> QED
  BY <1>6, <1>7, <1>9, <1>10 DEF IInv

LEMMA NavigateStep == ASSUME IInv, NEW t \in Tabs, Navigate(t) PROVE IInv'
<1>1. UNCHANGED <<mem, store, call, issued, spent, old, expired, started, faults, dropped, applied>>
  BY DEF Navigate, service
<1>2. route' \in [Tabs -> {"login", "app"}]
  BY DEF Navigate, IInv, TypeOK
<1>3. TypeOK'
  BY <1>1, <1>2 DEF IInv, TypeOK
<1> QED
  BY <1>1, <1>3 DEF IInv, Known, Once, Fresh, StoreIsUnspent, Waits, Issued

LEMMA StutterStep == IInv /\ UNCHANGED vars => IInv'
  BY DEF IInv, TypeOK, Known, Once, Fresh, StoreIsUnspent, Waits, Issued, vars

LEMMA NextStep == IInv /\ [Next]_vars => IInv'
  BY StartStep, ServeStep, ServeRefreshStep, ExpireStep, RenewStep, ResendStep, ReceiveStep,
     LoseStep, ReloadStep, DiscardStep, NavigateStep, StutterStep DEF Next
-----------------------------------------------------------------------------
(* The theorems. *)

\* The inductive invariant: a call that can still be sent again has not been carried out, and a pair
\* that is on its way to a tab is not spent and nobody else has it.
THEOREM Inductive == Spec => []IInv
<1>1. Init => IInv
  BY InitInv
<1>2. IInv /\ [Next]_vars => IInv'
  BY NextStep
<1> QED
  BY <1>1, <1>2, PTL DEF Spec

\* Tokens, calls and counters keep their shape.
THEOREM TypeCorrect == Spec => []TypeOK
<1>1. IInv => TypeOK
  BY DEF IInv
<1> QED
  BY <1>1, Inductive, PTL

\* No call is carried out twice (send() repeats it only after a 401, http.ts:82-86).
THEOREM CarriedOutOnce == Spec => []AppliedOnce
<1>1. IInv => AppliedOnce
  BY DEF IInv, Once, AppliedOnce
<1> QED
  BY <1>1, Inductive, PTL

\* The refresh token in localStorage is not spent, unless the answer that replaces it is on
\* its way to a tab or has been lost (auth.ts:84-96).  It may be old all the same, after a
\* change of the password.
THEOREM StoreUnspent == Spec => []StoreIsUnspent
<1>1. IInv => StoreIsUnspent
  BY DEF IInv
<1> QED
  BY <1>1, Inductive, PTL
=============================================================================
