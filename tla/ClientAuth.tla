----------------------------- MODULE ClientAuth -----------------------------
(***************************************************************************)
(* The console's API client: the token pair that each browser tab holds,    *)
(* the copy in localStorage that the tabs share, and the calls that carry   *)
(* an access token, renew it once when it is refused, and are sent again.   *)
(* The service is modelled as far as a call can tell: which tokens it       *)
(* takes, and that a refresh token is taken once.                           *)
(*                                                                         *)
(* Left out: mock mode, which has no tokens; who is logged in (_admin);     *)
(* the end of a refresh token's seven days.  One refresh is one step of the *)
(* service; how refreshes of one token overlap there is in AdminAuth.       *)
(***************************************************************************)
EXTENDS Naturals, FiniteSets

CONSTANTS
  Tabs,       \* browser tabs of one console
  Calls,      \* calls that can be open at a time
  MaxCalls,   \* bound on the calls
  MaxFaults,  \* bound on the lost messages and reloads
  MaxExpired, \* bound on the access tokens that expire
  NULL

ASSUME BoundsAssumption == {MaxCalls, MaxFaults, MaxExpired} \subseteq Nat
ASSUME NullAssumption == NULL \notin Nat \cup Tabs

VARIABLES
  mem,      \* tab -> the pair in _tokens and _token, or NULL
  store,    \* the pair in localStorage, or NULL
  route,    \* tab -> "login", or "app" for any other page
  call,     \* the open calls
  issued,   \* the service has issued the pairs 1..issued
  spent,    \* pairs whose refresh token is in revoked_refresh_token
  old,      \* pairs with an earlier token_version than the account's
  expired,  \* pairs whose access token has expired
  started, faults,
  dropped,  \* history: an answer that carried a new pair has been lost
  applied   \* history: how often the service has carried the call out

service == <<issued, spent, old, expired>>
tabs == <<mem, store, route>>
vars == <<mem, store, route, call, issued, spent, old, expired,
          started, faults, dropped, applied>>

Pairs == 1..(1 + MaxCalls)

Kinds == {"login", "logout", "password", "page"}

(* sent: the pair whose access token the request carries.  rt: the pair     *)
(* whose refresh token was presented.  new: the pair in the answer.  tab    *)
(* is NULL once the tab has been reloaded: nobody waits for the answer.     *)
Idle == [pc |-> "idle", kind |-> "page", tab |-> NULL, sent |-> NULL, rt |-> NULL,
         new |-> NULL, status |-> 0, retried |-> FALSE]

\* One pair has been issued, by a login that the tabs restored.
Init ==
  /\ mem = [t \in Tabs |-> 1]
  /\ store = 1
  /\ route = [t \in Tabs |-> "app"]
  /\ call = [c \in Calls |-> Idle]
  /\ issued = 1
  /\ spent = {}
  /\ old = {}
  /\ expired = {}
  /\ started = 0
  /\ faults = 0
  /\ dropped = FALSE
  /\ applied = [c \in Calls |-> 0]

-----------------------------------------------------------------------------
(* The token store. *)

\* Mutant of Persist: the new pair stays in memory.
PersistInMemory(t, p) ==
  /\ mem' = [mem EXCEPT ![t] = p]
  /\ UNCHANGED store

Persist(t, p) ==
  /\ mem' = [mem EXCEPT ![t] = p]
  /\ store' = p

ClearAuth(t) ==
  /\ mem' = [mem EXCEPT ![t] = NULL]
  /\ store' = NULL

KeepTokens == UNCHANGED <<mem, store>>

IsAuthenticated(t) == mem[t] # NULL

-----------------------------------------------------------------------------
(* Calls.  Everything a page shows asks for rows or sends a change, and the *)
(* client does not tell them apart.                                         *)

MayStart(t, kind) ==
  /\ route[t] = IF kind = "login" THEN "login" ELSE "app"
  /\ kind = "login" => \A c \in Calls : ~(call[c].tab = t /\ call[c].kind = "login")

Start(t, c, kind) ==
  /\ call[c].pc = "idle"
  /\ started < MaxCalls
  /\ MayStart(t, kind)
  /\ started' = started + 1
  /\ call' = [call EXCEPT ![c] =
       [Idle EXCEPT !.pc = "sent", !.kind = kind, !.tab = t, !.sent = mem[t]]]
  /\ applied' = [applied EXCEPT ![c] = 0]
  \* logout() is not awaited: the tab is at the login page at once.
  /\ route' = IF kind = "logout" THEN [route EXCEPT ![t] = "login"] ELSE route
  /\ KeepTokens
  /\ UNCHANGED <<service, faults, dropped>>

IsAuthRequest(kind) == kind = "login"

-----------------------------------------------------------------------------
(* The service. *)

Authorised(p) == p # NULL /\ p \notin expired \cup old

\* The console posts no body to /api/auth/logout, which requires a refresh token.
LogoutBody(c) == NULL

Answer(c, status) ==
  call' = [call EXCEPT ![c].pc = "answered", ![c].status = status]

ServeLogin(c) ==
  /\ call[c].kind = "login"
  /\ \/ /\ issued' = issued + 1
        /\ call' = [call EXCEPT ![c].pc = "answered", ![c].status = 200,
                                ![c].new = issued + 1]
     \/ Answer(c, 401) /\ UNCHANGED issued
  /\ UNCHANGED <<spent, old, expired, applied>>

ServeRefused(c) ==
  /\ call[c].kind # "login"
  /\ ~Authorised(call[c].sent)
  /\ Answer(c, 401)
  /\ UNCHANGED <<service, applied>>

\* A failure can come after the change has been committed.
ServePage(c) ==
  /\ call[c].kind = "page"
  /\ Authorised(call[c].sent)
  /\ \E status \in {200, 422, 500} : Answer(c, status)
  /\ applied' = [applied EXCEPT ![c] = @ + 1]
  /\ UNCHANGED service

ServePassword(c) ==
  /\ call[c].kind = "password"
  /\ Authorised(call[c].sent)
  /\ \/ Answer(c, 422) /\ UNCHANGED old
     \/ Answer(c, 200) /\ old' = 1..issued
  /\ applied' = [applied EXCEPT ![c] = @ + 1]
  /\ UNCHANGED <<issued, spent, expired>>

ServeLogout(c) ==
  /\ call[c].kind = "logout"
  /\ Authorised(call[c].sent)
  /\ IF LogoutBody(c) = NULL
     THEN Answer(c, 422) /\ UNCHANGED spent
     ELSE Answer(c, 200) /\ spent' = spent \cup {LogoutBody(c)}
  /\ applied' = [applied EXCEPT ![c] = @ + 1]
  /\ UNCHANGED <<issued, old, expired>>

Serve(c) ==
  /\ call[c].pc = "sent"
  /\ \/ ServeLogin(c)
     \/ ServeRefused(c)
     \/ ServePage(c)
     \/ ServePassword(c)
     \/ ServeLogout(c)
  /\ UNCHANGED <<tabs, started, faults, dropped>>

Usable(p) == p \notin spent \cup old

ServeRefresh(c) ==
  /\ call[c].pc = "renewing"
  /\ IF Usable(call[c].rt)
     THEN /\ issued' = issued + 1
          /\ spent' = spent \cup {call[c].rt}
          /\ call' = [call EXCEPT ![c].pc = "renewed", ![c].new = issued + 1]
          /\ dropped' = (dropped \/ call[c].tab = NULL)
     ELSE /\ call' = [call EXCEPT ![c].pc = "refused"]
          /\ UNCHANGED <<issued, spent, dropped>>
  /\ UNCHANGED <<tabs, old, expired, started, faults, applied>>

Expire ==
  /\ Cardinality(expired) < MaxExpired
  /\ \E p \in Pairs : p <= issued /\ p \notin expired /\ expired' = expired \cup {p}
  /\ UNCHANGED <<tabs, call, issued, spent, old, started, faults, dropped, applied>>

-----------------------------------------------------------------------------
(* The client, from an answer to the end of the call. *)

Waits(c) == call[c].tab # NULL

\* What login and logout do with the answer; logout clears in a finally.
Settle(c, status) ==
  LET t == call[c].tab IN
  CASE call[c].kind = "login" /\ status = 200 ->
         Persist(t, call[c].new) /\ route' = [route EXCEPT ![t] = "app"]
    [] call[c].kind = "logout" ->
         ClearAuth(t) /\ UNCHANGED route
    [] OTHER ->
         KeepTokens /\ UNCHANGED route

Finish(c, status) ==
  /\ call' = [call EXCEPT ![c] = Idle]
  /\ Settle(c, status)
  /\ UNCHANGED <<service, started, applied>>

\* Mutant of Retries: any failure is worth another try.
RetriesFailures(c) ==
  /\ call[c].status # 200
  /\ ~call[c].retried
  /\ ~IsAuthRequest(call[c].kind)

Retries(c) ==
  /\ call[c].status = 401
  /\ ~call[c].retried
  /\ ~IsAuthRequest(call[c].kind)

\* refresh() presents the refresh token that the tab holds by now.
Renew(c) ==
  /\ call[c].pc = "answered"
  /\ Waits(c)
  /\ Retries(c)
  /\ IsAuthenticated(call[c].tab)
  /\ call' = [call EXCEPT ![c].pc = "renewing", ![c].rt = mem[call[c].tab]]
  /\ UNCHANGED <<service, tabs, started, faults, dropped, applied>>

Resend(c) ==
  /\ call[c].pc = "renewed"
  /\ Waits(c)
  /\ Persist(call[c].tab, call[c].new)
  /\ call' = [call EXCEPT ![c].pc = "sent", ![c].sent = call[c].new, ![c].retried = TRUE]
  /\ UNCHANGED <<service, route, started, faults, dropped, applied>>

\* Mutant of Receive: a call that has nothing to renew with is left waiting.
ReceiveUnlessRefused(c) ==
  /\ Waits(c)
  /\ \/ call[c].pc = "refused"
     \/ call[c].pc = "answered" /\ ~Retries(c)
  /\ Finish(c, call[c].status)
  /\ UNCHANGED <<faults, dropped>>

\* The first answer stands when there is nothing to renew with or renewing fails.
Receive(c) ==
  /\ Waits(c)
  /\ \/ call[c].pc = "refused"
     \/ call[c].pc = "answered" /\ ~(Retries(c) /\ IsAuthenticated(call[c].tab))
  /\ Finish(c, call[c].status)
  /\ UNCHANGED <<faults, dropped>>

-----------------------------------------------------------------------------
(* Faults, and what the user does with a tab. *)

\* A request or its answer is lost: fetch() rejects.
Lose(c) ==
  /\ call[c].pc # "idle"
  /\ Waits(c)
  /\ faults < MaxFaults
  /\ faults' = faults + 1
  /\ dropped' = (dropped \/ call[c].pc = "renewed")
  /\ Finish(c, 0)

\* main.tsx restores what localStorage holds; AuthGuard renders.
Reload(t) ==
  /\ faults < MaxFaults
  /\ faults' = faults + 1
  /\ mem' = [mem EXCEPT ![t] = store]
  /\ route' = IF store = NULL THEN [route EXCEPT ![t] = "login"] ELSE route
  /\ call' = [c \in Calls |-> IF call[c].tab = t THEN [call[c] EXCEPT !.tab = NULL]
                              ELSE call[c]]
  /\ dropped' = (dropped \/ \E c \in Calls : call[c].tab = t /\ call[c].pc = "renewed")
  /\ UNCHANGED <<store, service, started, applied>>

\* The answer to a call of a page that is gone.
Discard(c) ==
  /\ call[c].pc \in {"answered", "renewed", "refused"}
  /\ ~Waits(c)
  /\ call' = [call EXCEPT ![c] = Idle]
  /\ UNCHANGED <<service, tabs, started, faults, dropped, applied>>

\* AuthGuard looks at the tokens when it renders, and only then.
Navigate(t) ==
  /\ \/ route[t] = "app" /\ ~IsAuthenticated(t) /\ route' = [route EXCEPT ![t] = "login"]
     \/ route[t] = "login" /\ IsAuthenticated(t) /\ route' = [route EXCEPT ![t] = "app"]
  /\ UNCHANGED <<mem, store, service, call, started, faults, dropped, applied>>

-----------------------------------------------------------------------------
Next ==
  \/ \E t \in Tabs, c \in Calls, kind \in Kinds : Start(t, c, kind)
  \/ \E c \in Calls : Serve(c)
  \/ \E c \in Calls : ServeRefresh(c)
  \/ Expire
  \/ \E c \in Calls : Renew(c)
  \/ \E c \in Calls : Resend(c)
  \/ \E c \in Calls : Receive(c)
  \/ \E c \in Calls : Lose(c)
  \/ \E t \in Tabs : Reload(t)
  \/ \E c \in Calls : Discard(c)
  \/ \E t \in Tabs : Navigate(t)

Spec == Init /\ [][Next]_vars

\* The service answers or the network reports a failure, and the browser runs the
\* continuation of every answer; nobody has to press anything.
Fairness == \A c \in Calls :
  WF_vars(Serve(c) \/ ServeRefresh(c) \/ Renew(c) \/ Resend(c) \/ Receive(c) \/ Discard(c))

FairSpec == Spec /\ Fairness

-----------------------------------------------------------------------------
(* Properties. *)

Phases == {"idle", "sent", "answered", "renewing", "renewed", "refused"}

CallType ==
  [pc: Phases, kind: Kinds, tab: Tabs \cup {NULL}, sent: Nat \cup {NULL},
   rt: Nat \cup {NULL}, new: Nat \cup {NULL}, status: Nat, retried: BOOLEAN]

TypeOK ==
  /\ mem \in [Tabs -> Nat \cup {NULL}]
  /\ store \in Nat \cup {NULL}
  /\ route \in [Tabs -> {"login", "app"}]
  /\ call \in [Calls -> CallType]
  /\ issued \in Nat
  /\ {spent, old, expired} \subseteq SUBSET (1..issued)
  /\ {started, faults} \subseteq Nat
  /\ dropped \in BOOLEAN
  /\ applied \in [Calls -> Nat]

\* A call is carried out at most once, whatever it is sent again for: send() repeats
\* a request only after a 401, and a 401 comes before any effect.
AppliedOnce == \A c \in Calls : applied[c] <= 1

\* However many tabs renew at once and in whatever order they store the answers, the
\* refresh token in localStorage is not one that has been spent, unless the answer that
\* replaces it is on its way to a tab or has been lost.  That it is taken is another
\* matter: a change of the password makes every earlier pair old, spent or not, and a
\* reload then ends at the login page.
StoreIsUnspent ==
  store \in spent =>
    \/ dropped
    \/ \E c \in Calls : call[c].pc = "renewed" /\ call[c].rt = store /\ Waits(c)

\* Every call ends: it does not renew and repeat for ever, even when the service keeps
\* refusing it, and a button that waits for it is released.
CallsEnd == \A c \in Calls : call[c].pc # "idle" ~> call[c].pc = "idle"

=============================================================================
