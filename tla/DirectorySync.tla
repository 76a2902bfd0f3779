---------------------------- MODULE DirectorySync ----------------------------
(***************************************************************************)
(* ldap_sync/sync.py against a directory that changes while it is read.     *)
(* Syncs are started by cron, one at a time, and by hand, any number; each  *)
(* is one database session that reads the watermark, waits for the LDAP     *)
(* search, reads the AD users, writes them one by one and commits.          *)
(* Operators go on meanwhile.                                               *)
(*                                                                         *)
(* Left out: the attributes of a user (a known, enabled entry changes only  *)
(* those), locked users (a sync treats them like active ones), the compile  *)
(* before the commit (AccessControl, CompileTxn), and renamed entries: the  *)
(* look-up by DN disables a user of an old name whom the last loop, over    *)
(* the users not listed, disables anyway (a DN that passes from one account *)
(* to another is not considered).                                           *)
(***************************************************************************)
EXTENDS Naturals, FiniteSets, FiniteSetsExt

CONSTANTS
  Accounts,
  LocalAccounts,   \* users whose source is not AD
  BootstrapAdmin,  \* settings.bootstrap_admin_user
  Cron,            \* the scheduler's session
  Manual,          \* sessions of POST /users/sync-ad that can be open at a time
  Refusals,        \* whether the server may refuse a search
  MaxTime,         \* bound on the clock
  MaxChanges,      \* bound on the changes to the directory
  MaxManual,       \* bound on the syncs started by hand
  NULL

Sessions == {Cron} \cup Manual

ASSUME SessionsAssumption == Cron \notin Manual
ASSUME LocalAssumption == LocalAccounts \subseteq Accounts
ASSUME BoundsAssumption == {MaxTime, MaxChanges, MaxManual} \subseteq Nat

Statuses == {"active", "disabled"}

VARIABLES
  directory,  \* account -> its entry, or NULL
  users,      \* access_user.status, or NULL
  watermark,  \* finished_at of the last sync that succeeded, or NULL
  sess,       \* the sessions
  now,        \* the clock
  changes,    \* changes made to the directory so far
  manuals     \* syncs started by hand so far

vars == <<directory, users, watermark, sess, now, changes, manuals>>

Entry == [enabled: BOOLEAN, whenChanged: Nat]

ASSUME NullAssumption == NULL \notin Statuses \cup Nat \cup Entry

(* since: the watermark read.  listed, off: the accounts of the entries     *)
(* returned, and of those marked as disabled.  added, disabled: what is     *)
(* left to write.  mine: uncommitted rows.  finished: finished_at.  left,   *)
(* reopened are history variables: the accounts without an enabled entry    *)
(* when it searched, among its AD users once it has read these, and those   *)
(* of them that an operator has enabled since.                              *)
Idle == [pc |-> "idle", since |-> NULL, listed |-> {}, off |-> {},
         added |-> {}, disabled |-> {}, mine |-> [a \in Accounts |-> NULL],
         finished |-> NULL, left |-> {}, reopened |-> {}]

Init ==
  /\ directory \in [Accounts -> {NULL, [enabled |-> TRUE, whenChanged |-> 0]}]
  /\ users = [a \in Accounts |-> IF a \in LocalAccounts THEN "active" ELSE NULL]
  /\ watermark = NULL
  /\ sess = [t \in Sessions |-> Idle]
  /\ now = 0
  /\ changes = 0
  /\ manuals = 0

Enabled(a) == directory[a] # NULL /\ directory[a].enabled

-----------------------------------------------------------------------------
(* run_ad_sync *)

\* The job row is not visible to anybody before the commit, and does not keep
\* another sync from starting.
Start(t) ==
  /\ sess[t].pc = "idle"
  /\ sess' = [sess EXCEPT ![t] = [Idle EXCEPT !.pc = "search", !.since = watermark]]
  /\ manuals' = IF t = Cron THEN manuals ELSE manuals + 1
  /\ t # Cron => manuals < MaxManual
  /\ UNCHANGED <<directory, users, watermark, now, changes>>

\* _build_filter: entries changed since the last success finished.
Matching(since) ==
  {a \in Accounts : /\ directory[a] # NULL
                    /\ since # NULL => directory[a].whenChanged >= since}

\* A search that the server refuses has no entries; ldap3 does not raise.
Search(t, refused) ==
  LET listed == IF refused THEN {} ELSE Matching(sess[t].since)
  IN /\ sess[t].pc = "search"
     /\ sess' = [sess EXCEPT ![t].pc = "read", ![t].since = NULL,
                             ![t].listed = listed,
                             ![t].off = {a \in listed : ~directory[a].enabled},
                             ![t].left = {a \in Accounts : ~Enabled(a)}]
     /\ UNCHANGED <<directory, users, watermark, now, changes, manuals>>

\* Mutant of SearchFails: the session is not ended, and the scheduler waits for it.
SearchFailsHung(t) ==
  /\ sess[t].pc = "search"
  /\ sess' = [sess EXCEPT ![t].pc = "failed"]
  /\ UNCHANGED <<directory, users, watermark, now, changes, manuals>>

\* The server cannot be reached: the job is FAILED, which moves no watermark.
SearchFails(t) ==
  /\ sess[t].pc = "search"
  /\ sess' = [sess EXCEPT ![t] = Idle]
  /\ UNCHANGED <<directory, users, watermark, now, changes, manuals>>

Known == {a \in Accounts \ LocalAccounts : users[a] # NULL}

\* Mutant of Gone: only users whose entry says so are disabled.
GoneWhenMarked(s) == Known \cap s.off

\* The AD users to disable: marked so in the directory, or not listed.
Gone(s) == {a \in Known : a \notin s.listed \/ a \in s.off \ {BootstrapAdmin}}

\* _process_users up to its loops: the users as they are now decide what every
\* iteration does.
ReadUsers(t) ==
  LET s == sess[t]
  IN /\ s.pc = "read"
     /\ sess' = [sess EXCEPT ![t].pc = "write",
          ![t].left = @ \cap Known,
          ![t].added = s.listed \ (s.off \cup Known \cup {BootstrapAdmin}),
          ![t].disabled = {a \in Gone(s) : users[a] # "disabled"}]
     /\ UNCHANGED <<directory, users, watermark, now, changes, manuals>>

\* Sessions whose uncommitted row the next statement on `a` waits for.
Holders(t, a) == {u \in Sessions \ {t} : sess[u].mine[a] # NULL}

Insert(t, a) ==
  /\ sess[t].pc = "write" /\ a \in sess[t].added
  /\ Holders(t, a) = {} /\ users[a] = NULL
  /\ sess' = [sess EXCEPT ![t].added = @ \ {a}, ![t].mine[a] = "active"]
  /\ UNCHANGED <<directory, users, watermark, now, changes, manuals>>

\* The account is taken, by a local user or by a sync that committed first.  The
\* except branch cannot write to the broken transaction: all is rolled back, the
\* record of the job too.
Duplicate(t, a) ==
  /\ sess[t].pc = "write" /\ a \in sess[t].added
  /\ Holders(t, a) = {} /\ users[a] # NULL
  /\ sess' = [sess EXCEPT ![t] = Idle]
  /\ UNCHANGED <<directory, users, watermark, now, changes, manuals>>

\* The users not listed come after the entries.
Disable(t, a) ==
  LET s == sess[t]
  IN /\ s.pc = "write" /\ a \in s.disabled
     /\ a \notin s.listed => (s.added \cup s.disabled) \cap s.listed = {}
     /\ Holders(t, a) = {}
     /\ sess' = [sess EXCEPT ![t].disabled = @ \ {a}, ![t].mine[a] = "disabled"]
     /\ UNCHANGED <<directory, users, watermark, now, changes, manuals>>

\* Mutant of Finish: the time is rounded up.
FinishRoundedUp(t) ==
  /\ sess[t].pc = "write" /\ sess[t].added = {} /\ sess[t].disabled = {}
  /\ sess' = [sess EXCEPT ![t].pc = "commit", ![t].finished = now + 1,
                          ![t].listed = {}, ![t].off = {}]
  /\ UNCHANGED <<directory, users, watermark, now, changes, manuals>>

Finish(t) ==
  /\ sess[t].pc = "write" /\ sess[t].added = {} /\ sess[t].disabled = {}
  /\ sess' = [sess EXCEPT ![t].pc = "commit", ![t].finished = now,
                          ![t].listed = {}, ![t].off = {}]
  /\ UNCHANGED <<directory, users, watermark, now, changes, manuals>>

Commit(t) ==
  LET s == sess[t]
  IN /\ s.pc = "commit"
     /\ users' = [a \in Accounts |-> IF s.mine[a] # NULL THEN s.mine[a] ELSE users[a]]
     /\ watermark' = IF watermark = NULL THEN s.finished ELSE Max({watermark, s.finished})
     /\ sess' = [sess EXCEPT ![t] = Idle]
     /\ UNCHANGED <<directory, now, changes, manuals>>

\* Two syncs that meet the same users in different orders: PostgreSQL aborts one.
WaitsFor(t) == UNION {Holders(t, a) : a \in sess[t].added \cup sess[t].disabled}

Victim(t) ==
  /\ \E u \in WaitsFor(t) : t \in WaitsFor(u)
  /\ sess' = [sess EXCEPT ![t] = Idle]
  /\ UNCHANGED <<directory, users, watermark, now, changes, manuals>>

-----------------------------------------------------------------------------
(* The directory's administrators, and the other writers of access_user.     *)

Change(a, entry) ==
  /\ changes < MaxChanges
  /\ changes' = changes + 1
  /\ directory' = [directory EXCEPT ![a] = entry]
  /\ UNCHANGED <<users, watermark, sess, now, manuals>>

\* A new account, or an old one that is enabled again.
Join(a) == ~Enabled(a) /\ Change(a, [enabled |-> TRUE, whenChanged |-> now])

\* The account is marked as disabled, or is removed.
Leave(a) ==
  /\ Enabled(a)
  /\ \/ Change(a, [enabled |-> FALSE, whenChanged |-> now])
     \/ Change(a, NULL)

\* update_user_status, a short transaction.
SetStatus(a, from, to) ==
  /\ users[a] = from
  /\ \A t \in Sessions : sess[t].mine[a] = NULL
  /\ users' = [users EXCEPT ![a] = to]
  /\ UNCHANGED <<directory, watermark, now, changes, manuals>>

EnableUser(a) ==
  /\ SetStatus(a, "disabled", "active")
  /\ sess' = [t \in Sessions |->
       IF sess[t].pc \in {"write", "commit"}
       THEN [sess[t] EXCEPT !.reopened = @ \cup ({a} \cap sess[t].left)] ELSE sess[t]]

DisableUser(a) == SetStatus(a, "active", "disabled") /\ UNCHANGED sess

Tick ==
  /\ now < MaxTime
  /\ now' = now + 1
  /\ UNCHANGED <<directory, users, watermark, sess, changes, manuals>>

-----------------------------------------------------------------------------

Write(t) == \E a \in Accounts : Insert(t, a) \/ Duplicate(t, a) \/ Disable(t, a)

Answer(t) == \E refused \in {FALSE} \cup Refusals : Search(t, refused)

Proceed(t) == Answer(t) \/ ReadUsers(t) \/ Write(t) \/ Finish(t) \/ Commit(t) \/ Victim(t)

\* Operators leave the local users alone: no sync looks at their status.
Others ==
  \/ \E a \in Accounts : Join(a) \/ Leave(a)
  \/ \E a \in Accounts \ LocalAccounts : EnableUser(a) \/ DisableUser(a)

Next ==
  \/ \E t \in Sessions : Start(t) \/ Proceed(t) \/ SearchFails(t)
  \/ Others
  \/ Tick

Spec == Init /\ [][Next]_vars

\* Cron comes again and again, a session that can go on does, and a directory
\* that is asked again and again answers some time.
FairSpec ==
  /\ Spec
  /\ WF_vars(Start(Cron))
  /\ \A t \in Sessions : WF_vars(Proceed(t))
  /\ SF_vars(Answer(Cron))

-----------------------------------------------------------------------------
(* Correctness. *)

TypeOK ==
  /\ directory \in [Accounts -> Entry \cup {NULL}]
  /\ users \in [Accounts -> Statuses \cup {NULL}]
  /\ watermark \in (0..now) \cup {NULL}
  /\ \A t \in Sessions : sess[t].mine \in [Accounts -> {NULL, "active", "disabled"}]

\* Whoever has no enabled entry when a sync searches is disabled when it
\* commits, whatever it was told and whatever it overlapped with, unless an
\* operator has enabled the user since the sync read the users.
LeaversAreDisabled == [][\A t \in Sessions : Commit(t) =>
  \A a \in sess[t].left \ {BootstrapAdmin} :
    users'[a] = "disabled" \/ a \in sess[t].reopened]_vars

\* Two syncs never hold a row each that the other waits for without end, and a
\* user who has left is disabled at some time - as long as the directory has no
\* enabled entry under a local user's account, which makes every sync fail.
Leaver(a) == users[a] = "active" /\ ~Enabled(a)
Clash == \E a \in LocalAccounts : Enabled(a)
LeaversAreFound == \A a \in Accounts \ LocalAccounts : Leaver(a) ~> (~Leaver(a) \/ Clash)

\* sync.py, _process_users: disabled are the accounts "that no longer appear in
\* AD (or whose disabled flag changed from False to True)".  It does not hold:
\* an incremental search does not list the users who have not changed.
OnlyLeaversAreDisabled == [][\A t \in Sessions : Commit(t) =>
  \A a \in Accounts :
    users[a] = "active" /\ users'[a] = "disabled" => a \in sess[t].left]_vars
=============================================================================
