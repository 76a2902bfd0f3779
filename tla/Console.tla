------------------------------ MODULE Console ------------------------------
(***************************************************************************)
(* The console with one of its pages mounted, the service behind it, the    *)
(* network between them, and the changes that others make.                  *)
(***************************************************************************)
EXTENDS SessionsPage, UsersPage, PoliciesPage, DevicesPage, LogPages, OverviewPages, SettingsPage

Pages ==
  {"sessions", "users", "policies", "nas", "endpoints", "authlogs", "audit", "dashboard",
   "reports", "settings", "admins"}

Loading == <<Request("load", Everything)>>

Init ==
  /\ page \in Pages
  /\ \/ page = "sessions" /\ ui = SessionsUI /\ db = SessionsDB /\ calls = Loading
     \/ page = "users" /\ db = UsersDB /\ \E link \in DeepLinks : UsersMounted(link)
     \/ page = "policies" /\ ui = PoliciesUI /\ db = PoliciesDB /\ calls = FetchPolicies(<<>>)
     \/ page = "nas" /\ ui = NasUI /\ db \in NasDB /\ calls = Loading
     \/ page = "endpoints" /\ ui = EndpointsUI /\ db \in EndpointsDB /\ calls = Loading
     \/ page = "authlogs" /\ db = LogsDB /\ \E link \in Filters : AuthLogsMounted(link)
     \/ page = "audit" /\ ui = AuditUI /\ db = LogsDB /\ calls = <<LoadAudit(Everything)>>
     \/ page = "dashboard" /\ ui = DashboardUI /\ db = OverviewDB /\ calls = LoadPeriod(<<>>, Everything)
     \/ page = "reports" /\ ui = ReportsUI /\ db = OverviewDB /\ calls = LoadPeriod(<<>>, Everything)
     \/ page = "settings" /\ ui = SettingsUI /\ db \in SettingsDB /\ calls = SettingsMounted
     \/ page = "admins" /\ ui = AdminUI /\ db \in AdminDB /\ calls = <<FetchAdmins>>
  /\ clicks = 0
  /\ faults = 0
  /\ changes = 0
  /\ parted = FALSE
  /\ marred = FALSE

User ==
  \/ page = "sessions" /\ SessionsClick
  \/ page = "users" /\ UsersClick
  \/ page = "policies" /\ PoliciesClick
  \/ page = "nas" /\ NasClick
  \/ page = "endpoints" /\ EndpointsClick
  \/ page = "authlogs" /\ AuthLogsClick
  \/ page = "audit" /\ AuditClick
  \/ page = "dashboard" /\ (ChoosePeriod \/ MarkRead)
  \/ page = "reports" /\ (ChoosePeriod \/ ExportReport)
  \/ page = "settings" /\ SettingsClick
  \/ page = "admins" /\ AdminsClick

Serve(i) ==
  \/ page = "sessions" /\ ServeSessions(i)
  \/ page = "users" /\ ServeUsers(i)
  \/ page = "policies" /\ ServePolicies(i)
  \/ page = "nas" /\ ServeNas(i)
  \/ page = "endpoints" /\ ServeEndpoints(i)
  \/ page \in {"authlogs", "audit"} /\ ServeLogs(i)
  \/ page \in {"dashboard", "reports"} /\ ServeOverview(i)
  \/ page = "settings" /\ ServeSettings(i)
  \/ page = "admins" /\ ServeAdmins(i)

Receive(i) ==
  \/ page = "sessions" /\ SessionsReceive(i)
  \/ page = "users" /\ UsersReceive(i)
  \/ page = "policies" /\ PoliciesReceive(i)
  \/ page = "nas" /\ NasReceive(i)
  \/ page = "endpoints" /\ EndpointsReceive(i)
  \/ page = "authlogs" /\ ReceiveRows(i)
  \/ page = "audit" /\ ReceiveAudit(i)
  \/ page = "dashboard" /\ DashboardReceive(i)
  \/ page = "reports" /\ ReportsReceive(i)
  \/ page = "settings" /\ SettingsReceive(i)
  \/ page = "admins" /\ AdminsReceive(i)

Timer ==
  \/ page = "sessions" /\ (SessionsTick \/ RetryFires)
  \/ page = "authlogs" /\ LogRetryFires
  \/ page = "dashboard" /\ DashboardTick

Elsewhere ==
  \/ page = "sessions" /\ SessionsElsewhere
  \/ page = "admins" /\ AdminsElsewhere

Next ==
  \/ User
  \/ \E i \in DOMAIN calls : Serve(i)
  \/ \E i \in DOMAIN calls : Receive(i)
  \/ \E i \in DOMAIN calls : Lose(i)
  \/ Timer
  \/ Elsewhere

Spec == Init /\ [][Next]_vars

\* The service answers, an answer is taken, and timers fire; users promise nothing.
Fairness ==
  /\ WF_vars(calls # <<>> /\ (Serve(1) \/ Receive(1)))
  /\ WF_vars(page = "sessions" /\ SessionsTick)
  /\ WF_vars(page = "sessions" /\ RetryFires)
  /\ WF_vars(page = "authlogs" /\ LogRetryFires)

FairSpec == Spec /\ Fairness

-----------------------------------------------------------------------------
\* The pages whose rows answer a filter, a chosen action or a period.
Filtered == {"sessions", "users", "nas", "endpoints", "authlogs", "audit", "dashboard", "reports"}

ReadsOpen == {"load", "list", "tick"}

\* The types of the variables; the effect that loads a page has at most one call open,
\* and answers leave room for what they send next.
TypeOK ==
  /\ page \in Pages
  /\ Len(calls) <= MaxCalls + 1
  /\ \A i \in DOMAIN calls : calls[i].pc \in {"sent", "answered"} /\ calls[i].ok \in BOOLEAN
  /\ Cardinality({i \in DOMAIN calls : calls[i].op = "load"}) <= 1
  /\ {clicks, faults, changes} \subseteq Nat
  /\ {parted, marred} \subseteq BOOLEAN

\* A drawer shows nothing of another account or, once its own call has ended, of another
\* device.
DrawersMatch ==
  /\ page = "users" /\ ui.drawer # NULL => ui.detail \in {NULL, ui.drawer}
  /\ page = "nas" /\ ui.drawer # NULL /\ ~Open({"ports"}) => ui.ports \in {NULL, ui.drawer}

\* What is shown answers what was chosen: when nothing is being read, the rows answer the
\* filter shown, and no call that an effect's cleanup has dropped ever shows.  The code has
\* habits that part them, after which nothing is said (parted):
\*  - a listing is answered while an older one is still open (Late, in ReceiveEndpoints the
\*    effect's as well), for the older answer will be taken too;
\*  - a retry, a reload after a change, the tab's return and the sessions' tick ask for every
\*    row while a filter is applied (Unfiltered, ReceiveTick);
\*  - the button of an empty table clears the filter and asks for nothing;
\*  - retry's timer shows rows that were not fetched (RetryFires, LogRetryFires);
\*  - the numbers of a period or the list of endpoints could not be read, and a tick of the
\*    dashboard brings those of an earlier period.
\* A drawer shows nothing of another row, whatever the order of the answers.
FilterHolds ==
  /\ page \in Filtered /\ ui.view = "ready" /\ ~Open(ReadsOpen) /\ ~parted =>
       ui.rows.by = ui.applied
  /\ DrawersMatch

\* The policies' page fails to render only because the policy that was last edited is gone:
\* the table's order and its rows always agree.
CrashNeedsStaleEdit ==
  page = "policies" /\ Throws /\ ~parted => ui.editing \notin Ids \cup {NULL}

\* When nothing is open, what a page shows of the service is what the service has, however
\* many changes were made, one after the other, and which of them were refused or lost on
\* the way to the service.  Nothing is said (marred) once the page could not know, or does
\* not look:
\*  - an answer was lost on its way back, or a listing on either way (Lose);
\*  - a change was sent, or a secret asked for, while a call was open (Edit, ConfirmDialog),
\*    or a listing of endpoints beside a removal (MayUndo);
\*  - a directory synchronisation was started, or another administrator changed something;
\*  - a listing was answered while an older one was open (Late), of the policies any other
\*    one (Crossed);
\*  - a device was changed of which the secret had been fetched (ReceiveNasEdit);
\*  - an alert could not be marked as read (ReceiveRead).
\* The settings' page does not undo what could not be saved: SettingsAgree says what is left
\* then.  And the policies' page renders, but for a stale edit and crossed listings (parted).
EditorAgrees ==
  /\ calls = <<>> /\ ~marred =>
       /\ page = "users" /\ ui.view = "ready" => \A x \in Shown : ui.rows.of[x] = db.users[x]
       /\ page = "policies" => PoliciesAgree
       /\ page = "nas" => NasAgree
       /\ page = "endpoints" => EndpointsAgree
       /\ page = "dashboard" => AlertsAgree
       /\ page = "settings" => SettingsAgree
       /\ page = "admins" => AdminsAgree
  /\ CrashNeedsStaleEdit

\* Skeletons, and the buttons that wait.
Busy ==
  \/ page \in {"sessions", "users", "nas", "authlogs", "audit"} /\ ui.view = "loading"
  \/ page = "users" /\ ui.syncing
  \/ page = "reports" /\ ui.exporting
  \/ page = "admins" /\ ui.grant # NULL /\ ui.grant.busy
  \/ page = "nas" /\ ui.modal # NULL /\ ui.modal.busy

\* Whatever keeps a page busy has a call of its own open, which ends it: no answer to another
\* dialog, no cleanup of an effect and no failure takes the call away and leaves the page busy.
BusyAwaits ==
  /\ page \in {"sessions", "users", "nas", "authlogs"} /\ ui.view = "loading" => Open({"load"})
  /\ page = "audit" /\ ui.view = "loading" => Open({"list"})
  /\ page = "users" /\ ui.syncing => Open({"sync"})
  /\ page = "reports" /\ ui.exporting => Open({"export"})
  /\ page = "admins" /\ ui.grant # NULL /\ ui.grant.busy => Open({"grant"})
  /\ page = "nas" /\ ui.modal # NULL /\ ui.modal.busy => Open({"create", "update"})

\* No page waits for ever, whichever calls fail.
PageSettles == Busy ~> ~Busy

\* The sessions' page comes to show the sessions that there are, in every view and after
\* any failures, because its interval does not depend on them.
RefreshConverges == <>[](page = "sessions" => ui.rows.of = db.sessions)

=============================================================================
