--------------------------- MODULE OverviewPages ---------------------------
(***************************************************************************)
(* The dashboard and the reports: one choice of a period, the numbers that  *)
(* answer it, and what else can be done there.  The calls of one            *)
(* Promise.all are one call.                                                *)
(*                                                                         *)
(* Left out: the numbers; the charts.                                       *)
(***************************************************************************)
EXTENDS PageFrame

\* alerts: those that the last answer had as read.  readIds: those clicked here.
DashboardUI ==
  [view |-> "ready", rows |-> [by |-> NULL, of |-> <<>>], applied |-> Everything,
   alerts |-> {}, readIds |-> {}]

ReportsUI ==
  [view |-> "ready", rows |-> [by |-> NULL, of |-> <<>>], applied |-> Everything,
   exporting |-> FALSE]

OverviewDB == [read |-> {}]

\* The effect on the mode or the period; its cleanup cancels the call for the last one.
LoadPeriod(cs, p) == Append(Cancel(cs, "load"), Request("load", p))

\* Mutant of ChoosePeriod: the effect has no cleanup.
ChoosePeriodKeepsCall ==
  /\ Room(1)
  /\ \E p \in Filters \ {ui.applied} :
       /\ ui' = [ui EXCEPT !.applied = p]
       /\ calls' = Append(calls, Request("load", p))
  /\ Look

ChoosePeriod ==
  /\ Room(1)
  /\ \E p \in Filters \ {ui.applied} :
       /\ ui' = [ui EXCEPT !.applied = p]
       /\ calls' = LoadPeriod(calls, p)
  /\ Look

\* A failure is ignored: the numbers for another period stay.
ReceivePeriod(i) ==
  /\ calls[i].op = "load"
  /\ calls[i].pc = "answered"
  /\ LET a == calls[i].answer IN
     IF calls[i].ok
     THEN /\ ui' = [ui EXCEPT !.rows = a] /\ UNCHANGED parted
     ELSE UNCHANGED ui /\ parted' = Parts(ui.rows)
  /\ calls' = RemoveAt(calls, i)
  /\ Continue

-----------------------------------------------------------------------------
(* The dashboard. *)

\* Every 30 s; the interval of an earlier mode is stopped, its open call is not.
DashboardTick ==
  /\ ~Open({"tick"})
  /\ Room(1)
  /\ calls' = Append(calls, Request("tick", ui.applied))
  /\ UNCHANGED <<ui, parted>>
  /\ Continue

ReceiveDashboard(i) ==
  /\ calls[i].op \in {"load", "tick"}
  /\ calls[i].pc = "answered"
  /\ LET a == calls[i].answer IN
     IF calls[i].ok
     THEN ui' = [ui EXCEPT !.rows = [by |-> a.by, of |-> <<>>], !.alerts = a.of] /\ parted' = Parts(a)
     ELSE UNCHANGED ui /\ parted' = Parts(ui.rows)
  /\ calls' = RemoveAt(calls, i)
  /\ Continue

ReadInPage == ui.alerts \cup ui.readIds

MarkRead ==
  /\ Room(1)
  /\ \E x \in Items \ ReadInPage :
       /\ ui' = [ui EXCEPT !.readIds = @ \cup {x}]
       /\ calls' = Append(calls, Request("read", x))
  /\ Click
  /\ UNCHANGED <<parted, marred>>

ReceiveRead(i) ==
  /\ calls[i].op = "read"
  /\ calls[i].pc = "answered"
  /\ calls' = RemoveAt(calls, i)
  /\ marred' = (marred \/ ~calls[i].ok)
  /\ UNCHANGED <<page, ui, db, clicks, faults, changes, parted>>

-----------------------------------------------------------------------------
(* The reports. *)

\* Both buttons are disabled until the file is there.
ExportReport ==
  /\ ~ui.exporting
  /\ Room(1)
  /\ ui' = [ui EXCEPT !.exporting = TRUE]
  /\ calls' = Append(calls, Request("export", ui.applied))
  /\ Look

ReceiveExport(i) ==
  /\ calls[i].op = "export"
  /\ calls[i].pc = "answered"
  /\ ui' = [ui EXCEPT !.exporting = FALSE]
  /\ calls' = RemoveAt(calls, i)
  /\ UNCHANGED parted
  /\ Continue

-----------------------------------------------------------------------------
ServeOverview(i) ==
  \/ /\ calls[i].op \in {"load", "tick"}
     /\ Answered(i, TRUE, [by |-> calls[i].arg, of |-> db.read], db)
  \/ /\ calls[i].op = "read"
     /\ Answered(i, TRUE, NULL, [read |-> db.read \cup {calls[i].arg}])
  \/ calls[i].op = "export" /\ (Answered(i, TRUE, NULL, db) \/ Refuse(i))

DashboardReceive(i) ==
  \/ ReceiveDashboard(i)
  \/ ReceiveRead(i)

ReportsReceive(i) ==
  \/ ReceivePeriod(i)
  \/ ReceiveExport(i)

\* An alert shown as read is read, and one shown as unread is not.
AlertsAgree == ui.rows.by # NULL => ReadInPage = db.read

=============================================================================
