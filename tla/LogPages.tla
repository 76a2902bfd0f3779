------------------------------ MODULE LogPages ------------------------------
(***************************************************************************)
(* The pages of authentication logs and of audit logs.  Their tables are    *)
(* only read, so nothing but the filter can be wrong about them.            *)
(*                                                                         *)
(* Left out: the details of a record; the CSV exports.                      *)
(***************************************************************************)
EXTENDS PageFrame

LogsDB == [logs |-> [x \in Items |-> "record"]]

NoRows == [by |-> NULL, of |-> <<>>]

FetchAuthLogs(f) == Request("list", f)

LogUI == [view |-> "loading", rows |-> NoRows, applied |-> Everything, timer |-> FALSE]

\* The filter in the hash, if there is one, is asked for beside the effect's call.
AuthLogsMounted(link) ==
  LET load == <<Request("load", Everything)>> IN
  /\ ui = [LogUI EXCEPT !.applied = link]
  /\ calls = IF link = Everything THEN load ELSE Append(load, FetchAuthLogs(link))

ApplyLogFilters ==
  /\ \E f \in Filters :
       ui' = [ui EXCEPT !.applied = f, !.view = "loading"] /\ Refetch(f)

\* In the filter bar, and in the empty table.
ResetLogFilters ==
  /\ ui' = [ui EXCEPT !.applied = Everything, !.view = "loading"]
  /\ Refetch(Everything)

RetryLogs ==
  /\ ui.view = "error"
  /\ Room(1)
  /\ ui' = [ui EXCEPT !.view = "loading", !.timer = TRUE]
  /\ calls' = SetView(calls, "loading")
  /\ parted' = Unfiltered
  /\ Click
  /\ UNCHANGED marred

\* retry's timer shows the table, whatever has been fetched.
LogRetryFires ==
  /\ ui.timer
  /\ ui' = [ui EXCEPT !.timer = FALSE, !.view = "ready"]
  /\ calls' = SetView(calls, "ready")
  /\ parted' = Parts(ui.rows)
  /\ Continue

-----------------------------------------------------------------------------
(* The audit log: load() is called by an effect on the action chosen, which *)
(* has no cleanup, and by the button that retries.                          *)

AuditUI == [view |-> "loading", rows |-> NoRows, applied |-> Everything]

LoadAudit(f) == Request("list", f)

\* The view stays: the old rows are shown until the answer.
ChooseAction ==
  /\ Room(1)
  /\ \E f \in Filters \ {ui.applied} :
       /\ ui' = [ui EXCEPT !.applied = f]
       /\ calls' = Append(calls, LoadAudit(f))
  /\ Look

RetryAudit ==
  /\ ui.view = "error"
  /\ Room(1)
  /\ ui' = [ui EXCEPT !.view = "loading"]
  /\ calls' = Append(calls, LoadAudit(ui.applied))
  /\ Look

\* Mutant of ReceiveAudit: a failure is not shown.
ReceiveAuditIgnoresFailure(i) ==
  /\ calls[i].pc = "answered"
  /\ ui' = IF calls[i].ok THEN [ui EXCEPT !.rows = calls[i].answer, !.view = "ready"] ELSE ui
  /\ calls' = RemoveAt(calls, i)
  /\ parted' = (parted \/ Late(i))
  /\ Continue

ReceiveAudit(i) ==
  /\ calls[i].pc = "answered"
  /\ ui' = IF calls[i].ok THEN [ui EXCEPT !.rows = calls[i].answer, !.view = "ready"]
           ELSE [ui EXCEPT !.view = "error"]
  /\ calls' = RemoveAt(calls, i)
  /\ parted' = (parted \/ Late(i))
  /\ Continue

-----------------------------------------------------------------------------
ServeLogs(i) == Answered(i, TRUE, Listing(calls[i].arg, db.logs), db)

AuthLogsClick ==
  \/ ApplyLogFilters
  \/ ResetLogFilters
  \/ RetryLogs

AuditClick ==
  \/ ChooseAction
  \/ RetryAudit

=============================================================================
