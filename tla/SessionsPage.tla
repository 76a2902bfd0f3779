---------------------------- MODULE SessionsPage ----------------------------
(***************************************************************************)
(* The page of online sessions: the filter bar, the refresh every fifteen   *)
(* seconds, and forced disconnects.                                         *)
(*                                                                         *)
(* Left out: the expanded row; the CSV export, which changes nothing.       *)
(***************************************************************************)
EXTENDS PageFrame

\* timer: the 450 ms of retry are running.  kick: the sessions in the dialog, or NULL.
SessionsUI ==
  [view |-> "loading", rows |-> Mock, applied |-> Everything, timer |-> FALSE, kick |-> NULL]

SessionsDB == [sessions |-> [s \in Items |-> "online"]]

FetchSessions(f) == Listing(f, db.sessions)

DisconnectSessions(ids) == Request("kick", ids)

-----------------------------------------------------------------------------
(* The page. *)

ApplySessionFilters ==
  /\ \E f \in Filters :
       ui' = [ui EXCEPT !.applied = f, !.view = "loading"] /\ Refetch(f)

\* In the filter bar, and in the empty table.
ResetSessionFilters ==
  /\ ui' = [ui EXCEPT !.applied = Everything, !.view = "loading"]
  /\ Refetch(Everything)

RetrySessions ==
  /\ ui.view = "error"
  /\ Room(1)
  /\ ui' = [ui EXCEPT !.view = "loading", !.timer = TRUE]
  /\ calls' = SetView(calls, "loading")
  /\ parted' = Unfiltered
  /\ Click
  /\ UNCHANGED marred

\* retry's timer shows the table, whatever has been fetched.
RetryFires ==
  /\ ui.timer
  /\ ui' = [ui EXCEPT !.timer = FALSE, !.view = "ready"]
  /\ calls' = SetView(calls, "ready")
  /\ parted' = Parts(ui.rows)
  /\ Continue

\* Mutant of SessionsTick: the refresh waits for a table.
SessionsTickWhenReady ==
  /\ ui.view = "ready"
  /\ ~Open({"tick"})
  /\ Room(1)
  /\ calls' = Append(calls, Request("tick", Everything))
  /\ UNCHANGED <<ui, parted>>
  /\ Continue

SessionsTick ==
  /\ ~Open({"tick"})
  /\ Room(1)
  /\ calls' = Append(calls, Request("tick", Everything))
  /\ UNCHANGED <<ui, parted>>
  /\ Continue

ReceiveTick(i) ==
  /\ calls[i].op = "tick"
  /\ calls[i].pc = "answered"
  /\ calls' = RemoveAt(calls, i)
  /\ IF calls[i].ok
     THEN ui' = [ui EXCEPT !.rows = calls[i].answer] /\ parted' = Parts(calls[i].answer)
     ELSE UNCHANGED <<ui, parted>>
  /\ Continue

\* The dialog opens for one row, or for the selected rows that are shown.
OpenKick ==
  /\ ui.kick = NULL
  /\ \E ids \in Selections : ui' = [ui EXCEPT !.kick = ids]
  /\ UNCHANGED calls
  /\ Look

CancelKick ==
  /\ ui.kick # NULL
  /\ ui' = [ui EXCEPT !.kick = NULL]
  /\ Close
  /\ UNCHANGED calls

\* confirmKick up to its await.  The dialog stays open, and can be confirmed again.
ConfirmKick ==
  /\ ui.kick # NULL
  /\ Room(1)
  /\ calls' = Append(calls, DisconnectSessions(ui.kick))
  /\ UNCHANGED ui
  /\ Edit

\* The rows go whether the request succeeded or not.
ReceiveKick(i) ==
  /\ calls[i].op = "kick"
  /\ calls[i].pc = "answered"
  /\ calls' = RemoveAt(calls, i)
  /\ ui' = [ui EXCEPT !.rows.of = Restrict(@, DOMAIN @ \ calls[i].arg),
                      !.kick = NULL]
  /\ UNCHANGED parted
  /\ Continue

-----------------------------------------------------------------------------
(* The service, and the network. *)

\* Each session is disconnected by its NAS or is reported as failed.
ServeSessions(i) ==
  \/ calls[i].op # "kick" /\ Answered(i, TRUE, FetchSessions(calls[i].arg), db)
  \/ /\ calls[i].op = "kick"
     /\ \E gone \in SUBSET calls[i].arg :
          Answered(i, TRUE, NULL,
                   [sessions |-> Restrict(db.sessions, DOMAIN db.sessions \ gone)])
  \/ calls[i].op = "kick" /\ Refuse(i)

SessionsElsewhere ==
  \E s \in Items :
    \/ Change([sessions |-> Restrict(db.sessions, DOMAIN db.sessions \ {s})])
    \/ Change([sessions |-> [x \in DOMAIN db.sessions \cup {s} |-> "online"]])

-----------------------------------------------------------------------------
SessionsClick ==
  \/ ApplySessionFilters
  \/ ResetSessionFilters
  \/ RetrySessions
  \/ OpenKick
  \/ CancelKick
  \/ ConfirmKick

SessionsReceive(i) ==
  \/ ReceiveRows(i)
  \/ ReceiveTick(i)
  \/ ReceiveKick(i)

=============================================================================
