----------------------------- MODULE PageFrame -----------------------------
(***************************************************************************)
(* What the console's pages share: one mounted React component (ui), the    *)
(* calls it has open, and the part of the service's tables that it lists    *)
(* and edits (db).  A call ends by its answer being received; answers can   *)
(* come in any order.  Reads whose effect has been cleaned up are dropped   *)
(* from the open calls, because their answer is ignored.                    *)
(*                                                                         *)
(* What is filled in or ticked is an input of the click that uses it.       *)
(*                                                                         *)
(* Left out: mock mode; tokens (ClientAuth); toasts, columns and layout;    *)
(* leaving the page, after which no answer is taken.                        *)
(***************************************************************************)
EXTENDS Naturals, SequencesExt

CONSTANTS
  Size,        \* how many rows a table has
  Filters,     \* what a filter bar or a period can be set to
  MaxCalls,    \* bound on the calls open at a time
  MaxClicks,   \* bound on the clicks, those apart that only close something
  MaxFaults,   \* bound on the lost requests and answers
  MaxChanges,  \* bound on what is changed elsewhere
  NULL

ASSUME BoundsAssumption ==
  {MaxCalls, MaxClicks, MaxFaults, MaxChanges} \subseteq Nat /\ MaxCalls >= 2
ASSUME NullAssumption == NULL \notin Nat

VARIABLES
  page,     \* which page is mounted
  ui,       \* its state
  calls,    \* the open calls, in the order in which they were sent
  db,       \* the rows of the service
  clicks, faults, changes,
  parted,   \* history: something that parts the rows from the filter has happened; on
            \* the settings' page, the switches and rules from those saved
  marred    \* history: something that parts the page from the service has happened

vars == <<page, ui, calls, db, clicks, faults, changes, parted, marred>>

Items == 1..Size

\* A filter is Everything, or keeps the row that it names.
Everything == 0

ASSUME TablesAssumption ==
  Size \in Nat /\ Size >= 2 /\ Everything \in Filters /\ Filters \subseteq 0..Size

Matches(x, f) == f = Everything \/ x = f

Listing(f, table) ==
  [by |-> f, of |-> Restrict(table, {x \in DOMAIN table : Matches(x, f)})]

\* The rows in data/, shown until the first answer.
Mock == [by |-> NULL, of |-> [x \in Items |-> NULL]]

Shown == DOMAIN ui.rows.of

-----------------------------------------------------------------------------
(* Calls. *)

Request(op, arg) == [op |-> op, arg |-> arg, pc |-> "sent", ok |-> FALSE, answer |-> NULL]

Room(n) == Len(calls) + n <= MaxCalls

Open(ops) == \E i \in DOMAIN calls : calls[i].op \in ops

\* The cleanup of an effect: cancelled = true.  An effect has one call open at most.
Cancel(cs, op) == RemoveFirstMatch(cs, LAMBDA c : c.op = op)

Click ==
  /\ clicks < MaxClicks
  /\ clicks' = clicks + 1
  /\ UNCHANGED <<page, db, faults, changes>>

\* A click that sends a change; the page need not agree if another call is open.
Edit ==
  /\ Click
  /\ marred' = (marred \/ calls # <<>>)
  /\ UNCHANGED parted

\* A click that changes nothing in the service; one that only closes what is open.
Look == Click /\ UNCHANGED <<parted, marred>>
Close == UNCHANGED <<page, db, clicks, faults, changes, parted, marred>>

\* The continuation of a call, or of a timer.
Continue == UNCHANGED <<page, db, clicks, faults, changes, marred>>

Answered(i, ok, answer, after) ==
  /\ calls[i].pc = "sent"
  /\ calls' = [calls EXCEPT ![i] = [@ EXCEPT !.pc = "answered", !.ok = ok, !.answer = answer]]
  /\ db' = after
  /\ UNCHANGED <<page, ui, clicks, faults, changes, parted, marred>>

\* The service refuses: 4xx, and nothing is changed.
Refuse(i) == Answered(i, FALSE, NULL, db)

\* A request, or its answer after the service has acted on it, is lost.
Lose(i) ==
  /\ calls[i].pc = "sent" \/ calls[i].ok
  /\ faults < MaxFaults
  /\ faults' = faults + 1
  /\ calls' = [calls EXCEPT ![i] = [@ EXCEPT !.pc = "answered", !.ok = FALSE, !.answer = NULL]]
  /\ marred' = (marred \/ calls[i].pc = "answered" \/ calls[i].op = "list")
  /\ UNCHANGED <<page, ui, db, clicks, changes, parted>>

\* Another administrator, the directory or the network changes the rows.
Change(after) ==
  /\ changes < MaxChanges
  /\ changes' = changes + 1
  /\ db' = after
  /\ marred' = TRUE
  /\ UNCHANGED <<page, ui, calls, clicks, faults, parted>>

-----------------------------------------------------------------------------
(* Pages with a filter bar: Sessions, Users and AuthLogs are written alike. *)

\* Mutant of SetView: the effect has no cleanup.
SetViewKeepsCall(cs, to) ==
  IF to = ui.view \/ to # "loading" THEN cs ELSE Append(cs, Request("load", Everything))

\* setView, and after the render the effect on view: loading sends an unfiltered call,
\* and leaving loading cancels it.
SetView(cs, to) ==
  IF to = ui.view THEN cs
  ELSE IF to = "loading" THEN Append(Cancel(cs, "load"), Request("load", Everything))
  ELSE Cancel(cs, "load")

\* applyFilters and resetFilters: a call of their own, then the effect's.
Refetch(f) ==
  /\ Room(2)
  /\ calls' = SetView(Append(calls, Request("list", f)), "loading")
  /\ Click
  /\ UNCHANGED <<parted, marred>>

Parts(rows) == parted \/ rows.by # ui.applied

\* A call for every row is sent although a filter is applied.
Unfiltered == parted \/ ui.applied # Everything

\* An answer from which an older call with other rows is still to come.
Late(i) == \E j \in 1..(i - 1) : calls[j].op = "list"

ReceiveRows(i) ==
  /\ calls[i].op \in {"load", "list"}
  /\ calls[i].pc = "answered"
  /\ LET view == IF calls[i].ok THEN "ready" ELSE "error" IN
     /\ ui' = [ui EXCEPT !.view = view, !.rows = IF calls[i].ok THEN calls[i].answer ELSE @]
     /\ calls' = SetView(RemoveAt(calls, i), view)
  /\ parted' = (parted \/ Late(i))
  /\ marred' = (marred \/ Late(i))
  /\ UNCHANGED <<page, db, clicks, faults, changes>>

\* What the table's checkboxes can leave selected, of the rows that are shown.
Selections == IF ui.view = "ready" THEN (SUBSET Shown) \ {{}} ELSE {}

=============================================================================
