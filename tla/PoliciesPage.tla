---------------------------- MODULE PoliciesPage ----------------------------
(***************************************************************************)
(* The page of policies: the table in order of priority, its switches, the  *)
(* drawer that creates and edits, and deletion.  Switches and moves show at *)
(* once what they ask for.                                                  *)
(*                                                                         *)
(* Left out: what a policy says; the four steps of the form.                *)
(***************************************************************************)
EXTENDS PageFrame

\* The rows in data/policies.ts have ids that the service does not know.
MockIds == 1..2

\* rows: the ids that have a row.  editing, drawer, confirm: the form, which keeps
\* editing when it is closed.  deleting: the policy in the dialog, or NULL.
PoliciesUI ==
  [rows |-> MockIds, order |-> <<1, 2>>, enabled |-> [id \in MockIds |-> TRUE],
   editing |-> NULL, drawer |-> FALSE, confirm |-> FALSE, deleting |-> NULL]

\* last: the largest id given so far; none is given twice.
PoliciesDB ==
  [policies |-> [id \in 3..4 |-> [on |-> TRUE, priority |-> 5 - id]], last |-> 4]

Become(policies) == [db EXCEPT !.policies = policies]

Ids == DOMAIN db.policies

\* Descending priority; the database orders equal ones as it likes.
InOrder(s) ==
  \A i, j \in DOMAIN s : i < j => db.policies[s[i]].priority >= db.policies[s[j]].priority

\* What GET /api/policies can answer.
PolicyListings ==
  {[order |-> s, enabled |-> [id \in Ids |-> db.policies[id].on]] :
     s \in {s \in SetToSeqs(Ids) : InOrder(s)}}

FetchPolicies(cs) == Append(cs, Request("list", NULL))

\* A render looks up the row of every id in order, and of the policy last edited.
Throws == ~(ToSet(ui.order) \cup ({ui.editing} \ {NULL}) \subseteq ui.rows)

-----------------------------------------------------------------------------
(* The table. *)

AtTable == ~Throws /\ ~ui.drawer /\ ui.deleting = NULL

Swap(s, i, j) == [s EXCEPT ![i] = s[j], ![j] = s[i]]

MovePolicy ==
  /\ AtTable
  /\ Room(1)
  /\ \E i \in DOMAIN ui.order, j \in DOMAIN ui.order :
       /\ j \in {i - 1, i + 1}
       /\ LET next == Swap(ui.order, i, j) IN
          /\ ui' = [ui EXCEPT !.order = next]
          /\ calls' = Append(calls, Request("reorder", next))
  /\ Edit

SwitchPolicy ==
  /\ AtTable
  /\ Room(1)
  /\ \E id \in ui.rows :
       /\ ui' = [ui EXCEPT !.enabled[id] = ~@]
       /\ calls' = Append(calls, Request("toggle", [id |-> id, on |-> ~ui.enabled[id]]))
  /\ Edit

AskDelete ==
  /\ AtTable
  /\ \E id \in ui.rows : ui' = [ui EXCEPT !.deleting = id]
  /\ UNCHANGED calls
  /\ Look

CancelDelete ==
  /\ ui.deleting # NULL
  /\ ui' = [ui EXCEPT !.deleting = NULL]
  /\ UNCHANGED calls
  /\ Close

\* The dialog waits for the answer, and does not send twice.
ConfirmDelete ==
  /\ ui.deleting # NULL /\ ~Throws
  /\ ~Open({"delete"})
  /\ Room(1)
  /\ calls' = Append(calls, Request("delete", ui.deleting))
  /\ UNCHANGED ui
  /\ Edit

-----------------------------------------------------------------------------
(* The form. *)

\* openEdit and openNew.  The form of a policy of the service is empty, because it is
\* looked up among the mock's.
OpenForm ==
  /\ AtTable
  /\ \E id \in ui.rows \cup {NULL} : ui' = [ui EXCEPT !.editing = id, !.drawer = TRUE]
  /\ UNCHANGED calls
  /\ Look

CloseForm ==
  /\ ui.drawer /\ ~ui.confirm
  /\ ui' = [ui EXCEPT !.drawer = FALSE]
  /\ UNCHANGED calls
  /\ Close

TrySave ==
  /\ ui.drawer /\ ~ui.confirm /\ ~Throws
  /\ ui' = [ui EXCEPT !.confirm = TRUE]
  /\ UNCHANGED calls
  /\ Look

CheckAgain ==
  /\ ui.confirm
  /\ ui' = [ui EXCEPT !.confirm = FALSE]
  /\ UNCHANGED calls
  /\ Close

\* confirmPush up to its await.  An incomplete form throws before anything is sent.
ConfirmPush ==
  /\ ui.confirm /\ ~Throws
  /\ Room(1)
  /\ ui' = [ui EXCEPT !.confirm = FALSE]
  /\ \/ UNCHANGED calls
     \/ \E on \in BOOLEAN : calls' = Append(calls, Request("save", [id |-> ui.editing, on |-> on]))
  /\ Edit

-----------------------------------------------------------------------------
(* The answers. *)

Ended(i, op) == calls[i].op = op /\ calls[i].pc = "answered"

\* Another listing is open, and may have been read before or after this one.
Crossed(i) == \E j \in DOMAIN calls \ {i} : calls[j].op = "list"

\* Mutant of ReceivePolicyList: the order is kept.
ReceivePolicyListKeepsOrder(i) ==
  /\ Ended(i, "list")
  /\ ui' = IF calls[i].ok
           THEN [ui EXCEPT !.rows = ToSet(calls[i].answer.order),
                           !.enabled = calls[i].answer.enabled]
           ELSE ui
  /\ calls' = RemoveAt(calls, i)
  /\ parted' = (parted \/ Crossed(i))
  /\ marred' = (marred \/ Crossed(i))
  /\ UNCHANGED <<page, db, clicks, faults, changes>>

\* The first fetch and reload() set all that the table is made of.
ReceivePolicyList(i) ==
  /\ Ended(i, "list")
  /\ ui' = IF calls[i].ok
           THEN [ui EXCEPT !.rows = ToSet(calls[i].answer.order),
                           !.order = calls[i].answer.order,
                           !.enabled = calls[i].answer.enabled]
           ELSE ui
  /\ calls' = RemoveAt(calls, i)
  /\ parted' = (parted \/ Crossed(i))
  /\ marred' = (marred \/ Crossed(i))
  /\ UNCHANGED <<page, db, clicks, faults, changes>>

\* A move that fails is undone by loading the table again.
ReceiveReorder(i) ==
  /\ Ended(i, "reorder")
  /\ calls' = IF calls[i].ok THEN RemoveAt(calls, i) ELSE FetchPolicies(RemoveAt(calls, i))
  /\ UNCHANGED <<ui, parted>>
  /\ Continue

\* Mutant of ReceiveToggle: the switch stays where it was put.
ReceiveToggleNoRollback(i) ==
  /\ Ended(i, "toggle")
  /\ UNCHANGED <<ui, parted>>
  /\ calls' = RemoveAt(calls, i)
  /\ Continue

\* A switch that fails is put back.
ReceiveToggle(i) ==
  /\ Ended(i, "toggle")
  /\ ui' = IF calls[i].ok THEN ui
           ELSE [ui EXCEPT !.enabled = [id \in DOMAIN @ \cup {calls[i].arg.id} |->
                                     IF id = calls[i].arg.id THEN ~calls[i].arg.on ELSE @[id]]]
  /\ calls' = RemoveAt(calls, i)
  /\ UNCHANGED parted
  /\ Continue

ReceiveDelete(i) ==
  /\ Ended(i, "delete")
  /\ ui' = IF calls[i].ok THEN [ui EXCEPT !.deleting = NULL] ELSE ui
  /\ calls' = IF calls[i].ok THEN FetchPolicies(RemoveAt(calls, i)) ELSE RemoveAt(calls, i)
  /\ UNCHANGED parted
  /\ Continue

ReceiveSave(i) ==
  /\ Ended(i, "save")
  /\ ui' = IF calls[i].ok THEN [ui EXCEPT !.drawer = FALSE] ELSE ui
  /\ calls' = IF calls[i].ok THEN FetchPolicies(RemoveAt(calls, i)) ELSE RemoveAt(calls, i)
  /\ UNCHANGED parted
  /\ Continue

-----------------------------------------------------------------------------
(* The service. *)

\* What savePolicy sends always has priority 0, for an edited policy too.
Saved(c) ==
  LET id == IF c.arg.id = NULL THEN db.last + 1 ELSE c.arg.id IN
  [policies |-> [x \in Ids \cup {id} |->
     IF x = id THEN [on |-> c.arg.on, priority |-> 0] ELSE db.policies[x]],
   last |-> IF c.arg.id = NULL THEN id ELSE db.last]

ServePolicies(i) ==
  LET c == calls[i] IN
  \/ c.op = "list" /\ \E a \in PolicyListings : Answered(i, TRUE, a, db)
  \/ /\ c.op = "reorder"
     /\ ToSet(c.arg) = Ids
     /\ Answered(i, TRUE, NULL, Become(
          [id \in Ids |-> [db.policies[id] EXCEPT !.priority =
             1 + Len(c.arg) - CHOOSE k \in DOMAIN c.arg : c.arg[k] = id]]))
  \/ /\ c.op = "toggle"
     /\ c.arg.id \in Ids
     /\ Answered(i, TRUE, NULL, Become([db.policies EXCEPT ![c.arg.id].on = c.arg.on]))
  \/ /\ c.op = "delete"
     /\ c.arg \in Ids
     /\ Answered(i, TRUE, NULL, Become(Restrict(db.policies, Ids \ {c.arg})))
  \/ /\ c.op = "save"
     /\ c.arg.id \in Ids \cup {NULL}
     /\ Answered(i, TRUE, NULL, Saved(c))
  \/ c.op # "list" /\ Refuse(i)

-----------------------------------------------------------------------------
PoliciesClick ==
  \/ MovePolicy
  \/ SwitchPolicy
  \/ AskDelete
  \/ CancelDelete
  \/ ConfirmDelete
  \/ OpenForm
  \/ CloseForm
  \/ TrySave
  \/ CheckAgain
  \/ ConfirmPush

PoliciesReceive(i) ==
  \/ ReceivePolicyList(i)
  \/ ReceiveReorder(i)
  \/ ReceiveToggle(i)
  \/ ReceiveDelete(i)
  \/ ReceiveSave(i)

\* The table shows the service's policies in their order, and its switches.
PoliciesAgree ==
  ui.rows # MockIds =>
    /\ ToSet(ui.order) = Ids
    /\ InOrder(ui.order)
    /\ \A id \in Ids : ui.enabled[id] = db.policies[id].on

=============================================================================
