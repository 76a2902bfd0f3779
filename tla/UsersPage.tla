----------------------------- MODULE UsersPage -----------------------------
(***************************************************************************)
(* The page of access users: the filter bar, the drawer with an account's   *)
(* details, and the dialogs that enable, disable and assign policies to     *)
(* accounts, and that start a directory synchronisation.                    *)
(*                                                                         *)
(* Left out: the list of past synchronisations; accounts locked for a time. *)
(***************************************************************************)
EXTENDS PageFrame

Policies == 1..2

\* drawer: the account shown, or NULL.  detail: whose details are there, or NULL.
\* policies: the choices of the dialog.  modal: a record with its kind, or NULL.
UsersUI ==
  [view |-> "loading", rows |-> Mock, applied |-> Everything, policies |-> {}, drawer |-> NULL,
   detail |-> NULL, modal |-> NULL, syncing |-> FALSE]

UsersDB == [users |-> [x \in Items |-> [on |-> TRUE, policy |-> 1]]]

FetchUsers(f) == Listing(f, db.users)

FetchUserDetail(account) == Request("detail", account)

UpdateUserStatus(accounts, on) == Request("status", [accounts |-> accounts, to |-> on])

AssignUserPolicy(accounts, policy) ==
  Request("policy", [accounts |-> accounts, to |-> policy])

-----------------------------------------------------------------------------
(* The table. *)

ApplyUserFilters ==
  /\ \E f \in Filters :
       ui' = [ui EXCEPT !.applied = f, !.view = "loading"] /\ Refetch(f)

\* In the filter bar, and in the empty table.
ResetUserFilters ==
  /\ ui' = [ui EXCEPT !.applied = Everything, !.view = "loading"]
  /\ Refetch(Everything)

\* retry drops no filter, and asks for every account.
RetryUsers ==
  /\ ui.view = "error"
  /\ ui' = [ui EXCEPT !.view = "loading"]
  /\ Room(2)
  /\ calls' = SetView(Append(calls, Request("list", Everything)), "loading")
  /\ parted' = Unfiltered
  /\ Click
  /\ UNCHANGED marred

\* reload() after a change asks for every account, whatever filter is applied.
ReloadUsers(cs) ==
  /\ calls' = Append(cs, Request("list", Everything))
  /\ parted' = Unfiltered

-----------------------------------------------------------------------------
(* The drawer.  It covers the page, so it is closed before another opens. *)

\* The effect on drawerUser; the answer to the call of an earlier drawer is ignored.
DrawerEffect(cs, account) ==
  LET left == Cancel(cs, "detail") IN
  IF account = NULL THEN left ELSE Append(left, FetchUserDetail(account))

\* The hash #user= is looked up once, in the first rows that are not empty: the mock's.
\* A name that is not among them opens nothing.
DeepLinks == Items \cup {NULL}

UsersMounted(link) ==
  /\ ui = [UsersUI EXCEPT !.drawer = link]
  /\ calls = DrawerEffect(<<Request("load", Everything), Request("policies", NULL)>>, link)

OpenUser ==
  /\ ui.drawer = NULL /\ ui.modal = NULL
  /\ ui.view = "ready"
  /\ Room(1)
  /\ \E x \in Shown :
       /\ ui' = [ui EXCEPT !.drawer = x, !.detail = NULL]
       /\ calls' = DrawerEffect(calls, x)
  /\ Look

CloseUser ==
  /\ ui.drawer # NULL /\ ui.modal = NULL
  /\ ui' = [ui EXCEPT !.drawer = NULL]
  /\ calls' = DrawerEffect(calls, NULL)
  /\ Close

ReceiveDetail(i) ==
  /\ calls[i].op = "detail"
  /\ calls[i].pc = "answered"
  /\ ui' = IF calls[i].ok THEN [ui EXCEPT !.detail = calls[i].arg] ELSE ui
  /\ calls' = RemoveAt(calls, i)
  /\ UNCHANGED parted
  /\ Continue

ReceivePolicies(i) ==
  /\ calls[i].op = "policies"
  /\ calls[i].pc = "answered"
  /\ ui' = IF calls[i].ok THEN [ui EXCEPT !.policies = Policies] ELSE ui
  /\ calls' = RemoveAt(calls, i)
  /\ UNCHANGED parted
  /\ Continue

-----------------------------------------------------------------------------
(* The dialogs. *)

\* The buttons over the table, the drawer's footer and the link to past synchronisations.
Dialogs ==
  IF ui.drawer # NULL THEN {[kind |-> "disable", rows |-> {ui.drawer}]}
  ELSE {[kind |-> "log", rows |-> {}]} \cup
       [kind: {"enable", "disable all", "policy"}, rows: Selections]

OpenDialog ==
  /\ ui.modal = NULL
  /\ \E d \in Dialogs :
       ui' = [ui EXCEPT !.modal = d]
  /\ UNCHANGED calls
  /\ Look

CancelDialog ==
  /\ ui.modal # NULL
  /\ ui' = [ui EXCEPT !.modal = NULL]
  /\ Close
  /\ UNCHANGED calls

\* confirmModal up to its await: the dialog closes first.  Without a policy it ends
\* there; for past synchronisations it only reloads.
ConfirmDialog ==
  /\ ui.modal # NULL
  /\ Room(1)
  /\ LET d == ui.modal
         send(r) == calls' = Append(calls, r) /\ UNCHANGED parted
     IN \/ d.kind = "enable" /\ send(UpdateUserStatus(d.rows, TRUE))
        \/ d.kind = "disable all" /\ send(UpdateUserStatus(d.rows, FALSE))
        \/ d.kind = "disable" /\ send([UpdateUserStatus(d.rows, FALSE) EXCEPT !.op = "disable"])
        \/ d.kind = "policy" /\ ui.policies = {} /\ UNCHANGED <<calls, parted>>
        \/ d.kind = "policy" /\ \E p \in ui.policies : send(AssignUserPolicy(d.rows, p))
        \/ d.kind = "log" /\ ReloadUsers(calls)
  /\ ui' = [ui EXCEPT !.modal = NULL]
  /\ Click
  /\ marred' = (marred \/ calls # <<>>)

\* confirmModal after its await: the drawer closes if it was the drawer's button.
ReceiveUserEdit(i) ==
  /\ calls[i].op \in {"status", "disable", "policy"}
  /\ calls[i].pc = "answered"
  /\ IF ~calls[i].ok THEN calls' = RemoveAt(calls, i) /\ UNCHANGED <<ui, parted>>
     ELSE IF calls[i].op = "disable"
     THEN /\ ui' = [ui EXCEPT !.drawer = NULL]
          /\ ReloadUsers(DrawerEffect(RemoveAt(calls, i), NULL))
     ELSE UNCHANGED ui /\ ReloadUsers(RemoveAt(calls, i))
  /\ Continue

-----------------------------------------------------------------------------
(* The directory synchronisation. *)

\* The directory may change accounts, and the table is not loaded again.
StartSync ==
  /\ ~ui.syncing
  /\ ui.drawer = NULL /\ ui.modal = NULL
  /\ Room(1)
  /\ ui' = [ui EXCEPT !.syncing = TRUE]
  /\ calls' = Append(calls, Request("sync", NULL))
  /\ marred' = TRUE
  /\ Click
  /\ UNCHANGED parted

ReceiveSync(i) ==
  /\ calls[i].op = "sync"
  /\ calls[i].pc = "answered"
  /\ ui' = [ui EXCEPT !.syncing = FALSE]
  /\ calls' = RemoveAt(calls, i)
  /\ UNCHANGED parted
  /\ Continue

-----------------------------------------------------------------------------
(* The service. *)

Updated(users, accounts, field, to) ==
  [x \in Items |-> IF x \notin accounts THEN users[x]
                   ELSE IF field = "on" THEN [users[x] EXCEPT !.on = to]
                   ELSE [users[x] EXCEPT !.policy = to]]

Synchronised(users) == [users: {Updated(users, {x}, "on", FALSE) : x \in Items} \cup {users}]

ServeUsers(i) ==
  LET c == calls[i] IN
  \/ c.op \in {"load", "list"} /\ Answered(i, TRUE, FetchUsers(c.arg), db)
  \/ c.op \in {"detail", "policies"} /\ Answered(i, TRUE, NULL, db)
  \/ /\ c.op \in {"status", "disable"}
     /\ Answered(i, TRUE, NULL, [users |-> Updated(db.users, c.arg.accounts, "on", c.arg.to)])
  \/ /\ c.op = "policy"
     /\ Answered(i, TRUE, NULL, [users |-> Updated(db.users, c.arg.accounts, "policy", c.arg.to)])
  \/ c.op = "sync" /\ \E after \in Synchronised(db.users) : Answered(i, TRUE, NULL, after)
  \/ c.op \in {"status", "disable", "policy", "sync"} /\ Refuse(i)

-----------------------------------------------------------------------------
UsersClick ==
  \/ ApplyUserFilters
  \/ ResetUserFilters
  \/ RetryUsers
  \/ OpenUser
  \/ CloseUser
  \/ OpenDialog
  \/ CancelDialog
  \/ ConfirmDialog
  \/ StartSync

UsersReceive(i) ==
  \/ ReceiveRows(i)
  \/ ReceiveDetail(i)
  \/ ReceivePolicies(i)
  \/ ReceiveUserEdit(i)
  \/ ReceiveSync(i)

=============================================================================
