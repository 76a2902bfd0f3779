---------------------------- MODULE DevicesPage ----------------------------
(***************************************************************************)
(* The page of devices.  Its two tabs share one dialog and nothing else:    *)
(* each is a page here, "nas" with the network devices and "endpoints".     *)
(*                                                                         *)
(* Both devices of the table are switches, so one list of ports serves      *)
(* both.  A secret is its version; the fields of a device are left out.     *)
(***************************************************************************)
EXTENDS PageFrame

None == [by |-> NULL, of |-> <<>>]

-----------------------------------------------------------------------------
(* The network devices. *)

\* ports: whose ports the drawer lists.  secrets: those fetched.  visible: those shown.
NasUI ==
  [view |-> "loading", rows |-> None, applied |-> Everything, drawer |-> NULL, ports |-> NULL,
   secrets |-> [x \in Items |-> NULL], visible |-> {}, modal |-> NULL]

NasDB == {[nas |-> [x \in X |-> 0]] : X \in {Items, {2}}}

ApplyNasFilters ==
  /\ \E f \in Filters :
       ui' = [ui EXCEPT !.applied = f, !.view = "loading"] /\ Refetch(f)

ResetNasFilters ==
  /\ ui' = [ui EXCEPT !.applied = Everything, !.view = "loading"]
  /\ Refetch(Everything)

\* The button in the empty table clears the filter and asks for nothing.
ClearNasFilters ==
  /\ ui.view = "ready" /\ Shown = {}
  /\ ui.applied # Everything
  /\ ui' = [ui EXCEPT !.applied = Everything]
  /\ UNCHANGED <<calls, marred>>
  /\ parted' = TRUE
  /\ Click

\* reloadNas, for the cs that stay open: its own call, and the effect's unless the
\* table is loading already.
ReloadNas(cs) ==
  /\ calls' = SetView(Append(cs, Request("list", Everything)), "loading")
  /\ parted' = Unfiltered

NasRetry ==
  /\ ui.view = "error"
  /\ Room(2)
  /\ ui' = [ui EXCEPT !.view = "loading"]
  /\ ReloadNas(calls)
  /\ Click
  /\ UNCHANGED marred

NasIdle == ui.drawer = NULL /\ ui.modal = NULL /\ ui.view = "ready"

\* The effect on drawerDevice asks for its ports; the last device's stay until then.
OpenNas ==
  /\ NasIdle
  /\ Room(1)
  /\ \E x \in Shown :
       /\ ui' = [ui EXCEPT !.drawer = x]
       /\ calls' = Append(calls, Request("ports", x))
  /\ Look

\* Mutant of CloseNas: the effect has no cleanup.
CloseNasKeepsCall ==
  /\ ui.drawer # NULL
  /\ ui' = [ui EXCEPT !.drawer = NULL]
  /\ UNCHANGED calls
  /\ Close

CloseNas ==
  /\ ui.drawer # NULL
  /\ ui' = [ui EXCEPT !.drawer = NULL]
  /\ calls' = Cancel(calls, "ports")
  /\ Close

ReceivePorts(i) ==
  /\ calls[i].op = "ports"
  /\ calls[i].pc = "answered"
  /\ ui' = [ui EXCEPT !.ports = IF calls[i].ok THEN calls[i].arg ELSE NULL]
  /\ calls' = RemoveAt(calls, i)
  /\ UNCHANGED parted
  /\ Continue

\* A secret that has been fetched once is not asked for again.
ToggleSecret ==
  /\ NasIdle
  /\ Room(1)
  /\ \E x \in Shown :
       \/ /\ x \in ui.visible
          /\ ui' = [ui EXCEPT !.visible = @ \ {x}]
          /\ UNCHANGED calls
       \/ /\ x \notin ui.visible /\ ui.secrets[x] # NULL
          /\ ui' = [ui EXCEPT !.visible = @ \cup {x}]
          /\ UNCHANGED calls
       \/ /\ x \notin ui.visible /\ ui.secrets[x] = NULL
          /\ calls' = Append(calls, Request("secret", x))
          /\ UNCHANGED ui
  /\ Edit

ReceiveSecret(i) ==
  /\ calls[i].op = "secret"
  /\ calls[i].pc = "answered"
  /\ LET c == calls[i] IN
     ui' = IF c.ok THEN [ui EXCEPT !.secrets[c.arg] = c.answer, !.visible = @ \cup {c.arg}] ELSE ui
  /\ calls' = RemoveAt(calls, i)
  /\ UNCHANGED parted
  /\ Continue

Dialog(op, arg) == [op |-> op, arg |-> arg, busy |-> FALSE]

\* The form, and the question before a device is removed.
OpenNasDialog ==
  /\ ui.drawer = NULL /\ ui.modal = NULL
  /\ \/ ui' = [ui EXCEPT !.modal = Dialog("create", NULL)]
     \/ /\ ui.view = "ready"
        /\ \E op \in {"update", "delete"}, x \in Shown : ui' = [ui EXCEPT !.modal = Dialog(op, x)]
  /\ UNCHANGED calls
  /\ Look

CloseNasDialog ==
  /\ ui.modal # NULL
  /\ ui' = [ui EXCEPT !.modal = NULL]
  /\ UNCHANGED calls
  /\ Close

\* submit and confirmModal up to their await.  The form stays open, and busy; the
\* question is closed.  A secret is sent if one has been typed.
SubmitNas ==
  /\ ui.modal # NULL /\ ~ui.modal.busy
  /\ Room(1)
  /\ LET send(op, x, typed) ==
           calls' = Append(calls, Request(op, [id |-> x, typed |-> typed]))
     IN \/ ui.modal.op = "create" /\ \E x \in Items : send("create", x, TRUE)
        \/ ui.modal.op = "update" /\ \E typed \in BOOLEAN : send("update", ui.modal.arg, typed)
        \/ ui.modal.op = "delete" /\ send("delete", ui.modal.arg, FALSE)
  /\ ui' = IF ui.modal.op = "delete" THEN [ui EXCEPT !.modal = NULL]
           ELSE [ui EXCEPT !.modal.busy = TRUE]
  /\ Edit

FormCall(c) == c.op \in {"create", "update"}

\* The form that sent the call is still the one that is open.
SameForm(i) ==
  ui.modal # NULL /\ FormCall(calls[i]) /\ ~\E j \in (i + 1)..Len(calls) : FormCall(calls[j])

\* onDone closes whichever dialog is open by now.  A secret that has been fetched stays,
\* whatever has become of it.
ReceiveNasEdit(i) ==
  /\ calls[i].op \in {"create", "update", "delete"}
  /\ calls[i].pc = "answered"
  /\ LET c == calls[i] IN
     IF c.ok
     THEN /\ ui' = [ui EXCEPT !.view = "loading", !.modal = IF c.op = "delete" THEN @ ELSE NULL]
          /\ ReloadNas(RemoveAt(calls, i))
          /\ marred' = (marred \/ ui.secrets[c.arg.id] # NULL)
     ELSE /\ ui' = IF SameForm(i) THEN [ui EXCEPT !.modal.busy = FALSE] ELSE ui
          /\ calls' = RemoveAt(calls, i)
          /\ UNCHANGED <<parted, marred>>
  /\ UNCHANGED <<page, db, clicks, faults, changes>>

\* The status in the filter is sent as its label, which the service does not know.
ServeNas(i) ==
  LET c == calls[i]
      nas == db.nas
      known == c.arg.id \in DOMAIN nas
      put(x, v) == [nas |-> [y \in DOMAIN nas \cup {x} |-> IF y = x THEN v ELSE nas[y]]]
  IN \/ c.op \in {"load", "list"} /\ Answered(i, TRUE, Listing(c.arg, [x \in DOMAIN nas |-> "nas"]), db)
     \/ c.op = "list" /\ c.arg # Everything /\ Refuse(i)
     \/ c.op = "ports" /\ Answered(i, c.arg \in DOMAIN nas, NULL, db)
     \/ c.op = "secret" /\ c.arg \in DOMAIN nas /\ Answered(i, TRUE, nas[c.arg], db)
     \/ c.op = "secret" /\ c.arg \notin DOMAIN nas /\ Refuse(i)
     \/ c.op = "create" /\ ~known /\ Answered(i, TRUE, NULL, put(c.arg.id, clicks))
     \/ /\ c.op = "update" /\ known
        /\ Answered(i, TRUE, NULL, IF c.arg.typed THEN put(c.arg.id, clicks) ELSE db)
     \/ /\ c.op = "delete" /\ known
        /\ Answered(i, TRUE, NULL, [nas |-> Restrict(nas, DOMAIN nas \ {c.arg.id})])
     \/ c.op \in {"create", "update"} /\ (known <=> c.op = "create") /\ Refuse(i)
     \/ c.op = "delete" /\ Refuse(i)

NasClick ==
  \/ ApplyNasFilters
  \/ ResetNasFilters
  \/ ClearNasFilters
  \/ NasRetry
  \/ OpenNas
  \/ CloseNas
  \/ ToggleSecret
  \/ OpenNasDialog
  \/ CloseNasDialog
  \/ SubmitNas

NasReceive(i) ==
  \/ ReceiveRows(i)
  \/ ReceivePorts(i)
  \/ ReceiveSecret(i)
  \/ ReceiveNasEdit(i)

NasAgree ==
  /\ ui.view = "ready" => \A x \in Shown : x \in DOMAIN db.nas
  /\ \A x \in ui.visible \cap DOMAIN db.nas : ui.secrets[x] = db.nas[x]

-----------------------------------------------------------------------------
(* The endpoints: there is no view to wait in, and failures are ignored. *)

EndpointsUI ==
  [view |-> "ready", rows |-> None, applied |-> Everything, modal |-> NULL]

EndpointsDB ==
  {[endpoints |-> [x \in X |-> IF x = 1 THEN "ok" ELSE "white"]] : X \in {{2}, Items}}

\* A listing beside a removal can bring the row back, for nothing is listed after it.
MayUndo == marred' = (marred \/ Open({"remove"}))

ApplyEpFilters ==
  /\ Room(1)
  /\ \E f \in Filters :
       /\ ui' = [ui EXCEPT !.applied = f]
       /\ calls' = Append(calls, Request("list", f))
  /\ Click
  /\ MayUndo
  /\ UNCHANGED parted

ResetEpFilters ==
  /\ Room(1)
  /\ ui' = [ui EXCEPT !.applied = Everything]
  /\ calls' = Append(calls, Request("list", Everything))
  /\ Click
  /\ MayUndo
  /\ UNCHANGED parted

ClearEpFilters ==
  /\ Shown = {} /\ ui.applied # Everything
  /\ ui' = [ui EXCEPT !.applied = Everything]
  /\ UNCHANGED <<calls, marred>>
  /\ parted' = TRUE
  /\ Click

\* To the other tab and back: the effect asks for everything again.
ReturnToTab ==
  /\ ui.modal = NULL
  /\ Room(1)
  /\ calls' = Append(Cancel(calls, "load"), Request("load", Everything))
  /\ parted' = Unfiltered
  /\ Click
  /\ MayUndo
  /\ UNCHANGED ui

ReloadEp(cs) ==
  /\ calls' = Append(cs, Request("list", Everything))
  /\ parted' = Unfiltered

OpenEpDialog ==
  /\ ui.modal = NULL
  /\ \/ ui' = [ui EXCEPT !.modal = Dialog("import", NULL)]
     \/ \E x \in Shown :
          ui' = [ui EXCEPT !.modal = Dialog(IF ui.rows.of[x] = "white" THEN "remove" ELSE "revoke", x)]
  /\ UNCHANGED calls
  /\ Look

CancelEpDialog ==
  /\ ui.modal # NULL
  /\ ui' = [ui EXCEPT !.modal = NULL]
  /\ UNCHANGED calls
  /\ Close

\* confirmModal up to its await; an import without an address ends there.
ConfirmEpDialog ==
  /\ ui.modal # NULL
  /\ Room(1)
  /\ ui' = [ui EXCEPT !.modal = NULL]
  /\ \/ ui.modal.op # "import" /\ calls' = Append(calls, Request(ui.modal.op, ui.modal.arg))
     \/ ui.modal.op = "import" /\ \E x \in Items : calls' = Append(calls, Request("import", x))
     \/ ui.modal.op = "import" /\ UNCHANGED calls
  /\ Edit

\* Nothing but the tab cancels the effect's call.
ReceiveEndpoints(i) ==
  /\ calls[i].op \in {"load", "list"}
  /\ calls[i].pc = "answered"
  /\ ui' = IF calls[i].ok THEN [ui EXCEPT !.rows = calls[i].answer] ELSE ui
  /\ calls' = RemoveAt(calls, i)
  /\ LET late == \E j \in 1..(i - 1) : calls[j].op \in {"load", "list"} IN
     /\ parted' = (parted \/ late \/ ~calls[i].ok)
     /\ marred' = (marred \/ late)
  /\ UNCHANGED <<page, db, clicks, faults, changes>>

\* What has been removed goes from the table; after the others it is listed again.
ReceiveEpEdit(i) ==
  /\ calls[i].op \in {"import", "remove", "revoke"}
  /\ calls[i].pc = "answered"
  /\ LET cs == RemoveAt(calls, i) IN
     IF ~calls[i].ok THEN calls' = cs /\ UNCHANGED <<ui, parted>>
     ELSE IF calls[i].op = "remove"
     THEN /\ ui' = [ui EXCEPT !.rows.of = Restrict(@, Shown \ {calls[i].arg})]
          /\ calls' = cs
          /\ UNCHANGED parted
     ELSE UNCHANGED ui /\ ReloadEp(cs)
  /\ Continue

\* An import adds what is missing, as endpoints that are not on the list of addresses;
\* one that is removed from that list stays an endpoint.
ServeEndpoints(i) ==
  LET c == calls[i]
      rows == db.endpoints
      put(v) == [endpoints |-> [x \in DOMAIN rows \cup {c.arg} |-> IF x = c.arg THEN v ELSE rows[x]]]
      added == c.op = "import" /\ c.arg \notin DOMAIN rows
      removed == c.op = "remove" /\ rows[c.arg] = "white"
  IN \/ c.op \in {"load", "list"} /\ Answered(i, TRUE, Listing(c.arg, rows), db)
     \/ /\ c.op \in {"import", "remove"}
        /\ Answered(i, TRUE, NULL, IF added \/ removed THEN put("ok") ELSE db)
     \/ c.op = "revoke" /\ Answered(i, TRUE, NULL, put("bad"))

EndpointsClick ==
  \/ ApplyEpFilters
  \/ ResetEpFilters
  \/ ClearEpFilters
  \/ ReturnToTab
  \/ OpenEpDialog
  \/ CancelEpDialog
  \/ ConfirmEpDialog

EndpointsReceive(i) ==
  \/ ReceiveEndpoints(i)
  \/ ReceiveEpEdit(i)

\* Every row shown is as it is in the service.
EndpointsAgree == \A x \in Shown : ui.rows.of[x] = db.endpoints[x]

=============================================================================
