---------------------------- MODULE SettingsPage ----------------------------
(***************************************************************************)
(* The settings: the port, the two switches and the alert rules, and, as a  *)
(* component of its own, the list of administrators.                        *)
(*                                                                         *)
(* Both ports are one; a text that is not a port is refused by the form.    *)
(* Left out: certificates and the directory, whose cards are texts.         *)
(***************************************************************************)
EXTENDS PageFrame

Ports == 1..2

\* What the form is drawn with before the first answer.
DefaultPort == 1

Switches == {"alerts", "audit"}

\* cfg: the settings as last fetched or, of the switches, saved; NULL before that.
\* port: the text in the form.  orig: the port that needs no confirmation.
SettingsUI ==
  [view |-> "ready", cfg |-> NULL, on |-> [s \in Switches |-> TRUE], rule |-> NULL,
   port |-> DefaultPort, orig |-> DefaultPort, core |-> FALSE]

SettingsDB ==
  [cfg : [port : Ports, on : {[s \in Switches |-> TRUE]}], rule : {TRUE}]

FetchSettings == Request("settings", NULL)
FetchAlertRules == Request("rules", NULL)
SaveSettings(cfg, confirm) == Request("save", [cfg |-> cfg, confirm |-> confirm])
SaveSwitch(cfg) == Request("switch", [cfg |-> cfg, confirm |-> FALSE])
SaveAlertRules(rule) == Request("saveRules", rule)

\* The effect's two calls.
SettingsMounted == <<FetchSettings, FetchAlertRules>>

ReceiveSettings(i) ==
  /\ calls[i].op = "settings"
  /\ calls[i].pc = "answered"
  /\ LET c == calls[i].answer IN
     ui' = IF calls[i].ok THEN [ui EXCEPT !.cfg = c, !.port = c.port, !.on = c.on] ELSE ui
  /\ calls' = RemoveAt(calls, i)
  /\ UNCHANGED parted
  /\ Continue

ReceiveAlertRules(i) ==
  /\ calls[i].op = "rules"
  /\ calls[i].pc = "answered"
  /\ ui' = IF calls[i].ok THEN [ui EXCEPT !.rule = calls[i].answer] ELSE ui
  /\ calls' = RemoveAt(calls, i)
  /\ UNCHANGED parted
  /\ Continue

-----------------------------------------------------------------------------
\* doSave: the port in the form, with the switches of the last answer.
DoSave(confirm) ==
  calls' = IF ui.cfg = NULL THEN calls
           ELSE Append(calls, SaveSettings([ui.cfg EXCEPT !.port = ui'.port], confirm))

\* saveRadius: typing a port, and saving.
SaveRadius ==
  /\ ~ui.core
  /\ Room(1)
  /\ \E p \in Ports :
       /\ ui' = [ui EXCEPT !.port = p, !.core = p # ui.orig]
       /\ IF p = ui.orig THEN DoSave(FALSE) ELSE UNCHANGED calls
  /\ Edit

ConfirmCore ==
  /\ ui.core
  /\ Room(1)
  /\ ui' = [ui EXCEPT !.core = FALSE, !.orig = ui.port]
  /\ DoSave(TRUE)
  /\ Edit

CancelCore ==
  /\ ui.core
  /\ ui' = [ui EXCEPT !.core = FALSE]
  /\ UNCHANGED calls
  /\ Close

\* persistMaster: the settings of the last answer, with one switch thrown.  The switch
\* is not thrown back when the service refuses.
ToggleMaster ==
  /\ ~ui.core
  /\ Room(1)
  /\ \E s \in Switches :
       /\ ui' = [ui EXCEPT !.on[s] = ~@]
       /\ calls' = IF ui.cfg = NULL THEN calls
                   ELSE Append(calls, SaveSwitch([ui.cfg EXCEPT !.on[s] = ~ui.on[s]]))
  /\ Edit

\* Switches and rules stay as they were put although they could not be saved.
MayStay(i) == parted' = (parted \/ (calls[i].op # "save" /\ ~calls[i].ok))

\* doSave only says so; persistMaster remembers what it has sent.
ReceiveSettingsSave(i) ==
  /\ calls[i].op \in {"save", "switch"}
  /\ calls[i].pc = "answered"
  /\ ui' = IF calls[i].ok /\ calls[i].op = "switch"
           THEN [ui EXCEPT !.cfg = calls[i].arg.cfg] ELSE ui
  /\ calls' = RemoveAt(calls, i)
  /\ MayStay(i)
  /\ Continue

\* The rules are a draft until saveAlertCard; their switches need the alerts' switch.
SaveAlertCard ==
  /\ ui.rule # NULL
  /\ Room(1)
  /\ \E on \in {ui.rule, ui.on["alerts"] # ui.rule} :
       /\ ui' = [ui EXCEPT !.rule = on]
       /\ calls' = Append(calls, SaveAlertRules(on))
  /\ Edit

ReceiveRulesSave(i) ==
  /\ calls[i].op = "saveRules"
  /\ calls[i].pc = "answered"
  /\ calls' = RemoveAt(calls, i)
  /\ MayStay(i)
  /\ UNCHANGED ui
  /\ Continue

\* The service asks for a confirmation of another port.
ServeSettings(i) ==
  LET c == calls[i] IN
  \/ c.op = "settings" /\ Answered(i, TRUE, db.cfg, db)
  \/ c.op = "rules" /\ Answered(i, TRUE, db.rule, db)
  \/ /\ c.op \in {"save", "switch"}
     /\ c.arg.cfg.port = db.cfg.port \/ c.arg.confirm
     /\ Answered(i, TRUE, NULL, [db EXCEPT !.cfg = c.arg.cfg])
  \/ /\ c.op \in {"save", "switch"}
     /\ c.arg.cfg.port # db.cfg.port /\ ~c.arg.confirm
     /\ Refuse(i)
  \/ c.op = "saveRules" /\ Answered(i, TRUE, NULL, [db EXCEPT !.rule = c.arg])

SettingsClick ==
  \/ SaveRadius
  \/ ConfirmCore
  \/ CancelCore
  \/ ToggleMaster
  \/ SaveAlertCard

SettingsReceive(i) ==
  \/ ReceiveSettings(i)
  \/ ReceiveAlertRules(i)
  \/ ReceiveSettingsSave(i)
  \/ ReceiveRulesSave(i)

\* The switches of the next save are the service's, whatever was refused before; those on
\* the page, and the rules, are what the service has until one could not be saved.
SettingsAgree ==
  /\ ui.cfg # NULL => ui.cfg.on = db.cfg.on
  /\ ~parted =>
       /\ ui.cfg # NULL => ui.on = db.cfg.on
       /\ ui.rule # NULL => ui.rule = db.rule

-----------------------------------------------------------------------------
(* The administrators. *)

Me == 1
Roles == {"operator", "auditor"}

\* modal: a role's change or a revocation to be confirmed.  grant: the other dialog.
AdminUI ==
  [view |-> "ready", rows |-> [by |-> NULL, of |-> <<>>], modal |-> NULL, grant |-> NULL]

ASSUME GrantAssumption == NULL \notin [users : SUBSET Items, busy : BOOLEAN]

AdminDB == {[admins |-> [x \in X |-> "operator"]] : X \in {{Me}, Items}}

FetchAdmins == Request("list", Everything)

\* The table has neither a choice of role nor a button in one's own row.
ChangeRole ==
  /\ ui.modal = NULL /\ ui.grant = NULL
  /\ \E x \in Shown \ {Me} : \E role \in Roles \ {ui.rows.of[x]} :
       ui' = [ui EXCEPT !.modal = Request("role", [id |-> x, role |-> role])]
  /\ UNCHANGED calls
  /\ Look

RevokeAdmin ==
  /\ ui.modal = NULL /\ ui.grant = NULL
  /\ \E x \in Shown \ {Me} :
       ui' = [ui EXCEPT !.modal = Request("revoke", [id |-> x])]
  /\ UNCHANGED calls
  /\ Look

\* onOk.  The dialog waits for the answer, but it can be closed before that: here it
\* closes at once.
ConfirmAdmin ==
  /\ ui.modal # NULL
  /\ Room(1)
  /\ ui' = [ui EXCEPT !.modal = NULL]
  /\ calls' = Append(calls, ui.modal)
  /\ Edit

CancelAdmin ==
  /\ ui.modal # NULL
  /\ ui' = [ui EXCEPT !.modal = NULL]
  /\ UNCHANGED calls
  /\ Close

\* The answer to the users' call of a dialog that has been closed is ignored.
OpenGrant ==
  /\ ui.modal = NULL /\ ui.grant = NULL
  /\ Room(1)
  /\ ui' = [ui EXCEPT !.grant = [users |-> {}, busy |-> FALSE]]
  /\ calls' = Append(calls, Request("users", NULL))
  /\ Look

CloseGrant ==
  /\ ui.grant # NULL
  /\ ui' = [ui EXCEPT !.grant = NULL]
  /\ calls' = Cancel(calls, "users")
  /\ Close

\* Mutant of Grant: busy before the form is validated, which may end there.
GrantBeforeValidation ==
  /\ ui.grant # NULL /\ ~ui.grant.busy
  /\ Room(1)
  /\ ui' = [ui EXCEPT !.grant.busy = TRUE]
  /\ \/ UNCHANGED calls
     \/ \E x \in ui.grant.users, role \in Roles :
          calls' = Append(calls, Request("grant", [id |-> x, role |-> role]))
  /\ Edit

Grant ==
  /\ ui.grant # NULL /\ ~ui.grant.busy
  /\ Room(1)
  /\ ui' = [ui EXCEPT !.grant.busy = TRUE]
  /\ \E x \in ui.grant.users, role \in Roles :
       calls' = Append(calls, Request("grant", [id |-> x, role |-> role]))
  /\ Edit

ReceiveAdmins(i) ==
  /\ calls[i].op = "list"
  /\ calls[i].pc = "answered"
  /\ ui' = IF calls[i].ok THEN [ui EXCEPT !.rows = calls[i].answer] ELSE ui
  /\ calls' = RemoveAt(calls, i)
  /\ marred' = (marred \/ Late(i))
  /\ UNCHANGED <<page, db, clicks, faults, changes, parted>>

ReceiveCandidates(i) ==
  /\ calls[i].op = "users"
  /\ calls[i].pc = "answered"
  /\ ui' = IF calls[i].ok THEN [ui EXCEPT !.grant.users = Items] ELSE ui
  /\ calls' = RemoveAt(calls, i)
  /\ UNCHANGED parted
  /\ Continue

\* Without a listing: the row is changed, or removed, in the page.
ReceiveAdminEdit(i) ==
  /\ calls[i].op \in {"role", "revoke"}
  /\ calls[i].pc = "answered"
  /\ LET c == calls[i]
         Rows == ui.rows.of
     IN ui' = IF ~c.ok \/ c.arg.id \notin Shown THEN ui
              ELSE IF c.op = "role" THEN [ui EXCEPT !.rows.of[c.arg.id] = c.arg.role]
              ELSE [ui EXCEPT !.rows.of = Restrict(Rows, Shown \ {c.arg.id})]
  /\ calls' = RemoveAt(calls, i)
  /\ UNCHANGED parted
  /\ Continue

\* A later dialog has sent a grant of its own.
Superseded(i) == \E j \in (i + 1)..Len(calls) : calls[j].op = "grant"

\* onGranted closes the dialog that is open by now, and lists again.
ReceiveGrant(i) ==
  /\ calls[i].op = "grant"
  /\ calls[i].pc = "answered"
  /\ LET cs == RemoveAt(calls, i) IN
     IF calls[i].ok
     THEN /\ ui' = [ui EXCEPT !.grant = NULL]
          /\ calls' = Append(Cancel(cs, "users"), FetchAdmins)
     ELSE /\ ui' = IF ui.grant = NULL \/ Superseded(i) THEN ui ELSE [ui EXCEPT !.grant.busy = FALSE]
          /\ calls' = cs
  /\ UNCHANGED parted
  /\ Continue

ServeAdmins(i) ==
  LET c == calls[i]
      set(f, role) == [admins |-> [x \in DOMAIN f \cup {c.arg.id} |->
                                     IF x = c.arg.id THEN role ELSE f[x]]]
      known == c.arg.id \in DOMAIN db.admins
  IN \/ c.op = "list" /\ Answered(i, TRUE, Listing(c.arg, db.admins), db)
     \/ c.op = "users" /\ Answered(i, TRUE, NULL, db)
     \/ c.op = "role" /\ known /\ Answered(i, TRUE, NULL, set(db.admins, c.arg.role))
     \/ c.op = "grant" /\ ~known /\ Answered(i, TRUE, NULL, set(db.admins, c.arg.role))
     \/ /\ c.op = "revoke" /\ known
        /\ Answered(i, TRUE, NULL,
                    [admins |-> Restrict(db.admins, DOMAIN db.admins \ {c.arg.id})])
     \/ c.op \in {"role", "revoke"} /\ ~known /\ Refuse(i)
     \/ c.op = "grant" /\ known /\ Refuse(i)

\* Another administrator removes one.
AdminsElsewhere ==
  \E x \in DOMAIN db.admins \ {Me} :
    Change([admins |-> Restrict(db.admins, DOMAIN db.admins \ {x})])

AdminsClick ==
  \/ ChangeRole
  \/ RevokeAdmin
  \/ ConfirmAdmin
  \/ CancelAdmin
  \/ OpenGrant
  \/ CloseGrant
  \/ Grant

AdminsReceive(i) ==
  \/ ReceiveAdmins(i)
  \/ ReceiveCandidates(i)
  \/ ReceiveAdminEdit(i)
  \/ ReceiveGrant(i)

AdminsAgree == ui.rows.by # NULL => ui.rows.of = db.admins

=============================================================================
