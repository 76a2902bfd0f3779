------------------------------ MODULE NasReload ------------------------------
(***************************************************************************)
(* The NAS devices, the client list radius.nas that is kept beside them, and *)
(* the way a change of it reaches radiusd, which reads the list only when it *)
(* starts: POST /ops/reload-radius writes a second into a file, a supervisor *)
(* in the FreeRADIUS container polls the file, restarts radiusd and writes   *)
(* the second into another file, which the request polls.                    *)
(*                                                                         *)
(* Left out: the columns that FreeRADIUS does not need, devices' names, the *)
(* refusal to delete a device with open sessions (an Abort), audit rows,    *)
(* databases without radius.nas, and a clock that is set back.              *)
(***************************************************************************)
EXTENDS Naturals, FiniteSets

CONSTANTS
  Devices,      \* ids of nas_device, in the order they are given
  Names,        \* nasnames: the addresses of devices
  Secrets,
  InitDevices,  \* the devices at the start
  Requests,     \* requests that can be open at a time
  MaxRequests,  \* bound on the requests
  MaxTime,      \* bound on the clock
  MaxCrashes,   \* bound on the crashes of radiusd and of its container
  NULL

Device == [nasname: Names, secret: Secrets]

Created == {d \in Devices : InitDevices[d] # NULL}

ASSUME DevicesAssumption ==
  /\ IsFiniteSet(Devices) /\ Devices = 1..Cardinality(Devices)
  /\ InitDevices \in [Devices -> Device \cup {NULL}]
  /\ Created = 1..Cardinality(Created)
  /\ \A d, e \in Created : InitDevices[d].nasname = InitDevices[e].nasname => d = e
ASSUME NullAssumption == NULL \notin Nat \cup Device \cup Secrets
ASSUME BoundsAssumption == {MaxRequests, MaxTime, MaxCrashes} \subseteq Nat

VARIABLES
  devices,    \* nas_device: id -> row, or NULL
  clients,    \* radius.nas: nasname -> secret, or NULL
  lastId,     \* the largest id given so far
  req,        \* the open requests
  requested,  \* the file reload-requested, or NULL
  applied,    \* the file reload-applied, or NULL
  sup,        \* the supervisor: where it is, REQUESTED, APPLIED
  radiusd,    \* "down", "starting" (the list is not read yet) or "up"
  version,    \* writes committed so far: which client list there is
  loaded,     \* the version of the list that radiusd has read last
  now,        \* the clock, in seconds
  started,    \* requests so far
  crashes,    \* crashes so far
  tangled,    \* history: a write was committed that another one had overtaken
  asked       \* history: the version when a reload was last requested, but for one
              \* in a second whose request the supervisor had read already

registry == <<devices, clients, lastId, version, tangled>>
server == <<requested, applied, sup, radiusd, loaded>>
vars == <<registry, server, req, now, started, crashes, asked>>

(* device: its id.  row: the device as it was read.  body: what the request *)
(* asks for.  at: the second of a reload request.  The rest is history:     *)
(* fresh: no other write was committed since this one read its device;      *)
(* restarted: radiusd was started since the reload was requested; twin: the *)
(* supervisor had read this second before.                                  *)
Idle == [pc |-> "idle", kind |-> NULL, device |-> NULL, row |-> NULL, body |-> NULL,
         at |-> NULL, fresh |-> TRUE, restarted |-> FALSE, twin |-> FALSE]

\* Every client is a device and has its secret, and the other way round.
Matches ==
  \A n \in Names, s \in Secrets :
    clients[n] = s <=> \E d \in Devices : devices[d] = [nasname |-> n, secret |-> s]

Init ==
  /\ devices = InitDevices
  /\ clients \in [Names -> Secrets \cup {NULL}]
  /\ Matches
  /\ lastId = Cardinality(Created)
  /\ req = [r \in Requests |-> Idle]
  /\ requested = NULL
  /\ applied = NULL
  /\ sup = [pc |-> "loop", seen |-> NULL, applied |-> NULL]
  /\ radiusd = "up"
  /\ version = 0
  /\ loaded = 0
  /\ now = 0
  /\ started = 0
  /\ crashes = 0
  /\ tangled = FALSE
  /\ asked = 0

-----------------------------------------------------------------------------
(* The requests that write devices. *)

Open(r, request) ==
  /\ req[r].pc = "idle"
  /\ started < MaxRequests
  /\ started' = started + 1
  /\ req' = [req EXCEPT ![r] = request]

\* Refused, failed, or stopped with the process: nothing is committed.
Abort(r) ==
  /\ req[r].pc # "idle"
  /\ req' = [req EXCEPT ![r] = Idle]
  /\ UNCHANGED <<registry, server, now, started, crashes, asked>>

BeginCreate(r, row) ==
  /\ Open(r, [Idle EXCEPT !.pc = "check", !.kind = "create", !.body = row])
  /\ UNCHANGED <<registry, server, now, crashes, asked>>

\* Mutant of BeginUpdate: a device that is not there is no error.
BeginUpdateUnchecked(r, d, nasname, secret) ==
  /\ Open(r, [Idle EXCEPT !.pc = "check", !.kind = "update", !.device = d, !.row = devices[d],
                          !.body = [nasname |-> nasname, secret |-> secret]])
  /\ UNCHANGED <<registry, server, now, crashes, asked>>

\* A PATCH has a nasname always and a secret perhaps.
BeginUpdate(r, d, nasname, secret) ==
  /\ devices[d] # NULL
  /\ Open(r, [Idle EXCEPT !.pc = "check", !.kind = "update", !.device = d, !.row = devices[d],
                          !.body = [nasname |-> nasname, secret |-> secret]])
  /\ UNCHANGED <<registry, server, now, crashes, asked>>

BeginDelete(r, d) ==
  /\ devices[d] # NULL
  /\ Open(r, [Idle EXCEPT !.pc = "write", !.kind = "delete", !.device = d, !.row = devices[d]])
  /\ UNCHANGED <<registry, server, now, crashes, asked>>

Free(nasname, d) ==
  \A e \in Devices \ {d} : devices[e] # NULL => devices[e].nasname # nasname

\* _check_nas_unique; the unique key looks again when the row is written.
CheckUnique(r) ==
  /\ req[r].pc = "check"
  /\ Free(req[r].body.nasname, req[r].device)
  /\ req' = [req EXCEPT ![r].pc = "write"]
  /\ UNCHANGED <<registry, server, now, started, crashes, asked>>

\* upsert_nas_client, remove_nas_client
Upsert(list, row) == [list EXCEPT ![row.nasname] = row.secret]
Remove(list, nasname) == [list EXCEPT ![nasname] = NULL]

\* The write is committed; a request that has read its device meanwhile is overtaken.
Close(r) ==
  /\ req' = [s \in Requests |->
       IF s = r THEN Idle ELSE IF req[s].pc = "idle" THEN Idle ELSE [req[s] EXCEPT !.fresh = FALSE]]
  /\ version' = version + 1
  /\ tangled' = (tangled \/ ~req[r].fresh)
  /\ UNCHANGED <<server, now, started, crashes, asked>>

Create(r) ==
  LET d == lastId + 1
      row == req[r].body
  IN /\ req[r].pc = "write" /\ req[r].kind = "create"
     /\ d \in Devices /\ Free(row.nasname, d)
     /\ devices' = [devices EXCEPT ![d] = row]
     /\ clients' = Upsert(clients, row)
     /\ lastId' = d
     /\ Close(r)

\* The object of the session after the request's assignments.
Object(old, body) ==
  [nasname |-> body.nasname,
   secret |-> IF body.secret = NULL THEN old.secret ELSE body.secret]

\* The UPDATE of the columns that differ from what was read.
Written(row, old, new) == [c \in {"nasname", "secret"} |-> IF new[c] # old[c] THEN new[c] ELSE row[c]]

\* An UPDATE that finds its row deleted raises; without a change there is none.
Save(d, old, new) ==
  \/ /\ new = old
     /\ UNCHANGED devices
  \/ /\ new # old /\ devices[d] # NULL
     /\ Free(Written(devices[d], old, new).nasname, d)
     /\ devices' = [devices EXCEPT ![d] = Written(@, old, new)]

\* Mutant of Update: the client of the former address stays.
UpdateKeepsFormer(r) ==
  LET old == req[r].row
      new == Object(old, req[r].body)
  IN /\ req[r].pc = "write" /\ req[r].kind = "update"
     /\ Save(req[r].device, old, new)
     /\ clients' = Upsert(clients, new)
     /\ UNCHANGED lastId
     /\ Close(r)

\* Mutant of Update: the client list is left alone by a request that changes nothing.
UpdateWhenChanged(r) ==
  LET old == req[r].row
      new == Object(old, req[r].body)
  IN /\ req[r].pc = "write" /\ req[r].kind = "update"
     /\ Save(req[r].device, old, new)
     /\ clients' = IF new = old THEN clients ELSE Upsert(Remove(clients, old.nasname), new)
     /\ UNCHANGED lastId
     /\ Close(r)

\* The statements of a write wait for the device's row and are one step here.
Update(r) ==
  LET old == req[r].row
      new == Object(old, req[r].body)
  IN /\ req[r].pc = "write" /\ req[r].kind = "update"
     /\ Save(req[r].device, old, new)
     /\ clients' = Upsert(Remove(clients, old.nasname), new)
     /\ UNCHANGED lastId
     /\ Close(r)

Delete(r) ==
  /\ req[r].pc = "write" /\ req[r].kind = "delete"
  /\ devices' = [devices EXCEPT ![req[r].device] = NULL]
  /\ clients' = Remove(clients, req[r].row.nasname)
  /\ UNCHANGED lastId
  /\ Close(r)

-----------------------------------------------------------------------------
(* POST /ops/reload-radius *)

RequestReload(r) ==
  LET twin == now \in {sup.seen, sup.applied}
  IN /\ Open(r, [Idle EXCEPT !.pc = "wait", !.kind = "reload", !.at = now, !.twin = twin])
     /\ requested' = now
     /\ asked' = IF twin THEN asked ELSE version
     /\ UNCHANGED <<registry, applied, sup, radiusd, loaded, now, crashes>>

\* _wait_for_applied: seconds of one length are compared as strings.
IsApplied(at) == applied # NULL /\ applied >= at

\* The request answers that the reload is applied; when it has waited in vain, Abort.
Answer(r) ==
  /\ req[r].pc = "wait" /\ IsApplied(req[r].at)
  /\ req' = [req EXCEPT ![r] = Idle]
  /\ UNCHANGED <<registry, server, now, started, crashes, asked>>

-----------------------------------------------------------------------------
(* The supervisor, radiusd and the container. *)

\* radiusd is started: it has not read the list yet.
StartRadiusd ==
  /\ radiusd' = "starting"
  /\ req' = [r \in Requests |->
       IF req[r].pc = "wait" THEN [req[r] EXCEPT !.restarted = TRUE] ELSE req[r]]

\* reload_if_requested, as far as stop_radiusd
SeeRequest ==
  /\ sup.pc = "loop" /\ requested \notin {NULL, sup.applied}
  /\ sup' = [sup EXCEPT !.pc = "stopped", !.seen = requested]
  /\ radiusd' = "down"
  /\ UNCHANGED <<registry, requested, applied, loaded, req, now, started, crashes, asked>>

Start ==
  /\ sup.pc = "stopped"
  /\ sup' = [sup EXCEPT !.pc = "started"]
  /\ StartRadiusd
  /\ UNCHANGED <<registry, requested, applied, loaded, now, started, crashes, asked>>

\* Mutant of Mark: the second is read from the file again.
MarkLatest ==
  /\ sup.pc = "started"
  /\ sup' = [sup EXCEPT !.pc = "loop", !.applied = requested]
  /\ applied' = requested
  /\ UNCHANGED <<registry, requested, radiusd, loaded, req, now, started, crashes, asked>>

Mark ==
  /\ sup.pc = "started"
  /\ sup' = [sup EXCEPT !.pc = "loop", !.applied = sup.seen]
  /\ applied' = sup.seen
  /\ UNCHANGED <<registry, requested, radiusd, loaded, req, now, started, crashes, asked>>

\* restart_if_crashed
RestartCrashed ==
  /\ sup.pc = "loop" /\ radiusd = "down"
  /\ StartRadiusd
  /\ UNCHANGED <<registry, requested, applied, sup, loaded, now, started, crashes, asked>>

\* Nothing to do: the supervisor sleeps and looks again.
LookAgain ==
  /\ sup.pc = "loop" /\ requested \in {NULL, sup.applied} /\ radiusd # "down"
  /\ UNCHANGED vars

\* read_clients
Load ==
  /\ radiusd = "starting"
  /\ radiusd' = "up"
  /\ loaded' = version
  /\ UNCHANGED <<registry, requested, applied, sup, req, now, started, crashes, asked>>

\* radiusd stops, as it does when it cannot read the list.
Crash ==
  /\ radiusd # "down" /\ crashes < MaxCrashes
  /\ radiusd' = "down"
  /\ crashes' = crashes + 1
  /\ UNCHANGED <<registry, requested, applied, sup, loaded, req, now, started, asked>>

\* The container stops, and Docker starts it again; the files are on a volume.
RestartContainer ==
  /\ crashes < MaxCrashes
  /\ crashes' = crashes + 1
  /\ sup' = [pc |-> "loop", seen |-> NULL, applied |-> applied]
  /\ StartRadiusd
  /\ UNCHANGED <<registry, requested, applied, loaded, now, started, asked>>

Tick ==
  /\ now < MaxTime
  /\ now' = now + 1
  /\ UNCHANGED <<registry, server, req, started, crashes, asked>>

-----------------------------------------------------------------------------

Writes(r) ==
  \/ \E row \in Device : BeginCreate(r, row)
  \/ \E d \in Devices, n \in Names, s \in Secrets \cup {NULL} : BeginUpdate(r, d, n, s)
  \/ \E d \in Devices : BeginDelete(r, d)
  \/ CheckUnique(r) \/ Create(r) \/ Update(r) \/ Delete(r)

Supervisor == SeeRequest \/ Start \/ Mark \/ RestartCrashed \/ LookAgain

Next ==
  \/ \E r \in Requests : Writes(r) \/ RequestReload(r) \/ Answer(r) \/ Abort(r)
  \/ Supervisor \/ Load
  \/ Crash \/ RestartContainer \/ Tick

Spec == Init /\ [][Next]_vars

\* The supervisor's loop goes on and radiusd reads its list when it starts; no request
\* has to come or to be answered.
FairSpec == Spec /\ WF_vars(Supervisor) /\ WF_vars(Load)

-----------------------------------------------------------------------------
(* Correctness. *)

TypeOK ==
  /\ devices \in [Devices -> Device \cup {NULL}]
  /\ clients \in [Names -> Secrets \cup {NULL}]
  /\ \A d \in Devices : d > lastId => devices[d] = NULL
  /\ \A r \in Requests :
       req[r].pc # "idle" /\ req[r].kind \in {"update", "delete"} => req[r].row \in Device
  /\ loaded <= version /\ asked <= version
  /\ radiusd \in {"down", "starting", "up"}

\* radius.nas holds the secret of every device under its address, and no client that
\* is not a device, unless writes have overtaken each other.
RegistryMatches ==
  tangled \/ Matches

\* Whatever writes that overtook each other have left: a later one that nobody
\* overtakes puts its device right, also if it changes nothing.
WriteRepairs == [][\A r \in Requests : Update(r) /\ req[r].fresh =>
  LET row == devices'[req[r].device]
  IN row # NULL /\ clients'[row.nasname] = row.secret]_vars

\* A reload is reported as applied only if radiusd was started after the request -
\* but for a second that the supervisor knows from an earlier request.
AppliedIsRestarted == [][\A r \in Requests : Answer(r) => req[r].restarted \/ req[r].twin]_vars

\* Whatever was written before a reload was requested is read by radiusd, though it or
\* the container crash, or further requests come meanwhile.
ReloadTakesEffect == \A v \in 1..MaxRequests : asked >= v ~> loaded >= v
=============================================================================
