--------------------------- MODULE NasReloadProofs ---------------------------
(***************************************************************************)
(* The client list matches the devices, and "applied" means that radiusd    *)
(* was started since, for any number of devices, requests and steps.        *)
(***************************************************************************)
EXTENDS NasReload, TLAPS, FiniteSetTheorems

Body == [nasname: Names, secret: Secrets \cup {NULL}]

Request ==
  [pc: {"idle", "check", "write", "wait"},
   kind: {NULL, "create", "update", "delete", "reload"},
   device: Devices \cup {NULL}, row: Device \cup {NULL}, body: Device \cup Body \cup {NULL},
   at: Nat \cup {NULL}, fresh: BOOLEAN, restarted: BOOLEAN, twin: BOOLEAN]

\* What a request holds, by its kind.
Shape(q) ==
  /\ q \in Request
  /\ q.pc \in {"check", "write"} /\ q.kind = "create" => q.body \in Device
  /\ q.pc # "idle" /\ q.kind \in {"update", "delete"} => q.device \in Devices /\ q.row \in Device
  /\ q.pc # "idle" /\ q.kind = "update" => q.body \in Body
  /\ q.pc = "wait" => q.at \in 0..now /\ q.kind = "reload"
  /\ q.pc = "check" => q.kind \in {"create", "update"}

Types ==
  /\ devices \in [Devices -> Device \cup {NULL}]
  /\ clients \in [Names -> Secrets \cup {NULL}]
  /\ lastId \in Nat
  /\ \A d \in Devices : d > lastId => devices[d] = NULL
  /\ tangled \in BOOLEAN
  /\ req \in [Requests -> Request]
  /\ now \in Nat
  /\ requested \in {NULL} \cup 0..now
  /\ applied \in {NULL} \cup 0..now
  /\ sup \in [pc: {"loop", "stopped", "started"}, seen: {NULL} \cup 0..now,
              applied: {NULL} \cup 0..now]
  /\ sup.pc # "loop" => sup.seen # NULL
  /\ sup.applied = applied
  /\ radiusd \in {"down", "starting", "up"}
  /\ version \in Nat /\ loaded \in 0..version /\ asked \in 0..version

Distinct ==
  \A d, e \in Devices :
    devices[d] # NULL /\ devices[e] # NULL /\ devices[d].nasname = devices[e].nasname => d = e

\* Nothing was committed since the request read its device.
Current(q) ==
  q.pc # "idle" /\ q.kind \in {"update", "delete"} /\ q.fresh => devices[q.device] = q.row

\* What the files and the supervisor say of a request's second, they say because
\* radiusd was started.
Answered(q) ==
  q.pc = "wait" /\ ~q.twin =>
    /\ applied # NULL /\ applied >= q.at => q.restarted
    /\ sup.pc = "started" /\ sup.seen >= q.at => q.restarted

RegistryInv == Distinct /\ RegistryMatches /\ \A r \in Requests : Current(req[r])

IInv ==
  /\ Types
  /\ \A r \in Requests : Shape(req[r])
  /\ RegistryInv
  /\ \A r \in Requests : Answered(req[r])

-----------------------------------------------------------------------------
(* Lemmas about the operators. *)

LEMMA DevicesAreIds == \A d \in Devices : d \in Nat
<1>1. Cardinality(Devices) \in Nat
  BY DevicesAssumption, FS_CardinalityType
<1> QED
  BY <1>1, DevicesAssumption

LEMMA CreatedAreIds == Cardinality(Created) \in Nat /\ Created = 1..Cardinality(Created)
<1>1. IsFiniteSet(Created)
  BY DevicesAssumption, FS_Subset DEF Created
<1> QED
  BY <1>1, FS_CardinalityType, DevicesAssumption

LEMMA IdleShape == Shape(Idle) /\ Current(Idle) /\ Answered(Idle)
BY DEF Shape, Current, Answered, Idle, Request

LEMMA ObjectType ==
  ASSUME NEW old \in Device, NEW body \in Body
  PROVE Object(old, body) \in Device
BY NullAssumption DEF Object, Device, Body

LEMMA WrittenType ==
  ASSUME NEW row \in Device, NEW old \in Device, NEW new \in Device
  PROVE Written(row, old, new) \in Device /\ (row = old => Written(row, old, new) = new)
<1>1. Written(row, old, new) =
        [nasname |-> IF new.nasname # old.nasname THEN new.nasname ELSE row.nasname,
         secret |-> IF new.secret # old.secret THEN new.secret ELSE row.secret]
  BY DEF Written
<1> QED
  BY <1>1 DEF Device

-----------------------------------------------------------------------------
(* The steps that write. *)

\* The client list after a write of one device matches if the write replaces the
\* client of what the device was by the client of what it is.
LEMMA ReplacedMatches ==
  ASSUME Types, Distinct, Matches, NEW d \in Devices, NEW row \in Device \cup {NULL},
         devices' = [devices EXCEPT ![d] = row],
         row # NULL => Free(row.nasname, d),
         clients' \in [Names -> Secrets \cup {NULL}],
         \A n \in Names :
           clients'[n] = IF row # NULL /\ n = row.nasname THEN row.secret
                         ELSE IF devices[d] # NULL /\ n = devices[d].nasname THEN NULL
                         ELSE clients[n]
  PROVE Matches'
<1> SUFFICES ASSUME NEW n \in Names, NEW s \in Secrets
             PROVE clients'[n] = s <=>
                     \E e \in Devices : devices'[e] = [nasname |-> n, secret |-> s]
  BY DEF Matches
<1> DEFINE is == [nasname |-> n, secret |-> s]
<1>0. is \in Device /\ is # NULL /\ s # NULL /\ is.nasname = n /\ is.secret = s
  BY NullAssumption DEF Device
<1>1. devices'[d] = row /\ \A e \in Devices \ {d} : devices'[e] = devices[e]
  BY DEF Types
<1>2. CASE row # NULL /\ n = row.nasname
  <2>1. \A e \in Devices \ {d} : devices'[e] # is
    BY <1>0, <1>1, <1>2 DEF Free
  <2>2. row = is <=> row.secret = s
    BY <1>2 DEF Device
  <2> QED
    BY <1>1, <1>2, <2>1, <2>2
<1>3. CASE ~(row # NULL /\ n = row.nasname) /\ devices[d] # NULL /\ n = devices[d].nasname
  <2>1. \A e \in Devices \ {d} : devices[e] # is
    BY <1>0, <1>3 DEF Distinct
  <2>2. row # is
    BY <1>0, <1>3
  <2> QED
    BY <1>0, <1>1, <1>3, <2>1, <2>2
<1>4. CASE ~(row # NULL /\ n = row.nasname) /\ ~(devices[d] # NULL /\ n = devices[d].nasname)
  <2>1. row # is /\ devices[d] # is
    BY <1>0, <1>4
  <2>2. clients'[n] = clients[n]
    BY <1>4
  <2>3. clients[n] = s <=> \E e \in Devices : devices[e] = is
    BY DEF Matches
  <2> QED
    BY <1>1, <2>1, <2>2, <2>3
<1> QED
  BY <1>2, <1>3, <1>4

LEMMA CloseKeeps ==
  ASSUME IInv, NEW r \in Requests, Close(r)
  PROVE /\ \A q \in Requests : Shape(req[q])' /\ Current(req[q])' /\ Answered(req[q])'
        /\ req' \in [Requests -> Request]
        /\ version' \in Nat /\ loaded' \in 0..version' /\ asked' \in 0..version'
        /\ tangled' \in BOOLEAN /\ (~tangled' => ~tangled /\ req[r].fresh)
        /\ UNCHANGED <<requested, applied, sup, radiusd, loaded, now>>
<1>1. ASSUME NEW q \in Requests
      PROVE Shape(req[q])' /\ Current(req[q])' /\ Answered(req[q])' /\ req'[q] \in Request
  <2>1. Shape(req[q]) /\ Answered(req[q]) /\ req[q] \in Request
    BY DEF IInv, Types
  <2>2. UNCHANGED <<applied, sup, now>>
    BY DEF Close, server
  <2>3. CASE req'[q] = Idle
    BY <2>2, <2>3 DEF Shape, Current, Answered, Idle, Request
  <2>4. CASE req'[q] = [req[q] EXCEPT !.fresh = FALSE]
    <3>1. /\ req'[q] \in Request /\ req'[q].fresh = FALSE
          /\ req'[q].pc = req[q].pc /\ req'[q].kind = req[q].kind /\ req'[q].at = req[q].at
          /\ req'[q].device = req[q].device /\ req'[q].row = req[q].row
          /\ req'[q].body = req[q].body /\ req'[q].twin = req[q].twin
          /\ req'[q].restarted = req[q].restarted
      BY <2>1, <2>4 DEF Request
    <3>2. Shape(req[q])'
      BY <2>1, <2>2, <3>1 DEF Shape
    <3>3. Answered(req[q])'
      BY <2>1, <2>2, <3>1 DEF Answered
    <3> QED
      BY <3>1, <3>2, <3>3 DEF Current
  <2> QED
    BY <2>3, <2>4 DEF Close
<1>2. req' \in [Requests -> Request]
  BY <1>1 DEF Close
<1>3. version' \in Nat /\ loaded' \in 0..version' /\ asked' \in 0..version'
  BY DEF IInv, Types, Close, server
<1>4. tangled' \in BOOLEAN /\ (~tangled' => ~tangled /\ req[r].fresh)
  BY DEF IInv, Types, Close, Request
<1> QED
  BY <1>1, <1>2, <1>3, <1>4 DEF Close, server

\* What is left to show for a step that writes.
LEMMA WriteKeeps ==
  ASSUME IInv, NEW r \in Requests, Close(r),
         devices' \in [Devices -> Device \cup {NULL}],
         clients' \in [Names -> Secrets \cup {NULL}],
         lastId' \in Nat, \A d \in Devices : d > lastId' => devices'[d] = NULL,
         Distinct', ~tangled' => Matches'
  PROVE IInv'
BY CloseKeeps DEF IInv, Types, RegistryInv, RegistryMatches

LEMMA CreateStep ==
  ASSUME IInv, NEW r \in Requests, Create(r)
  PROVE IInv'
<1> DEFINE d == lastId + 1
           row == req[r].body
<1>1. d \in Devices /\ row \in Device /\ Free(row.nasname, d) /\ row # NULL /\ devices[d] = NULL
  BY NullAssumption, DevicesAreIds DEF Create, IInv, Shape, Types
<1>2. /\ devices' = [devices EXCEPT ![d] = row]
      /\ clients' = [clients EXCEPT ![row.nasname] = row.secret]
      /\ Close(r) /\ lastId' = d
  BY DEF Create, Upsert
<1>3. devices' \in [Devices -> Device \cup {NULL}]
  BY <1>1, <1>2 DEF IInv, Types
<1>4. clients' \in [Names -> Secrets \cup {NULL}]
  BY <1>1, <1>2 DEF IInv, Types, Device
<1>5. lastId' \in Nat /\ \A e \in Devices : e > lastId' => devices'[e] = NULL
  BY <1>1, <1>2, DevicesAreIds DEF IInv, Types
<1>6. Distinct'
  BY <1>1, <1>2 DEF IInv, Types, RegistryInv, Distinct, Free
<1>7. ~tangled' => Matches'
  <2> SUFFICES ASSUME ~tangled' PROVE Matches'
    OBVIOUS
  <2>1. Types /\ Distinct /\ Matches
    BY <1>2, CloseKeeps DEF IInv, RegistryInv, RegistryMatches
  <2>2. \A n \in Names :
          clients'[n] = IF row # NULL /\ n = row.nasname THEN row.secret
                        ELSE IF devices[d] # NULL /\ n = devices[d].nasname THEN NULL
                        ELSE clients[n]
    BY <1>1, <1>2 DEF IInv, Types
  <2> QED
    BY <1>1, <1>2, <1>4, <2>1, <2>2, ReplacedMatches
<1> HIDE DEF d, row
<1> QED
  BY <1>2, <1>3, <1>4, <1>5, <1>6, <1>7, WriteKeeps

\* The client list after an update of a device that is as it was read.
LEMMA FreshUpdateMatches ==
  ASSUME Types, Distinct, Matches, NEW d \in Devices, NEW old \in Device, NEW new \in Device,
         devices[d] = old, Save(d, old, new),
         clients' = Upsert(Remove(clients, old.nasname), new)
  PROVE Matches'
<1>1. old # NULL /\ new # NULL /\ old.nasname \in Names /\ new.nasname \in Names
      /\ new.secret \in Secrets
  BY NullAssumption DEF Device
<1>2. clients' = [[clients EXCEPT ![old.nasname] = NULL] EXCEPT ![new.nasname] = new.secret]
  BY DEF Upsert, Remove
<1>3. clients' \in [Names -> Secrets \cup {NULL}]
  BY <1>1, <1>2 DEF Types
<1>4. devices' = [devices EXCEPT ![d] = new] /\ Free(new.nasname, d)
  <2>1. CASE new = old /\ UNCHANGED devices
    BY <1>1, <2>1 DEF Types, Distinct, Free
  <2>2. CASE Free(Written(devices[d], old, new).nasname, d)
             /\ devices' = [devices EXCEPT ![d] = Written(@, old, new)]
    BY <2>2, WrittenType
  <2> QED
    BY <2>1, <2>2 DEF Save
<1>5. \A n \in Names :
        clients'[n] = IF new # NULL /\ n = new.nasname THEN new.secret
                      ELSE IF devices[d] # NULL /\ n = devices[d].nasname THEN NULL
                      ELSE clients[n]
  BY <1>1, <1>2 DEF Types
<1> QED
  BY <1>1, <1>3, <1>4, <1>5, ReplacedMatches

LEMMA UpdateStep ==
  ASSUME IInv, NEW r \in Requests, Update(r)
  PROVE IInv'
<1> DEFINE d == req[r].device
           old == req[r].row
           new == Object(old, req[r].body)
<1>1. d \in Devices /\ old \in Device /\ new \in Device /\ old # NULL /\ new # NULL
  BY NullAssumption, ObjectType DEF Update, IInv, Shape
<1>2. Save(d, old, new) /\ clients' = Upsert(Remove(clients, old.nasname), new)
      /\ lastId' = lastId /\ Close(r)
  BY DEF Update
<1>3. ~tangled' => devices[d] = old /\ Matches
  BY <1>2, CloseKeeps DEF IInv, RegistryInv, RegistryMatches, Current, Update
<1>c. req[r].pc = "write" /\ req[r].kind = "update"
  BY DEF Update
<1> HIDE DEF d, old, new
<1>4. clients' \in [Names -> Secrets \cup {NULL}]
  BY <1>1, <1>2 DEF IInv, Types, Device, Upsert, Remove
<1>5. CASE devices' = devices
  <2>1. Distinct'
    BY <1>5 DEF IInv, RegistryInv, Distinct
  <2>2. ~tangled' => Matches'
    BY <1>1, <1>2, <1>3, FreshUpdateMatches DEF IInv, RegistryInv
  <2> QED
    BY <1>2, <1>4, <1>5, <2>1, <2>2, WriteKeeps DEF IInv, Types
<1>6. CASE /\ devices[d] # NULL /\ Free(Written(devices[d], old, new).nasname, d)
           /\ devices' = [devices EXCEPT ![d] = Written(@, old, new)]
  <2> DEFINE row == Written(devices[d], old, new)
  <2>1. row \in Device
    BY <1>1, <1>6, WrittenType DEF IInv, Types
  <2>2. devices' = [devices EXCEPT ![d] = row] /\ Free(row.nasname, d)
    BY <1>6
  <2> HIDE DEF row
  <2>3. devices' \in [Devices -> Device \cup {NULL}]
    BY <2>1, <2>2 DEF IInv, Types
  <2>4. \A e \in Devices : e > lastId' => devices'[e] = NULL
    BY <1>1, <1>2, <1>6, <2>2 DEF IInv, Types
  <2>5. Distinct'
    BY <1>1, <2>2 DEF IInv, Types, RegistryInv, Distinct, Free
  <2>6. ~tangled' => Matches'
    BY <1>1, <1>2, <1>3, FreshUpdateMatches DEF IInv, RegistryInv
  <2>7. lastId' \in Nat
    BY <1>2 DEF IInv, Types
  <2> QED
    BY <1>2, <1>4, <2>3, <2>4, <2>5, <2>6, <2>7, WriteKeeps
<1> QED
  BY <1>2, <1>5, <1>6 DEF Save

LEMMA DeleteStep ==
  ASSUME IInv, NEW r \in Requests, Delete(r)
  PROVE IInv'
<1> DEFINE d == req[r].device
           old == req[r].row
<1>1. d \in Devices /\ old \in Device /\ old # NULL
  BY NullAssumption DEF Delete, IInv, Shape
<1>2. /\ devices' = [devices EXCEPT ![d] = NULL]
      /\ clients' = [clients EXCEPT ![old.nasname] = NULL]
      /\ lastId' = lastId /\ Close(r)
  BY DEF Delete, Remove
<1>3. ~tangled' => devices[d] = old /\ Matches
  BY <1>2, CloseKeeps DEF IInv, RegistryInv, RegistryMatches, Current, Delete
<1> HIDE DEF d, old
<1>4. clients' \in [Names -> Secrets \cup {NULL}]
  BY <1>1, <1>2 DEF IInv, Types
<1>5. devices' \in [Devices -> Device \cup {NULL}]
  BY <1>1, <1>2 DEF IInv, Types
<1>6. lastId' \in Nat /\ \A e \in Devices : e > lastId' => devices'[e] = NULL
  BY <1>1, <1>2 DEF IInv, Types
<1>7. Distinct'
  BY <1>1, <1>2 DEF IInv, Types, RegistryInv, Distinct
<1>8. ~tangled' => Matches'
  <2> SUFFICES ASSUME ~tangled' PROVE Matches'
    OBVIOUS
  <2>1. Types /\ Distinct /\ Matches /\ devices[d] = old
    BY <1>3 DEF IInv, RegistryInv
  <2>2. \A n \in Names :
          clients'[n] = IF NULL # NULL /\ n = NULL.nasname THEN NULL.secret
                        ELSE IF devices[d] # NULL /\ n = devices[d].nasname THEN NULL
                        ELSE clients[n]
    BY <1>1, <1>2, <2>1 DEF Types, Device
  <2> QED
    BY <1>1, <1>2, <1>4, <2>1, <2>2, ReplacedMatches
<1> QED
  BY <1>2, <1>4, <1>5, <1>6, <1>7, <1>8, WriteKeeps

-----------------------------------------------------------------------------
(* The steps that leave the devices and their clients alone. *)

\* What is left to show for such a step.
LEMMA RegistryKept ==
  ASSUME IInv, UNCHANGED registry,
         req' \in [Requests -> Request],
         \A r \in Requests : Shape(req[r])' /\ Current(req[r])' /\ Answered(req[r])',
         now' \in Nat,
         requested' \in {NULL} \cup 0..now', applied' \in {NULL} \cup 0..now',
         sup' \in [pc: {"loop", "stopped", "started"}, seen: {NULL} \cup 0..now',
                   applied: {NULL} \cup 0..now'],
         sup'.pc # "loop" => sup'.seen # NULL,
         sup'.applied = applied',
         radiusd' \in {"down", "starting", "up"},
         loaded' \in 0..version, asked' \in 0..version
  PROVE IInv'
<1>1. Distinct' /\ RegistryMatches'
  BY DEF IInv, RegistryInv, Distinct, RegistryMatches, Matches, registry
<1>2. Types'
  BY DEF IInv, Types, registry
<1> QED
  BY <1>1, <1>2 DEF IInv, RegistryInv

\* A request is opened, goes on or ends, and nothing else changes but what it asks for.
LEMMA RequestStep ==
  ASSUME IInv, NEW r \in Requests, NEW q, Shape(q), Current(q), Answered(q),
         req' = [req EXCEPT ![r] = q],
         UNCHANGED <<registry, applied, sup, radiusd, loaded, now>>,
         requested' \in {NULL} \cup 0..now, asked' \in 0..version
  PROVE IInv'
<1>1. UNCHANGED <<devices, now, applied, sup, radiusd, loaded>>
  BY DEF registry
<1>2. ASSUME NEW o \in Requests
      PROVE Shape(req[o])' /\ Current(req[o])' /\ Answered(req[o])' /\ req'[o] \in Request
  <2>1. Shape(req[o]) /\ Current(req[o]) /\ Answered(req[o])
    BY DEF IInv, RegistryInv
  <2>2. req'[o] = IF o = r THEN q ELSE req[o]
    BY DEF IInv, Types
  <2>3. Shape(req'[o]) /\ Current(req'[o]) /\ Answered(req'[o])
    BY <2>1, <2>2
  <2>4. Shape(req[o])'
    BY <1>1, <2>3 DEF Shape
  <2>5. Current(req[o])'
    BY <1>1, <2>3 DEF Current
  <2>6. Answered(req[o])'
    BY <1>1, <2>3 DEF Answered
  <2> QED
    BY <2>3, <2>4, <2>5, <2>6 DEF Shape
<1>3. req' \in [Requests -> Request]
  BY <1>2 DEF IInv, Types
<1> QED
  BY <1>1, <1>2, <1>3, RegistryKept DEF IInv, Types

\* The requests that are opened, or go on, with the list and the server left alone.
LEMMA WriteBeginStep ==
  ASSUME IInv, NEW r \in Requests,
         \/ \E row \in Device : BeginCreate(r, row)
         \/ \E d \in Devices, n \in Names, s \in Secrets \cup {NULL} : BeginUpdate(r, d, n, s)
         \/ \E d \in Devices : BeginDelete(r, d)
         \/ CheckUnique(r)
         \/ Answer(r)
         \/ Abort(r)
  PROVE IInv'
<1>1. Shape(req[r]) /\ Current(req[r]) /\ Answered(req[r]) /\ req[r] \in Request
  BY DEF IInv, RegistryInv, Types
<1>2. requested \in {NULL} \cup 0..now /\ asked \in 0..version
  BY DEF IInv, Types
<1>3. ASSUME NEW row \in Device, BeginCreate(r, row)
      PROVE IInv'
  <2> DEFINE q == [Idle EXCEPT !.pc = "check", !.kind = "create", !.body = row]
  <2>1. Shape(q) /\ Current(q) /\ Answered(q)
    BY DEF Shape, Current, Answered, Idle, Request
  <2>2. req' = [req EXCEPT ![r] = q] /\ UNCHANGED <<registry, server, now, asked>>
    BY <1>3 DEF BeginCreate, Open
  <2> HIDE DEF q
  <2> QED
    BY <1>2, <2>1, <2>2, RequestStep DEF server
<1>4. ASSUME NEW d \in Devices, NEW n \in Names, NEW s \in Secrets \cup {NULL},
             BeginUpdate(r, d, n, s)
      PROVE IInv'
  <2> DEFINE q == [Idle EXCEPT !.pc = "check", !.kind = "update", !.device = d,
                               !.row = devices[d], !.body = [nasname |-> n, secret |-> s]]
  <2>1. devices[d] \in Device /\ [nasname |-> n, secret |-> s] \in Body
    BY <1>4 DEF BeginUpdate, IInv, Types, Body
  <2>2. Shape(q) /\ Current(q) /\ Answered(q)
    BY <2>1 DEF Shape, Current, Answered, Idle, Request
  <2>3. req' = [req EXCEPT ![r] = q] /\ UNCHANGED <<registry, server, now, asked>>
    BY <1>4 DEF BeginUpdate, Open
  <2> HIDE DEF q
  <2> QED
    BY <1>2, <2>2, <2>3, RequestStep DEF server
<1>5. ASSUME NEW d \in Devices, BeginDelete(r, d)
      PROVE IInv'
  <2> DEFINE q == [Idle EXCEPT !.pc = "write", !.kind = "delete", !.device = d,
                               !.row = devices[d]]
  <2>1. devices[d] \in Device
    BY <1>5 DEF BeginDelete, IInv, Types
  <2>2. Shape(q) /\ Current(q) /\ Answered(q)
    BY <2>1 DEF Shape, Current, Answered, Idle, Request
  <2>3. req' = [req EXCEPT ![r] = q] /\ UNCHANGED <<registry, server, now, asked>>
    BY <1>5 DEF BeginDelete, Open
  <2> HIDE DEF q
  <2> QED
    BY <1>2, <2>2, <2>3, RequestStep DEF server
<1>6. CASE CheckUnique(r)
  <2> DEFINE q == [req[r] EXCEPT !.pc = "write"]
  <2>1. req[r].pc = "check" /\ req' = [req EXCEPT ![r] = q]
        /\ UNCHANGED <<registry, server, now, asked>>
    BY <1>6 DEF CheckUnique, IInv, Types
  <2>2. /\ q \in Request /\ q.pc = "write" /\ q.kind = req[r].kind /\ q.device = req[r].device
        /\ q.row = req[r].row /\ q.body = req[r].body /\ q.fresh = req[r].fresh
    BY <1>1 DEF Request
  <2> HIDE DEF q
  <2>3. Shape(q) /\ Current(q) /\ Answered(q)
    BY <1>1, <2>1, <2>2 DEF Shape, Current, Answered
  <2> QED
    BY <1>2, <2>1, <2>3, RequestStep DEF server
<1>7. CASE Answer(r) \/ Abort(r)
  <2>1. req' = [req EXCEPT ![r] = Idle] /\ UNCHANGED <<registry, server, now, asked>>
    BY <1>7 DEF Answer, Abort
  <2> QED
    BY <1>2, <2>1, IdleShape, RequestStep DEF server
<1> QED
  BY <1>3, <1>4, <1>5, <1>6, <1>7

\* A second that the supervisor does not know yet is later than the ones it knows.
LEMMA RequestReloadStep ==
  ASSUME IInv, NEW r \in Requests, RequestReload(r)
  PROVE IInv'
<1> DEFINE t == now \in {sup.seen, sup.applied}
           q == [Idle EXCEPT !.pc = "wait", !.kind = "reload", !.at = now, !.twin = t]
<1>1. now \in Nat /\ t \in BOOLEAN
  BY DEF IInv, Types
<1>2. q \in Request /\ q.pc = "wait" /\ q.kind = "reload" /\ q.at = now /\ q.twin = t
  BY <1>1 DEF Idle, Request
<1>3. ~t => /\ applied # NULL => ~(applied >= now)
            /\ sup.pc = "started" => ~(sup.seen >= now)
  <2> SUFFICES ASSUME ~t
               PROVE /\ applied # NULL => ~(applied >= now)
                     /\ sup.pc = "started" => ~(sup.seen >= now)
    OBVIOUS
  <2>1. applied # now /\ sup.seen # now /\ applied \in {NULL} \cup 0..now
        /\ sup.seen \in {NULL} \cup 0..now /\ (sup.pc = "started" => sup.seen # NULL)
    BY DEF IInv, Types
  <2> HIDE DEF t
  <2> QED
    BY <1>1, <2>1
<1>4. /\ req' = [req EXCEPT ![r] = q]
      /\ UNCHANGED <<registry, applied, sup, radiusd, loaded, now>>
      /\ requested' = now /\ asked' \in {asked, version}
  BY DEF RequestReload, Open
<1> HIDE DEF t, q
<1>5. Shape(q)
  BY <1>1, <1>2 DEF Shape
<1>6. Current(q) /\ Answered(q)
  BY <1>2, <1>3 DEF Current, Answered
<1>7. requested' \in {NULL} \cup 0..now /\ asked' \in 0..version
  BY <1>1, <1>4 DEF IInv, Types
<1> QED
  BY <1>4, <1>5, <1>6, <1>7, RequestStep

\* Whatever starts radiusd leaves every waiting request with "restarted".
LEMMA StartStep ==
  ASSUME IInv, StartRadiusd, UNCHANGED <<registry, requested, applied, loaded, now, asked>>,
         \/ UNCHANGED sup
         \/ sup' = [sup EXCEPT !.pc = "started"] /\ sup.pc = "stopped"
         \/ sup' = [pc |-> "loop", seen |-> NULL, applied |-> applied]
  PROVE IInv'
<1>1. UNCHANGED devices
  BY DEF registry
<1>2. ASSUME NEW r \in Requests
      PROVE Shape(req[r])' /\ Current(req[r])' /\ Answered(req[r])' /\ req'[r] \in Request
  <2>1. Shape(req[r]) /\ Current(req[r]) /\ req[r] \in Request
    BY DEF IInv, RegistryInv, Types
  <2>2. CASE req[r].pc # "wait"
    <3>1. req'[r] = req[r]
      BY <2>2 DEF StartRadiusd
    <3> QED
      BY <1>1, <2>1, <2>2, <3>1 DEF Shape, Current, Answered
  <2>3. CASE req[r].pc = "wait"
    <3>1. req'[r] = [req[r] EXCEPT !.restarted = TRUE]
      BY <2>3 DEF StartRadiusd
    <3>2. /\ req'[r] \in Request /\ req'[r].restarted = TRUE
          /\ req'[r].pc = req[r].pc /\ req'[r].kind = req[r].kind /\ req'[r].at = req[r].at
          /\ req'[r].device = req[r].device /\ req'[r].row = req[r].row
          /\ req'[r].body = req[r].body /\ req'[r].fresh = req[r].fresh
      BY <2>1, <3>1 DEF Request
    <3>3. Shape(req[r])'
      BY <2>1, <3>2 DEF Shape
    <3>4. Current(req[r])' /\ Answered(req[r])'
      BY <1>1, <2>1, <3>2 DEF Current, Answered
    <3> QED
      BY <3>2, <3>3, <3>4
  <2> QED
    BY <2>2, <2>3
<1>3. req' \in [Requests -> Request]
  BY <1>2 DEF StartRadiusd
<1>4. /\ sup' \in [pc: {"loop", "stopped", "started"}, seen: {NULL} \cup 0..now,
                   applied: {NULL} \cup 0..now]
      /\ sup'.pc # "loop" => sup'.seen # NULL
      /\ sup'.applied = applied
  BY DEF IInv, Types
<1> QED
  BY <1>2, <1>3, <1>4, RegistryKept DEF IInv, Types, StartRadiusd

\* The supervisor, radiusd and the clock, when no request changes.
LEMMA QuietStep ==
  ASSUME IInv, UNCHANGED <<registry, requested, req, asked>>,
         now' \in Nat, now' >= now,
         applied' \in {NULL} \cup 0..now, loaded' \in 0..version,
         sup' \in [pc: {"loop", "stopped", "started"}, seen: {NULL} \cup 0..now,
                   applied: {NULL} \cup 0..now],
         sup'.pc # "loop" => sup'.seen # NULL,
         sup'.applied = applied',
         radiusd' \in {"down", "starting", "up"},
         \A r \in Requests : Answered(req[r])'
  PROVE IInv'
<1>1. UNCHANGED devices
  BY DEF registry
<1>2. now \in Nat /\ 0..now \subseteq 0..now'
  BY DEF IInv, Types
<1>3. ASSUME NEW r \in Requests
      PROVE Shape(req[r])' /\ Current(req[r])'
  BY <1>1, <1>2 DEF IInv, RegistryInv, Shape, Current
<1>4. /\ requested' \in {NULL} \cup 0..now' /\ applied' \in {NULL} \cup 0..now'
      /\ sup' \in [pc: {"loop", "stopped", "started"}, seen: {NULL} \cup 0..now',
                   applied: {NULL} \cup 0..now']
      /\ asked' \in 0..version /\ req' \in [Requests -> Request]
  BY <1>2 DEF IInv, Types
<1> QED
  BY <1>3, <1>4, RegistryKept

LEMMA SupervisorStep ==
  ASSUME IInv, SeeRequest \/ Mark \/ Load \/ Crash \/ Tick
  PROVE IInv'
<1>1. \A r \in Requests : Answered(req[r])
  BY DEF IInv
<1>2. Types
  BY DEF IInv
<1>3. CASE SeeRequest
  <2>1. /\ sup' = [sup EXCEPT !.pc = "stopped", !.seen = requested] /\ requested # NULL
        /\ UNCHANGED <<registry, requested, applied, loaded, req, now, asked>>
        /\ radiusd' = "down"
    BY <1>3 DEF SeeRequest
  <2>2. \A r \in Requests : Answered(req[r])'
    BY <1>1, <1>2, <2>1 DEF Types, Answered
  <2>3. sup' \in [pc: {"loop", "stopped", "started"}, seen: {NULL} \cup 0..now,
                  applied: {NULL} \cup 0..now]
    BY <1>2, <2>1 DEF Types
  <2>4. sup'.seen = requested /\ sup'.applied = applied
    BY <1>2, <2>1 DEF Types
  <2>5. now' \in Nat /\ now' >= now /\ applied' \in {NULL} \cup 0..now
        /\ loaded' \in 0..version
    BY <1>2, <2>1 DEF Types
  <2> QED
    BY <2>1, <2>2, <2>3, <2>4, <2>5, QuietStep
<1>4. CASE Mark
  <2>1. /\ sup.pc = "started" /\ applied' = sup.seen /\ sup.seen # NULL
        /\ sup' = [sup EXCEPT !.pc = "loop", !.applied = sup.seen]
        /\ UNCHANGED <<registry, requested, radiusd, loaded, req, now, asked>>
    BY <1>2, <1>4 DEF Mark, Types
  <2>2. \A r \in Requests : Answered(req[r])'
    BY <1>1, <1>2, <2>1 DEF Types, Answered
  <2>3. sup' \in [pc: {"loop", "stopped", "started"}, seen: {NULL} \cup 0..now,
                  applied: {NULL} \cup 0..now]
    BY <1>2, <2>1 DEF Types
  <2>4. sup'.pc = "loop" /\ sup'.applied = applied'
    BY <1>2, <2>1 DEF Types
  <2>5. now' \in Nat /\ now' >= now /\ applied' \in {NULL} \cup 0..now
        /\ loaded' \in 0..version /\ radiusd' \in {"down", "starting", "up"}
    BY <1>2, <2>1 DEF Types
  <2> QED
    BY <2>1, <2>2, <2>3, <2>4, <2>5, QuietStep
<1>5. CASE Load \/ Crash \/ Tick
  <2>1. /\ UNCHANGED <<registry, requested, applied, sup, req, asked>>
        /\ now' \in Nat /\ now' >= now
        /\ loaded' \in {loaded, version} /\ radiusd' \in {radiusd, "up", "down"}
    BY <1>2, <1>5 DEF Load, Crash, Tick, server, Types
  <2>2. \A r \in Requests : Answered(req[r])'
    BY <1>1, <2>1 DEF Answered
  <2> QED
    BY <1>2, <2>1, <2>2, QuietStep DEF Types
<1> QED
  BY <1>3, <1>4, <1>5

-----------------------------------------------------------------------------
(* The invariant. *)

LEMMA InitIInv == Init => IInv
<1> SUFFICES ASSUME Init PROVE IInv
  OBVIOUS
<1>1. \A r \in Requests : req[r] = Idle
  BY DEF Init
<1>2. \A r \in Requests : Shape(req[r]) /\ Current(req[r]) /\ Answered(req[r])
  BY <1>1, IdleShape
<1>3. req \in [Requests -> Request]
  BY IdleShape DEF Init, Shape
<1>4. devices \in [Devices -> Device \cup {NULL}] /\ devices = InitDevices
  BY DevicesAssumption DEF Init
<1>5. lastId \in Nat /\ \A d \in Devices : d > lastId => devices[d] = NULL
  BY <1>4, CreatedAreIds DEF Init, Created
<1>6. Types
  <2>1. now = 0 /\ version = 0 /\ loaded = 0 /\ asked = 0 /\ 0 \in 0..0
        /\ requested = NULL /\ applied = NULL /\ tangled = FALSE /\ radiusd = "up"
    BY DEF Init
  <2>2. clients \in [Names -> Secrets \cup {NULL}]
    BY DEF Init
  <2>3. sup = [pc |-> "loop", seen |-> NULL, applied |-> NULL]
    BY DEF Init
  <2> QED
    BY <1>3, <1>4, <1>5, <2>1, <2>2, <2>3 DEF Types
<1>7. Distinct
  BY <1>4, DevicesAssumption DEF Distinct, Created
<1> QED
  BY <1>2, <1>6, <1>7 DEF Init, IInv, RegistryInv, RegistryMatches

LEMMA NextIInv == IInv /\ [Next]_vars => IInv'
<1> SUFFICES ASSUME IInv, [Next]_vars PROVE IInv'
  OBVIOUS
<1>1. ASSUME NEW r \in Requests, Writes(r) PROVE IInv'
  BY <1>1, WriteBeginStep, CreateStep, UpdateStep, DeleteStep DEF Writes
<1>2. ASSUME NEW r \in Requests, RequestReload(r) PROVE IInv'
  BY <1>2, RequestReloadStep
<1>3. ASSUME NEW r \in Requests, Answer(r) \/ Abort(r) PROVE IInv'
  BY <1>3, WriteBeginStep
<1>4. CASE SeeRequest \/ Mark \/ Load \/ Crash \/ Tick
  BY <1>4, SupervisorStep
<1>5. CASE Start
  BY <1>5, StartStep DEF Start
<1>6. CASE RestartCrashed
  BY <1>6, StartStep DEF RestartCrashed
<1>7. CASE RestartContainer
  BY <1>7, StartStep DEF RestartContainer
<1>8. CASE LookAgain \/ UNCHANGED vars
  <2>1. UNCHANGED <<registry, server, req, now, asked>>
    BY <1>8 DEF LookAgain, vars
  <2>2. \A r \in Requests : Answered(req[r])'
    BY <2>1 DEF IInv, Answered, server
  <2> QED
    BY <2>1, <2>2, QuietStep DEF IInv, Types, server
<1> QED
  BY <1>1, <1>2, <1>3, <1>4, <1>5, <1>6, <1>7, <1>8 DEF Next, Supervisor

-----------------------------------------------------------------------------
(* The theorems. *)

\* The invariant holds of every behaviour: what it says of a request's row, of its
\* second and of the files carries the theorems below.
THEOREM Inductive == Spec => []IInv
BY InitIInv, NextIInv, PTL DEF Spec

\* The rows, the client list, the versions and radiusd are of their types, and no
\* device has an id that was not given yet.
THEOREM TypeCorrect == Spec => []TypeOK
<1>1. IInv => TypeOK
  BY DEF IInv, Types, Shape, TypeOK
<1> QED
  BY <1>1, Inductive, PTL

\* create_nas, update_nas and delete_nas keep radius.nas and nas_device in step, as
\* long as no write is committed over one it has not seen.
THEOREM RegistryFollows == Spec => []RegistryMatches
<1>1. IInv => RegistryMatches
  BY DEF IInv, RegistryInv
<1> QED
  BY <1>1, Inductive, PTL

\* An update that no other write has overtaken leaves its device with its own secret
\* in radius.nas, whatever earlier writes have left there.
THEOREM RepairsHold == Spec => WriteRepairs
<1>1. ASSUME IInv, [Next]_vars, NEW r \in Requests, Update(r), req[r].fresh
      PROVE LET row == devices'[req[r].device]
            IN row # NULL /\ clients'[row.nasname] = row.secret
  <2> DEFINE d == req[r].device
             old == req[r].row
             new == Object(old, req[r].body)
  <2>1. d \in Devices /\ old \in Device /\ new \in Device /\ new # NULL
    BY <1>1, NullAssumption, ObjectType DEF Update, IInv, Shape
  <2>2. devices[d] = old
    BY <1>1 DEF Update, IInv, RegistryInv, Current
  <2>3. Save(d, old, new) /\ clients' = Upsert(Remove(clients, old.nasname), new)
    BY <1>1 DEF Update
  <2> HIDE DEF d, old, new
  <2>4. devices'[d] = new
    BY <1>1, <2>1, <2>2, <2>3, WrittenType DEF Save, IInv, Types
  <2>5. clients'[new.nasname] = new.secret
    BY <1>1, <2>1, <2>3 DEF Upsert, Remove, IInv, Types, Device
  <2> QED
    BY <2>1, <2>4, <2>5 DEF d
<1>2. IInv /\ [Next]_vars =>
        [\A r \in Requests : Update(r) /\ req[r].fresh =>
           LET row == devices'[req[r].device]
           IN row # NULL /\ clients'[row.nasname] = row.secret]_vars
  BY <1>1
<1> QED
  BY <1>2, Inductive, PTL DEF Spec, WriteRepairs

\* reload_radius answers "applied" only when radiusd was started after the request, but
\* for a request in a second that the supervisor knew already.
THEOREM AppliedMeansRestarted == Spec => AppliedIsRestarted
<1>1. ASSUME IInv, NEW r \in Requests, Answer(r)
      PROVE req[r].restarted \/ req[r].twin
  BY <1>1 DEF Answer, IsApplied, IInv, Answered
<1>2. IInv /\ [Next]_vars =>
        [\A r \in Requests : Answer(r) => req[r].restarted \/ req[r].twin]_vars
  BY <1>1
<1> QED
  BY <1>2, Inductive, PTL DEF Spec, AppliedIsRestarted
=============================================================================
