----------------------- MODULE ClientLifecycleProofs -----------------------
(* Safety of devices and their clients, for any clients of each kind, any  *)
(* device numbers and any number of devices opened.                        *)
EXTENDS ClientLifecycle, TLAPS

----------------------------------------------------------------------------
(* What the constants and the bookkeeping of R give.                       *)

LEMMA Constants ==
    /\ NoClient \notin Client /\ "container" \notin Client /\ "lookup" \notin Client
    /\ None \notin Device /\ None \notin Number
    /\ Device \subseteq Int /\ Number \subseteq Int
  BY LifecycleAssumption DEF NoClient, None, Device, Number

LEMMA IdleFields ==
    /\ Idle.doing = "idle" /\ Idle.device = None /\ Idle.number = None /\ Idle.for = NoClient
    /\ Idle \in [doing : {"idle", "attaching", "closing"}, device : Device \cup {None},
                 number : Number \cup {None}, for : Client \cup {NoClient}]
  BY DEF Idle

LEMMA Initially == Init => IInv
  <1> SUFFICES ASSUME Init PROVE IInv
    OBVIOUS
  <1> USE LifecycleAssumption DEF Init, None, NoId, NoClient, NoCall, Idle, Device, Number
  <1>1. TypeOK
    BY DEF TypeOK
  <1>2. TableOK /\ BusyOK /\ HandlesOK /\ IdsOK /\ CallsOK
    BY Constants DEF TableOK, BusyOK, HandlesOK, IdsOK, CallsOK, Listed
  <1>3. ActiveIsCurrent
    BY DEF ActiveIsCurrent
  <1> QED
    BY <1>1, <1>2, <1>3 DEF IInv

----------------------------------------------------------------------------
(* Clients on their own threads: calls begin, are queued, end.             *)

LEMMA CallBeginKeeps ==
    ASSUME IInv, NEW c \in Client, NEW method \in {"query", "render", "remove"},
           CallBegin(c, method)
    PROVE  IInv'
  <1> USE DEF IInv
  <1> DEFINE new == [method |-> method, device |-> handle[c], result |-> "none"]
  <1>1. /\ new \in [method : {"none", "query", "render", "remove"},
                   device : Device \cup {None},
                   result : {"none", "ok", "threw", "lost"}]
        /\ new.device = handle[c] /\ new.result = "none"
        /\ handle[c] \in Device /\ handle[c] <= made /\ handle[c] # None
    BY DEF TypeOK, HandlesOK, CallBegin
  <1>2. call' = [call EXCEPT ![c] = new]
    BY DEF CallBegin
  <1> HIDE DEF new
  <1>3. TypeOK'
    BY <1>1, <1>2 DEF TypeOK, CallBegin, rTable, deviceVars
  <1>4. TableOK' /\ BusyOK' /\ HandlesOK' /\ IdsOK' /\ ActiveIsCurrent'
    BY DEF TypeOK, TableOK, BusyOK, HandlesOK, IdsOK, ActiveIsCurrent, Listed, DeviceAt,
           CallBegin, rTable, deviceVars
  <1>5. \A e \in Client : call'[e] = IF e = c THEN new ELSE call[e]
    BY <1>2 DEF TypeOK
  <1>6. CallsOK'
    BY <1>1, <1>5 DEF CallsOK, CallBegin, TypeOK, rTable
  <1> QED
    BY <1>3, <1>4, <1>6

(* How a call ends: its result is set, and the client goes on or is stuck. *)
LEMMA Returned ==
    ASSUME TypeOK, NEW c \in Client, NEW result \in {"ok", "threw", "lost"},
           Return(c, result)
    PROVE  /\ worker' \in [Client -> {"off", "ready", "calling", "queued", "lost", "ended"}]
           /\ call' \in [Client -> [method : {"none", "query", "render", "remove"},
                                    device : Device \cup {None},
                                    result : {"none", "ok", "threw", "lost"}]]
           /\ worker'[c] \in {"ready", "lost"}
           /\ \A e \in Client : e # c => worker'[e] = worker[e] /\ call'[e] = call[e]
           /\ call'[c].method = call[c].method /\ call'[c].device = call[c].device
           /\ call'[c].result = result
  <1> DEFINE R == [method : {"none", "query", "render", "remove"},
                   device : Device \cup {None},
                   result : {"none", "ok", "threw", "lost"}]
             new == [call[c] EXCEPT !.result = result]
  <1>1. call \in [Client -> R] /\ call[c] \in R
    BY DEF TypeOK
  <1>2. /\ new \in R /\ new.method = call[c].method /\ new.device = call[c].device
        /\ new.result = result
    BY <1>1
  <1>3. call' = [call EXCEPT ![c] = new]
    BY DEF Return
  <1> HIDE DEF new, R
  <1>4. call' \in [Client -> R] /\ call'[c] = new /\ \A e \in Client : e # c => call'[e] = call[e]
    BY <1>1, <1>2, <1>3
  <1>5. /\ worker' \in [Client -> {"off", "ready", "calling", "queued", "lost", "ended"}]
        /\ worker'[c] \in {"ready", "lost"}
        /\ \A e \in Client : e # c => worker'[e] = worker[e]
    BY DEF Return, TypeOK
  <1> QED
    BY <1>2, <1>4, <1>5 DEF R

LEMMA CallReadsKeeps ==
    ASSUME IInv, NEW c \in Client, CallReads(c)
    PROVE  IInv'
  <1> USE DEF IInv
  <1>1. /\ Return(c, "ok")
        /\ UNCHANGED <<slots, current, made, holders, initialized, active, client, clientId,
                       counter, id, handle, stop, heard, seen, busy>>
    BY DEF CallReads, rTable, deviceVars
  <1>2. TypeOK'
    BY <1>1, Returned DEF TypeOK
  <1>3. TableOK' /\ BusyOK' /\ HandlesOK' /\ IdsOK' /\ ActiveIsCurrent'
    BY <1>1 DEF TypeOK, TableOK, BusyOK, HandlesOK, IdsOK, ActiveIsCurrent, Listed, DeviceAt
  <1>4. CallsOK'
    <2>1. worker[c] = "calling"
      BY DEF CallReads
    <2> QED
      BY <1>1, <2>1, Returned DEF CallsOK
  <1> QED
    BY <1>2, <1>3, <1>4

LEMMA CallQueuesKeeps ==
    ASSUME IInv, NEW c \in Client, CallQueues(c)
    PROVE  IInv'
  <1> USE DEF IInv, CallQueues, rTable, deviceVars
  <1>1. TypeOK'
    BY DEF TypeOK
  <1>2. TableOK' /\ BusyOK' /\ HandlesOK' /\ IdsOK' /\ ActiveIsCurrent'
    BY DEF TypeOK, TableOK, BusyOK, HandlesOK, IdsOK, ActiveIsCurrent, Listed, DeviceAt
  <1>3. CallsOK'
    BY DEF TypeOK, CallsOK
  <1> QED
    BY <1>1, <1>2, <1>3
LEMMA WorkerStopsKeeps ==
    ASSUME IInv, NEW c \in Client, WorkerStops(c)
    PROVE  IInv'
  <1> USE DEF IInv
  <1>1. /\ worker[c] = "ready" /\ stop[c]
        /\ UNCHANGED <<slots, current, made, initialized, active, client, clientId, counter, id,
                       call, stop, heard, seen, busy>>
    BY DEF WorkerStops, rTable
  <1>2. /\ worker' \in [Client -> {"off", "ready", "calling", "queued", "lost", "ended"}]
        /\ worker'[c] \in {"off", "ended"}
        /\ \A e \in Client : e # c => worker'[e] = worker[e]
    BY DEF WorkerStops, TypeOK
  <1>3. /\ \A d \in Device : /\ holders[d] \ {c} \subseteq holders'[d]
                             /\ holders'[d] \subseteq holders[d]
        /\ holders' \in [Device -> SUBSET (Client \cup {"container", "lookup"})]
    <2>1. CASE holders' = [holders EXCEPT ![handle[c]] = @ \ {c}]
      BY <2>1 DEF TypeOK
    <2>2. CASE holders' = holders
      BY <2>2 DEF TypeOK
    <2> QED
      BY <2>1, <2>2 DEF WorkerStops
  <1>4. /\ handle' \in [Client -> Device \cup {None}]
        /\ \A e \in Client : e # c => handle'[e] = handle[e]
        /\ \/ handle'[c] = None
           \/ handle'[c] = handle[c] /\ holders' = holders
    BY DEF WorkerStops, TypeOK
  <1>5. TypeOK'
    BY <1>1, <1>2, <1>3, <1>4 DEF TypeOK
  <1>6. TableOK'
    <2>1. Listed' = Listed
      BY <1>1 DEF Listed
    <2>2. \A d \in Device : "container" \in holders[d] => "container" \in holders'[d]
      BY <1>3, Constants
    <2>3. \A n \in Number : slots[n] # None => slots[n] \in Device
      BY DEF TypeOK
    <2> QED
      BY <1>1, <2>1, <2>2, <2>3 DEF TableOK
  <1>7. BusyOK'
    BY <1>1, <1>4 DEF BusyOK, TypeOK
  <1>8. HandlesOK'
    <2>1. ASSUME NEW e \in Client, NEW d \in Device, handle'[e] = d
          PROVE  handle[e] = d /\ e \in holders'[d]
      BY <2>1, <1>3, <1>4, Constants DEF HandlesOK
    <2>2. ASSUME NEW e \in Client, NEW d \in Device, client[d] = e
          PROVE  handle'[e] = d \/ (busy.device = d /\ busy.for = e)
      (* A thread is told to stop as its device is closed. *)
      <3>1. CASE e # c
        BY <3>1, <2>2, <1>4 DEF HandlesOK
      <3>2. CASE e = c
        BY <3>2, <2>2, <1>1, <1>4, Constants DEF HandlesOK, BusyOK, TypeOK
      <3> QED
        BY <3>1, <3>2
    <2> QED
      BY <2>1, <2>2, <1>1 DEF HandlesOK
  <1>9. CallsOK'
    BY <1>1, <1>2, <1>4 DEF CallsOK
  <1>10. IdsOK'
    BY <1>1 DEF IdsOK
  <1>11. ActiveIsCurrent'
    BY <1>1, <1>4, Constants DEF ActiveIsCurrent, DeviceAt
  <1> QED
    BY <1>5, <1>6, <1>7, <1>8, <1>9, <1>10, <1>11

(* The R thread runs a task: the client it tells, if any, is that of an    *)
(* open device.                                                            *)
LEMMA RunTaskKeeps ==
    ASSUME IInv, NEW c \in Client, RunTask(c)
    PROVE  IInv'
  <1> USE DEF IInv
  <1> DEFINE d == call[c].device
  <1>1. /\ busy = Idle /\ worker[c] = "queued" /\ d \in Device
        /\ UNCHANGED <<slots, current, made, holders, initialized, active, client, clientId,
                       counter, id, handle, stop, busy>>
    BY DEF RunTask, rTable, deviceVars, TypeOK, CallsOK
  <1>2. PICK result \in Outcomes(call[c].method, d) : Return(c, result)
    BY DEF RunTask
  <1>3. result \in {"ok", "threw", "lost"}
    BY <1>2 DEF Outcomes
  <1>4. /\ heard' \in [Client -> {"nothing", "start", "change", "close"}]
        /\ seen' \in [Client -> BOOLEAN]
        /\ \A e \in Client : \/ heard'[e] = heard[e] /\ seen'[e] = seen[e]
                             \/ client[d] = e /\ heard'[e] = "change" /\ seen'[e] = active[d]
    <2>1. CASE UNCHANGED <<heard, seen>>
      BY <2>1 DEF TypeOK
    <2>2. CASE /\ heard' = [heard EXCEPT ![client[d]] = "change"]
               /\ seen' = [seen EXCEPT ![client[d]] = active[d]]
      BY <2>2, <1>1 DEF TypeOK
    <2> QED
      BY <2>1, <2>2 DEF RunTask
  <1>5. \A e \in Client : client[d] = e => initialized[d] /\ (handle[e] # None => handle[e] = d)
    <2>1. busy.doing = "idle" /\ busy.device # d
      BY <1>1, IdleFields, Constants
    <2> QED
      BY <1>1, <2>1 DEF HandlesOK
  <1> HIDE DEF d
  <1>6. TypeOK'
    BY <1>1, <1>2, <1>3, <1>4, Returned DEF TypeOK
  <1>7. TableOK' /\ BusyOK' /\ IdsOK'
    BY <1>1 DEF TableOK, BusyOK, IdsOK, Listed
  <1>8. HandlesOK'
    BY <1>1, <1>4, <1>5 DEF HandlesOK, TypeOK
  <1>9. CallsOK'
    BY <1>1, <1>2, <1>3, Returned DEF CallsOK
  <1>10. ActiveIsCurrent'
    BY <1>1, <1>4, <1>5, Constants DEF ActiveIsCurrent, DeviceAt
  <1> QED
    BY <1>6, <1>7, <1>8, <1>9, <1>10

----------------------------------------------------------------------------
(* Clients on the R thread: they register, and attach.                     *)

LEMMA RegisterKeeps ==
    ASSUME IInv, NEW c \in Client, RegisterClientId(c)
    PROVE  IInv'
  <1> USE DEF IInv
  <1>1. /\ id[c] = NoId /\ counter' = counter + 1 /\ id' = [id EXCEPT ![c] = counter]
        /\ UNCHANGED <<slots, current, made, holders, initialized, active, client, clientId,
                       handle, worker, call, stop, heard, seen, busy>>
    BY DEF RegisterClientId, rTable, deviceVars
  <1>2. NoId..counter \subseteq NoId..counter' /\ counter \in NoId..counter' /\ counter \in Nat
    BY <1>1 DEF TypeOK, NoId
  <1>3. TypeOK'
    BY <1>1, <1>2 DEF TypeOK
  <1>4. TableOK' /\ BusyOK' /\ CallsOK' /\ ActiveIsCurrent'
    BY <1>1 DEF TableOK, BusyOK, CallsOK, ActiveIsCurrent, Listed, DeviceAt
  <1>5. \A e \in Client : id'[e] = IF e = c THEN counter ELSE id[e]
    BY <1>1 DEF TypeOK
  <1>6. HandlesOK'
    BY <1>1, <1>5 DEF HandlesOK
  <1>7. IdsOK'
    BY <1>1, <1>2, <1>5 DEF IdsOK, TypeOK, NoId
  <1> QED
    BY <1>3, <1>4, <1>6, <1>7

LEMMA AttachBeginKeeps ==
    ASSUME IInv, NEW c \in Client, NEW n \in Number, AttachBegin(c, n)
    PROVE  IInv'
  <1> USE DEF IInv
  <1> DEFINE d == slots[n]
             doing == [doing |-> "attaching", device |-> d, number |-> None, for |-> c]
  <1>1. /\ busy = Idle /\ n \in Listed /\ id[c] # NoId /\ handle[c] = None /\ worker[c] = "off"
        /\ client[d] = NoClient
        /\ holders' = [holders EXCEPT ![d] = @ \cup {"lookup"}]
        /\ client' = [client EXCEPT ![d] = c]
        /\ clientId' = [clientId EXCEPT ![d] = id[c]]
        /\ heard' = [heard EXCEPT ![c] = "start"]
        /\ worker' = [worker EXCEPT ![c] = "ready"]
        /\ stop' = [stop EXCEPT ![c] = FALSE]
        /\ UNCHANGED <<slots, current, made, initialized, active, counter, id, handle, call, seen>>
    BY DEF AttachBegin, CanAttach, rTable
  <1>2. busy' = doing
    BY DEF AttachBegin
  <1>3. /\ doing \in [doing : {"idle", "attaching", "closing"}, device : Device \cup {None},
                      number : Number \cup {None}, for : Client \cup {NoClient}]
        /\ doing.doing = "attaching" /\ doing.device = d /\ doing.number = None /\ doing.for = c
        /\ d \in Device /\ initialized[d] /\ d <= made
    BY <1>1 DEF TypeOK, TableOK, Listed
  <1> HIDE DEF d, doing
  <1>4. Listed' = Listed
    BY <1>1, <1>2, <1>3 DEF Listed, Idle
  <1>5. TypeOK'
    BY <1>1, <1>2, <1>3 DEF TypeOK
  <1>6. /\ \A e \in Device : /\ holders[e] \subseteq holders'[e]
                             /\ client'[e] = IF e = d THEN c ELSE client[e]
                             /\ clientId'[e] = IF e = d THEN id[c] ELSE clientId[e]
        /\ \A o \in Client : /\ heard'[o] = IF o = c THEN "start" ELSE heard[o]
                             /\ worker'[o] = IF o = c THEN "ready" ELSE worker[o]
                             /\ stop'[o] = IF o = c THEN FALSE ELSE stop[o]
    BY <1>1 DEF TypeOK
  <1> HIDE DEF IInv
  <1>7. TableOK'
    BY <1>1, <1>4, <1>6 DEF IInv, TableOK, TypeOK
  <1>8. BusyOK'
    BY <1>1, <1>2, <1>3, <1>6, IdleFields, Constants DEF BusyOK
  <1>9. \A e \in Device : client[e] # c
    BY <1>1, IdleFields, Constants DEF IInv, HandlesOK, TypeOK
  <1>10. HandlesOK'
    <2>1. ASSUME NEW o \in Client, NEW e \in Device, handle[o] = e
          PROVE  /\ o # c /\ e <= made /\ o \in holders'[e]
                 /\ stop'[o] => ~initialized[e]
                 /\ \/ client'[e] = o
                    \/ client'[e] = NoClient /\ ~initialized[e] /\ heard'[o] = "close"
      BY <2>1, <1>1, <1>3, <1>6, Constants DEF IInv, HandlesOK
    <2>2. ASSUME NEW o \in Client, NEW e \in Device, client'[e] = o
          PROVE  /\ e <= made /\ clientId'[e] = id[o] /\ id[o] # NoId
                 /\ handle[o] = e \/ (busy'.device = e /\ busy'.for = o)
                 /\ initialized[e] /\ heard'[o] \in {"start", "change"}
      <3>1. CASE e = d
        <4>1. o = c
          BY <3>1, <2>2, <1>6
        <4> QED
          BY <3>1, <4>1, <1>1, <1>2, <1>3, <1>6
      <3>2. CASE e # d
        <4>1. client[e] = o /\ o # c /\ busy.device = None /\ busy.doing = "idle"
          BY <3>2, <2>2, <1>1, <1>6, <1>9, IdleFields
        <4> QED
          BY <4>1, <3>2, <1>1, <1>6, Constants DEF IInv, HandlesOK
      <3> QED
        BY <3>1, <3>2
    <2>3. \A e, g \in Device : client'[e] = client'[g] /\ client'[e] # NoClient => e = g
      BY <1>6, <1>9 DEF IInv, HandlesOK
    <2> QED
      BY <2>1, <2>2, <2>3, <1>1 DEF HandlesOK
  <1>11. CallsOK'
    BY <1>1, <1>6 DEF IInv, CallsOK
  <1>12. IdsOK' /\ ActiveIsCurrent'
    BY <1>1 DEF IInv, IdsOK, ActiveIsCurrent, DeviceAt
  <1> QED
    BY <1>5, <1>7, <1>8, <1>10, <1>11, <1>12 DEF IInv

LEMMA AttachEndKeeps ==
    ASSUME IInv, AttachEnd
    PROVE  IInv'
  <1> USE DEF IInv
  <1> DEFINE c == busy.for
             d == busy.device
  <1>1. /\ busy.doing = "attaching" /\ busy' = Idle
        /\ holders' = [holders EXCEPT ![d] = (@ \ {"lookup"}) \cup {c}]
        /\ handle' = [handle EXCEPT ![c] = d]
        /\ seen' = [seen EXCEPT ![c] = active[d]]
        /\ UNCHANGED <<slots, current, made, initialized, active, client, clientId, counter, id,
                       worker, call, stop, heard>>
    BY DEF AttachEnd, rTable
  <1>2. /\ d \in Device /\ c \in Client /\ initialized[d] /\ busy.number = None
        /\ client[d] = c /\ handle[c] = None /\ ~stop[c]
    BY <1>1 DEF BusyOK, TypeOK
  <1> HIDE DEF c, d
  <1>3. Listed' = Listed
    BY <1>1, <1>2 DEF Listed, Idle
  <1>4. TypeOK'
    BY <1>1, <1>2 DEF TypeOK, Idle
  <1>5. /\ \A e \in Device : \A o \in Client \cup {"container"} :
             o \in holders[e] \/ (e = d /\ o = c) => o \in holders'[e]
        /\ \A o \in Client : /\ handle'[o] = IF o = c THEN d ELSE handle[o]
                             /\ seen'[o] = IF o = c THEN active[d] ELSE seen[o]
    BY <1>1, <1>2, Constants DEF TypeOK
  <1>6. TableOK'
    BY <1>1, <1>3, <1>5 DEF TableOK, TypeOK
  <1>7. BusyOK'
    BY <1>1 DEF BusyOK, Idle
  <1>8. HandlesOK'
    <2>1. ASSUME NEW o \in Client, NEW e \in Device, handle'[o] = e
          PROVE  /\ e <= made /\ o \in holders'[e]
                 /\ stop[o] => ~initialized[e]
                 /\ \/ client[e] = o
                    \/ client[e] = NoClient /\ ~initialized[e] /\ heard[o] = "close"
      BY <2>1, <1>2, <1>5 DEF HandlesOK
    <2>2. ASSUME NEW o \in Client, NEW e \in Device, client[e] = o
          PROVE  /\ handle'[o] = e
                 /\ initialized[e] /\ heard[o] \in {"start", "change"}
      BY <2>2, <1>1, <1>2, <1>5, Constants DEF HandlesOK, c, d
    <2> QED
      BY <2>1, <2>2, <1>1 DEF HandlesOK
  <1>9. CallsOK'
    BY <1>1, <1>2, <1>5, Constants DEF CallsOK
  <1>10. IdsOK'
    BY <1>1 DEF IdsOK
  <1>11. ActiveIsCurrent'
    BY <1>1, <1>2, <1>5 DEF ActiveIsCurrent, DeviceAt
  <1> QED
    BY <1>4, <1>6, <1>7, <1>8, <1>9, <1>10, <1>11

----------------------------------------------------------------------------
(* R's table: devices are opened, selected and closed.                     *)

(* Exactly the devices in on are active, of those that are not closed, and *)
(* their clients know.                                                     *)
LEMMA Switched ==
    ASSUME TypeOK, NEW off, NEW on, off \subseteq Device, on \subseteq Device,
           initialized' \in [Device -> BOOLEAN],
           SwitchActive(off, on)
    PROVE  /\ active' \in [Device -> BOOLEAN] /\ seen' \in [Client -> BOOLEAN]
           /\ heard' \in [Client -> {"nothing", "start", "change", "close"}]
           /\ \A d \in on \cup off : initialized'[d] => (active'[d] <=> d \in on)
           /\ \A d \in Device \ (on \cup off) : active'[d] = active[d]
           /\ \A c \in Client :
                \/ /\ \E d \in on \cup off : initialized'[d] /\ client[d] = c
                   /\ heard'[c] = "change"
                   /\ seen'[c] <=> \E d \in on : initialized'[d] /\ client[d] = c
                \/ /\ \A d \in on \cup off : initialized'[d] => client[d] # c
                   /\ heard'[c] = heard[c] /\ seen'[c] = seen[c]
  <1> DEFINE set == {d \in on \cup off : initialized'[d]}
             told == {c \in Client : \E d \in set : client[d] = c}
             knows(c) == \E d \in on \cap set : client[d] = c
  <1>1. /\ active' = [d \in Device |-> IF d \in set THEN d \in on ELSE active[d]]
        /\ heard' = [c \in Client |-> IF c \in told THEN "change" ELSE heard[c]]
        /\ seen' = [c \in Client |-> IF c \in told THEN knows(c) ELSE seen[c]]
    BY DEF SwitchActive
  <1>2. /\ \A d \in set : d \in Device /\ d \in on \cup off
        /\ \A d \in on \cup off : initialized'[d] => d \in set
        /\ \A d \in Device \ (on \cup off) : d \notin set
    OBVIOUS
  <1>3. /\ \A c \in told : \E d \in on \cup off : initialized'[d] /\ client[d] = c
        /\ \A c \in Client \ told : \A d \in on \cup off : initialized'[d] => client[d] # c
        /\ told \subseteq Client
    OBVIOUS
  <1>known. \A c \in Client : knows(c) <=> \E d \in on : initialized'[d] /\ client[d] = c
    <2>1. ASSUME NEW c \in Client, NEW d \in on, initialized'[d], client[d] = c
          PROVE  knows(c)
      BY <2>1
    <2>2. ASSUME NEW c \in Client, knows(c)
          PROVE  \E d \in on : initialized'[d] /\ client[d] = c
      <3>1. PICK d \in on \cap set : client[d] = c
        BY <2>2
      <3> QED
        BY <3>1
    <2> QED
      BY <2>1, <2>2
  <1>boolean. \A c \in Client : knows(c) \in BOOLEAN
    OBVIOUS
  <1> HIDE DEF set, told, knows
  <1>4. /\ active' \in [Device -> BOOLEAN]
        /\ \A d \in on \cup off : initialized'[d] => (active'[d] <=> d \in on)
        /\ \A d \in Device \ (on \cup off) : active'[d] = active[d]
    <2>1. \A d \in Device : (IF d \in set THEN d \in on ELSE active[d]) \in BOOLEAN
      <3>1. \A d \in Device : active[d] \in BOOLEAN /\ (d \in on) \in BOOLEAN
        BY DEF TypeOK
      <3> QED
        BY <3>1, Zenon
    <2>2. \A d \in Device : active'[d] = IF d \in set THEN d \in on ELSE active[d]
      BY <1>1
    <2>3. active' \in [Device -> BOOLEAN]
      BY <1>1, <2>1
    <2>4. \A d \in on \cup off : initialized'[d] => (active'[d] <=> d \in on)
      BY <1>2, <2>2
    <2> QED
      BY <1>2, <2>2, <2>3, <2>4
  <1>5. /\ seen' \in [Client -> BOOLEAN]
        /\ heard' \in [Client -> {"nothing", "start", "change", "close"}]
        /\ \A c \in told : heard'[c] = "change" /\ (seen'[c] <=> knows(c))
        /\ \A c \in Client \ told : heard'[c] = heard[c] /\ seen'[c] = seen[c]
    BY <1>1, <1>3, <1>boolean DEF TypeOK
  <1> QED
    BY <1>3, <1>known, <1>4, <1>5

LEMMA OpenDeviceKeeps ==
    ASSUME IInv, NEW n \in Number, OpenDevice(n)
    PROVE  IInv'
  <1> USE DEF IInv
  <1> DEFINE d == made + 1
             off == DeviceAt(current)
  <1>1. /\ busy = Idle /\ made < MaxDevices /\ slots[n] = None
        /\ made' = d /\ slots' = [slots EXCEPT ![n] = d] /\ current' = n
        /\ holders' = [holders EXCEPT ![d] = {"container"}]
        /\ initialized' = [initialized EXCEPT ![d] = TRUE]
        /\ SwitchActive(off, {d})
        /\ UNCHANGED <<client, clientId, counter, id, handle, worker, call, stop, busy>>
    BY DEF OpenDevice
  <1>2. /\ made \in Nat /\ made' = made + 1 /\ d \in Device /\ d # None
        /\ d \notin {slots[m] : m \in Number}
    BY <1>1, LifecycleAssumption DEF TypeOK, TableOK, Device, Number, None
  <1>3. /\ off \subseteq Device /\ d \notin off
        /\ initialized' \in [Device -> BOOLEAN]
        /\ \A e \in Device : initialized'[e] = IF e = d THEN TRUE ELSE initialized[e]
        /\ \A e \in Device : e # d => holders'[e] = holders[e]
        /\ holders'[d] = {"container"}
        /\ \A m \in Number : slots'[m] = IF m = n THEN d ELSE slots[m]
    BY <1>1, <1>2, Constants DEF TypeOK, TableOK, DeviceAt, Listed
  <1>4. /\ \A c \in Client : handle[c] # d
        /\ client[d] = NoClient
        /\ ~initialized[d]
    BY <1>2, Constants DEF HandlesOK, TypeOK, TableOK
  <1>5. Listed' = Listed \cup {n}
    BY <1>1, <1>2, <1>3, Constants DEF Listed, Idle, None
  <1> HIDE DEF d, off, IInv
  <1>s. /\ active' \in [Device -> BOOLEAN] /\ seen' \in [Client -> BOOLEAN]
        /\ heard' \in [Client -> {"nothing", "start", "change", "close"}]
        /\ active'[d]
        /\ \A e \in off : initialized[e] => ~active'[e]
        /\ \A e \in Device \ off : e # d => active'[e] = active[e]
        /\ \A c \in Client :
             \/ /\ \E e \in off : client[e] = c
                /\ heard'[c] = "change" /\ ~seen'[c]
             \/ /\ \A e \in off : initialized[e] => client[e] # c
                /\ heard'[c] = heard[c] /\ seen'[c] = seen[c]
    <2>1. \A e \in off : initialized'[e] = initialized[e] /\ e # d
      BY <1>3
    <2>2. {d} \subseteq Device /\ \A c \in Client : client[d] # c
      BY <1>2, <1>4, Constants
    <2>3. TypeOK
      BY DEF IInv
    <2> QED
      BY <1>1, <1>3, <2>1, <2>2, <2>3, Switched
  <1>6. TypeOK'
    <2>1. slots' \in [Number -> Device \cup {None}] /\ current' \in Number \cup {None}
      BY <1>1, <1>2 DEF IInv, TypeOK
    <2>2. made' \in 0..MaxDevices
      BY <1>1, <1>2, LifecycleAssumption DEF d
    <2>3. holders' \in [Device -> SUBSET (Client \cup {"container", "lookup"})]
      BY <1>1, <1>2 DEF IInv, TypeOK
    <2> QED
      BY <1>1, <1>3, <1>s, <2>1, <2>2, <2>3 DEF IInv, TypeOK
  <1>7. TableOK'
    <2>1. \A m \in Number : slots[m] # None => slots[m] \in Device /\ slots[m] <= made
      BY DEF IInv, TypeOK, TableOK
    <2>2. ASSUME NEW m \in Number, slots'[m] # None
          PROVE  slots'[m] <= made' /\ "container" \in holders'[slots'[m]]
      <3>1. CASE m = n
        <4>1. slots'[m] = d /\ made' = d /\ holders'[d] = {"container"}
          BY <3>1, <1>1, <1>3
        <4>2. d \in Int
          BY <1>2, Constants
        <4> QED
          BY <4>1, <4>2
      <3>2. CASE m # n
        <4>1. slots'[m] = slots[m] /\ slots[m] \in Device /\ slots[m] <= made /\ slots[m] # d
          BY <3>2, <1>2, <1>3, <2>1, <2>2
        <4>2. made <= made' /\ made \in Int /\ made' \in Int
          BY <1>2
        <4>3. slots[m] \in Int
          BY <4>1, Constants
        <4>4. "container" \in holders[slots[m]]
          BY <4>1, Constants DEF IInv, TableOK
        <4> QED
          BY <4>1, <4>2, <4>3, <4>4, <1>3
      <3> QED
        BY <3>1, <3>2
    <2>3. \A l, m \in Number : slots'[l] = slots'[m] /\ slots'[l] # None => l = m
      BY <1>2, <1>3 DEF IInv, TableOK
    <2>4. \A m \in Listed' : initialized'[slots'[m]]
      BY <1>2, <1>3, <1>5, <2>1 DEF IInv, TableOK, Listed
    <2>5. \A e \in Device : initialized'[e] => e <= made' /\ \E m \in Listed' : slots'[m] = e
      <3>1. ASSUME NEW e \in Device, initialized'[e], e # d
            PROVE  e <= made' /\ \E m \in Listed' : slots'[m] = e
        <4>1. e <= made /\ \E m \in Listed : slots[m] = e
          BY <3>1, <1>3 DEF IInv, TableOK
        <4>2. PICK m \in Listed : slots[m] = e
          BY <4>1
        <4>3. m # n /\ m \in Number
          BY <4>2, <1>1, Constants DEF Listed
        <4> QED
          BY <4>1, <4>2, <4>3, <1>1, <1>2, <1>3, <1>5, Constants DEF d
      <3>2. d <= made' /\ n \in Listed' /\ slots'[n] = d
        BY <1>1, <1>2, <1>3, <1>5, Constants
      <3> QED
        BY <3>1, <3>2
    <2> QED
      BY <2>2, <2>3, <2>4, <2>5, <1>1, <1>5 DEF TableOK
  <1>8. BusyOK'
    BY <1>1 DEF IInv, BusyOK, Idle
  <1>9. \A e \in off : initialized[e]
    BY <1>1 DEF IInv, off, DeviceAt, TableOK
  <1>later. \A e \in Device \cup {None} : e <= made => e <= made'
    <2>1. \A e \in Device \cup {None} : e \in Int
      BY Constants DEF None
    <2> QED
      BY <2>1, <1>2
  <1>10. busy.doing = "idle" /\ busy.device = None
    BY <1>1, IdleFields
  <1>11. HandlesOK'
    <2>1. ASSUME NEW c \in Client, NEW e \in Device, handle[c] = e
          PROVE  /\ c \in holders'[e] /\ e <= made'
                 /\ stop[c] => ~initialized'[e]
                 /\ \/ client[e] = c
                    \/ client[e] = NoClient /\ ~initialized'[e] /\ heard'[c] = "close"
      <3>1. /\ e # d /\ c \in holders[e] /\ e <= made
            /\ stop[c] => ~initialized[e]
            /\ \/ client[e] = c
               \/ client[e] = NoClient /\ ~initialized[e] /\ heard[c] = "close"
        BY <2>1, <1>4 DEF IInv, HandlesOK
      <3>2. \A g \in off : client[g] = c => g = e
        BY <2>1, <1>3, <1>10, Constants DEF IInv, HandlesOK
      <3> QED
        <4>1. e <= made' /\ c \in holders'[e] /\ initialized'[e] = initialized[e]
          BY <3>1, <1>3, <1>later
        <4>2. \/ \E g \in off : client[g] = c
              \/ heard'[c] = heard[c]
          BY <1>s
        <4> QED
          BY <3>1, <3>2, <4>1, <4>2, Constants
    <2>2. ASSUME NEW c \in Client, NEW e \in Device, client[e] = c
          PROVE  /\ e <= made' /\ clientId[e] = id[c] /\ id[c] # NoId
                 /\ handle[c] = e \/ (busy.device = e /\ busy.for = c)
                 /\ initialized'[e] /\ heard'[c] \in {"start", "change"}
      <3>1. /\ e # d /\ e <= made /\ clientId[e] = id[c] /\ id[c] # NoId
            /\ handle[c] = e
            /\ initialized[e] /\ heard[c] \in {"start", "change"}
        BY <2>2, <1>4, <1>10, Constants DEF IInv, HandlesOK
      <3> QED
        <4>1. e <= made' /\ initialized'[e]
          BY <3>1, <1>3, <1>later
        <4>2. heard'[c] \in {"start", "change"}
          BY <3>1, <1>s
        <4> QED
          BY <3>1, <4>1, <4>2
    <2>3. \A e, g \in Device : client[e] = client[g] /\ client[e] # NoClient => e = g
      BY DEF IInv, HandlesOK
    <2> QED
      BY <2>1, <2>2, <2>3, <1>1 DEF HandlesOK
  <1>12. CallsOK'
    <2>1. \A c \in Client : call[c].device \in Device \cup {None}
      BY DEF IInv, TypeOK
    <2> QED
      BY <2>1, <1>1, <1>later DEF IInv, CallsOK
  <1>13. IdsOK'
    BY <1>1 DEF IInv, IdsOK
  <1>14. ActiveIsCurrent'
    BY <1>1, <1>2, <1>3, <1>4, <1>9, <1>s, Constants
       DEF IInv, ActiveIsCurrent, DeviceAt, HandlesOK, off
  <1> QED
    BY <1>6, <1>7, <1>8, <1>11, <1>12, <1>13, <1>14 DEF IInv

LEMMA SelectKeeps ==
    ASSUME IInv, NEW n \in Number, Select(n)
    PROVE  IInv'
  <1> USE DEF IInv
  <1> DEFINE d == slots[n]
             off == DeviceAt(current)
  <1>1. /\ busy = Idle /\ n \in Listed /\ current' = n
        /\ SwitchActive(off, {d})
        /\ UNCHANGED <<slots, made, holders, initialized, client, clientId, counter, id, handle,
                       worker, call, stop, busy>>
    BY Constants DEF Select, DeviceAt
  <1>2. /\ d \in Device /\ off \subseteq Device /\ initialized[d]
        /\ \A e \in off : initialized[e]
    BY <1>1, Constants DEF TypeOK, TableOK, DeviceAt, Listed
  <1> HIDE DEF d, off, IInv
  <1>3. /\ active' \in [Device -> BOOLEAN] /\ seen' \in [Client -> BOOLEAN]
        /\ heard' \in [Client -> {"nothing", "start", "change", "close"}]
        /\ active'[d]
        /\ \A e \in off : e # d => ~active'[e]
        /\ \A e \in Device \ off : e # d => active'[e] = active[e]
        /\ \A c \in Client :
             \/ /\ \E e \in off \cup {d} : client[e] = c
                /\ heard'[c] = "change" /\ (seen'[c] <=> client[d] = c)
             \/ /\ \A e \in off \cup {d} : client[e] # c
                /\ heard'[c] = heard[c] /\ seen'[c] = seen[c]
    <2>1. TypeOK /\ initialized' \in [Device -> BOOLEAN] /\ {d} \subseteq Device
      BY <1>1, <1>2 DEF IInv, TypeOK
    <2>2. \A e \in off \cup {d} : initialized'[e]
      BY <1>1, <1>2
    <2> QED
      BY <1>1, <1>2, <2>1, <2>2, Switched
  <1>4. TypeOK'
    BY <1>1, <1>3 DEF IInv, TypeOK
  <1>5. TableOK' /\ BusyOK'
    BY <1>1 DEF IInv, TableOK, BusyOK, Listed
  <1>6. busy.doing = "idle" /\ busy.device = None
    BY <1>1, IdleFields
  <1>7. \A c \in Client, e \in Device :
          client[e] = c => handle[c] = e /\ initialized[e] /\ heard[c] \in {"start", "change"}
    BY <1>6, Constants DEF IInv, HandlesOK
  <1>8. HandlesOK'
    <2>1. ASSUME NEW c \in Client, NEW e \in Device, handle[c] = e
          PROVE  \/ client[e] = c
                 \/ client[e] = NoClient /\ ~initialized[e] /\ heard'[c] = "close"
      <3>1. CASE client[e] = c
        BY <3>1
      <3>2. CASE client[e] # c
        <4>1. client[e] = NoClient /\ ~initialized[e] /\ heard[c] = "close"
          BY <2>1, <3>2 DEF IInv, HandlesOK
        <4>2. \A g \in off \cup {d} : client[g] # c
          BY <4>1, <2>1, <1>2, <1>7
        <4> QED
          BY <4>1, <4>2, <1>3
      <3> QED
        BY <3>1, <3>2
    <2>2. ASSUME NEW c \in Client, NEW e \in Device, client[e] = c
          PROVE  heard'[c] \in {"start", "change"}
      BY <2>2, <1>3, <1>7
    <2> QED
      BY <2>1, <2>2, <1>1, <1>7 DEF IInv, HandlesOK
  <1>9. CallsOK' /\ IdsOK'
    BY <1>1 DEF IInv, CallsOK, IdsOK
  <1>10. ActiveIsCurrent'
    <2>1. \A e \in Device : initialized[e] => (active'[e] <=> e = d)
      BY <1>1, <1>2, <1>3 DEF IInv, ActiveIsCurrent, off
    <2>2. ASSUME NEW e \in Device, initialized[e], NEW c \in Client, handle[c] = e
          PROVE  seen'[c] = active'[e]
      <3>1. client[e] = c /\ seen[c] = active[e]
        BY <2>2 DEF IInv, HandlesOK, ActiveIsCurrent
      <3>2. \A g \in Device : client[g] = c => g = e
        BY <2>2, <1>7
      <3>3. CASE e \in off \cup {d}
        BY <3>1, <3>2, <3>3, <2>1, <2>2, <1>2, <1>3 DEF TypeOK
      <3>4. CASE e \notin off \cup {d}
        BY <3>1, <3>2, <3>4, <1>2, <1>3
      <3> QED
        BY <3>3, <3>4
    <2>3. DeviceAt(n)' = {d}
      BY <1>1, Constants DEF DeviceAt, d
    <2> QED
      BY <2>1, <2>2, <2>3, <1>1 DEF ActiveIsCurrent
  <1> QED
    BY <1>4, <1>5, <1>8, <1>9, <1>10 DEF IInv

(* The device that closes leaves the listed ones, and one of the others, if *)
(* there is one, takes its place as the current one.                       *)
LEMMA CloseBeginKeeps ==
    ASSUME IInv, NEW n \in Number, CloseBegin(n)
    PROVE  IInv'
  <1> DEFINE d == slots[n]
             c == client[d]
             doing == [doing |-> "closing", device |-> d, number |-> n, for |-> c]
             on == DeviceAt(current') \ DeviceAt(current)
             told == {o \in Client : \E e \in on : client[e] = o}
  <1>1. /\ busy = Idle /\ n \in Listed
        /\ current' \in CurrentAfter(n)
        /\ active' = [e \in Device |-> active[e] \/ e \in on]
        /\ seen' = [o \in Client |-> seen[o] \/ o \in told]
        /\ heard' = [o \in Client |->
             IF o = c THEN "close" ELSE IF o \in told THEN "change" ELSE heard[o]]
        /\ initialized' = [initialized EXCEPT ![d] = FALSE]
        /\ stop' = [o \in Client |-> stop[o] \/ o = c]
        /\ busy' = doing
        /\ UNCHANGED <<slots, made, holders, client, clientId, counter, id, handle, worker, call>>
    <2>1. busy = Idle /\ n \in Listed
      BY DEF CloseBegin
    <2>2. PICK next \in CurrentAfter(n) :
            /\ current' = next
            /\ active' = [e \in Device |-> active[e] \/ e \in DeviceAt(next) \ DeviceAt(current)]
            /\ seen' = [o \in Client |-> seen[o] \/
                 o \in {p \in Client : \E e \in DeviceAt(next) \ DeviceAt(current) : client[e] = p}]
            /\ heard' = [o \in Client |->
                 IF o = c THEN "close"
                 ELSE IF o \in {p \in Client : \E e \in DeviceAt(next) \ DeviceAt(current) :
                                  client[e] = p}
                      THEN "change" ELSE heard[o]]
      BY DEF CloseBegin
    <2>3. DeviceAt(current') = DeviceAt(next)
      BY <2>2 DEF DeviceAt
    <2> QED
      BY <2>1, <2>2, <2>3 DEF CloseBegin
  <1>2. /\ d \in Device /\ d # None /\ initialized[d] /\ c \in Client \cup {NoClient}
        /\ slots \in [Number -> Device \cup {None}]
        /\ \A l, m \in Number : slots[m] = slots[l] /\ slots[m] # None => m = l
    BY <1>1 DEF IInv, TypeOK, TableOK, Listed
  <1>3. /\ doing \in [doing : {"idle", "attaching", "closing"}, device : Device \cup {None},
                      number : Number \cup {None}, for : Client \cup {NoClient}]
        /\ doing.doing = "closing" /\ doing.device = d /\ doing.number = n /\ doing.for = c
    BY <1>2
  <1>4. busy.doing = "idle" /\ busy.device = None /\ busy.number = None
    BY <1>1, IdleFields
  <1> HIDE DEF d, c, doing
  <1>5. Listed' = Listed \ {n}
    BY <1>1, <1>3, <1>4, Constants DEF Listed
  <1>6. current' \in Listed' \cup {None} /\ (n # current => current' = current)
    BY <1>1, <1>5, Constants DEF CurrentAfter, IInv, TableOK
  <1>7. /\ on \subseteq {slots[m] : m \in Listed'}
        /\ n # current => on = {}
        /\ d \notin on /\ on \subseteq Device
    BY <1>2, <1>5, <1>6, Constants DEF DeviceAt, Listed, d
  <1>8. /\ \A e \in Device : initialized'[e] = IF e = d THEN FALSE ELSE initialized[e]
        /\ initialized' \in [Device -> BOOLEAN]
        /\ \A e \in on : initialized[e]
    <2>1. initialized \in [Device -> BOOLEAN]
      BY DEF IInv, TypeOK
    <2>2. \A m \in Listed' : initialized[slots[m]]
      BY <1>5 DEF IInv, TableOK
    <2>3. \A e \in on : initialized[e]
      BY <2>2, <1>7
    <2> QED
      BY <2>1, <2>3, <1>1, <1>2
  <1>9. \A o \in Client, e \in Device :
          client[e] = o => handle[o] = e /\ initialized[e] /\ heard[o] \in {"start", "change"}
    BY <1>4, Constants DEF IInv, HandlesOK
  <1>10. \A o \in Client : o \in told => (\E e \in on : client[e] = o /\ handle[o] = e)
    BY <1>7, <1>9
  <1>11. \A o \in Client, e \in on : client[e] = o => o \in told
    OBVIOUS
  <1> HIDE DEF on, told
  <1>12. TypeOK'
    <2>1. current' \in Number \cup {None}
      BY <1>6 DEF Listed
    <2>2. active' \in [Device -> BOOLEAN]
      BY <1>1 DEF IInv, TypeOK
    <2>3. seen' \in [Client -> BOOLEAN] /\ stop' \in [Client -> BOOLEAN]
      BY <1>1 DEF IInv, TypeOK
    <2>4. heard' \in [Client -> {"nothing", "start", "change", "close"}]
      BY <1>1 DEF IInv, TypeOK
    <2> QED
      BY <1>1, <1>3, <1>8, <2>1, <2>2, <2>3, <2>4 DEF IInv, TypeOK
  <1>13. TableOK'
    <2>1. ASSUME NEW m \in Listed'
          PROVE  initialized'[slots[m]]
      <3>1. m \in Listed /\ m # n /\ m \in Number /\ n \in Number /\ slots[m] # None
        BY <1>5, <1>1 DEF Listed
      <3>2. slots[m] \in Device /\ slots[m] # d
        BY <3>1, <1>2 DEF d
      <3> QED
        BY <3>1, <3>2, <1>8 DEF IInv, TableOK
    <2>2. ASSUME NEW e \in Device, initialized'[e]
          PROVE  e <= made /\ \E m \in Listed' : slots[m] = e
      BY <2>2, <1>5, <1>8 DEF IInv, TableOK, d
    <2> QED
      BY <2>1, <2>2, <1>1, <1>6 DEF IInv, TableOK
  <1>14. BusyOK'
    BY <1>1, <1>2, <1>3, <1>8, Constants DEF BusyOK, d, c
  <1>15. \A o \in Client :
            /\ heard'[o] = IF o = c THEN "close" ELSE IF o \in told THEN "change" ELSE heard[o]
            /\ stop'[o] => stop[o] \/ o = c
    BY <1>1
  <1>16. HandlesOK'
    <2>1. ASSUME NEW o \in Client, NEW e \in Device, handle[o] = e
          PROVE  /\ stop'[o] => ~initialized'[e]
                 /\ \/ client[e] = o
                    \/ client[e] = NoClient /\ ~initialized'[e] /\ heard'[o] = "close"
      <3>1. /\ stop[o] => ~initialized[e]
            /\ \/ client[e] = o
               \/ client[e] = NoClient /\ ~initialized[e] /\ heard[o] = "close"
        BY <2>1 DEF IInv, HandlesOK
      <3>2. o = c => e = d
        BY <2>1, <1>2, <1>9 DEF c
      <3>3. client[e] = NoClient => o \notin told
        BY <2>1, <1>10, Constants
      <3> QED
        BY <3>1, <3>2, <3>3, <1>8, <1>15
    <2>2. ASSUME NEW o \in Client, NEW e \in Device, client[e] = o
          PROVE  IF initialized'[e]
                 THEN heard'[o] \in {"start", "change"}
                 ELSE heard'[o] = "close" /\ busy'.doing = "closing" /\ busy'.device = e
      <3>1. CASE e = d
        BY <2>2, <3>1, <1>1, <1>3, <1>8, <1>15 DEF c
      <3>2. CASE e # d
        <4>1. o # c
          BY <2>2, <3>2, <1>2, <1>9 DEF c
        <4> QED
          BY <2>2, <3>2, <4>1, <1>8, <1>9, <1>15
      <3> QED
        BY <3>1, <3>2
    <2> QED
      BY <2>1, <2>2, <1>1, <1>9 DEF IInv, HandlesOK
  <1>17. CallsOK' /\ IdsOK'
    BY <1>1 DEF IInv, CallsOK, IdsOK
  <1>18. ActiveIsCurrent'
    <2>1. ASSUME NEW e \in Device, initialized'[e]
          PROVE  active'[e] <=> e \in DeviceAt(current')
      <3>1. initialized[e] /\ e # d /\ (active[e] <=> e \in DeviceAt(current))
        BY <2>1, <1>8 DEF IInv, ActiveIsCurrent
      <3>2. active'[e] <=> active[e] \/ e \in on
        BY <1>1
      <3>3. CASE n # current
        BY <3>1, <3>2, <3>3, <1>6, <1>7
      <3>4. CASE n = current
        <4>1. DeviceAt(current) = {d}
          BY <3>4, Constants DEF DeviceAt, d
        <4> QED
          BY <3>1, <3>2, <4>1 DEF on
      <3> QED
        BY <3>3, <3>4
    <2>2. ASSUME NEW e \in Device, initialized'[e], NEW o \in Client, handle[o] = e
          PROVE  seen'[o] = active'[e]
      <3>0. initialized[e]
        BY <2>2, <1>8
      <3>1. seen[o] = active[e] /\ client[e] = o
        BY <2>2, <3>0 DEF IInv, HandlesOK, ActiveIsCurrent
      <3>2. o \in told <=> e \in on
        BY <3>1, <2>2, <1>10, <1>11
      <3>3. seen'[o] = (seen[o] \/ o \in told) /\ active'[e] = (active[e] \/ e \in on)
        BY <1>1
      <3> QED
        BY <3>1, <3>2, <3>3
    <2>3. DeviceAt(current') = DeviceAt(current)'
      BY <1>1 DEF DeviceAt
    <2> QED
      BY <2>1, <2>2, <2>3, <1>1 DEF ActiveIsCurrent
  <1> QED
    BY <1>12, <1>13, <1>14, <1>16, <1>17, <1>18 DEF IInv

(* The device is out of the table, the container's shared_ptr and those    *)
(* the close callback has given up are gone.                               *)
LEMMA CloseEndKeeps ==
    ASSUME IInv, CloseEnd
    PROVE  IInv'
  <1> DEFINE c == busy.for
             d == busy.device
             n == busy.number
             released == {"container"} \cup ({c} \cap (Joiner \cup Destroyer))
  <1>1. /\ busy.doing = "closing" /\ busy' = Idle
        /\ client' = [client EXCEPT ![d] = NoClient]
        /\ holders' = [holders EXCEPT ![d] = @ \ released]
        /\ handle' = [o \in Client |-> IF o = c /\ o \notin Signaller THEN None ELSE handle[o]]
        /\ worker' = [o \in Client |-> IF o = c /\ o \in Joiner THEN "off" ELSE worker[o]]
        /\ slots' = [slots EXCEPT ![n] = None]
        /\ UNCHANGED <<current, made, initialized, active, clientId, counter, id, call, stop,
                       heard, seen>>
    BY DEF CloseEnd
  <1>2. /\ d \in Device /\ n \in Number /\ slots[n] = d /\ ~initialized[d] /\ d # None
        /\ c = client[d] /\ c \in Client \cup {NoClient}
        /\ slots \in [Number -> Device \cup {None}]
    BY <1>1 DEF IInv, BusyOK, TypeOK
  <1>3. n \notin Listed
    BY DEF Listed
  <1> HIDE DEF c, d, n
  <1>4. /\ \A m \in Number : slots'[m] = IF m = n THEN None ELSE slots[m]
        /\ \A e \in Device : client'[e] = IF e = d THEN NoClient ELSE client[e]
        /\ \A e \in Device : holders'[e] = IF e = d THEN holders[d] \ released ELSE holders[e]
    BY <1>1, <1>2 DEF IInv, TypeOK
  <1>5. Listed' = Listed
    BY <1>1, <1>2, <1>4, IdleFields, Constants DEF Listed, n
  <1>6. TypeOK'
    <2>1. holders' \in [Device -> SUBSET (Client \cup {"container", "lookup"})]
      BY <1>1 DEF IInv, TypeOK
    <2>2. handle' \in [Client -> Device \cup {None}]
      BY <1>1 DEF IInv, TypeOK
    <2>3. worker' \in [Client -> {"off", "ready", "calling", "queued", "lost", "ended"}]
      BY <1>1 DEF IInv, TypeOK
    <2>4. slots' \in [Number -> Device \cup {None}]
      BY <1>1, <1>2
    <2> QED
      BY <1>1, <2>1, <2>2, <2>3, <2>4, IdleFields DEF IInv, TypeOK
  <1>7. TableOK'
    <2>1. ASSUME NEW m \in Number, slots'[m] # None
          PROVE  slots'[m] <= made /\ "container" \in holders'[slots'[m]]
      <3>1. m # n /\ slots'[m] = slots[m] /\ slots[m] \in Device /\ slots[m] # None
        BY <2>1, <1>2, <1>4
      <3>2. slots[m] # d /\ slots[m] <= made /\ "container" \in holders[slots[m]]
        BY <3>1, <1>2 DEF IInv, TableOK
      <3> QED
        BY <3>1, <3>2, <1>4
    <2>2. \A l, m \in Number : slots'[l] = slots'[m] /\ slots'[l] # None => l = m
      BY <1>4 DEF IInv, TableOK
    <2>3. \A m \in Listed : m # n /\ m \in Number
      BY <1>3 DEF Listed
    <2> QED
      BY <2>1, <2>2, <2>3, <1>1, <1>4, <1>5 DEF IInv, TableOK
  <1>8. BusyOK'
    BY <1>1, IdleFields DEF BusyOK
  <1>9. HandlesOK'
    <2>1. ASSUME NEW o \in Client, NEW e \in Device, handle'[o] = e
          PROVE  /\ o \in holders'[e] /\ e <= made
                 /\ stop[o] => ~initialized[e]
                 /\ \/ client'[e] = o
                    \/ client'[e] = NoClient /\ ~initialized[e] /\ heard[o] = "close"
      <3>1. handle[o] = e /\ (o = c => o \in Signaller)
        BY <2>1, <1>1, Constants
      <3>2. o \notin released
        BY <3>1, Constants, LifecycleAssumption
      <3>3. /\ o \in holders[e] /\ e <= made
            /\ stop[o] => ~initialized[e]
            /\ \/ client[e] = o
               \/ client[e] = NoClient /\ ~initialized[e] /\ heard[o] = "close"
        BY <3>1 DEF IInv, HandlesOK
      <3>4. client[e] = o /\ e = d => heard[o] = "close"
        BY <1>2 DEF IInv, HandlesOK
      <3> QED
        BY <3>2, <3>3, <3>4, <1>2, <1>4
    <2>2. ASSUME NEW o \in Client, NEW e \in Device, client'[e] = o
          PROVE  /\ e <= made /\ clientId[e] = id[o] /\ id[o] # NoId
                 /\ handle'[o] = e
                 /\ initialized[e] /\ heard[o] \in {"start", "change"}
      <3>1. e # d /\ client[e] = o
        BY <2>2, <1>4, Constants
      <3>2. /\ e <= made /\ clientId[e] = id[o] /\ id[o] # NoId
            /\ handle[o] = e
            /\ initialized[e] /\ heard[o] \in {"start", "change"}
        BY <3>1 DEF IInv, HandlesOK, d
      <3>3. o # c
        BY <3>1, <1>2, Constants DEF IInv, HandlesOK
      <3> QED
        BY <3>2, <3>3, <1>1
    <2>3. \A e, g \in Device : client'[e] = client'[g] /\ client'[e] # NoClient => e = g
      BY <1>4 DEF IInv, HandlesOK
    <2> QED
      BY <2>1, <2>2, <2>3, <1>1 DEF HandlesOK
  <1>10. CallsOK'
    <2>1. ASSUME NEW o \in Client, worker'[o] \in {"calling", "queued"}
          PROVE  worker[o] = worker'[o] /\ (o \notin Destroyer => handle'[o] = handle[o])
      BY <2>1, <1>1 DEF Client
    <2> QED
      BY <2>1, <1>1 DEF IInv, CallsOK
  <1>11. IdsOK'
    BY <1>1 DEF IInv, IdsOK
  <1>12. ActiveIsCurrent'
    <2>1. DeviceAt(current)' = DeviceAt(current)
      BY <1>1, <1>2, <1>3, <1>4, Constants DEF DeviceAt, IInv, TableOK, Listed
    <2>2. \A o \in Client, e \in Device : handle'[o] = e => handle[o] = e
      BY <1>1, Constants
    <2> QED
      BY <2>1, <2>2, <1>1 DEF IInv, ActiveIsCurrent
  <1> QED
    BY <1>6, <1>7, <1>8, <1>9, <1>10, <1>11, <1>12 DEF IInv

LEMMA StutteringKeeps == IInv /\ UNCHANGED vars => IInv'
  <1> SUFFICES ASSUME IInv, UNCHANGED vars PROVE IInv'
    OBVIOUS
  <1> USE DEF vars, rTable, deviceVars, clientVars
  <1>1. TypeOK' /\ TableOK' /\ BusyOK' /\ HandlesOK'
    BY DEF IInv, TypeOK, TableOK, BusyOK, HandlesOK, Listed
  <1>2. IdsOK' /\ CallsOK' /\ ActiveIsCurrent'
    BY DEF IInv, IdsOK, CallsOK, ActiveIsCurrent, DeviceAt
  <1> QED
    BY <1>1, <1>2 DEF IInv

(* Every step of R and of the clients preserves the inductive invariant.   *)
THEOREM Invariance == Spec => []IInv
  <1>1. Init => IInv
    BY Initially
  <1>2. IInv /\ [Next]_vars => IInv'
    <2> SUFFICES ASSUME IInv, [Next]_vars PROVE IInv'
      OBVIOUS
    <2>1. ASSUME NEW n \in Number, OpenDevice(n) PROVE IInv'
      BY <2>1, OpenDeviceKeeps
    <2>2. ASSUME NEW n \in Number, Select(n) PROVE IInv'
      BY <2>2, SelectKeeps
    <2>3. ASSUME NEW n \in Number, CloseBegin(n) PROVE IInv'
      BY <2>3, CloseBeginKeeps
    <2>4. ASSUME NEW n \in Number, NEW c \in Client, AttachBegin(c, n) PROVE IInv'
      BY <2>4, AttachBeginKeeps
    <2>5. CASE AttachEnd
      BY <2>5, AttachEndKeeps
    <2>6. CASE CloseEnd
      BY <2>6, CloseEndKeeps
    <2>7. ASSUME NEW c \in Client, RegisterClientId(c) PROVE IInv'
      BY <2>7, RegisterKeeps
    <2>8. ASSUME NEW c \in Client, NEW method \in {"query", "render", "remove"},
                 CallBegin(c, method)
          PROVE  IInv'
      BY <2>8, CallBeginKeeps
    <2>9. ASSUME NEW c \in Client, Worker(c) PROVE IInv'
      BY <2>9, CallReadsKeeps, CallQueuesKeeps, WorkerStopsKeeps DEF Worker
    <2>10. ASSUME NEW c \in Client, RunTask(c) PROVE IInv'
      BY <2>10, RunTaskKeeps
    <2>11. CASE UNCHANGED vars
      BY <2>11, StutteringKeeps
    <2> QED
      BY <2>1, <2>2, <2>3, <2>4, <2>5, <2>6, <2>7, <2>8, <2>9, <2>10, <2>11 DEF Next
  <1> QED
    BY <1>1, <1>2, PTL DEF Spec

----------------------------------------------------------------------------
(* What follows from it.                                                   *)

(* R, callbacks and the calls of clients that keep their handle while in   *)
(* one never use a device that was freed.                                  *)
THEOREM LifetimeSafety == Spec => []UsesAlive
  <1>1. IInv => UsesAlive
    <2> SUFFICES ASSUME IInv PROVE UsesAlive
      OBVIOUS
    <2>1. \A n \in Number : slots[n] # None => "container" \in holders[slots[n]]
      BY DEF IInv, TableOK
    <2>2. ASSUME busy.device # None
          PROVE  Alive(busy.device)
      <3>1. CASE busy.doing = "attaching"
        <4>1. busy.device \in Device /\ initialized[busy.device]
          BY <2>2, <3>1 DEF IInv, BusyOK, TypeOK
        <4>2. PICK n \in Listed : slots[n] = busy.device
          BY <4>1 DEF IInv, TableOK
        <4> QED
          BY <2>1, <4>2 DEF Alive, Listed
      <3>2. CASE busy.doing = "closing"
        <4>1. busy.number \in Number /\ slots[busy.number] = busy.device
          BY <3>2 DEF IInv, BusyOK, TypeOK
        <4> QED
          BY <2>1, <2>2, <4>1 DEF Alive
      <3>3. busy.doing # "idle"
        BY <2>2, IdleFields DEF IInv, BusyOK
      <3>4. busy.doing \in {"idle", "attaching", "closing"}
        BY DEF IInv, TypeOK
      <3> QED
        BY <3>1, <3>2, <3>3, <3>4
    <2>3. ASSUME NEW c \in Signaller \cup Joiner, worker[c] \in {"calling", "queued"}
          PROVE  Alive(call[c].device)
      <3>1. c \in Client /\ c \notin Destroyer
        BY LifecycleAssumption DEF Client
      <3>2. handle[c] = call[c].device /\ call[c].device \in Device
        BY <2>3, <3>1 DEF IInv, CallsOK, TypeOK
      <3>3. c \in holders[call[c].device]
        BY <3>1, <3>2 DEF IInv, HandlesOK
      <3> QED
        BY <3>3 DEF Alive
    <2> QED
      BY <2>1, <2>2, <2>3 DEF UsesAlive
  <1> QED
    BY <1>1, Invariance, PTL

(* A client and its device agree about being attached.                     *)
THEOREM AttachmentSafety == Spec => []CallbacksAgree
  <1>1. IInv => CallbacksAgree
    <2> SUFFICES ASSUME IInv, busy = Idle, NEW c \in Client, NEW d \in Device
                 PROVE  /\ handle[c] = d =>
                             IF initialized[d]
                             THEN client[d] = c /\ heard[c] \in {"start", "change"}
                             ELSE client[d] = NoClient /\ heard[c] = "close"
                        /\ client[d] = c => handle[c] = d
      BY DEF CallbacksAgree
    <2>1. busy.doing = "idle" /\ busy.device # d
      BY IdleFields, Constants
    <2>2. client[d] = c => handle[c] = d /\ initialized[d] /\ heard[c] \in {"start", "change"}
      BY <2>1 DEF IInv, HandlesOK
    <2>3. handle[c] = d =>
             client[d] = c \/ (client[d] = NoClient /\ ~initialized[d] /\ heard[c] = "close")
      BY DEF IInv, HandlesOK
    <2> QED
      BY <2>2, <2>3
  <1> QED
    BY <1>1, Invariance, PTL

(* A package gets its own client, and none once that client is gone.       *)
THEOREM OwnClient == Spec => []GetOwn
  <1>1. IInv => GetOwn
    <2> SUFFICES ASSUME IInv, busy = Idle, NEW n \in Listed, NEW c \in Client, id[c] # NoId
                 PROVE  GetClient(slots[n], id[c]) =
                          IF handle[c] = slots[n] THEN c ELSE NoClient
      BY DEF GetOwn
    <2> DEFINE d == slots[n]
    <2>1. d \in Device /\ initialized[d] /\ client[d] \in Client \cup {NoClient}
      BY DEF IInv, TypeOK, TableOK, Listed
    <2> HIDE DEF d
    <2>2. busy.doing = "idle" /\ busy.device # d
      BY <2>1, IdleFields, Constants
    <2>3. \A o \in Client : client[d] = o => clientId[d] = id[o] /\ handle[o] = d
      BY <2>1, <2>2 DEF IInv, HandlesOK
    <2>4. handle[c] = d => client[d] = c
      BY <2>1 DEF IInv, HandlesOK
    <2>5. \A o \in Client : id[c] = id[o] => o = c
      BY DEF IInv, IdsOK
    <2>6. GetClient(d, id[c]) = IF handle[c] = d THEN c ELSE NoClient
      BY <2>1, <2>3, <2>4, <2>5 DEF GetClient
    <2> QED
      BY <2>6 DEF d
  <1> QED
    BY <1>1, Invariance, PTL

(* The flag of every open device says whether it is the current one, and   *)
(* its client knows.                                                       *)
THEOREM ActiveSafety == Spec => []ActiveIsCurrent
  BY Invariance, PTL DEF IInv
=============================================================================
