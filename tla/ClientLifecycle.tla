-------------------------- MODULE ClientLifecycle --------------------------
(***************************************************************************)
(* Devices, the clients attached to them and what keeps a device alive:    *)
(* generic_dev::create, close and from_device_number (generic_dev.h), the  *)
(* client side of unigd_device (unigd_dev.cpp) and the part of the C API   *)
(* that attaches, finds and releases (unigd_external.cpp).                 *)
(*                                                                         *)
(* R keeps the open devices in a table of numbered slots, one of them the  *)
(* current device, and calls the activate, deactivate and close callbacks  *)
(* as it opens, selects and closes devices; the table is R's own and       *)
(* external.  A device is a shared_ptr held by the container in its slot,  *)
(* by the handles of clients and by calls that look it up by its number.   *)
(* The R thread does one thing after the other, but attaching and closing  *)
(* run callbacks of the client while the client's thread is at work.       *)
(*                                                                         *)
(* What a client does in its close callback decides what may go wrong, so  *)
(* there are clients of three kinds: a Signaller tells its thread to stop  *)
(* and lets it destroy the handle, a Joiner waits for its thread to end    *)
(* and then destroys the handle, a Destroyer destroys the handle at once.  *)
(***************************************************************************)
EXTENDS Integers

CONSTANTS Signaller, Joiner, Destroyer,  \* clients, by what they do on close
          MaxNumber,    \* device numbers, R_MaxDevices - 1 in R
          MaxDevices    \* bound: devices opened in a behaviour

Client == Signaller \cup Joiner \cup Destroyer

ASSUME LifecycleAssumption ==
    /\ Signaller \cap Joiner = {} /\ Signaller \cap Destroyer = {} /\ Joiner \cap Destroyer = {}
    /\ {"nobody", "container", "lookup"} \cap Client = {}
    /\ MaxNumber \in Nat \ {0}
    /\ MaxDevices \in Nat

Device == 1..MaxDevices
Number == 1..MaxNumber

None == 0               \* no device, and the number of the null device
NoId == -1
NoClient == "nobody"

VARIABLES
    slots,        \* R_Devices: slots[n] is the device with number n, or None
    current,      \* R_CurrentDevice: a number, or None for the null device
    made,         \* how many devices were created
    holders,      \* holders[d]: who has a shared_ptr to device d
    initialized,  \* m_initialized
    active,       \* the store's device_active
    client,       \* m_client, with m_client_data
    clientId,     \* m_client_id
    counter,      \* client_id_counter of api_register_client_id
    id,           \* id[c]: the client id that c registered, NoId before
    handle,       \* handle[c]: the device of c's handle, or None
    worker,       \* worker[c]: where c's thread is
    call,         \* call[c]: the call it is in, or was in last, on which device
    stop,         \* stop[c]: c's thread has been told to stop
    heard,        \* history: the last callback of c for the device it is attached to
    seen,         \* history: whether the device was active when c last looked
    busy          \* the R thread: Idle, or attaching or closing

rTable == <<slots, current, made>>
deviceVars == <<holders, initialized, active, client, clientId>>
clientVars == <<counter, id, handle, worker, call, stop, heard, seen>>
vars == <<rTable, deviceVars, clientVars, busy>>

NoCall == [method |-> "none", device |-> None, result |-> "none"]
Idle == [doing |-> "idle", device |-> None, number |-> None, for |-> NoClient]

Init ==
    /\ slots = [n \in Number |-> None]
    /\ current = None
    /\ made = 0
    /\ holders = [d \in Device |-> {}]
    /\ initialized = [d \in Device |-> FALSE]
    /\ active = [d \in Device |-> FALSE]
    /\ client = [d \in Device |-> NoClient]
    /\ clientId = [d \in Device |-> NoId]
    /\ counter = 0
    /\ id = [c \in Client |-> NoId]
    /\ handle = [c \in Client |-> None]
    /\ worker = [c \in Client |-> "off"]
    /\ call = [c \in Client |-> NoCall]
    /\ stop = [c \in Client |-> FALSE]
    /\ heard = [c \in Client |-> "nothing"]
    /\ seen = [c \in Client |-> FALSE]
    /\ busy = Idle

----------------------------------------------------------------------------
(* R's table of devices.                                                   *)

Listed == {n \in Number : slots[n] # None /\ n # busy.number}
DeviceAt(n) == IF n = None THEN {} ELSE {slots[n]}

(* The current number once number n is closed: R takes another one, if     *)
(* there is one, for the current device.                                   *)
CurrentAfter(n) ==
    IF n # current THEN {current}
    ELSE IF Listed = {n} THEN {None} ELSE Listed \ {n}

(* Mutant of the next definition: a device that is deactivated does not    *)
(* tell its client.                                                        *)
SwitchActive_Silent(off, on) ==
    LET set == {d \in on \cup off : initialized'[d]}
        told == {c \in Client : \E d \in on \cap set : client[d] = c} IN
    /\ active' = [d \in Device |-> IF d \in set THEN d \in on ELSE active[d]]
    /\ heard' = [c \in Client |-> IF c \in told THEN "change" ELSE heard[c]]
    /\ seen' = [c \in Client |-> IF c \in told THEN TRUE ELSE seen[c]]

(* dev_deactivate of the devices in off, then dev_activate of those in on: *)
(* closed devices ignore both, the others set the store's flag and then    *)
(* tell their client, which looks at it.                                   *)
SwitchActive(off, on) ==
    LET set == {d \in on \cup off : initialized'[d]}
        told == {c \in Client : \E d \in set : client[d] = c} IN
    /\ active' = [d \in Device |-> IF d \in set THEN d \in on ELSE active[d]]
    /\ heard' = [c \in Client |-> IF c \in told THEN "change" ELSE heard[c]]
    /\ seen' = [c \in Client |->
         IF c \in told THEN \E d \in on \cap set : client[d] = c ELSE seen[c]]

(* unigd_ugd_, generic_dev::create: the device takes the first number that *)
(* is free and becomes the current one.                                    *)
OpenDevice(n) ==
    /\ busy = Idle
    /\ made < MaxDevices
    /\ slots[n] = None /\ \A m \in Number : m < n => slots[m] # None
    /\ made' = made + 1
    /\ slots' = [slots EXCEPT ![n] = made']
    /\ current' = n
    /\ holders' = [holders EXCEPT ![made'] = {"container"}]
    /\ initialized' = [initialized EXCEPT ![made'] = TRUE]
    /\ SwitchActive(DeviceAt(current), {made'})
    /\ UNCHANGED <<client, clientId, counter, id, handle, worker, call, stop, busy>>

(* dev.set *)
Select(n) ==
    /\ busy = Idle
    /\ n \in Listed
    /\ current' = n
    /\ UNCHANGED <<slots, made, holders, initialized, client, clientId, counter, id, handle,
                   worker, call, stop, busy>>
    /\ SwitchActive(DeviceAt(current), DeviceAt(n))

----------------------------------------------------------------------------
(* Clients, on the R thread.                                               *)

(* Mutant of the next definition: one more than the counter, which stays.  *)
RegisterClientId_Same(c) ==
    /\ busy = Idle
    /\ id[c] = NoId
    /\ id' = [id EXCEPT ![c] = counter + 1]
    /\ UNCHANGED <<rTable, deviceVars, counter, handle, worker, call, stop, heard, seen, busy>>

(* api_register_client_id, called as a package is loaded.                  *)
RegisterClientId(c) ==
    /\ busy = Idle
    /\ id[c] = NoId
    /\ id' = [id EXCEPT ![c] = counter]
    /\ counter' = counter + 1
    /\ UNCHANGED <<rTable, deviceVars, handle, worker, call, stop, heard, seen, busy>>

(* Mutant of the next definition: a second client takes the place of the   *)
(* first.                                                                  *)
CanAttach_Always(d) == TRUE

(* attach_client refuses a second client.                                  *)
CanAttach(d) == client[d] = NoClient

(* api_device_attach up to the start callback, which launches the client's *)
(* thread; that waits for the handle.                                      *)
AttachBegin(c, n) ==
    /\ busy = Idle
    /\ n \in Listed
    /\ id[c] # NoId /\ handle[c] = None /\ worker[c] = "off"
    /\ LET d == slots[n] IN
         /\ CanAttach(d)
         /\ holders' = [holders EXCEPT ![d] = @ \cup {"lookup"}]
         /\ client' = [client EXCEPT ![d] = c]
         /\ clientId' = [clientId EXCEPT ![d] = id[c]]
         /\ busy' = [doing |-> "attaching", device |-> d, number |-> None, for |-> c]
    /\ heard' = [heard EXCEPT ![c] = "start"]
    /\ worker' = [worker EXCEPT ![c] = "ready"]
    /\ stop' = [stop EXCEPT ![c] = FALSE]
    /\ UNCHANGED <<rTable, initialized, active, counter, id, handle, call, seen>>

(* Mutant of the next definition: the handle is a plain pointer.           *)
AttachEnd_Pointer ==
    /\ busy.doing = "attaching"
    /\ LET c == busy.for
           d == busy.device IN
         /\ holders' = [holders EXCEPT ![d] = @ \ {"lookup"}]
         /\ handle' = [handle EXCEPT ![c] = d]
         /\ seen' = [seen EXCEPT ![c] = active[d]]
    /\ busy' = Idle
    /\ UNCHANGED <<rTable, initialized, active, client, clientId, counter, id, worker, call,
                   stop, heard>>

(* The rest of api_device_attach: the client has its handle and looks.     *)
AttachEnd ==
    /\ busy.doing = "attaching"
    /\ LET c == busy.for
           d == busy.device IN
         /\ holders' = [holders EXCEPT ![d] = (@ \ {"lookup"}) \cup {c}]
         /\ handle' = [handle EXCEPT ![c] = d]
         /\ seen' = [seen EXCEPT ![c] = active[d]]
    /\ busy' = Idle
    /\ UNCHANGED <<rTable, initialized, active, client, clientId, counter, id, worker, call,
                   stop, heard>>

(* dev.off of the device with number n: another device becomes the current *)
(* one, then dev_close runs the client's close callback.                   *)
CloseBegin(n) ==
    /\ busy = Idle
    /\ n \in Listed
    /\ LET d == slots[n]
           c == client[d] IN
         /\ \E next \in CurrentAfter(n) :
              LET on == DeviceAt(next) \ DeviceAt(current)
                  told == {o \in Client : \E e \in on : client[e] = o} IN
                /\ current' = next
                /\ active' = [e \in Device |-> active[e] \/ e \in on]
                /\ seen' = [o \in Client |-> seen[o] \/ o \in told]
                /\ heard' = [o \in Client |->
                     IF o = c THEN "close" ELSE IF o \in told THEN "change" ELSE heard[o]]
         /\ initialized' = [initialized EXCEPT ![d] = FALSE]
         /\ stop' = [o \in Client |-> stop[o] \/ o = c]
         /\ busy' = [doing |-> "closing", device |-> d, number |-> n, for |-> c]
    /\ UNCHANGED <<slots, made, holders, client, clientId, counter, id, handle, worker, call>>

(* Mutant of the next definition: the container is not deleted.            *)
CloseEnd_KeepContainer ==
    /\ busy.doing = "closing"
    /\ busy.for \in Joiner => worker[busy.for] = "ended"
    /\ LET c == busy.for
           d == busy.device IN
         /\ client' = [client EXCEPT ![d] = NoClient]
         /\ holders' = [holders EXCEPT ![d] = @ \ ({c} \cap (Joiner \cup Destroyer))]
         /\ handle' = [o \in Client |-> IF o = c /\ o \notin Signaller THEN None ELSE handle[o]]
         /\ worker' = [o \in Client |-> IF o = c /\ o \in Joiner THEN "off" ELSE worker[o]]
         /\ slots' = [slots EXCEPT ![busy.number] = None]
    /\ busy' = Idle
    /\ UNCHANGED <<current, made, initialized, active, clientId, counter, id, call, stop,
                   heard, seen>>

(* The close callback returns, the container is deleted, the number is     *)
(* free again.                                                             *)
CloseEnd ==
    /\ busy.doing = "closing"
    /\ busy.for \in Joiner => worker[busy.for] = "ended"
    /\ LET c == busy.for
           d == busy.device
           released == {"container"} \cup ({c} \cap (Joiner \cup Destroyer)) IN
         /\ client' = [client EXCEPT ![d] = NoClient]
         /\ holders' = [holders EXCEPT ![d] = @ \ released]
         /\ handle' = [o \in Client |-> IF o = c /\ o \notin Signaller THEN None ELSE handle[o]]
         /\ worker' = [o \in Client |-> IF o = c /\ o \in Joiner THEN "off" ELSE worker[o]]
         /\ slots' = [slots EXCEPT ![busy.number] = None]
    /\ busy' = Idle
    /\ UNCHANGED <<current, made, initialized, active, clientId, counter, id, call, stop,
                   heard, seen>>

----------------------------------------------------------------------------
(* Clients, on their own threads.  A call on a device that is gone has no  *)
(* defined outcome: it takes no further step.                              *)

Alive(d) == holders[d] # {}

CallBegin(c, method) ==
    /\ worker[c] = "ready"
    /\ handle[c] # None /\ ~stop[c]
    /\ worker' = [worker EXCEPT ![c] = "calling"]
    /\ call' = [call EXCEPT ![c] = [method |-> method, device |-> handle[c], result |-> "none"]]
    /\ UNCHANGED <<rTable, deviceVars, counter, id, handle, stop, heard, seen, busy>>

Return(c, result) ==
    /\ worker' = [worker EXCEPT ![c] = IF result = "lost" THEN "lost" ELSE "ready"]
    /\ call' = [call EXCEPT ![c].result = result]

(* plt_query, plt_state, and api_render of a page that has the size.       *)
CallReads(c) ==
    /\ worker[c] = "calling"
    /\ Alive(call[c].device)
    /\ call[c].method \in {"query", "render"}
    /\ Return(c, "ok")
    /\ UNCHANGED <<rTable, deviceVars, counter, id, handle, stop, heard, seen, busy>>

(* api_render and api_remove hand a task to the R thread.                  *)
CallQueues(c) ==
    /\ worker[c] = "calling"
    /\ Alive(call[c].device)
    /\ call[c].method \in {"render", "remove"}
    /\ worker' = [worker EXCEPT ![c] = "queued"]
    /\ UNCHANGED <<rTable, deviceVars, counter, id, handle, call, stop, heard, seen, busy>>

(* How a task ends.  It may be lost: an R error of the history, asked for  *)
(* the index -1, unwinds the task and its future is never set.  That is    *)
(* what happens to a rendering once a removal came too late (module        *)
(* AsyncApi) or the device is closed and another one is the current one,   *)
(* and to a removal of no plot while such a history has plots left; that   *)
(* of a closed device has none.  And an exception, of get_active_pDevDesc  *)
(* when R has no device or of par() for the margins: api_remove catches    *)
(* it, the caller of api_render gets it.                                   *)
Outcomes(method, d) ==
    IF method = "render" THEN {"ok", "threw", "lost"}
    ELSE IF initialized[d] THEN {"ok", "lost"} ELSE {"ok"}

(* The R thread runs the task of c.  A removal, and a rendering that has   *)
(* to replay, tells the device's client.                                   *)
RunTask(c) ==
    /\ busy = Idle
    /\ worker[c] = "queued"
    /\ LET d == call[c].device IN
         /\ Alive(d)
         /\ \E result \in Outcomes(call[c].method, d) : Return(c, result)
         /\ \/ /\ client[d] = NoClient \/ call[c].method = "render"
               /\ UNCHANGED <<heard, seen>>
            \/ /\ client[d] # NoClient
               /\ heard' = [heard EXCEPT ![client[d]] = "change"]
               /\ seen' = [seen EXCEPT ![client[d]] = active[d]]
    /\ UNCHANGED <<rTable, deviceVars, counter, id, handle, stop, busy>>

(* The client's thread sees that it shall stop, and ends; that of a        *)
(* Signaller calls api_device_destroy.                                     *)
WorkerStops(c) ==
    /\ worker[c] = "ready" /\ stop[c]
    /\ worker' = [worker EXCEPT ![c] = IF c \in Joiner THEN "ended" ELSE "off"]
    /\ IF c \in Signaller
       THEN /\ holders' = [holders EXCEPT ![handle[c]] = @ \ {c}]
            /\ handle' = [handle EXCEPT ![c] = None]
       ELSE UNCHANGED <<holders, handle>>
    /\ UNCHANGED <<rTable, initialized, active, client, clientId, counter, id, call, stop,
                   heard, seen, busy>>

----------------------------------------------------------------------------
Worker(c) == CallReads(c) \/ CallQueues(c) \/ WorkerStops(c)

Next ==
    \/ \E n \in Number :
         \/ OpenDevice(n) \/ Select(n) \/ CloseBegin(n)
         \/ \E c \in Client : AttachBegin(c, n)
    \/ AttachEnd
    \/ CloseEnd
    \/ \E c \in Client :
         \/ RegisterClientId(c)
         \/ \E method \in {"query", "render", "remove"} : CallBegin(c, method)
         \/ Worker(c)
         \/ RunTask(c)

(* Threads that can run do, R leaves what it has begun, and its event loop *)
(* serves the queue of tasks (module RThread).                             *)
Fairness ==
    /\ WF_vars(AttachEnd) /\ WF_vars(CloseEnd)
    /\ \A c \in Client : WF_vars(Worker(c)) /\ SF_vars(RunTask(c))

Spec == Init /\ [][Next]_vars
FairSpec == Spec /\ Fairness

----------------------------------------------------------------------------
(* Properties *)

TypeOK ==
    /\ slots \in [Number -> Device \cup {None}] /\ current \in Number \cup {None}
    /\ made \in 0..MaxDevices
    /\ holders \in [Device -> SUBSET (Client \cup {"container", "lookup"})]
    /\ initialized \in [Device -> BOOLEAN] /\ active \in [Device -> BOOLEAN]
    /\ client \in [Device -> Client \cup {NoClient}]
    /\ counter \in Nat
    /\ clientId \in [Device -> NoId..counter] /\ id \in [Client -> NoId..counter]
    /\ handle \in [Client -> Device \cup {None}]
    /\ worker \in [Client -> {"off", "ready", "calling", "queued", "lost", "ended"}]
    /\ call \in [Client -> [method : {"none", "query", "render", "remove"},
                            device : Device \cup {None},
                            result : {"none", "ok", "threw", "lost"}]]
    /\ stop \in [Client -> BOOLEAN] /\ seen \in [Client -> BOOLEAN]
    /\ heard \in [Client -> {"nothing", "start", "change", "close"}]
    /\ busy \in [doing : {"idle", "attaching", "closing"}, device : Device \cup {None},
                 number : Number \cup {None}, for : Client \cup {NoClient}]

(* A client and its device agree about being attached: an open device that *)
(* a client has a handle of knows that client, which has heard of the      *)
(* start and not of the close; the client of a closed device has heard of  *)
(* the close, and nothing after it.                                        *)
CallbacksAgree ==
    busy = Idle =>
        \A c \in Client, d \in Device :
            /\ handle[c] = d =>
                 IF initialized[d]
                 THEN client[d] = c /\ heard[c] \in {"start", "change"}
                 ELSE client[d] = NoClient /\ heard[c] = "close"
            /\ client[d] = c => handle[c] = d

(* Nothing uses a device that is gone: neither R, for as long as the       *)
(* device is in its table, nor its callbacks, nor the calls of clients     *)
(* that keep their handle as long as they are in one.                      *)
UsesAlive ==
    /\ \A n \in Number : slots[n] # None => "container" \in holders[slots[n]]
    /\ busy.device # None => Alive(busy.device)
    /\ \A c \in Signaller \cup Joiner :
         worker[c] \in {"calling", "queued"} => Alive(call[c].device)

(* "Is the device the currently activated device" (R/unigd.R:80): the flag *)
(* of every open device says so, whatever is opened, selected and closed,  *)
(* and a client that looks when it is told knows.                          *)
ActiveIsCurrent ==
    \A d \in Device :
        initialized[d] =>
            /\ active[d] <=> d \in DeviceAt(current)
            /\ \A c \in Client : handle[c] = d => seen[c] = active[d]

(* get_client *)
GetClient(d, i) == IF clientId[d] = i THEN client[d] ELSE NoClient

(* api_device_get gives a package the data of its own client, and none as  *)
(* soon as that client is gone, although device numbers are used again.    *)
GetOwn ==
    busy = Idle =>
        \A n \in Listed, c \in Client :
            id[c] # NoId =>
                GetClient(slots[n], id[c]) = IF handle[c] = slots[n] THEN c ELSE NoClient

(* The inductive invariant behind these.  Open devices are in the table,   *)
(* each once and held by its container, and the current one is one of      *)
(* them.                                                                   *)
TableOK ==
    /\ \A n \in Number : slots[n] # None => slots[n] <= made /\ "container" \in holders[slots[n]]
    /\ \A m, n \in Number : slots[m] = slots[n] /\ slots[m] # None => m = n
    /\ \A n \in Listed : initialized[slots[n]]
    /\ \A d \in Device : initialized[d] => d <= made /\ \E n \in Listed : slots[n] = d
    /\ current \in Listed \cup {None}

(* What the R thread is in the middle of.                                  *)
BusyOK ==
    /\ busy.doing = "idle" => busy = Idle
    /\ busy.doing = "attaching" =>
         /\ busy.device # None /\ busy.number = None /\ initialized[busy.device]
         /\ busy.for # NoClient /\ client[busy.device] = busy.for /\ handle[busy.for] = None
         /\ ~stop[busy.for]
    /\ busy.doing = "closing" =>
         /\ busy.device # None /\ busy.number # None /\ slots[busy.number] = busy.device
         /\ ~initialized[busy.device] /\ busy.for = client[busy.device]

(* A client's handle holds the device; the client attached to a device has *)
(* a handle of it, or is just getting it.                                  *)
HandlesOK ==
    /\ \A c \in Client, d \in Device :
         handle[c] = d =>
             /\ c \in holders[d] /\ d <= made
             /\ stop[c] => ~initialized[d]
             /\ client[d] = c \/ (client[d] = NoClient /\ ~initialized[d] /\ heard[c] = "close")
    /\ \A d \in Device, c \in Client :
         client[d] = c =>
             /\ d <= made /\ clientId[d] = id[c] /\ id[c] # NoId
             /\ \/ handle[c] = d
                \/ busy.device = d /\ busy.for = c
             /\ IF initialized[d]
                THEN heard[c] \in {"start", "change"}
                ELSE heard[c] = "close" /\ busy.doing = "closing" /\ busy.device = d
    /\ \A d, e \in Device : client[d] = client[e] /\ client[d] # NoClient => d = e

IdsOK == \A c, e \in Client : id[c] < counter /\ (id[c] = id[e] /\ id[c] # NoId => c = e)

(* Calls are on a device that was opened, and, but for a Destroyer's, on   *)
(* that of the handle.                                                     *)
CallsOK ==
    \A c \in Client :
        /\ call[c].device <= made
        /\ worker[c] \in {"calling", "queued"} \/ call[c].result # "none" => call[c].device # None
        /\ worker[c] = "queued" => call[c].method \in {"render", "remove"}
        /\ worker[c] \in {"calling", "queued"} /\ c \notin Destroyer => handle[c] = call[c].device

IInv == TypeOK /\ TableOK /\ BusyOK /\ HandlesOK /\ IdsOK /\ CallsOK /\ ActiveIsCurrent

(* R waits for a thread that waits for R, or for an answer that is lost.   *)
JoinWaits ==
    busy.doing = "closing" /\ busy.for \in Joiner /\ worker[busy.for] \in {"queued", "lost"}

(* A closed device is freed, however long calls on it take, unless a       *)
(* client joins a thread that waits for R, or is never answered.           *)
Freed ==
    \A d \in Device :
        (d <= made /\ ~initialized[d]) ~>
            (~Alive(d) \/ JoinWaits \/ \E c \in Client : handle[c] = d /\ worker[c] = "lost")
=============================================================================
