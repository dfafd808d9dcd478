--------------------------- MODULE ServerLifecycle ---------------------------
(***************************************************************************)
(* Starting and stopping the native server: startNativeServer,             *)
(* stopNativeServer, run_server and the detached threads of each           *)
(* connection (usbip_server.cpp), as UsbServerService.kt calls them.       *)
(* onStartCommand runs them on an IO thread; restartServerAndNsd and       *)
(* onDestroy run them on the main thread.                                  *)
(*                                                                         *)
(* What a connection serves is UsbipSession's business: here its three     *)
(* threads count themselves, take and release the performance locks        *)
(* through the JNI reference g_service_obj, and end as their loops let     *)
(* them: a reaper outlives its connection while any URB of the process is  *)
(* in flight, so each connection has one that it submits, that the device  *)
(* may leave pending, and that is lost when Kotlin closes the descriptor.  *)
(* Each connection imports a device of its own; which descriptor a number  *)
(* stands for is DeviceFds' business.  The NSD callbacks are left out.     *)
(***************************************************************************)
EXTENDS Integers, FiniteSets

CONSTANTS
  Clients,    \* connections the clients may open
  Fds,        \* descriptor numbers a listening socket may get
  MaxStarts,  \* bound: how often bind and listen succeed
  Jobs,       \* the Kotlin entry points that are used
  Serial,     \* whether the two Kotlin threads never overlap
  Faults      \* what may go wrong with a connection

ASSUME BoundAssumption == MaxStarts \in Nat
ASSUME JobsAssumption == Jobs \subseteq {"onStartCommand", "restart", "onDestroy"}
ASSUME SerialAssumption == Serial \in BOOLEAN
ASSUME FaultsAssumption == Faults \subseteq {"send", "unplug", "close"}

Callers == {"io", "main"}
JobsOf(k) == Jobs \cap (IF k = "io" THEN {"onStartCommand"} ELSE {"restart", "onDestroy"})
Servers == 1..MaxStarts          \* one run_server thread and listening socket per start
None == 0
Kinds == {"client", "tx", "reaper"}
Threads == Clients \X Kinds

VARIABLES
  isNativeServerStarted, advertised,  \* Kotlin: the flag, the NSD registration
  cpc, job, snapshot,                 \* Kotlin threads: control point, entry point, clients
  g_socket_mutex,                     \* the caller holding it across steps
  g_server_socket, g_server_thread,   \* the current listening socket and thread handle
  g_service_obj,                      \* whether the global reference exists
  spc, accepted, starts,              \* run_server threads: control point, client, how many
  fdOf, fds, closes,                  \* descriptor numbers, what they refer to, close calls
  g_client_sockets, sock, shut, gone, \* the list; per client: socket, shutdown, peer left
  is_connected, wpc, held,            \* per connection the flag; per thread pc and reference
  g_active_workers,
  in_flight_urbs_count, urb,          \* the process-wide count; per connection its URB
  device,                             \* and the state of its usbfs descriptor
  missed                              \* clients the last snapshot of a stop left out

kotlinVars == <<isNativeServerStarted, advertised>>
callVars   == <<cpc, job, snapshot, g_socket_mutex>>
socketVars == <<g_server_socket, g_server_thread, starts, fdOf, fds, closes>>
serverVars == <<socketVars, spc, accepted>>
clientVars == <<g_client_sockets, sock, shut, gone, missed>>
urbVars    == <<in_flight_urbs_count, urb, device>>
workVars   == <<is_connected, wpc, held, g_active_workers, urbVars>>
mainVars   == <<kotlinVars, callVars, serverVars>>
connVars   == <<g_service_obj, clientVars, workVars>>
vars == <<mainVars, connVars>>

Init ==
  /\ isNativeServerStarted = FALSE
  /\ advertised = FALSE
  /\ cpc = [k \in Callers |-> "idle"]
  /\ job = [k \in Callers |-> "none"]
  /\ snapshot = [k \in Callers |-> {}]
  /\ g_socket_mutex = "free"
  /\ g_server_socket = None
  /\ g_server_thread = None
  /\ g_service_obj = FALSE
  /\ spc = [i \in Servers |-> "none"]
  /\ accepted = [i \in Servers |-> {}]
  /\ starts = 0
  /\ fdOf = [i \in Servers |-> CHOOSE n \in Fds : TRUE]
  /\ fds = [n \in Fds |-> None]
  /\ closes = [i \in Servers |-> 0]
  /\ g_client_sockets = {}
  /\ sock = [c \in Clients |-> "none"]
  /\ shut = [c \in Clients |-> FALSE]
  /\ gone = [c \in Clients |-> FALSE]
  /\ is_connected = [c \in Clients |-> FALSE]
  /\ wpc = [t \in Threads |-> "none"]
  /\ held = [t \in Threads |-> "none"]
  /\ g_active_workers = 0
  /\ in_flight_urbs_count = 0
  /\ urb = [c \in Clients |-> "none"]
  /\ device = [c \in Clients |-> "open"]
  /\ missed = {}

\* std::terminate ended the process: no thread takes another step.
Aborted == \E k \in Callers : cpc[k] = "aborted"

CallGoes(k, from, to) == cpc[k] = from /\ ~Aborted /\ cpc' = [cpc EXCEPT ![k] = to]
ServerGoes(i, from, to) == spc[i] = from /\ ~Aborted /\ spc' = [spc EXCEPT ![i] = to]
WorkGoes(t, from, to) == wpc[t] = from /\ ~Aborted /\ wpc' = [wpc EXCEPT ![t] = to]

\* close() of the descriptor of server i: by number, whatever it refers to now.
CloseSocket(i) ==
  /\ fds' = [fds EXCEPT ![fdOf[i]] = None]
  /\ closes' = [closes EXCEPT ![i] = @ + 1]

\* "if (g_server_socket >= 0) { shutdown; close; g_server_socket = -1; }"
CloseServerSocket ==
  /\ g_server_socket' = None
  /\ IF g_server_socket # None THEN CloseSocket(g_server_socket) ELSE UNCHANGED <<fds, closes>>

-----------------------------------------------------------------------------
(* The Kotlin entry points *)

Begin(k, j, to) ==
  /\ j \in JobsOf(k)
  /\ Serial => \A other \in Callers : cpc[other] = "idle"
  /\ job' = [job EXCEPT ![k] = j]
  /\ CallGoes(k, "idle", to)

\* The entry point returns.
Return(k, from) == CallGoes(k, from, "idle") /\ job' = [job EXCEPT ![k] = "none"]

\* The coroutine holds nativeServerMutex throughout, so there is one at a time.
OnStartCommand(k) ==
  /\ Begin(k, "onStartCommand", "start")
  /\ ~isNativeServerStarted
  /\ UNCHANGED <<kotlinVars, snapshot, g_socket_mutex, serverVars, connVars>>

Restart_StaysAdvertised(k) ==
  /\ Begin(k, "restart", "stop")
  /\ UNCHANGED <<kotlinVars, snapshot, g_socket_mutex, serverVars, connVars>>

Restart(k) ==
  /\ Begin(k, "restart", "stop")
  /\ advertised' = FALSE
  /\ UNCHANGED <<isNativeServerStarted, snapshot, g_socket_mutex, serverVars, connVars>>

OnDestroy(k) ==
  /\ Begin(k, "onDestroy", "stop")
  /\ UNCHANGED <<kotlinVars, snapshot, g_socket_mutex, serverVars, connVars>>

\* startNativeServer returned; onStartCommand sets the flag only on success.
Started(k) ==
  /\ \/ /\ CallGoes(k, "started", "register")
        /\ isNativeServerStarted' = TRUE
        /\ UNCHANGED job
     \/ /\ Return(k, "failed")
        /\ isNativeServerStarted' = (job[k] = "onStartCommand" /\ isNativeServerStarted)
  /\ UNCHANGED <<advertised, snapshot, g_socket_mutex, serverVars, connVars>>

Register(k) ==
  /\ Return(k, "register")
  /\ advertised' = TRUE
  /\ UNCHANGED <<isNativeServerStarted, snapshot, g_socket_mutex, serverVars, connVars>>

\* stopNativeServer returned.  After onDestroy a new service instance may start,
\* in the same process.
Stopped(k) ==
  /\ \/ job[k] = "restart" /\ CallGoes(k, "stopped", "start") /\ UNCHANGED <<kotlinVars, job>>
     \/ /\ job[k] = "onDestroy"
        /\ Return(k, "stopped")
        /\ advertised' = FALSE
        /\ isNativeServerStarted' = FALSE
  /\ UNCHANGED <<snapshot, g_socket_mutex, serverVars, connVars>>

-----------------------------------------------------------------------------
(* startNativeServer *)

\* What the threads hold once the current global reference is deleted.
Stale == [t \in Threads |-> IF held[t] = "live" THEN "deleted" ELSE held[t]]

\* The reference is replaced before g_socket_mutex is taken.
NewServiceObj(k) ==
  /\ CallGoes(k, "start", "start_lock")
  /\ g_service_obj' = TRUE
  /\ held' = Stale
  /\ UNCHANGED <<kotlinVars, job, snapshot, g_socket_mutex, serverVars, clientVars,
                 is_connected, wpc, g_active_workers, urbVars>>

StartLock(k) ==
  /\ CallGoes(k, "start_lock", "start_join")
  /\ g_socket_mutex = "free"
  /\ g_socket_mutex' = k
  /\ CloseServerSocket
  /\ UNCHANGED <<kotlinVars, job, snapshot, g_server_thread, spc, accepted, starts, fdOf,
                 connVars>>

\* "if (g_server_thread.joinable()) g_server_thread.join()" by caller k.  If the
\* other caller is joining the same thread, the later of the two joins throws.
Join(k, from, to) ==
  \/ g_server_thread = None /\ CallGoes(k, from, to) /\ UNCHANGED g_server_thread
  \/ /\ g_server_thread # None
     /\ spc[g_server_thread] = "done"
     /\ CallGoes(k, from, to)
     /\ g_server_thread' = None
  \/ /\ g_server_thread # None
     /\ \E other \in Callers \ {k} : cpc[other] \in {"start_join", "stop_join"}
     /\ CallGoes(k, from, "aborted")
     /\ UNCHANGED g_server_thread

StartJoin_Skipped(k) ==
  /\ CallGoes(k, "start_join", "bind")
  /\ UNCHANGED <<kotlinVars, job, snapshot, g_socket_mutex, serverVars, connVars>>

StartJoin(k) ==
  /\ Join(k, "start_join", "bind")
  /\ UNCHANGED <<kotlinVars, job, snapshot, g_socket_mutex, g_server_socket, spc, accepted,
                 starts, fdOf, fds, closes, connVars>>

\* prepare_server_socket and the new thread, still under g_socket_mutex.
Bind(k) ==
  LET i == starts + 1 IN
  /\ CallGoes(k, "bind", "started")
  /\ starts < MaxStarts
  /\ starts' = i
  /\ \E n \in Fds :
       /\ fds[n] = None
       /\ fds' = [fds EXCEPT ![n] = i]
       /\ fdOf' = [fdOf EXCEPT ![i] = n]
  /\ g_server_socket' = i
  /\ g_server_thread' = i
  /\ spc' = [spc EXCEPT ![i] = "accept"]
  /\ g_socket_mutex' = "free"
  /\ UNCHANGED <<kotlinVars, job, snapshot, accepted, closes, connVars>>

BindFails(k) ==
  /\ CallGoes(k, "bind", "failed")
  /\ g_socket_mutex' = "free"
  /\ UNCHANGED <<kotlinVars, job, snapshot, serverVars, connVars>>

-----------------------------------------------------------------------------
(* stopNativeServer *)

StopClose(k) ==
  /\ CallGoes(k, "stop", "stop_snapshot")
  /\ g_socket_mutex = "free"
  /\ CloseServerSocket
  /\ UNCHANGED <<kotlinVars, job, snapshot, g_socket_mutex, g_server_thread, spc, accepted,
                 starts, fdOf, connVars>>

StopSnapshot(k) ==
  /\ CallGoes(k, "stop_snapshot", "stop_shutdown")
  /\ snapshot' = [snapshot EXCEPT ![k] = g_client_sockets]
  /\ missed' = {c \in Clients : sock[c] = "open" /\ c \notin g_client_sockets}
  /\ UNCHANGED <<kotlinVars, job, g_socket_mutex, serverVars, g_service_obj, g_client_sockets,
                 sock, shut, gone, workVars>>

StopShutdown_Omitted(k) ==
  /\ CallGoes(k, "stop_shutdown", "stop_join")
  /\ snapshot' = [snapshot EXCEPT ![k] = {}]
  /\ UNCHANGED <<kotlinVars, job, g_socket_mutex, serverVars, g_service_obj, clientVars,
                 workVars>>

\* shutdown() of every client of the snapshot that is still open.
StopShutdown(k) ==
  /\ CallGoes(k, "stop_shutdown", "stop_join")
  /\ shut' = [c \in Clients |-> shut[c] \/ (c \in snapshot[k] /\ sock[c] = "open")]
  /\ snapshot' = [snapshot EXCEPT ![k] = {}]
  /\ UNCHANGED <<kotlinVars, job, g_socket_mutex, serverVars, g_service_obj, g_client_sockets,
                 sock, gone, missed, workVars>>

StopJoin(k) ==
  /\ Join(k, "stop_join", "stop_wait")
  /\ UNCHANGED <<kotlinVars, job, snapshot, g_socket_mutex, g_server_socket, spc, accepted,
                 starts, fdOf, fds, closes, connVars>>

StopWait_NoWait(k) ==
  /\ CallGoes(k, "stop_wait", "stop_delete")
  /\ UNCHANGED <<kotlinVars, job, snapshot, g_socket_mutex, serverVars, connVars>>

\* g_active_workers is read; the reference is deleted in a later step.
StopWait(k) ==
  /\ CallGoes(k, "stop_wait", "stop_delete")
  /\ g_active_workers <= 0
  /\ UNCHANGED <<kotlinVars, job, snapshot, g_socket_mutex, serverVars, connVars>>

StopDelete(k) ==
  /\ CallGoes(k, "stop_delete", "stopped")
  /\ g_service_obj' = FALSE
  /\ held' = Stale
  /\ UNCHANGED <<kotlinVars, job, snapshot, g_socket_mutex, serverVars, clientVars,
                 is_connected, wpc, g_active_workers, urbVars>>

-----------------------------------------------------------------------------
(* run_server *)

Listening(i) == fds[fdOf[i]] # None

Accept(i, c) ==
  /\ ServerGoes(i, "accept", "accepted")
  /\ Listening(i)
  /\ sock[c] = "none"
  /\ sock' = [sock EXCEPT ![c] = "open"]
  /\ accepted' = [accepted EXCEPT ![i] = {c}]
  /\ UNCHANGED <<kotlinVars, callVars, socketVars, g_service_obj, g_client_sockets, shut, gone,
                 missed, workVars>>

\* The client came in on another interface than the advertised one: closed.
RejectInterface(i) ==
  /\ ServerGoes(i, "accepted", "accept")
  /\ sock' = [c \in Clients |-> IF c \in accepted[i] THEN "closed" ELSE sock[c]]
  /\ accepted' = [accepted EXCEPT ![i] = {}]
  /\ UNCHANGED <<kotlinVars, callVars, socketVars, g_service_obj, g_client_sockets, shut, gone,
                 missed, workVars>>

ListClient(i) ==
  /\ ServerGoes(i, "accepted", "spawn")
  /\ g_client_sockets' = g_client_sockets \cup accepted[i]
  /\ UNCHANGED <<kotlinVars, callVars, socketVars, accepted, g_service_obj, sock, shut, gone,
                 missed, workVars>>

SpawnWorker(i) ==
  /\ ServerGoes(i, "spawn", "accept")
  /\ wpc' = [t \in Threads |-> IF t \in accepted[i] \X {"client"} THEN "spawned" ELSE wpc[t]]
  /\ accepted' = [accepted EXCEPT ![i] = {}]
  /\ UNCHANGED <<kotlinVars, callVars, socketVars, g_service_obj, clientVars, is_connected,
                 held, g_active_workers, urbVars>>

\* accept fails because the socket was closed, or for a reason that passes.
AcceptFails(i) ==
  /\ ServerGoes(i, "accept", "retest")
  /\ UNCHANGED <<kotlinVars, callVars, socketVars, accepted, connVars>>

Retest(i) ==
  /\ g_socket_mutex = "free"
  /\ \/ g_server_socket = None /\ ServerGoes(i, "retest", "exit")
     \/ g_server_socket # None /\ ServerGoes(i, "retest", "accept")
  /\ UNCHANGED <<kotlinVars, callVars, socketVars, accepted, connVars>>

ExitServer_Unguarded(i) ==
  /\ ServerGoes(i, "exit", "done")
  /\ g_socket_mutex = "free"
  /\ g_server_socket' = None
  /\ CloseSocket(i)
  /\ UNCHANGED <<kotlinVars, callVars, g_server_thread, accepted, starts, fdOf, connVars>>

\* The socket is closed only if g_server_socket still is this descriptor number.
ExitServer(i) ==
  /\ ServerGoes(i, "exit", "done")
  /\ g_socket_mutex = "free"
  /\ IF \E j \in Servers \cap {g_server_socket} : fdOf[j] = fdOf[i]
     THEN g_server_socket' = None /\ CloseSocket(i)
     ELSE UNCHANGED <<g_server_socket, fds, closes>>
  /\ UNCHANGED <<kotlinVars, callVars, g_server_thread, accepted, starts, fdOf, connVars>>

-----------------------------------------------------------------------------
(* The detached threads of a connection *)

\* Every thread counts itself, as its own first statement.
Count(t) ==
  /\ WorkGoes(t, "spawned", "acquire")
  /\ g_active_workers' = g_active_workers + 1
  /\ UNCHANGED <<mainVars, g_service_obj, clientVars, is_connected, held, urbVars>>

\* notify_performance_locks reads g_service_obj, then calls through it.
AfterNotify(t, from) ==
  IF from = "acquire" THEN "run" ELSE IF t[2] = "client" THEN "close" ELSE "uncount"

NotifyRead(t, from, calling) ==
  /\ \/ g_service_obj /\ WorkGoes(t, from, calling) /\ held' = [held EXCEPT ![t] = "live"]
     \/ ~g_service_obj /\ WorkGoes(t, from, AfterNotify(t, from)) /\ UNCHANGED held
  /\ UNCHANGED <<mainVars, g_service_obj, clientVars, is_connected, g_active_workers,
                 urbVars>>

NotifyCall(t, from, calling) ==
  /\ WorkGoes(t, calling, AfterNotify(t, from))
  /\ held' = [held EXCEPT ![t] = "none"]
  /\ UNCHANGED <<mainVars, g_service_obj, clientVars, is_connected, g_active_workers,
                 urbVars>>

Notify(t) ==
  \/ NotifyRead(t, "acquire", "acquiring") \/ NotifyCall(t, "acquire", "acquiring")
  \/ NotifyRead(t, "release", "releasing") \/ NotifyCall(t, "release", "releasing")

\* handle_client: step from one point to the next, spawning the threads T.
ClientStep(c, from, to, T) ==
  /\ ~Aborted
  /\ wpc[<<c, "client">>] = from
  /\ wpc' = [t \in Threads |-> IF t = <<c, "client">> THEN to
                               ELSE IF t \in T THEN "spawned" ELSE wpc[t]]
  /\ UNCHANGED <<mainVars, g_service_obj, held>>

Greet(c) ==
  /\ ClientStep(c, "run", "handshake", {<<c, "tx">>})
  /\ is_connected' = [is_connected EXCEPT ![c] = TRUE]
  /\ UNCHANGED <<clientVars, g_active_workers, urbVars>>

\* A synthetic device has no reaper.
Import(c) ==
  /\ \E T \in {{}, {<<c, "reaper">>}} : ClientStep(c, "handshake", "serve", T)
  /\ UNCHANGED <<clientVars, is_connected, g_active_workers, urbVars>>

\* A submission.  The handler notices only afterwards that is_connected was cleared while
\* it was blocked in recv.
SubmitUrb(c) ==
  /\ ClientStep(c, "serve", IF is_connected[c] THEN "serve" ELSE "leave", {})
  /\ wpc[<<c, "reaper">>] # "none"
  /\ device[c] = "open"
  /\ urb[c] = "none"
  /\ urb' = [urb EXCEPT ![c] = "submitted"]
  /\ in_flight_urbs_count' = in_flight_urbs_count + 1
  /\ UNCHANGED <<clientVars, is_connected, g_active_workers, device>>

\* DEVLIST, a refusal, a bad command, or recv failing: cleanup_zombie_urbs discards the
\* URB, which completes it.
LeaveClient(c) ==
  /\ \E from \in {"handshake", "serve", "leave"} : ClientStep(c, from, "release", {})
  /\ is_connected' = [is_connected EXCEPT ![c] = FALSE]
  /\ urb' = [urb EXCEPT ![c] = IF @ = "submitted" THEN "completed" ELSE @]
  /\ UNCHANGED <<clientVars, g_active_workers, in_flight_urbs_count, device>>

CloseClient(c) ==
  /\ ClientStep(c, "close", "uncount", {})
  /\ g_client_sockets' = g_client_sockets \ {c}
  /\ sock' = [sock EXCEPT ![c] = "closed"]
  /\ UNCHANGED <<shut, gone, missed, is_connected, g_active_workers, urbVars>>

\* A send of the TX thread fails: is_connected is cleared under the handler's feet.
TxFails(c) ==
  /\ "send" \in Faults
  /\ wpc[<<c, "tx">>] = "run"
  /\ ~Aborted
  /\ is_connected[c]
  /\ is_connected' = [is_connected EXCEPT ![c] = FALSE]
  /\ UNCHANGED <<mainVars, g_service_obj, clientVars, wpc, held, g_active_workers, urbVars>>

\* reap_thread takes a completed URB from the kernel and counts it out.
Reap(t) ==
  LET c == t[1] IN
  /\ t[2] = "reaper"
  /\ WorkGoes(t, "run", "run")
  /\ urb[c] = "completed"
  /\ device[c] # "closed"
  /\ urb' = [urb EXCEPT ![c] = "none"]
  /\ in_flight_urbs_count' = in_flight_urbs_count - 1
  /\ UNCHANGED <<mainVars, g_service_obj, clientVars, is_connected, held, g_active_workers,
                 device>>

\* What ends a reaper: its loop test, ENODEV once nothing is left to reap, or EBADF when no
\* new descriptor is registered within ten seconds.
ReaperEnds(c) ==
  \/ ~is_connected[c] /\ in_flight_urbs_count <= 0
  \/ device[c] = "unplugged" /\ urb[c] # "completed"
  \/ device[c] = "closed"

\* tcp_tx_thread and reap_thread leave their loops.
LeaveLoop(t) ==
  /\ \/ t[2] = "tx" /\ ~is_connected[t[1]]
     \/ t[2] = "reaper" /\ ReaperEnds(t[1])
  /\ WorkGoes(t, "run", "release")
  /\ UNCHANGED <<mainVars, g_service_obj, clientVars, is_connected, held, g_active_workers,
                 urbVars>>

Uncount_Twice(t) ==
  /\ WorkGoes(t, "uncount", "done")
  /\ g_active_workers' = g_active_workers - 2
  /\ UNCHANGED <<mainVars, g_service_obj, clientVars, is_connected, held, urbVars>>

Uncount(t) ==
  /\ WorkGoes(t, "uncount", "done")
  /\ g_active_workers' = g_active_workers - 1
  /\ UNCHANGED <<mainVars, g_service_obj, clientVars, is_connected, held, urbVars>>

\* The remote client closes its end: seen by a handler that waits for it in recv.
ClientCloses(c) ==
  /\ wpc[<<c, "client">>] \in {"handshake", "serve"}
  /\ ~gone[c]
  /\ gone' = [gone EXCEPT ![c] = TRUE]
  /\ UNCHANGED <<mainVars, g_service_obj, g_client_sockets, sock, shut, missed, workVars>>

(* The device of a connection and its descriptor *)

\* Only a reaper in its loop can tell: an earlier or later change comes to the same.
DeviceStep(c, from, to) ==
  /\ ~Aborted
  /\ wpc[<<c, "reaper">>] = "run"
  /\ device[c] \in from
  /\ device' = [device EXCEPT ![c] = to]
  /\ UNCHANGED <<mainVars, g_service_obj, clientVars, is_connected, wpc, held,
                 g_active_workers, in_flight_urbs_count>>

\* The device answers; it need not.
CompleteUrb(c) ==
  /\ DeviceStep(c, {"open"}, "open")
  /\ urb[c] = "submitted"
  /\ urb' = [urb EXCEPT ![c] = "completed"]

\* The device is gone: the kernel completes what it had.
Unplug(c) ==
  /\ "unplug" \in Faults
  /\ DeviceStep(c, {"open"}, "unplugged")
  /\ urb' = [urb EXCEPT ![c] = IF @ = "submitted" THEN "completed" ELSE @]

\* Kotlin closes the descriptor: the kernel drops the URB, and it stays counted.
CloseDevice(c) ==
  /\ "close" \in Faults
  /\ DeviceStep(c, {"open", "unplugged"}, "closed")
  /\ urb' = [urb EXCEPT ![c] = IF @ = "none" THEN @ ELSE "lost"]

\* A new descriptor is registered for the bus id, and the reaper goes on with it.
ReopenDevice(c) == DeviceStep(c, {"closed"}, "open") /\ UNCHANGED urb

-----------------------------------------------------------------------------
Call(k) ==
  \/ Started(k) \/ Register(k) \/ Stopped(k)
  \/ NewServiceObj(k) \/ StartLock(k) \/ StartJoin(k) \/ Bind(k) \/ BindFails(k)
  \/ StopClose(k) \/ StopSnapshot(k) \/ StopShutdown(k) \/ StopJoin(k) \/ StopWait(k)
  \/ StopDelete(k)

Serve(i) ==
  \/ RejectInterface(i) \/ ListClient(i) \/ SpawnWorker(i)
  \/ AcceptFails(i) \/ Retest(i) \/ ExitServer(i)

Work(t) == Count(t) \/ Notify(t) \/ Reap(t) \/ LeaveLoop(t) \/ Uncount(t)

\* What does not wait for the client: a loop left by its test, or a hangup.
ClientEnds(c) == shut[c] \/ gone[c] \/ wpc[<<c, "client">>] = "leave"
ClientWork(c) == Greet(c) \/ CloseClient(c) \/ (ClientEnds(c) /\ LeaveClient(c))
DeviceEvent(c) == CompleteUrb(c) \/ Unplug(c) \/ CloseDevice(c) \/ ReopenDevice(c)
Connection(c) ==
  \/ Import(c) \/ SubmitUrb(c) \/ LeaveClient(c) \/ ClientWork(c) \/ ClientCloses(c)
  \/ TxFails(c) \/ DeviceEvent(c)

Next ==
  \/ \E k \in Callers : OnStartCommand(k) \/ Restart(k) \/ OnDestroy(k) \/ Call(k)
  \/ \E i \in Servers : Serve(i) \/ \E c \in Clients : Accept(i, c)
  \/ \E t \in Threads : Work(t)
  \/ \E c \in Clients : Connection(c)

Spec == Init /\ [][Next]_vars

\* Every thread that can run is run; nobody has to call, connect, submit or hang up, and a
\* device need not answer.
FairSpec ==
  /\ Spec
  /\ \A k \in Callers : WF_cpc(cpc[k] # "idle" /\ Call(k))
  /\ \A i \in Servers : WF_spc(spc[i] \notin {"none", "done"} /\ Serve(i))
  /\ \A t \in Threads : WF_vars(wpc[t] \notin {"none", "done"} /\ Work(t))
  /\ \A c \in Clients : WF_wpc(ClientWork(c))

-----------------------------------------------------------------------------
(* Properties *)

TypeOK ==
  /\ isNativeServerStarted \in BOOLEAN
  /\ advertised \in BOOLEAN
  /\ cpc \in [Callers -> {"idle", "start", "start_lock", "start_join", "bind", "started",
                           "failed", "register", "stop", "stop_snapshot", "stop_shutdown",
                           "stop_join", "stop_wait", "stop_delete", "stopped", "aborted"}]
  /\ job \in [Callers -> Jobs \cup {"none"}]
  /\ snapshot \in [Callers -> SUBSET Clients]
  /\ g_socket_mutex \in Callers \cup {"free"}
  /\ g_server_socket \in Servers \cup {None}
  /\ g_server_thread \in Servers \cup {None}
  /\ g_service_obj \in BOOLEAN
  /\ spc \in [Servers -> {"none", "accept", "accepted", "spawn", "retest", "exit", "done"}]
  /\ accepted \in [Servers -> SUBSET Clients]
  /\ starts \in 0..MaxStarts
  /\ fdOf \in [Servers -> Fds]
  /\ fds \in [Fds -> Servers \cup {None}]
  /\ closes \in [Servers -> Nat]
  /\ g_client_sockets \subseteq Clients
  /\ sock \in [Clients -> {"none", "open", "closed"}]
  /\ shut \in [Clients -> BOOLEAN]
  /\ gone \in [Clients -> BOOLEAN]
  /\ is_connected \in [Clients -> BOOLEAN]
  /\ wpc \in [Threads -> {"none", "spawned", "acquire", "acquiring", "run", "handshake",
                           "serve", "leave", "release", "releasing", "close", "uncount",
                           "done"}]
  /\ held \in [Threads -> {"none", "live", "deleted"}]
  /\ g_active_workers \in 0..Cardinality(Threads)
  /\ in_flight_urbs_count \in Nat
  /\ urb \in [Clients -> {"none", "submitted", "completed", "lost"}]
  /\ device \in [Clients -> {"open", "unplugged", "closed"}]
  /\ missed \subseteq Clients

\* A listening socket is closed exactly once, by a stop or a start or else by its
\* own thread: never twice, where the second close would hit the descriptor of a
\* newer server, and never left open behind a thread that ended.
SocketClosedOnce ==
  \A i \in Servers :
    /\ closes[i] = IF spc[i] = "none" \/ g_server_socket = i THEN 0 ELSE 1
    /\ spc[i] \in {"exit", "done"} => closes[i] = 1

\* A run_server thread never accepts on a descriptor number that has come to
\* mean the listening socket of a later start.
NoStaleAcceptor ==
  \A i \in Servers : spc[i] \notin {"none", "done"} => fds[fdOf[i]] \in {None, i}

Counted(t) == wpc[t] \notin {"none", "spawned", "done"}

\* stopNativeServer goes on to delete the reference only when no thread that
\* counted itself is left, whichever way its connection ended.  (Threads that
\* have not counted themselves yet are another matter: see ServiceObjLive.)
StopAwaitsWorkers ==
  [][\A k \in Callers : cpc[k] = "stop_wait" /\ cpc'[k] = "stop_delete"
                          => \A t \in Threads : ~Counted(t)]_vars

\* No worker calls through g_service_obj after the reference was deleted.
ServiceObjLive == \A t \in Threads : held[t] # "deleted"

\* The port is advertised over NSD only while something listens on it.
AdvertisedListening == advertised => g_server_socket # None

\* A counted URB that no reaper will ever take: the kernel dropped it with its descriptor,
\* or it was submitted when the reaper of its connection had left its loop.
Orphaned(c) ==
  \/ urb[c] = "lost"
  \/ urb[c] # "none" /\ wpc[<<c, "reaper">>] \in {"release", "releasing", "uncount", "done"}

\* A reaper with an open descriptor waits for the count to fall, which an orphan prevents.
ReaperHangs ==
  \E c \in Clients : wpc[<<c, "reaper">>] = "run" /\ device[c] = "open"
                       /\ \E d \in Clients : Orphaned(d)

\* stopNativeServer returns, however many clients are connected and silent and whatever
\* their devices leave pending: shutting a client down makes its handler discard its URBs,
\* and only then do the reapers end.  What can keep it for ever is a client that was
\* accepted but missed the snapshot and stays connected, or an orphaned URB.
StopReturns ==
  cpc["main"] = "stop" ~>
    \/ cpc["main"] = "stopped"
    \/ \E c \in missed : sock[c] = "open" /\ ~gone[c]
    \/ ReaperHangs

\* startNativeServer reports success or failure to its caller.
StartReturns ==
  \A k \in Callers : cpc[k] = "start" ~> cpc[k] \in {"started", "failed"}
=============================================================================
