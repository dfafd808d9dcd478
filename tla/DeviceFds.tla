------------------------------ MODULE DeviceFds ------------------------------
(***************************************************************************)
(* Who holds, replaces and closes the descriptors of devices and clients.  *)
(* A bus id's usbfs descriptor is known to Kotlin (openedDevices), to the  *)
(* native registry (g_active_devices) and, as private copies, to the       *)
(* handler and the reaper of every connection that imported it.  A         *)
(* client's socket is known to its own threads and, through                *)
(* g_busid_to_client_fd, to invalidateDeviceFd, which also closes it.      *)
(*                                                                         *)
(* Descriptors are numbers: file says what a number refers to now, and     *)
(* close() and every other call go by the number.  open() and accept() may *)
(* return any closed number (the process has other files too), also one of *)
(* which somebody still has a copy: reused keeps those.  A connection has  *)
(* at most one URB in the kernel; what is sent to the client, and the TX   *)
(* thread that sends it, are UsbipSession's business.  A bus id has at     *)
(* most one attach and one clean-up under way, which may overlap.  Calls   *)
(* between which no other thread can see a difference are one step.        *)
(***************************************************************************)
EXTENDS Integers, FiniteSets

CONSTANTS
  BusIds, Conns,
  Numbers,      \* descriptor numbers
  MaxInFlight,  \* bound of in_flight_urbs_count: no submission beyond it
  MaxCalls      \* bound: attaches, clean-ups and stops

NoFd == -1
Closed == "closed"
NoName == "none"

ASSUME NumbersAssumption == NoFd \notin Numbers
ASSUME BoundAssumption == MaxInFlight \in Nat /\ MaxCalls \in Nat
ASSUME ConnsAssumption == IsFiniteSet(Conns)
ASSUME NamesAssumption ==
  BusIds \cap Conns = {} /\ {Closed, NoName} \cap (BusIds \cup Conns) = {}

VARIABLES
  file, unplugged,  \* kernel: what a number refers to, usbfs files without a device
  reused,           \* history: numbers handed out while somebody had a copy of them
  urb, completed,   \* the descriptor a connection's URB is queued on, and if it is done
  openedDevices,    \* Kotlin's handle of each bus id
  apc, afd,         \* per bus id, the attach under way and its connection's descriptor
  kpc, kfd,         \* per bus id, the clean-up under way and the number in hand
  g_active_devices, g_busid_to_client_fd, in_flight_urbs_count,
  stopping,         \* stopNativeServer waits for the threads
  hpc, client_fd, busid, device_fd,  \* each connection's handler
  shut,             \* the sockets that were shut down
  rpc, reap_fd,     \* its reaper
  calls,            \* attaches, clean-ups and stops so far
  lastImporter      \* per bus id, the connection that imported it last

kernelVars  == <<file, unplugged, reused, urb, completed>>
cleanVars   == <<kpc, kfd>>
kotlinVars  == <<openedDevices, apc, afd, cleanVars>>
nativeVars  == <<g_active_devices, g_busid_to_client_fd, in_flight_urbs_count, stopping>>
handlerVars == <<hpc, client_fd, busid, device_fd, lastImporter>>
reaperVars  == <<rpc, reap_fd>>
vars == <<kernelVars, kotlinVars, nativeVars, handlerVars, shut, reaperVars, calls>>

Init ==
  /\ file = [n \in Numbers |-> Closed]
  /\ unplugged = {} /\ reused = {}
  /\ urb = [c \in Conns |-> NoFd]
  /\ completed = {}
  /\ openedDevices = [b \in BusIds |-> NoFd]
  /\ apc = [b \in BusIds |-> "idle"]
  /\ afd = [b \in BusIds |-> NoFd]
  /\ kpc = [b \in BusIds |-> "idle"]
  /\ kfd = [b \in BusIds |-> NoFd]
  /\ g_active_devices = [b \in BusIds |-> NoFd]
  /\ g_busid_to_client_fd = [b \in BusIds |-> NoFd]
  /\ in_flight_urbs_count = 0
  /\ stopping = FALSE
  /\ hpc = [c \in Conns |-> "none"]
  /\ client_fd = [c \in Conns |-> NoFd]
  /\ busid = [c \in Conns |-> NoName]
  /\ device_fd = [c \in Conns |-> NoFd]
  /\ lastImporter = [b \in BusIds |-> NoName]
  /\ shut = {} /\ calls = 0
  /\ rpc = [c \in Conns |-> "none"]
  /\ reap_fd = [c \in Conns |-> NoFd]

-----------------------------------------------------------------------------
Call == calls < MaxCalls /\ calls' = calls + 1

(* The kernel *)

\* The numbers some thread or table has a copy of.
Copies ==
  (UNION {{openedDevices[b], afd[b], kfd[b], g_active_devices[b], g_busid_to_client_fd[b]} :
             b \in BusIds})
  \cup (UNION {{client_fd[c], device_fd[c], reap_fd[c]} : c \in Conns})

\* open() and accept() return a number n that is closed, whoever has a copy of it.
Opens(x, n) ==
  /\ file[n] = Closed
  /\ file' = [file EXCEPT ![n] = x]
  /\ reused' = IF n \in Copies THEN reused \cup {n} ELSE reused

\* close(): the URBs queued on a usbfs file are killed and can no longer be reaped.
Close(ns) ==
  /\ file' = [m \in Numbers |-> IF m \in ns THEN Closed ELSE file[m]]
  /\ unplugged' = unplugged \ ns
  /\ UNCHANGED reused
  /\ urb' = [c \in Conns |-> IF urb[c] \in ns THEN NoFd ELSE urb[c]]
  /\ completed' = {c \in completed : urb[c] \notin ns}

\* shutdown() of the sockets that the numbers refer to.
Shutdown(ns) == shut' = shut \cup {c \in Conns : \E n \in ns \ {NoFd} : file[n] = c}

CompleteUrb(c) ==
  /\ urb[c] # NoFd /\ c \notin completed
  /\ completed' = completed \cup {c}
  /\ UNCHANGED <<file, unplugged, reused, urb, kotlinVars, nativeVars, handlerVars, shut,
                 reaperVars, calls>>

\* The URBs of a device that is unplugged complete with an error.
Unplug(b) ==
  LET gone == {n \in Numbers : file[n] = b} IN
  /\ ~(gone \subseteq unplugged)
  /\ unplugged' = unplugged \cup gone
  /\ completed' = completed \cup {c \in Conns : urb[c] \in gone}
  /\ UNCHANGED <<file, reused, urb, kotlinVars, nativeVars, handlerVars, shut, reaperVars,
                 calls>>

-----------------------------------------------------------------------------
(* Kotlin: attachDevice *)

AttachGoes(b, from, to) == apc[b] = from /\ apc' = [apc EXCEPT ![b] = to]

\* usbManager.openDevice: whether the bus id has a handle already is not tested.
OpenDevice(b) ==
  /\ Call
  /\ AttachGoes(b, "idle", "opened")
  /\ \E n \in Numbers : Opens(b, n) /\ afd' = [afd EXCEPT ![b] = n]
  /\ UNCHANGED <<unplugged, urb, completed, openedDevices, cleanVars, nativeVars, handlerVars,
                 shut, reaperVars>>

\* The handle takes the place of an older one, whose connection stays open.
StoreHandle(b) ==
  /\ AttachGoes(b, "opened", "stored")
  /\ openedDevices' = [openedDevices EXCEPT ![b] = afd[b]]
  /\ UNCHANGED <<kernelVars, afd, cleanVars, nativeVars, handlerVars, shut, reaperVars, calls>>

\* connection.fileDescriptor: what a clean-up does from here on is not noticed.
ReadDescriptor(b) ==
  /\ AttachGoes(b, "stored", "read")
  /\ UNCHANGED <<kernelVars, openedDevices, afd, cleanVars, nativeVars, handlerVars, shut,
                 reaperVars, calls>>

\* The new descriptor replaces the old one, which is not closed.
UpdateDeviceFd(b) ==
  /\ AttachGoes(b, "read", "idle")
  /\ g_active_devices' = [g_active_devices EXCEPT ![b] = afd[b]]
  /\ afd' = [afd EXCEPT ![b] = NoFd]
  /\ UNCHANGED <<kernelVars, openedDevices, cleanVars, g_busid_to_client_fd,
                 in_flight_urbs_count, stopping, handlerVars, shut, reaperVars, calls>>

Attach(b) == StoreHandle(b) \/ ReadDescriptor(b) \/ UpdateDeviceFd(b)

-----------------------------------------------------------------------------
(* Kotlin: performComprehensiveCleanup, with invalidateDeviceFd *)

CleanupGoes(b, from, to) == kpc[b] = from /\ kpc' = [kpc EXCEPT ![b] = to]
InHand(b, n) == kfd' = [kfd EXCEPT ![b] = n]

TakeClient(b) ==
  /\ Call
  /\ CleanupGoes(b, "idle", "client")
  /\ InHand(b, g_busid_to_client_fd[b])
  /\ g_busid_to_client_fd' = [g_busid_to_client_fd EXCEPT ![b] = NoFd]
  /\ UNCHANGED <<kernelVars, openedDevices, apc, afd, g_active_devices, in_flight_urbs_count,
                 stopping, handlerVars, shut, reaperVars>>

CloseClient_NoShutdown(b) ==
  /\ CleanupGoes(b, "client", "usb")
  /\ Close({kfd[b]})
  /\ InHand(b, NoFd)
  /\ UNCHANGED <<openedDevices, apc, afd, nativeVars, handlerVars, shut, reaperVars, calls>>

\* shutdown() ends a recv() under way on the socket; close() alone would not.
CloseClient(b) ==
  /\ CleanupGoes(b, "client", "usb")
  /\ Shutdown({kfd[b]})
  /\ Close({kfd[b]})
  /\ InHand(b, NoFd)
  /\ UNCHANGED <<openedDevices, apc, afd, nativeVars, handlerVars, reaperVars, calls>>

TakeUsb(b) ==
  /\ CleanupGoes(b, "usb", "close_usb")
  /\ InHand(b, g_active_devices[b])
  /\ g_active_devices' = [g_active_devices EXCEPT ![b] = NoFd]
  /\ UNCHANGED <<kernelVars, openedDevices, apc, afd, g_busid_to_client_fd,
                 in_flight_urbs_count, stopping, handlerVars, shut, reaperVars, calls>>

CloseUsb(b) ==
  /\ CleanupGoes(b, "close_usb", "handle")
  /\ Close({kfd[b]})
  /\ InHand(b, NoFd)
  /\ UNCHANGED <<openedDevices, apc, afd, nativeVars, handlerVars, shut, reaperVars, calls>>

TakeHandle(b) ==
  /\ CleanupGoes(b, "handle", "close_handle")
  /\ InHand(b, openedDevices[b])
  /\ openedDevices' = [openedDevices EXCEPT ![b] = NoFd]
  /\ UNCHANGED <<kernelVars, apc, afd, nativeVars, handlerVars, shut, reaperVars, calls>>

\* connection.close() closes the number, which invalidateDeviceFd has closed, once more.
\* A closed connection has the descriptor -1: the attach under way sees that of the
\* handle it has just stored.
CloseHandle(b) ==
  /\ CleanupGoes(b, "close_handle", "idle")
  /\ Close({kfd[b]})
  /\ InHand(b, NoFd)
  /\ afd' = IF apc[b] = "stored" /\ openedDevices[b] = NoFd
            THEN [afd EXCEPT ![b] = NoFd] ELSE afd
  /\ UNCHANGED <<openedDevices, apc, nativeVars, handlerVars, shut, reaperVars, calls>>

CleanUp(b) ==
  \/ CloseClient(b) \/ TakeUsb(b) \/ CloseUsb(b) \/ TakeHandle(b) \/ CloseHandle(b)

-----------------------------------------------------------------------------
(* stopNativeServer, called to restart the server *)

\* The sockets of all connections are shut down, by number.
StopShutdown ==
  /\ Call
  /\ ~stopping /\ stopping' = TRUE
  /\ Shutdown({client_fd[c] : c \in Conns})
  /\ UNCHANGED <<kernelVars, kotlinVars, g_active_devices, g_busid_to_client_fd,
                 in_flight_urbs_count, handlerVars, reaperVars>>

\* When no thread of a connection is left the registry is closed and cleared; Kotlin
\* keeps its handles.
StopClose ==
  /\ stopping /\ stopping' = FALSE
  /\ \A c \in Conns : {hpc[c], rpc[c]} \subseteq {"none", "done"}
  /\ Close({g_active_devices[b] : b \in BusIds})
  /\ g_active_devices' = [b \in BusIds |-> NoFd]
  /\ UNCHANGED <<kotlinVars, g_busid_to_client_fd, in_flight_urbs_count, handlerVars, shut,
                 reaperVars, calls>>

-----------------------------------------------------------------------------
(* handle_client *)

HandlerGoes(c, from, to) == hpc[c] = from /\ hpc' = [hpc EXCEPT ![c] = to]

\* While the server is stopped nothing is accepted.
Accept(c) ==
  /\ HandlerGoes(c, "none", "import")
  /\ ~stopping
  /\ \E n \in Numbers : Opens(c, n) /\ client_fd' = [client_fd EXCEPT ![c] = n]
  /\ UNCHANGED <<unplugged, urb, completed, kotlinVars, nativeVars, busid, device_fd,
                 lastImporter, shut, reaperVars, calls>>

\* OP_REQ_IMPORT asks Kotlin for the descriptor, not g_active_devices.
ImportResolve(c, b) ==
  /\ HandlerGoes(c, "import", "map")
  /\ openedDevices[b] # NoFd
  /\ device_fd' = [device_fd EXCEPT ![c] = openedDevices[b]]
  /\ busid' = [busid EXCEPT ![c] = b]
  /\ UNCHANGED <<kernelVars, kotlinVars, nativeVars, client_fd, lastImporter,
                 shut, reaperVars, calls>>

\* The entry is written, the replies are sent, whatever became of the socket, and the
\* reaper is started.
ImportStart(c) ==
  /\ HandlerGoes(c, "map", "serve")
  /\ g_busid_to_client_fd' = [g_busid_to_client_fd EXCEPT ![busid[c]] = client_fd[c]]
  /\ lastImporter' = [lastImporter EXCEPT ![busid[c]] = c]
  /\ rpc' = [rpc EXCEPT ![c] = "reap"]
  /\ reap_fd' = [reap_fd EXCEPT ![c] = device_fd[c]]
  /\ UNCHANGED <<kernelVars, kotlinVars, g_active_devices, in_flight_urbs_count, stopping,
                 client_fd, busid, device_fd, shut, calls>>

\* An unknown bus id, a DEVLIST, a closed connection: no session, and no entry to erase.
Refuse(c) ==
  /\ HandlerGoes(c, "import", "close")
  /\ UNCHANGED <<kernelVars, kotlinVars, nativeVars, client_fd, busid, device_fd, lastImporter,
                 shut, reaperVars, calls>>

\* recv() blocks on what client_fd refers to now.
Recv(c) ==
  /\ \/ HandlerGoes(c, "serve", "recv") /\ file[client_fd[c]] \in Conns
     \/ HandlerGoes(c, "serve", "leave") /\ file[client_fd[c]] \notin Conns
  /\ UNCHANGED <<kernelVars, kotlinVars, nativeVars, client_fd, busid, device_fd, lastImporter,
                 shut, reaperVars, calls>>

\* Data that arrived before a shutdown is still received.  device_fd is refreshed only here.
RecvSubmit(c) ==
  LET active == g_active_devices[busid[c]] IN
  /\ HandlerGoes(c, "recv", "submit")
  /\ urb[c] = NoFd
  /\ in_flight_urbs_count < MaxInFlight
  /\ device_fd' = [device_fd EXCEPT ![c] = IF active # NoFd THEN active ELSE @]
  /\ UNCHANGED <<kernelVars, kotlinVars, nativeVars, client_fd, busid, lastImporter,
                 shut, reaperVars, calls>>

\* The client hung up, or the socket was shut down.
RecvFails(c) ==
  /\ HandlerGoes(c, "recv", "leave")
  /\ UNCHANGED <<kernelVars, kotlinVars, nativeVars, client_fd, busid, device_fd, lastImporter,
                 shut, reaperVars, calls>>

\* USBDEVFS_SUBMITURB, counted before it is tried and discounted if it fails.
SubmitUrb(c) ==
  /\ HandlerGoes(c, "submit", "serve")
  /\ device_fd[c] \in {n \in Numbers \ unplugged : file[n] \in BusIds}
  /\ urb' = [urb EXCEPT ![c] = device_fd[c]]
  /\ in_flight_urbs_count' = in_flight_urbs_count + 1
  /\ UNCHANGED <<file, unplugged, reused, completed, kotlinVars, g_active_devices,
                 g_busid_to_client_fd, stopping, client_fd, busid, device_fd, lastImporter,
                 shut, reaperVars, calls>>

SubmitFails_DiscountsTwice(c) ==
  /\ HandlerGoes(c, "submit", "serve")
  /\ in_flight_urbs_count' = in_flight_urbs_count - 1
  /\ UNCHANGED <<kernelVars, kotlinVars, g_active_devices, g_busid_to_client_fd, stopping,
                 client_fd, busid, device_fd, lastImporter, shut, reaperVars, calls>>

SubmitFails(c) ==
  /\ HandlerGoes(c, "submit", "serve")
  /\ UNCHANGED <<kernelVars, kotlinVars, nativeVars, client_fd, busid, device_fd, lastImporter,
                 shut, reaperVars, calls>>

\* handle_client ends: is_connected is cleared, the map entry erased, and the connection's
\* URBs are discarded on its own copy of the descriptor.
LeaveWith(c, entry) ==
  /\ HandlerGoes(c, "leave", "close")
  /\ g_busid_to_client_fd' = [g_busid_to_client_fd EXCEPT ![busid[c]] = entry]
  /\ completed' = completed \cup {d \in {c} : urb[d] # NoFd /\ urb[d] = device_fd[d]}
  /\ device_fd' = [device_fd EXCEPT ![c] = NoFd]
  /\ lastImporter' = [b \in BusIds |-> IF lastImporter[b] = c THEN NoName ELSE lastImporter[b]]
  /\ UNCHANGED <<file, unplugged, reused, urb, kotlinVars, g_active_devices,
                 in_flight_urbs_count, stopping, client_fd, busid, shut, reaperVars, calls>>

Leave_Unguarded(c) == LeaveWith(c, NoFd)

\* The entry is left alone if a later importer of the bus id has replaced it.
Leave(c) ==
  LET entry == g_busid_to_client_fd[busid[c]] IN
  LeaveWith(c, IF entry = client_fd[c] THEN NoFd ELSE entry)

\* The worker closes the socket it accepted, whether or not invalidateDeviceFd has.
CloseSocket(c) ==
  /\ HandlerGoes(c, "close", "done")
  /\ Close({client_fd[c]})
  /\ client_fd' = [client_fd EXCEPT ![c] = NoFd]
  /\ shut' = shut \ {c}
  /\ UNCHANGED <<kotlinVars, nativeVars, busid, device_fd, lastImporter, reaperVars, calls>>

Handle(c) ==
  \/ ImportStart(c) \/ Recv(c) \/ SubmitUrb(c) \/ SubmitFails(c)
  \/ Leave(c) \/ CloseSocket(c)

-----------------------------------------------------------------------------
(* reap_thread *)

Continues(c) == hpc[c] \notin {"close", "done"} \/ in_flight_urbs_count > 0
NothingToReap(c) == \A d \in completed : urb[d] # reap_fd[c]

ReaperExits(c) ==
  /\ rpc' = [rpc EXCEPT ![c] = "done"]
  /\ reap_fd' = [reap_fd EXCEPT ![c] = NoFd]
  /\ UNCHANGED <<kernelVars, kotlinVars, nativeVars, handlerVars, shut, calls>>

ReapEnds(c) == rpc[c] = "reap" /\ ~Continues(c) /\ ReaperExits(c)

ReapUrb_CountsTwice(c, d) ==
  /\ rpc[c] = "reap"
  /\ Continues(c)
  /\ d \in completed
  /\ urb[d] = reap_fd[c]
  /\ urb' = [urb EXCEPT ![d] = NoFd]
  /\ completed' = completed \ {d}
  /\ in_flight_urbs_count' = in_flight_urbs_count - 2
  /\ UNCHANGED <<file, unplugged, reused, kotlinVars, g_active_devices, g_busid_to_client_fd,
                 stopping, handlerVars, shut, reaperVars, calls>>

\* Any URB of the descriptor, whichever connection submitted it.
ReapUrb(c, d) ==
  /\ rpc[c] = "reap"
  /\ Continues(c)
  /\ d \in completed
  /\ urb[d] = reap_fd[c]
  /\ urb' = [urb EXCEPT ![d] = NoFd]
  /\ completed' = completed \ {d}
  /\ in_flight_urbs_count' = in_flight_urbs_count - 1
  /\ UNCHANGED <<file, unplugged, reused, kotlinVars, g_active_devices, g_busid_to_client_fd,
                 stopping, handlerVars, shut, reaperVars, calls>>

\* ENODEV
ReapNoDevice(c) ==
  /\ rpc[c] = "reap"
  /\ Continues(c) /\ NothingToReap(c)
  /\ reap_fd[c] \in unplugged
  /\ ReaperExits(c)

\* EBADF
ReapClosed(c) ==
  /\ rpc[c] = "reap" /\ rpc' = [rpc EXCEPT ![c] = "wait"]
  /\ Continues(c)
  /\ file[reap_fd[c]] = Closed
  /\ UNCHANGED <<kernelVars, kotlinVars, nativeVars, handlerVars, shut, reap_fd, calls>>

ReapResume(c) ==
  /\ rpc[c] = "wait" /\ rpc' = [rpc EXCEPT ![c] = "reap"]
  /\ g_active_devices[busid[c]] # NoFd
  /\ reap_fd' = [reap_fd EXCEPT ![c] = g_active_devices[busid[c]]]
  /\ UNCHANGED <<kernelVars, kotlinVars, nativeVars, handlerVars, shut, calls>>

\* Ten seconds without a new descriptor.
ReapTimeout(c) ==
  /\ rpc[c] = "wait"
  /\ g_active_devices[busid[c]] = NoFd
  /\ ReaperExits(c)

Reap(c) ==
  \/ ReapEnds(c) \/ ReapNoDevice(c) \/ ReapClosed(c) \/ ReapResume(c) \/ ReapTimeout(c)
  \/ \E d \in Conns : ReapUrb(c, d)

-----------------------------------------------------------------------------
Next ==
  \/ \E b \in BusIds :
       Unplug(b) \/ OpenDevice(b) \/ Attach(b) \/ TakeClient(b) \/ CleanUp(b)
  \/ StopShutdown \/ StopClose
  \/ \E c \in Conns :
       \/ Accept(c) \/ Refuse(c) \/ RecvSubmit(c) \/ RecvFails(c) \/ Handle(c)
       \/ CompleteUrb(c) \/ Reap(c)
       \/ \E b \in BusIds : ImportResolve(c, b)

Spec == Init /\ [][Next]_vars

\* Threads that can run are run.
FairSpec ==
  /\ Spec
  /\ WF_vars(StopClose)
  /\ \A b \in BusIds : WF_vars(Attach(b)) /\ WF_vars(CleanUp(b))
  /\ \A c \in Conns : /\ WF_vars(Handle(c)) /\ WF_vars(Reap(c))
                       /\ WF_vars(c \in shut /\ (RecvFails(c) \/ Refuse(c)))

-----------------------------------------------------------------------------
(* Properties *)

TypeOK ==
  /\ file \in [Numbers -> BusIds \cup Conns \cup {Closed}]
  /\ unplugged \subseteq {n \in Numbers : file[n] \in BusIds}
  /\ reused \subseteq Numbers
  /\ urb \in [Conns -> Numbers \cup {NoFd}]
  /\ completed \subseteq {c \in Conns : urb[c] # NoFd}
  /\ openedDevices \in [BusIds -> Numbers \cup {NoFd}]
  /\ apc \in [BusIds -> {"idle", "opened", "stored", "read"}]
  /\ afd \in [BusIds -> Numbers \cup {NoFd}]
  /\ kpc \in [BusIds -> {"idle", "client", "usb", "close_usb", "handle", "close_handle"}]
  /\ kfd \in [BusIds -> Numbers \cup {NoFd}]
  /\ g_active_devices \in [BusIds -> Numbers \cup {NoFd}]
  /\ g_busid_to_client_fd \in [BusIds -> Numbers \cup {NoFd}]
  /\ in_flight_urbs_count \in 0..MaxInFlight + Cardinality(Conns)
  /\ stopping \in BOOLEAN
  /\ hpc \in [Conns -> {"none", "import", "map", "serve", "recv", "submit", "leave", "close",
                        "done"}]
  /\ client_fd \in [Conns -> Numbers \cup {NoFd}]
  /\ busid \in [Conns -> BusIds \cup {NoName}]
  /\ device_fd \in [Conns -> Numbers \cup {NoFd}]
  /\ lastImporter \in [BusIds -> Conns \cup {NoName}]
  /\ calls \in 0..MaxCalls
  /\ shut \subseteq Conns
  /\ rpc \in [Conns -> {"none", "reap", "wait", "done"}]
  /\ reap_fd \in [Conns -> Numbers \cup {NoFd}]

\* Between its import and its departure.
Serving(c) == hpc[c] \in {"serve", "recv", "submit", "leave"}

\* Of numbers that were not handed out under somebody's copy: g_busid_to_client_fd names
\* the open socket of a connection that serves the bus id, and the last importer is found
\* there until a clean-up has taken it, so that a departing connection never hides a newer
\* one from invalidateDeviceFd.
ClientMapExact ==
  \A b \in BusIds :
    /\ g_busid_to_client_fd[b] \notin reused \cup {NoFd} =>
         \E c \in Conns : /\ client_fd[c] = g_busid_to_client_fd[b]
                          /\ file[client_fd[c]] = c /\ busid[c] = b /\ Serving(c)
    /\ \A c \in Conns : lastImporter[b] = c /\ Serving(c) /\ client_fd[c] \notin reused =>
         \/ g_busid_to_client_fd[b] = client_fd[c]
         \/ kpc[b] = "client" /\ kfd[b] = client_fd[c]
         \/ c \in shut

\* Nobody is left blocked in recv() on a socket that was closed behind his back: a handler
\* that waits can still be reached by its client and by a stop, or was shut down.  Only one
\* whose number was handed out twice at a time can be missed.
RecvReachable ==
  \A c \in Conns : hpc[c] = "recv" =>
    client_fd[c] \in reused \/ c \in shut \/ file[client_fd[c]] = c

\* Whatever is closed, replaced or reused, in_flight_urbs_count counts every URB the kernel
\* has: no reaper finds it at zero, and ends, while there is something left to reap.
CounterCovers == Cardinality({c \in Conns : urb[c] # NoFd}) <= in_flight_urbs_count

(* What the code does not keep *)

\* A descriptor the registry offers is open and the bus id's own.  A clean-up between the
\* read of connection.fileDescriptor and updateDeviceFd leaves a closed one there.
RegistryLive ==
  \A b \in BusIds : g_active_devices[b] # NoFd => file[g_active_devices[b]] = b

\* A handler and its reaper work on one descriptor: a URB is queued where the reaper of its
\* connection looks, or the reaper is about to find its own copy closed.  After a second
\* attach the handler goes to the new descriptor and the reaper stays with the open old one.
ReaperFollows ==
  \A c \in Conns :
    urb[c] # NoFd /\ rpc[c] # "done" =>
      reap_fd[c] = urb[c] \/ file[reap_fd[c]] = Closed \/ rpc[c] = "wait"

\* Nothing but a URB in the kernel is counted as in flight: close() kills some unreaped.
InFlightDrains == in_flight_urbs_count = Cardinality({c \in Conns : urb[c] # NoFd})

\* A stop gets past its wait for the threads: not if in_flight_urbs_count stays positive.
StopCompletes == stopping ~> ~stopping

\* An import that is answered with success has an open descriptor of its device: not after
\* a stop, which leaves Kotlin its handles.
ImportLive == \A c \in Conns : hpc[c] = "map" => file[device_fd[c]] = busid[c]

\* A connection's number never comes to mean another connection's socket while it uses it:
\* invalidateDeviceFd closes it under the handler.
OwnSocket ==
  \A c \in Conns : hpc[c] \notin {"none", "done"} => file[client_fd[c]] \in {c, Closed}
=============================================================================
