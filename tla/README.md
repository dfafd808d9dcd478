# A TLA+ verification of USBIP-AndroidHost

USBIP-AndroidHost exports the USB devices of an Android phone over USB/IP (TCP
port 3240), together with a synthetic HID device (mouse and keyboard) fed by the
phone's own screen.  A Kotlin foreground service owns the devices; a native
library (C++) speaks USB/IP and talks to usbfs.  These modules model the parts
whose correctness depends on the order in which threads act, check them with TLC
and prove the most important invariants with TLAPS.

Paths below are relative to `src/app/src/main/`; `cpp/` holds the native code,
`java/com/mizukos/usbip/` the Kotlin code.

## Inventory

| Component | State | Operations | What makes it correct |
|---|---|---|---|
| USB/IP session engine, `cpp/usbip_server.cpp` (`handle_client`, `reap_thread`, `tcp_tx_thread`, `cleanup_zombie_urbs`) | per session `pending_requests`, `tx_queue`, `is_connected`; process-wide `in_flight_urbs_count`; `PendingRequest` and `async_urb_context` on the heap | OP_REQ_IMPORT, CMD_SUBMIT, CMD_UNLINK, reap, reply, leave | each submitted request is answered exactly once, to its client; nothing freed is followed; the counter is exact; threads end |
| Server start and stop, `usbip_server.cpp` (`startNativeServer`, `stopNativeServer`, `run_server`), `UsbServerService.kt` (`onStartCommand`, `restartServerAndNsd`, `onDestroy`) | `g_server_socket`, `g_server_thread`, `g_socket_mutex`, `g_client_sockets`, `g_active_workers`, `g_service_obj`; `isNativeServerStarted`, the NSD registration | start, stop, accept, spawn, count in and out | a socket is closed once; stop waits for the workers and returns; no JNI call through a deleted reference; only a listening port is advertised |
| Synthetic input ring, `cpp/SPSCRingBuffer.h`, `cpp/SyntheticInputJni.cpp` | `buffer`, `head`, `tail` | push (UI thread), pop (TX threads) | a FIFO queue, no race on a slot |
| Synthetic HID device, `cpp/SyntheticUrbHandler.cpp` | `g_PendingHidUrb` (`seqnum`, `isActive`) | interrupt and control submit, unlink, poll, reset on import | reports in order, each answers the URB that asked |
| Keyboard report translator, `cpp/SyntheticEventTranslator.cpp` | six key slots, modifier bits | press, release, clear, reset | a key is reported as long as it is held, no gap, no copy |
| Device registry and permission queue, `UsbServerService.kt` | `permissionQueue`, `isRequestingPermission`, `pendingConnections`, `activeDeviceIdTracker`, `openedDevices`, `deviceJobs` | attach and detach broadcasts, connect and disconnect buttons, permission answer, 30 s timer | one connection per device, no ghost session, no device forgotten in the queue |
| Device descriptor replacement (`updateDeviceFd`, `invalidateDeviceFd`, the EBADF wait of `reap_thread`) | `g_active_devices`, local copies of `device_fd` | replace, invalidate, refresh | a copy is never used after its number was reused |
| Connection descriptors (`g_busid_to_client_fd`) | map bus id to client socket | import, invalidate, leave | names the socket of the last importer; nobody is left in `recv` on a closed socket |
| Socket transfer (`send_iovec_all`, `send_full_urb_payload`, `recv_all`, `recv_all_timed`) | offsets of a partial write | send, receive | resumes at the right byte; packets of two writers do not mix |
| Performance locks (`acquirePerformanceLocks` ...) | `activePerformanceSessions` | acquire, release, force | locks are held while a session is up |
| Telemetry (`get_telemetry_json`, `TelemetryServer.kt`) | counters, 256 latency samples | record, export | counters agree with the traffic |
| Device list export, device information | none of its own | format descriptors | layout |
| User interface, error log, NSD and network helpers | views, log file | input and output | outside the protocol |

Interactions.  The UI and Android broadcasts call the Kotlin service, which opens
devices, hands their descriptors to the native side (`updateDeviceFd`), takes them
away (`invalidateDeviceFd`) and starts or stops the native server.  Each accepted
client gets three detached threads that share one session; they call back into the
service only for the performance locks, through `g_service_obj`.  Sessions share
the usbfs descriptor of a device, so one session's reaper may reap another's URB;
all sessions share `in_flight_urbs_count`, the event ring and `g_PendingHidUrb`.

Hard behaviours.  A completion races an unlink, a second unlink and the client
leaving; sends and submissions fail half way; devices are unplugged under URBs;
starts and stops arrive on two Kotlin threads while descriptor numbers are reused;
permission answers race their timers; every TX thread polls one ring.
`PROJECT.json` lists each of these at its line under "hazards".

## Modules and the code they model

| Module | Models |
|---|---|
| `UsbRequests` | abstract: what a USB/IP client may rely on |
| `UsbipSession`, `MCUsbipSession` | the session engine, which refines `UsbRequests`; the MC module gives finite instances |
| `UsbipSession_proofs`, `UsbipSession_replies` | its theorems: memory and the counter; replies and the refinement |
| `DeviceFds`, `MCDeviceFds`, `DeviceFds_proofs` | who holds, replaces and closes the descriptors of devices and clients |
| `ServerLifecycle`, `ServerLifecycle_proofs` | start, stop, accept, worker counting, the Kotlin entry points |
| `BoundedQueue` | abstract: a FIFO queue of bounded length |
| `SPSCRing`, `SPSCRing_proofs` | `push` and `pop`, one atomic access per step; refines `BoundedQueue` |
| `SocketTransfer` | `send_iovec_all` and `send_full_urb_payload`: a packet sent in pieces |
| `SyntheticHid`, `MCSyntheticHid`, `SyntheticHid_proofs` | commands to the synthetic device, the parked URB, the pollers; composes `SPSCRing` and `SocketTransfer` |
| `KeyboardReport`, `MCKeyboardReport`, `KeyboardReport_proofs` | the six-key report; the MC module gives the symmetry of keys |
| `DeviceAttach`, `DeviceAttach_proofs` | permission queue, attach and clean-up |

### UsbRequests

For a client a submitted request is open, then completed, or cancelled by the first
unlink that meets it open, or abandoned together with its connection.  Each command
is answered at most once, on its own connection: a completed request by RET_SUBMIT, a
cancelled one by RET_UNLINK(-2) to its unlink, an unlink that cancelled nothing by
RET_UNLINK(0) or not at all.  Nothing is said of the order of replies:
the RET_SUBMIT of a request is queued after its entry is erased, so the RET_UNLINK(0)
of a late unlink may overtake it.

### UsbipSession

State keeps the names of the code.  `pending_requests` is the union of the
sessions' maps, because a request is a pair of session and sequence number; `heap`,
`state` and `unlink_seqnum` are the `PendingRequest` with its `async_urb_context`;
`urb` is the URB as usbfs sees it.  `hpc`, `rpc` and `tpc` are the control points
of a session's three threads, `hcur`, `rcur` and `tcur` what each has in hand.  An
action is one critical section or one system call with the thread-local work
around it: `RecvSubmit` (read, allocate, insert under `request_mutex`), `AllocFails`,
`Intercept`, `CountInFlight`, `SubmitUrb`, `SubmitFails`, the four outcomes of
CMD_UNLINK, `DiscardUrb` (which runs after the mutex was released), `Leave` and
`CleanupZombieUrbs`; `ReapCheck`, `ReapUrb`, `Settle`, `Uncount`, `Reply`,
`EnqueueReply`; `TxPop`, `TxSend`, `TxFails`, `TxExit`.  usbfs itself is external:
`CompleteUrb`, `Unplug` and the effect of USBDEVFS_DISCARDURB.  `DeviceOf`
says which device a session imports, so that sharing one is an instance.

`ImplementsRequests` maps `state` and `pending_requests` to the fate of a request
(`Fate`), `unlink_seqnum` to the unlink that cancels it, and takes a connection to be
over once its handler is on the way out.

Simplifications: each client uses a sequence number once; payloads, lengths and
telemetry are dropped; descriptors stay open (`DeviceFds` replaces them).
`SubmitFails` also happens when the device is attached, because the ioctl may
refuse a URB.  The comment at `cpp/usbip_server.cpp:832` says the submission path
inserts every URB into `active_urbs`, which no code does.

### DeviceFds

A descriptor is a *number*; `file` says what a number refers to now, and `close`
goes by the number, whatever that is.  `open` and `accept` may return any closed number
(`Opens`), because the process has other files too: the lowest free one, which the kernel
gives, is among them, also while somebody still has a copy of it.  `reused` remembers the
numbers handed out in that way; the code does not defend against it.

A device's number is copied to Kotlin's `openedDevices`, the registry
`g_active_devices`, and every connection's `device_fd` (handler) and `reap_fd` (reaper); a
client's socket is held by its worker and, through `g_busid_to_client_fd`, by
`invalidateDeviceFd`, which closes it as well.  The actions are the steps between which
another thread can see a difference.  `attachDevice` (`apc`): `OpenDevice`, which does not
test whether the bus id has a handle, `StoreHandle`, `ReadDescriptor` and `UpdateDeviceFd`.
`performComprehensiveCleanup` (`kpc`): `TakeClient`, `CloseClient`, `TakeUsb`, `CloseUsb`,
`TakeHandle`, and `CloseHandle`, which closes the same number again.  The two run on
different threads and overlap freely; a bus id has at most one of each under way
(`DeviceAttach` has several).  Then a restart's `StopShutdown` and `StopClose`; import,
`RecvSubmit` with its refresh of `device_fd`, `Leave` with its guarded erase; the
reaper's EBADF wait, which ends with a new descriptor or after ten seconds (`ReapTimeout`).

A connection has at most one URB in the kernel, which is enough to be queued on
either of two descriptors.

### ServerLifecycle

`cpc` is the control point of the two Kotlin threads (`io`: `onStartCommand` under
`nativeServerMutex`; `main`: `restartServerAndNsd` and `onDestroy`); a start or stop
runs step by step between the points where it can wait: the mutex, the join, the
sleep loop.  A start that succeeds creates a new server with its own listening
socket `i`, whose descriptor *number* `fdOf[i]` is taken from `Fds`: with
one number, every socket reuses it, which is what the kernel does with the lowest
free one.

A connection's threads are reduced to what the stop can see: they count themselves, read
and use `g_service_obj` in `notify_performance_locks`, and end as their loops let them.
The TX thread ends with `is_connected`.  The reaper (`ReaperEnds`) goes on while
`in_flight_urbs_count`, the counter of the process, is positive, unless its device is
gone (ENODEV) or its descriptor was closed and no new one is registered within ten
seconds (EBADF).  So each connection may have one URB, which its device completes or
leaves pending, which its handler discards on leaving, and which is lost when Kotlin closes
the descriptor.  Each connection imports a device of its own (`UsbipSession` shares them).
`Faults` says what may happen: a failing send, an unplugging, a descriptor closed.  A
device is unplugged or its descriptor closed while its reaper is in its loop: an earlier
or a later change comes to the same.

`Aborted` is `std::terminate`: assigning to a joinable `std::thread`, or joining one
twice.  `missed` records the clients a stop's snapshot left out.

### BoundedQueue and SPSCRing

Every atomic load or store and every access to a slot is a step.  `push` takes
effect when `tail` is stored, `pop` when `head` is: `Contents`, the slots
from `head` to `tail`, refines the abstract queue.  The refinement is checked as a
PROPERTY and proved.

### SyntheticHid and SocketTransfer

`g_PendingHidUrb` has two fields, written in separate steps by the handler and read
in separate steps by the TX threads.  A session's handler is `hpc`, its TX thread
`tpc`.  The handler answers the import on the socket itself, queues the replies to
control requests and unlinks, and parks an interrupt URB; the TX thread sends what is
queued, then polls, whatever device its session imported: `PollParked`, `PollPop`, `Unpark`,
`Translate`, `Repark` and `TxSend` are the lines of `PollSyntheticEvents` and of the send
that follows.  `overlapped` remembers that two TX threads were inside it at once.

A submission to an endpoint other than 0 and 1-IN is deleted and never answered
(`SubmitElsewhere`).  The data of an OUT request, such as SET_REPORT, is not received
(`cpp/usbip_server.cpp:1319`): the next header is read out of step with the client
(`hpc` is `skewed`).  What it then takes for a command is one the handler does not know,
and the session ends; that the bytes happen to form a known command is left out.

`SocketTransfer` gives every socket two writers.  A packet is a header and a payload
in separate buffers; a system call takes any number of the bytes left, and the rest
is resumed.  Byte `n` of a packet stands for its content, so `WholePackets` compares
positions only.

Left out: the content of reports (`KeyboardReport` has the keyboard's), the layout of
the descriptors, the creation and destruction of the ring.

Facts that need no run.  The sockets block and have no SO_SNDTIMEO, so the EAGAIN
branches with their five-second `poll` and the comment at
`cpp/usbip_server.cpp:577` never apply: a client that stops reading blocks its TX
thread.  `get_int_for_busid` returns 0, not -1, without
`g_service_obj`.  An unlink of a parked URB is answered with status 0 while the URB
stays parked; a parked URB survives its session; and a second import of `synthetic-1`
resets the URB the first session has parked.

### KeyboardReport

One step per event: insertion into the first free slot unless present or full,
removal with a shift of the keys behind it, modifiers as a set.  `held` is what the
events consumed so far say, `stuck` what was held when the view lost focus:
`clearAllStates` pushes key code 0, which releases nothing, so these keys stay in the
report (`Keyboard_focus_loss`).  `rollover` tells whether a seventh key went down.  A
seventh key is dropped and, while it stays down, reported
only from its next repeat on; that is why `ReportComplete` has a premise.

### DeviceAttach

Each access to a concurrent map, the queue or the flag is a step of the main thread
or of an IO thread.  `device[d]` gathers the entries of a device in the five maps;
`job` and `loose` are attach coroutines not yet started, those `deviceJobs` still
holds and those it no longer does (only the former can be cancelled, and only
before they start, since `attachDevice` never suspends).  A prompt is launched on
the main thread, shown, answered by the user (the permission exists from then on)
and only later delivered by the broadcast; its timer runs on.  Bus ids are taken as
given: `getBusId`'s unsynchronised counter is a listed hazard.

## Runs

| Run | Checks | Instance and why it is enough |
|---|---|---|
| `Session_requests` | `TypeOK`, `OneFate`, `PendingHasUrb`, `CompletionAnswered`, `UnlinkAnswered` | one client with three sequence numbers: submit, unlink and second unlink in every order, with failing sends, allocations and submissions |
| `Session_shared_device` | `MemorySafe`, `InFlightExact`, `RepliesRoutedOnce`, `ImplementsRequests` | two sessions on one device, so that either reaper takes the client's URBs; two sequence numbers, the same faults and unplugging |
| `Session_threads` | `NothingLeftInKernel`, `ThreadsExit` | two sessions on two devices with a request each, so that the process-wide counter links reapers that share nothing else; no faults |
| `Device_fds` | `TypeOK`, `ClientMapExact`, `RecvReachable`, `CounterCovers` | one bus id imported by two connections, three calls (attach, clean-up, stop) and three numbers, under symmetry: a second attach, an attach that a clean-up overtakes, a number handed out under a copy.  A fourth number was tried and changes nothing |
| `Server_serial` | `TypeOK`, `AdvertisedListening`, `StopAwaitsWorkers`, `StopReturns` | calls that take turns; one client that may stay silent, one successful start, any number of restarts and failing binds; a failing send lets a URB be submitted too late, a closed descriptor loses one, a device is unplugged |
| `Server_overlap` | `SocketClosedOnce`, `NoStaleAcceptor` | three starts on one descriptor number, all entry points overlapping; three let a thread of the first start meet the socket of the third |
| `Server_object` | `ServiceObjLive` (violated) | one client, one start, one stop |
| `Ring_fifo` | `TypeOK`, `NoSlotRace`, `FIFO` | four slots, three values: full, empty and wrapped rings |
| `Hid_reports` | `TypeOK`, `ReportsInOrder`, `WholePackets`, `InterruptAnswered` | one session with two commands: interrupt URBs, a short read, a missing descriptor, a request whose data stays in the socket, submissions elsewhere, and unlinks; four events on three slots, one of them unknown to the translator; headers of two bytes, so that every packet can be cut in the header and between header and payload |
| `Keyboard_report` | `TypeOK`, `ReportComplete`, `Compact` | seven keys, one more than the slots, under symmetry |
| `Keyboard_focus_loss` | `NoPhantomKey` (violated) | two keys and a modifier |
| `Attach_permission` | `TypeOK`, `FlagReleased`, `NotForgotten`, `PendingExplained`, `QueueServed` | two devices, two calls, the main thread and an IO thread: enough for a stale timer, a claim of an empty queue and a clean-up during an attach |

Bounds are constants named in the modules.  `MaxStarts`, `MaxPushes`, `MaxCalls` and
`MaxSeqs` bound how often the outside acts; in `DeviceAttach`, `MaxCalls` also bounds the
prompts, as a call makes at most one.  `MaxInFlight` bounds `in_flight_urbs_count` in `DeviceFds`,
where a killed URB stays counted, so that the counter could grow with every
replacement.  `Numbers`, `HeaderLen`, `ReportLen` and `DescriptorLen` are sizes: the
code's 48-byte headers and its descriptors shrink to one or two bytes, since a partial
write can only stop inside a buffer, at its end, or in the next one.  The other
bounds are the finite sets.

Two constants of `SyntheticHid` describe the client: `Pipelined`, whether it submits
an interrupt URB before the last is over, and `UnlinkParked`, whether it
unlinks what was not answered.  `Hid_reports` has neither, nor a second session, because
its properties do not survive them (see below).  What does, `AnswersAsker` and
`OrderedUnlessOverlapped`, is proved for any sessions and clients.  TLC found no error in
them either, with two sessions, one of which imported `synthetic-1`, and both constants
true, but at a million states no run is kept.

Deadlock is checked wherever the system always has a next step (`UsbipSession` has a
`Finished` step for the state in which all threads have ended).  It is not checked
in `Server_overlap`, where `std::terminate` or the start that waits for itself stops
the system, and `Server_serial`, where a stop may wait for an orphaned URB; in
`Hid_reports` and `Attach_permission`, where the pushes, commands or calls run out; and in
`Device_fds`, where connections and numbers do.

### Fairness

Threads that can run are run: weak fairness of a thread's own steps, in
`UsbipSession` per thread of a session, in `ServerLifecycle` per Kotlin call, server
thread and worker, in `SyntheticHid` for a push that has begun, each handler's own
steps and each TX thread, in `DeviceAttach` for a call that has begun and for each
30 s timer.  That is what the preemptive scheduler of the phone gives.  Of the outside
two things are assumed, in `SyntheticHid` only: a client reads what it is sent, so that
a send gets on, and a socket that has reported an error reports it again.  Otherwise
nothing: a client need not send or hang up, a device need not complete a URB,
the user need not answer a prompt or press a key.  So `CompletionAnswered` starts
from a completed URB, `InterruptAnswered` from enough pushed events, and
`QueueServed` relies on timers only.  (A completed URB is answered in `UsbipSession`
because a send there succeeds or fails; it is not slow.)

## Where the code and its comments disagree

Two runs are expected to be violated.

- `Server_object`.  Workers increment `g_active_workers` themselves, after they
  were spawned, so a stop in between deletes `g_service_obj` under them, which the
  comment at line 48 says must not happen.
- `Keyboard_focus_loss`.  On a loss of focus `clearAllStates` pushes a keyboard event with
  key code 0, "Handled as empty in translator" (`cpp/SyntheticInputJni.cpp:58`), to do what
  `SyntheticFallbackManager.kt:52` logs as "Clearing synthetic states".  The translator
  knows no such key and the keys that were held stay pressed on the host.

The modules state further properties that TLC refutes on small instances, or that hold
only on the instances above.  No run is kept for them; they tell what the listed
properties cannot be extended to.

| Module | Property or instance | Why it fails |
|---|---|---|
| `UsbipSession` | `DiscardTargetLive` (instance of `Session_requests`) | an unlink follows a request after it released `request_mutex` |
| `UsbipSession` | `ThreadsExit` with `Faults = {"send"}`, two devices and a client with two requests | a failed send clears `is_connected` and the reaper may exit while the handler, blocked in `recv`, submits one more URB.  Nobody reaps it, and as long as the counter is positive the reapers of all sessions go on, although `cpp/usbip_server.cpp:232` promises that no thread stays attached forever.  `StopReturns` exempts such a URB (`Orphaned`) |
| `DeviceFds` | `RegistryLive` | a clean-up between the read of `fileDescriptor` and `updateDeviceFd` closes the number, which is then registered |
| `DeviceFds` | `ReaperFollows` | after a second attach the handler goes to the new descriptor, the reaper stays with the old one, which is open |
| `DeviceFds` | `InFlightDrains`, `StopCompletes` under `FairSpec` | closing a usbfs descriptor kills its URBs, nobody uncounts them, the reapers go on and a stop waits for them |
| `DeviceFds` | `ImportLive` | a stop closes the registered descriptors, Kotlin keeps its handles, an import after the restart gets a closed one |
| `DeviceFds` | `OwnSocket`, and `ClientMapExact` and `RecvReachable` without the exemption of `reused` | a number is closed twice, the second time as somebody else's |
| `ServerLifecycle` | `StartReturns` (`Serial = FALSE`, one start) | `restartServerAndNsd` starts without `nativeServerMutex`; a start that finds a server joins its thread while holding the mutex that thread needs |
| `ServerLifecycle` | `AdvertisedListening` with `onDestroy` among the `Jobs`, or with `Serial = FALSE` | it stops the server before it withdraws the registration; an overlapping call takes the socket away |
| `SyntheticHid` | `ReportsInOrder` with two sessions | every TX thread polls the ring, also that of a session with a physical device: an event is reported twice or overtaken, although `MainActivity.kt:125` calls the ring a "Lock-Free SPSC queue" and `cpp/SyntheticInputJni.cpp:4` speaks of one "network worker thread" |
| `SyntheticHid` | `InterruptAnswered` with `Pipelined` | a second interrupt URB overwrites the parked seqnum and the first is never answered, although `cpp/SyntheticUrbHandler.cpp:122` says it is "Parked until PollSyntheticEvents produces input" |
| `SyntheticHid` | `WholePackets` with two that imported `synthetic-1` | one TX thread answers the other session's URB while its own handler is still sending the import reply |
| `DeviceAttach` | `OneBinding` (one device, two calls) | `activeDeviceIdTracker` is tested by one thread and filled by another later, and the permission broadcast does not test it: a device is opened twice and one connection never closed |
| `DeviceAttach` | `TimeoutMeansIgnored`, `NoGhostSession` | the timer of an answered prompt clears the flag of the next one; an unplugging is cleaned up during an attach |

## What is proved

For every value of the constants, checked by TLAPS.  The named ASSUMEs of the
modules are assumed throughout; further premises are part of the statement.

| Theorem | States | Premise |
|---|---|---|
| `UsbipSession_proofs!TypeCorrect` | `[]TypeOK` | |
| `UsbipSession_proofs!MemorySafety` | `[]MemorySafe` | |
| `UsbipSession_replies!Refinement` | `ImplementsRequests` | |
| `UsbipSession_replies!PendingEntries` | `[]PendingHasUrb` | |
| `UsbipSession_replies!RoutedOnce` | `[]RepliesRoutedOnce` | |
| `UsbipSession_replies!ExactlyOneFate` | `[]OneFate` | |
| `UsbipSession_proofs!CounterExact` | `[]InFlightExact` | |
| `UsbipSession_proofs!KernelEmptied` | `[]NothingLeftInKernel` | `Faults = {}` |
| `DeviceFds_proofs!TypeCorrect` | `[]TypeOK` | |
| `DeviceFds_proofs!CountCovers` | `[]CounterCovers` | |
| `DeviceFds_proofs!ClientMapKept` | `[]ClientMapExact` | |
| `DeviceFds_proofs!NobodyStuckInRecv` | `[]RecvReachable` | |
| `ServerLifecycle_proofs!TypeCorrect` | `[]TypeOK` | some descriptor number, finitely many clients |
| `ServerLifecycle_proofs!ClosedExactlyOnce` | `[]SocketClosedOnce` | some descriptor number |
| `ServerLifecycle_proofs!AcceptorsFresh` | `[]NoStaleAcceptor` | some descriptor number |
| `ServerLifecycle_proofs!StopWaitsForWorkers` | `StopAwaitsWorkers` | |
| `SPSCRing_proofs!TypeCorrect`, `!RaceFree`, `!ImplementsQueue` | `[]TypeOK`, `[]NoSlotRace`, `FIFO` | one consumer |
| `KeyboardReport_proofs!TypeCorrect`, `!ReportPacked`, `!ReportExact` | `[]TypeOK`, `[]Compact`, `[]ReportComplete` | |
| `DeviceAttach_proofs!TypeCorrect`, `!FlagCleared`, `!PendingHasReason`, `!QueueNotForgotten` | `[]TypeOK`, `[]FlagReleased`, `[]PendingExplained`, `[]NotForgotten` | |
| `SyntheticHid_proofs!TypeCorrect` | `[]TypeOK` | |
| `SyntheticHid_proofs!PacketsWhole` | `[]WholePackets` | `OneClient`: one session imported `synthetic-1` |
| `SyntheticHid_proofs!ReportsOrdered` | `[]OrderedUnlessOverlapped` | |
| `SyntheticHid_proofs!AnswersMatch` | `[]AnswersAsker` | |

**The session engine.**  `MemorySafe` is not inductive: it says that what the threads
may follow is live, not why nobody frees it.  `Inv` adds `Ownership`: a
sequence number not submitted has neither memory nor URB (`Fresh`); a handler that
prepares a request holds one of its own whose URB is not in the kernel
(`HandlerHolds`); a reaper holds a URB it took from the kernel (`ReaperHolds`), no
two reapers the same one (`ReapersApart`); a settled request has left
`pending_requests` (`SettledErased`), whose entries are not completed
(`PendingOpen`).  Only the reaper frees a submitted request, after it was settled, so at
that moment no map, no kernel queue and no other thread has it.  `UnlinkKnown` and
`PacketInHand` are needed for the types of the replies.

On `Inv` rests `Answered`, which relates the life of every request to the replies in the
queues, in the TX threads' hands and on the wires: each reply is due, and a command has
at most one.  From it follow routing, the pending entries and, step by step, the
refinement.  `NotLost` adds the converse that `OneFate` needs: what was settled is with
a reaper or among the replies for as long as the session is up.  `Counting` says the
counter is the cardinality of a finite set that every action changes by at most one
element; `Emptied` that, with `Faults = {}`, a connection ends only when its handler
leaves, so a reaper exits only after that, and with nothing in flight anywhere.

**Descriptors.**  `TypeInv` bounds the counter from both sides: it covers the URBs of the
kernel, and a submission that passed the bound may still add one (`Counted`).  `Inv` says
of every copy of a number what it refers to, what it was made for or nothing any more
(`DeviceCopies`, `SocketCopies`), as long as the number is not in `reused`.  A number can
only come to mean something else by being handed out, which puts it there if anybody has a
copy (`NewNumber`); so two threads that close a number outside `reused` close the same
file, and the second close does nothing.  What remains is the order of the steps: the
client map lets go of a number before it is closed, and a socket is shut down before
anybody but its worker closes it.  `ClientInHand` and `Importers` follow an entry of the
client map from import to clean-up.

**The server.**  `Sockets`: a server thread that has not ended is the one
`g_server_thread` stands for, so there is at most one; a start keeps the mutex until it
has bound (`StartHolds`); a number refers to the current listening socket or to none
(`OneSocket`), and every other socket was closed once.  `Tally`: `g_active_workers` is
the cardinality of the set of threads that counted themselves, for which each thread has
to be spawned only once (`SpawnedOnce`).  `Urbs` says the same of `in_flight_urbs_count`
and the connections' URBs, the lost ones included.

**The ring.**  Every step is a stutter of the queue except the store of `tail`
(`PublishPushes`) and that of `head` (`AdvancePops`).

**The keyboard.**  The report is packed: the occupied slots come first and hold distinct
keys, each of them not yet released, so that one removal is enough for a release.  That a
press finds a free slot while no seventh key is down is a matter of cardinality.

**Permissions.**  `FlagReleased` is inductive once the shape of the state is known.  A
pending entry has a thread that carries its device from step to step until it
clears the entry or hands it on, an attach job that waits, or a prompt that is not
answered (`Explained`).  That `connections` never goes below zero needs a count: for
each device, the threads that have opened it and not yet stored the handle (`Opening`)
are at most as many as the open connections `openedDevices` does not hold (`Spare`).  For
the queue, `Looked` lists who is on the way to it; whoever puts a device there or clears the
flag is, or leaves `stranded` behind.

**The synthetic device.**  What a writer has left is not an arbitrary list of
slices but `Rest(p, n)`, the rest of a packet `p` whose first `n` bytes are gone: one
slice or two.  `AdvanceRest` shows that advancing by `k` bytes and dropping what
is empty gives `Rest(p, n + k)`, and `DataOfRest` that the bytes taken are the run from `n + 1` on,
so a system call always appends consecutive bytes of one packet.  Which packet comes
next is a matter of turns (`TurnTaking`): while a session's handler sends the import
reply, its queue is empty, and no TX thread has an event, because `isActive` was reset
by the import and nobody but the importer sets it.  Then a socket that is not broken
is between packets or where its one writer will go on (`Framed`).

As long as one TX thread at a time is inside `PollSyntheticEvents` (`Alone`), the ring has
the one consumer it is made for.  `RingInv` then says that the slots from `head` to
`tail` hold the events pushed and not yet taken, `InHand` that the polling thread holds the
last one taken; the k-th report is the k-th known event because the rank of a position
grows by one with each known event and not otherwise.  The threads may take turns, and be
any number: `OrderedUnlessOverlapped` needs nothing of the sessions, and says that two
pollers at once are the only way to lose the order.

For the answers, `MatchedIn` follows every packet from the queue through the TX thread's
hands to the wire: it answers a control request or unlink of its own session, or is a
report, which only ever names what the parked `seqnum` named.  `DistinctIn` says that queue,
hand and wire never have two packets for one such command.  Nothing is assumed of the
clients; what the parked URB loses when they pipeline, unlink it or import it twice
concerns reports, of which `AnswersAsker` says no more than that they name an interrupt URB.

The one premise, `OneClient`, is where the code stops being right, not where the proof
does: TLC refutes `WholePackets` when two sessions import `synthetic-1`.

Assumptions on constants that the proofs need and the code gives: the IO threads and
the connections are finitely many; the ring has a slot; headers, reports and descriptors
have lengths.  `Without`, the `removeAll` of `detachDevice`, and `Compact` of
`SocketTransfer` are written with positions instead of `SelectSeq`, of which the
prover knows nothing; they are the same sequences.

Only model-checked: every liveness property (fairness and ENABLED are outside the prover).
Every invariant and action property that a passing run checks is also proved, under the
premises listed, but two: `AdvertisedListening`, which needs calls that take turns, and
`ReportsInOrder`, which needs a single poller.  What a recursive definition computes for
every input would need induction with an operator as a parameter, which the prover cannot
instantiate; no module needs it.

## Not modelled

- The content and length of transfers for physical devices, and with it the ignored
  result of `recv_all_timed`; descriptor layout, the device list and device
  information: byte layout without protocol state.
- Performance locks: a counter of balanced calls, unbalanced by a worker that finds no
  `g_service_obj` on one of its two calls, which is the race `ServiceObjLive` is about.
- Telemetry: counters under one mutex that decide nothing.
- `getBusId`'s counter, `onDestroy`'s clearing of the maps, the list the UI shows.
- The creation and destruction of the ring; mouse reports.
- `recv_all` and `recv_all_timed` are one step of their callers: a partial read is
  resumed in the loop and seen by nobody.
- User interface, error log, address lookup, NSD callbacks: input and output.

## Plan

Done, in this order: `UsbipSession`, `ServerLifecycle`, `BoundedQueue` and `SPSCRing`,
`SyntheticHid`, `KeyboardReport`, `DeviceAttach`; then `UsbRequests` with its
refinement, `DeviceFds`, `SocketTransfer`, the commands of `SyntheticHid`; then the
proofs above; last the reaper's loop in `ServerLifecycle`, the overlap of attach and
clean-up and the reuse of numbers in `DeviceFds`, and what several sessions and clients
that do not wait may rely on in `SyntheticHid`.

Left: `BusIds` for `getBusId` and the performance locks over the workers of
`ServerLifecycle`, both of which would state what is already known to fail; the life of
the ring together with the TX threads; the mouse branch of `PollSyntheticEvents`.  Of
the proofs, that the ring `SyntheticHid` composes still implements `BoundedQueue`, and
an abstract specification of the device that `SyntheticHid` implements.
