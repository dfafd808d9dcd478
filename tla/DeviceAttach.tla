---------------------------- MODULE DeviceAttach ----------------------------
(***************************************************************************)
(* UsbServerService.kt: how a USB device gets its permission, is opened and *)
(* exported, and is taken down again.  The main thread runs the broadcast   *)
(* receiver and the buttons, IO threads run the coroutines of serviceScope; *)
(* every access to a concurrent map, the queue or the flag is a step.       *)
(*                                                                         *)
(* A device is plugged in once: its name, device id and bus id are one      *)
(* value.  Devices without a supported interface, the claiming of           *)
(* interfaces and the texts shown are left out; the UI map is a function of *)
(* opened and pending.                                                      *)
(***************************************************************************)
EXTENDS Integers, Sequences, FiniteSets, SequencesExt

CONSTANTS Devices, NoDevice,
          Main,      \* the main thread
          Io,        \* threads of Dispatchers.IO
          MaxCalls,  \* bound: connect and disconnect calls
          Unplugs    \* whether devices are unplugged

ASSUME DeviceAssumption == NoDevice \notin Devices
ASSUME ThreadAssumption == Main \notin Io /\ IsFiniteSet(Io)
ASSUME BoundAssumption == MaxCalls \in Nat /\ Unplugs \in BOOLEAN

Threads == Io \cup {Main}
Prompts == 1..MaxCalls  \* a call makes at most one permission request

VARIABLES
  queue,         \* permissionQueue
  isRequesting,  \* isRequestingPermission
  stranded,      \* whether a thread cleared the flag late, over a queued device
  prompt,        \* permission requests, in the order they were made
  device,        \* each device's entries in the maps, and the device itself
  pc, dev,       \* of each thread: control point, device it works on
  calls          \* connect and disconnect calls so far

queueVars == <<queue, isRequesting, stranded, prompt>>
vars == <<queueVars, device, pc, dev, calls>>

Init ==
  /\ queue = << >> /\ isRequesting = FALSE /\ stranded = FALSE
  /\ prompt = [n \in Prompts |-> [device |-> NoDevice, state |-> "none", timer |-> FALSE]]
  /\ device = [d \in Devices |->
       [pending |-> FALSE,      \* in pendingConnections
        tracked |-> FALSE,      \* in activeDeviceIdTracker
        opened |-> FALSE,       \* in openedDevices
        exported |-> FALSE,     \* the native side has its descriptor
        job |-> "none",         \* the attach job deviceJobs holds
        loose |-> 0,            \* attach jobs waiting that it no longer holds
        plug |-> "in",          \* external: the socket, the detach broadcast
        permitted |-> FALSE,    \* external: UsbManager.hasPermission
        connections |-> 0]]     \* open UsbDeviceConnections
  /\ pc = [t \in Threads |-> "idle"] /\ dev = [t \in Threads |-> NoDevice]
  /\ calls = 0

On(t) == device[dev[t]]

Goes(t, from, to) ==
  /\ pc[t] = from /\ pc' = [pc EXCEPT ![t] = to]
  /\ dev' = IF to = "idle" THEN [dev EXCEPT ![t] = NoDevice] ELSE dev
Begin(t, d, to) ==
  /\ pc[t] = "idle" /\ pc' = [pc EXCEPT ![t] = to]
  /\ dev' = [dev EXCEPT ![t] = d]

\* A step that reads, and one that leaves the entries of its device as r.
Test(t, from, to) == Goes(t, from, to) /\ UNCHANGED <<queueVars, device, calls>>
Step(t, from, to, r) ==
  /\ Goes(t, from, to)
  /\ device' = [device EXCEPT ![dev[t]] = r]
  /\ UNCHANGED <<queueVars, calls>>

-----------------------------------------------------------------------------
(* handleIncomingDevice, called for an attach broadcast, a button or an intent *)

Call(t, d, to) == calls < MaxCalls /\ calls' = calls + 1 /\ Begin(t, d, to)

HandleIncomingDevice(t, d) ==
  /\ device[d].plug = "in"
  /\ Call(t, d, "guardTracker")
  /\ UNCHANGED <<queueVars, device>>

ConnectDeviceManually(d) ==
  /\ device[d].plug = "in"
  /\ Call(Main, d, "guardTracker")
  /\ device' = [device EXCEPT ![d].pending = FALSE]
  /\ UNCHANGED queueVars

GuardTracker(t) == Test(t, "guardTracker", IF On(t).tracked THEN "idle" ELSE "guardPending")
GuardPending(t) == Test(t, "guardPending", IF On(t).pending THEN "idle" ELSE "permission")

HasPermission(t) ==
  \/ /\ dev[t] # NoDevice /\ On(t).permitted
     /\ Step(t, "permission", "cancel", [On(t) EXCEPT !.pending = TRUE])
  \/ dev[t] # NoDevice /\ ~On(t).permitted /\ Test(t, "permission", "testQueue")

\* deviceJobs.remove(busId)?.cancel(): attachDevice does not suspend, so only a
\* job that has not started is stopped.
CancelPrevious(t) == Step(t, "cancel", "launch", [On(t) EXCEPT !.job = "none"])

LaunchAttach(t) ==
  Step(t, "launch", "idle",
       [On(t) EXCEPT !.job = "waiting",
                     !.loose = IF On(t).job = "waiting" THEN @ + 1 ELSE @])

TestQueue(t) == Test(t, "testQueue", IF Contains(queue, dev[t]) THEN "idle" ELSE "enqueue")

Enqueue(t) ==
  /\ Goes(t, "enqueue", "next")
  /\ queue' = Append(queue, dev[t])
  /\ UNCHANGED <<isRequesting, stranded, prompt, device, calls>>

-----------------------------------------------------------------------------
(* processNextPermissionRequest *)

NextIsEmpty(t) == Test(t, "next", IF queue = << >> THEN "idle" ELSE "claim")

\* compareAndSet(false, true)
Claim(t) ==
  /\ Goes(t, "claim", IF isRequesting THEN "idle" ELSE "poll")
  /\ isRequesting' = TRUE
  /\ UNCHANGED <<queue, stranded, prompt, device, calls>>

Poll(t) ==
  \/ queue = << >> /\ Test(t, "poll", "unclaim")
  \/ /\ queue # << >> /\ pc[t] = "poll"
     /\ pc' = [pc EXCEPT ![t] = "ask"] /\ dev' = [dev EXCEPT ![t] = Head(queue)]
     /\ queue' = Tail(queue)
     /\ UNCHANGED <<isRequesting, stranded, prompt, device, calls>>

Unclaim(t) ==
  /\ Goes(t, "unclaim", "idle")
  /\ isRequesting' = FALSE
  /\ stranded' = (stranded \/ queue # << >>)
  /\ UNCHANGED <<queue, prompt, device, calls>>

AskWith(t, timer) ==
  /\ Goes(t, "ask", "idle")
  /\ \E n \in Prompts :
       /\ prompt[n].state = "none" /\ \A m \in 1..(n - 1) : prompt[m].state # "none"
       /\ prompt' = [prompt EXCEPT ![n] =
                       [device |-> dev[t], state |-> "launched", timer |-> timer]]
  /\ device' = [device EXCEPT ![dev[t]].pending = TRUE]
  /\ UNCHANGED <<queue, isRequesting, stranded, calls>>

Ask_NoTimer(t) == AskWith(t, FALSE)
\* Two coroutines are launched: the request, on the main thread, and the timer.
Ask(t) == AskWith(t, TRUE)

RequestPermission(n) ==
  /\ pc[Main] = "idle" /\ prompt[n].state = "launched"
  /\ prompt' = [prompt EXCEPT ![n].state = "shown"]
  /\ UNCHANGED <<queue, isRequesting, stranded, device, pc, dev, calls>>

\* External: the user answers, and the permission is there before the broadcast is.
UserAnswers(n) ==
  /\ prompt[n].state = "shown"
  /\ \/ /\ device[prompt[n].device].plug = "in"
        /\ prompt' = [prompt EXCEPT ![n].state = "granted"]
        /\ device' = [device EXCEPT ![prompt[n].device].permitted = TRUE]
     \/ prompt' = [prompt EXCEPT ![n].state = "denied"] /\ UNCHANGED device
  /\ UNCHANGED <<queue, isRequesting, stranded, pc, dev, calls>>

\* ACTION_USB_PERMISSION_SERVICE
PermissionResult(n) ==
  /\ \/ prompt[n].state = "granted" /\ Begin(Main, prompt[n].device, "attach")
     \/ prompt[n].state = "denied" /\ Begin(Main, prompt[n].device, "deny")
  /\ prompt' = [prompt EXCEPT ![n].state = "answered"]
  /\ isRequesting' = FALSE
  /\ UNCHANGED <<queue, stranded, device, calls>>

Deny_KeepsPending(t) == Test(t, "deny", "next")
\* A denied request, and one that timed out.
Deny(t) == Step(t, "deny", "next", [On(t) EXCEPT !.pending = FALSE])

Timeout_NoNext(t, n) ==
  /\ pc[t] = "idle" /\ prompt[n].timer
  /\ prompt' = [prompt EXCEPT ![n].timer = FALSE]
  /\ isRequesting' = FALSE
  /\ UNCHANGED <<queue, stranded, device, pc, dev, calls>>

\* The 30 s timer of a request clears the flag, whatever request has set it.
Timeout(t, n) ==
  /\ pc[t] = "idle" /\ prompt[n].timer
  /\ prompt' = [prompt EXCEPT ![n].timer = FALSE]
  /\ isRequesting' = FALSE
  /\ IF isRequesting THEN Begin(t, prompt[n].device, "deny") ELSE UNCHANGED <<pc, dev>>
  /\ UNCHANGED <<queue, stranded, device, calls>>

-----------------------------------------------------------------------------
(* attachDevice: from the permission broadcast, or as a job *)

StartJob(t, d) ==
  /\ Begin(t, d, "attach")
  /\ \/ device[d].job = "waiting" /\ device' = [device EXCEPT ![d].job = "started"]
     \/ device[d].loose > 0 /\ device' = [device EXCEPT ![d].loose = @ - 1]
  /\ UNCHANGED <<queueVars, calls>>

OpenDevice(t) ==
  \/ /\ pc[t] = "attach" /\ On(t).permitted
     /\ Step(t, "attach", "track", [On(t) EXCEPT !.connections = @ + 1])
  \/ Test(t, "attach", "attached")  \* openDevice returns null or throws

Track(t) == Step(t, "track", "store", [On(t) EXCEPT !.tracked = TRUE])
StoreHandle(t) == Step(t, "store", "update", [On(t) EXCEPT !.opened = TRUE])
UpdateDeviceFd(t) == Step(t, "update", "attached", [On(t) EXCEPT !.exported = TRUE])
Attached(t) ==
  Step(t, "attached", IF t = Main THEN "next" ELSE "idle", [On(t) EXCEPT !.pending = FALSE])

-----------------------------------------------------------------------------
(* performComprehensiveCleanup: after a detach, or for a disconnect button *)

\* removeAll: what is not d stays, in its order.
Without(q, d) ==
  LET keep == {i \in DOMAIN q : q[i] # d}
  IN [k \in 1..Cardinality(keep) |->
        q[CHOOSE i \in keep : Cardinality({j \in keep : j <= i}) = k]]

DetachDevice(d) ==
  /\ device[d].plug = "out" /\ device' = [device EXCEPT ![d].plug = "gone"]
  /\ Begin(Main, d, "cleanup")
  /\ queue' = Without(queue, d)
  /\ UNCHANGED <<isRequesting, stranded, prompt, calls>>

DisconnectDeviceManually(t, d) ==
  /\ device[d].tracked \/ device[d].opened
  /\ Call(t, d, "cleanup")
  /\ UNCHANGED <<queueVars, device>>

CleanupJob(t) == Step(t, "cleanup", "cleanupPending", [On(t) EXCEPT !.job = "none"])
CleanupPending(t) == Step(t, "cleanupPending", "invalidate", [On(t) EXCEPT !.pending = FALSE])
InvalidateDeviceFd(t) == Step(t, "invalidate", "close", [On(t) EXCEPT !.exported = FALSE])
CloseHandle_Unchecked(t) ==
  Step(t, "close", "untrack", [On(t) EXCEPT !.opened = FALSE, !.connections = @ - 1])
CloseHandle(t) ==
  Step(t, "close", "untrack",
       [On(t) EXCEPT !.opened = FALSE,
                     !.connections = IF On(t).opened THEN @ - 1 ELSE @])
Untrack(t) == Step(t, "untrack", "idle", [On(t) EXCEPT !.tracked = FALSE])

\* External: a device leaves its socket.
Unplug(d) ==
  /\ Unplugs /\ device[d].plug = "in"
  /\ device' = [device EXCEPT ![d].plug = "out", ![d].permitted = FALSE]
  /\ UNCHANGED <<queueVars, pc, dev, calls>>

-----------------------------------------------------------------------------
\* The steps a thread takes once it has begun.
Running(t) ==
  \/ GuardTracker(t) \/ GuardPending(t) \/ HasPermission(t)
  \/ CancelPrevious(t) \/ LaunchAttach(t) \/ TestQueue(t) \/ Enqueue(t)
  \/ NextIsEmpty(t) \/ Claim(t) \/ Poll(t) \/ Unclaim(t) \/ Ask(t) \/ Deny(t)
  \/ OpenDevice(t) \/ Track(t) \/ StoreHandle(t) \/ UpdateDeviceFd(t) \/ Attached(t)
  \/ CleanupJob(t) \/ CleanupPending(t) \/ InvalidateDeviceFd(t) \/ CloseHandle(t) \/ Untrack(t)

Next ==
  \/ \E t \in Threads : Running(t)
  \/ \E t \in Threads, d \in Devices : HandleIncomingDevice(t, d)
  \/ \E t \in Io, d \in Devices : StartJob(t, d) \/ DisconnectDeviceManually(t, d)
  \/ \E t \in Io, n \in Prompts : Timeout(t, n)
  \/ \E n \in Prompts : RequestPermission(n) \/ UserAnswers(n) \/ PermissionResult(n)
  \/ \E d \in Devices : ConnectDeviceManually(d) \/ DetachDevice(d) \/ Unplug(d)

Spec == Init /\ [][Next]_vars

\* Threads run on, and a timer fires; nobody has to answer a prompt.
FairSpec ==
  /\ Spec
  /\ \A t \in Threads : WF_vars(Running(t))
  /\ \A n \in Prompts : WF_vars(\E t \in Io : Timeout(t, n))

-----------------------------------------------------------------------------
(* Properties *)

TypeOK ==
  /\ queue \in Seq(Devices) /\ isRequesting \in BOOLEAN /\ stranded \in BOOLEAN
  /\ prompt \in [Prompts -> [device : Devices \cup {NoDevice}, timer : BOOLEAN,
       state : {"none", "launched", "shown", "granted", "denied", "answered"}]]
  /\ device \in [Devices ->
       [pending : BOOLEAN, tracked : BOOLEAN, opened : BOOLEAN, exported : BOOLEAN,
        permitted : BOOLEAN, job : {"none", "waiting", "started"}, loose : Nat,
        plug : {"in", "out", "gone"}, connections : Nat]]
  /\ \A t \in Threads : (dev[t] = NoDevice) = (pc[t] = "idle")
  /\ calls \in 0..MaxCalls

\* isRequestingPermission is never set with nobody left to clear it: a thread is
\* about to ask, or the timer of some request still runs.
FlagReleased ==
  isRequesting => \/ \E t \in Threads : pc[t] \in {"poll", "unclaim", "ask"}
                  \/ \E n \in Prompts : prompt[n].timer

\* processNextPermissionRequest: a device waits in the queue with no request
\* outstanding only while some thread is on its way to the queue.  The exception is
\* a thread that polled an empty queue and cleared the flag after a device had been
\* added: nobody looks again.
NotForgotten ==
  (queue # << >> /\ ~isRequesting /\ ~stranded) =>
    \/ \E t \in Threads : pc[t] \in {"next", "claim", "deny"}
    \/ pc[Main] \in {"attach", "track", "store", "update", "attached"}

\* A device shown as connecting is one: it is being attached, an attach job waits,
\* or its permission request was not dealt with.  A stale pendingConnections entry
\* would make handleIncomingDevice turn the device away.
PendingExplained ==
  \A d \in Devices : device[d].pending =>
    \/ \E t \in Threads : dev[t] = d
    \/ device[d].job = "waiting" \/ device[d].loose > 0
    \/ \E n \in Prompts : prompt[n].device = d /\ prompt[n].state # "answered"

\* No device is opened twice: activeDeviceIdTracker is there to prevent it.
OneBinding == \A d \in Devices : device[d].connections <= 1

\* Once a detached device is cleaned up and no thread or job works on it, no map
\* holds a session of it: handleIncomingDevice's guard speaks of ghost sessions.
NoGhostSession ==
  \A d \in Devices :
    ( /\ device[d].plug = "gone" /\ device[d].job # "waiting" /\ device[d].loose = 0
      /\ \A t \in Threads : dev[t] # d )
    => ~device[d].tracked /\ ~device[d].opened /\ ~device[d].exported

\* The permission timer clears the flag only for a prompt the user ignored.
TimeoutMeansIgnored ==
  [][\A n \in Prompts :
       (isRequesting /\ prompt[n].timer /\ ~prompt'[n].timer) => prompt[n].state # "answered"]_vars

\* Every queued device gets its prompt (or leaves), unless it was stranded.
QueueServed ==
  \A d \in Devices : Contains(queue, d) ~> (~Contains(queue, d) \/ stranded)
=============================================================================
