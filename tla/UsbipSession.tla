---------------------------- MODULE UsbipSession ----------------------------
(***************************************************************************)
(* The USB/IP sessions of usbip_server.cpp.  Every accepted client has     *)
(* three threads: handle_client (recv loop), reap_thread (USBDEVFS_REAPURB)*)
(* and tcp_tx_thread (the only writer of replies).  They share the session *)
(* (pending_requests under request_mutex, tx_queue under tx_mutex, the     *)
(* atomic is_connected) and, with the threads of every other session, the  *)
(* process-wide in_flight_urbs_count.  Sessions that imported the same     *)
(* device share its usbfs descriptor, so one session's reaper may reap the *)
(* URB of another.                                                         *)
(*                                                                         *)
(* One action is one critical section, or one system call with the local   *)
(* work around it.  Lengths, payloads, setup packets, telemetry and log    *)
(* lines are left out.  Replacing a descriptor (updateDeviceFd and         *)
(* invalidateDeviceFd) is outside this module: descriptors stay open.      *)
(***************************************************************************)
EXTENDS Integers, Sequences, FiniteSets

CONSTANTS
  Sessions,   \* accepted connections
  Seqs,       \* sequence numbers
  Requests,   \* those each client uses, at most once
  Devices,    \* exported USB devices
  DeviceOf,   \* the device a session imports
  Faults,     \* what may go wrong: "send" (a TCP send fails), "unplug"
  NoReq,      \* a request pointer or seqnum not set
  NoPacket    \* a tx_packet pointer that is null

Owner(r) == r[1]
Commands(s) == {r \in Requests : Owner(r) = s}

\* seqnum is the request or unlink the reply answers; status is the URB's own
\* status, the errno of a refused submission, or the code of a RET_UNLINK.
Packets == [command : {"RET_SUBMIT"}, seqnum : Requests, status : {"urb", "errno"}]
             \cup [command : {"RET_UNLINK"}, seqnum : Requests, status : {"-2", "0"}]

ASSUME RequestAssumption == Requests \subseteq Sessions \X Seqs
ASSUME DeviceAssumption == DeviceOf \in [Sessions -> Devices]
ASSUME FaultAssumption == Faults \subseteq {"send", "unplug"}
ASSUME NullAssumption == NoReq \notin Requests /\ NoPacket \notin Packets

VARIABLES
  is_connected,          \* session_context::is_connected
  tx_queue,              \* session_context::tx_queue
  pending_requests,      \* the union of the sessions' pending_requests maps
  in_flight_urbs_count,  \* the process-wide counter
  hpc, hcur,             \* handle_client: control point, request in hand
  rpc, rcur, emit,       \* reap_thread: control point, reaped URB, reply due
  tpc, tcur,             \* tcp_tx_thread: control point, packet in hand
  heap,                  \* the PendingRequest and its async_urb_context
  state, unlink_seqnum,  \* fields of the PendingRequest
  urb,                   \* the URB as usbfs sees it
  dev,                   \* whether the device is still attached
  issued,                \* what the client used a sequence number for
  wire                   \* replies written to the client's socket

handlerVars == <<hpc, hcur>>
reaperVars  == <<rpc, rcur, emit>>
txVars      == <<tpc, tcur>>
heapVars    == <<heap, state, unlink_seqnum>>
vars == <<is_connected, tx_queue, pending_requests, in_flight_urbs_count,
          handlerVars, reaperVars, txVars, heapVars, urb, dev, issued, wire>>

Init ==
  /\ is_connected = [s \in Sessions |-> TRUE]
  /\ tx_queue = [s \in Sessions |-> << >>]
  /\ pending_requests = {}
  /\ in_flight_urbs_count = 0
  /\ hpc = [s \in Sessions |-> "handshake"]
  /\ hcur = [s \in Sessions |-> NoReq]
  /\ rpc = [s \in Sessions |-> "none"]
  /\ rcur = [s \in Sessions |-> NoReq]
  /\ emit = [s \in Sessions |-> "none"]
  /\ tpc = [s \in Sessions |-> "check"]
  /\ tcur = [s \in Sessions |-> NoPacket]
  /\ heap = [r \in Requests |-> "unallocated"]
  /\ state = [r \in Requests |-> "PENDING"]
  /\ unlink_seqnum = [r \in Requests |-> NoReq]
  /\ urb = [r \in Requests |-> "none"]
  /\ dev = [d \in Devices |-> "attached"]
  /\ issued = [r \in Requests |-> "unused"]
  /\ wire = [s \in Sessions |-> {}]

-----------------------------------------------------------------------------
(* Steps shared by the threads. *)

HandlerGoes(s, from, to) == hpc[s] = from /\ hpc' = [hpc EXCEPT ![s] = to]
ReaperGoes(s, from, to)  == rpc[s] = from /\ rpc' = [rpc EXCEPT ![s] = to]
TxGoes(s, from, to)      == tpc[s] = from /\ tpc' = [tpc EXCEPT ![s] = to]

\* A block's locals go out of scope.
HandlerForgets(s) == hcur' = [hcur EXCEPT ![s] = NoReq]
ReaperForgets(s) ==
  /\ rcur' = [rcur EXCEPT ![s] = NoReq]
  /\ emit' = [emit EXCEPT ![s] = "none"]

Disconnect(s) == is_connected' = [is_connected EXCEPT ![s] = FALSE]
Enqueue(s, pkt) == tx_queue' = [tx_queue EXCEPT ![s] = Append(@, pkt)]
Erase_Forgotten(r) == UNCHANGED pending_requests
Erase(r) == pending_requests' = pending_requests \ {r}
Free(r) == heap' = [heap EXCEPT ![r] = "freed"]

RetSubmit(r, st) == [command |-> "RET_SUBMIT", seqnum |-> r, status |-> st]
RetUnlink(u, st) == [command |-> "RET_UNLINK", seqnum |-> u, status |-> st]

\* URBs usbfs holds for the descriptor of session s's device.
OnDevice(s, st) == {r \in Requests : urb[r] = st /\ DeviceOf[Owner(r)] = DeviceOf[s]}

\* USBDEVFS_DISCARDURB: a URB still pending is cancelled before the call
\* returns; one that completed stays to be reaped; a detached device refuses.
Discard_Omitted(R) == UNCHANGED urb
Discard(R) ==
  urb' = [r \in Requests |->
            IF r \in R /\ urb[r] = "pending" /\ dev[DeviceOf[Owner(r)]] = "attached"
            THEN "done" ELSE urb[r]]

-----------------------------------------------------------------------------
(* handle_client *)

\* DEVLIST, a refused IMPORT or a short header: no reaper, no cleanup.
Refuse(s) ==
  /\ HandlerGoes(s, "handshake", "done")
  /\ Disconnect(s)
  /\ UNCHANGED <<tx_queue, pending_requests, in_flight_urbs_count, hcur,
                 reaperVars, txVars, heapVars, urb, dev, issued, wire>>

Import(s) ==
  /\ HandlerGoes(s, "handshake", "loop")
  /\ ReaperGoes(s, "none", "check")
  /\ UNCHANGED <<is_connected, tx_queue, pending_requests, in_flight_urbs_count, hcur,
                 rcur, emit, txVars, heapVars, urb, dev, issued, wire>>

LoopTest(s) ==
  /\ \/ is_connected[s] /\ HandlerGoes(s, "loop", "recv")
     \/ ~is_connected[s] /\ HandlerGoes(s, "loop", "leave")
  /\ UNCHANGED <<is_connected, tx_queue, pending_requests, in_flight_urbs_count, hcur,
                 reaperVars, txVars, heapVars, urb, dev, issued, wire>>

\* The client closes, sends half a header, an oversized length or an unknown command.
RecvFails(s) ==
  /\ HandlerGoes(s, "recv", "leave")
  /\ UNCHANGED <<is_connected, tx_queue, pending_requests, in_flight_urbs_count, hcur,
                 reaperVars, txVars, heapVars, urb, dev, issued, wire>>

RecvSubmit(s, r) ==
  /\ HandlerGoes(s, "recv", "prepare")
  /\ issued[r] = "unused"
  /\ issued' = [issued EXCEPT ![r] = "SUBMIT"]
  /\ hcur' = [hcur EXCEPT ![s] = r]
  /\ heap' = [heap EXCEPT ![r] = "live"]
  /\ state' = [state EXCEPT ![r] = "PENDING"]
  /\ pending_requests' = pending_requests \cup {r}
  /\ UNCHANGED <<is_connected, tx_queue, in_flight_urbs_count, reaperVars, txVars,
                 unlink_seqnum, urb, dev, wire>>

AllocFails_KeepsEntry(s) ==
  /\ HandlerGoes(s, "prepare", "leave")
  /\ Free(hcur[s])
  /\ HandlerForgets(s)
  /\ UNCHANGED <<is_connected, tx_queue, pending_requests, in_flight_urbs_count,
                 reaperVars, txVars, state, unlink_seqnum, urb, dev, issued, wire>>

\* new (std::nothrow) returns null: the loop is left.
AllocFails(s) ==
  /\ HandlerGoes(s, "prepare", "leave")
  /\ Erase(hcur[s])
  /\ Free(hcur[s])
  /\ HandlerForgets(s)
  /\ UNCHANGED <<is_connected, tx_queue, in_flight_urbs_count, reaperVars, txVars,
                 state, unlink_seqnum, urb, dev, issued, wire>>

\* SET_CONFIGURATION, SET_INTERFACE, SET_ADDRESS and CLEAR_FEATURE(HALT) are
\* answered by the handler, without a URB.
Intercept(s) ==
  /\ HandlerGoes(s, "prepare", "loop")
  /\ Erase(hcur[s])
  /\ state' = [state EXCEPT ![hcur[s]] = "COMPLETED"]
  /\ \E st \in {"urb", "errno"} : Enqueue(s, RetSubmit(hcur[s], st))
  /\ Free(hcur[s])
  /\ HandlerForgets(s)
  /\ UNCHANGED <<is_connected, in_flight_urbs_count, reaperVars, txVars,
                 unlink_seqnum, urb, dev, issued, wire>>

CountInFlight(s) ==
  /\ HandlerGoes(s, "prepare", "submit")
  /\ in_flight_urbs_count' = in_flight_urbs_count + 1
  /\ UNCHANGED <<is_connected, tx_queue, pending_requests, hcur, reaperVars, txVars,
                 heapVars, urb, dev, issued, wire>>

SubmitUrb(s) ==
  /\ HandlerGoes(s, "submit", "loop")
  /\ dev[DeviceOf[s]] = "attached"
  /\ urb' = [urb EXCEPT ![hcur[s]] = "pending"]
  /\ HandlerForgets(s)
  /\ UNCHANGED <<is_connected, tx_queue, pending_requests, in_flight_urbs_count,
                 reaperVars, txVars, heapVars, dev, issued, wire>>

\* USBDEVFS_SUBMITURB may refuse for many reasons besides a detached device.
SubmitFails(s) ==
  /\ HandlerGoes(s, "submit", "loop")
  /\ in_flight_urbs_count' = in_flight_urbs_count - 1
  /\ Erase(hcur[s])
  /\ state' = [state EXCEPT ![hcur[s]] = "COMPLETED"]
  /\ Enqueue(s, RetSubmit(hcur[s], "errno"))
  /\ Free(hcur[s])
  /\ HandlerForgets(s)
  /\ UNCHANGED <<is_connected, reaperVars, txVars, unlink_seqnum, urb, dev,
                 issued, wire>>

\* CMD_UNLINK u naming the earlier CMD_SUBMIT t.
RecvUnlink(s, u, t) ==
  /\ hpc[s] = "recv"
  /\ issued[u] = "unused"
  /\ issued[t] = "SUBMIT"
  /\ issued' = [issued EXCEPT ![u] = "UNLINK"]

UnlinkPending(s, u, t) ==
  /\ RecvUnlink(s, u, t)
  /\ t \in pending_requests
  /\ state[t] = "PENDING"
  /\ state' = [state EXCEPT ![t] = "UNLINKING"]
  /\ unlink_seqnum' = [unlink_seqnum EXCEPT ![t] = u]
  /\ hcur' = [hcur EXCEPT ![s] = t]
  /\ HandlerGoes(s, "recv", "discard")
  /\ UNCHANGED <<is_connected, tx_queue, pending_requests, in_flight_urbs_count,
                 reaperVars, txVars, heap, urb, dev, wire>>

\* A second unlink of the same request is only logged.
UnlinkDuplicate(s, u, t) ==
  /\ RecvUnlink(s, u, t)
  /\ t \in pending_requests
  /\ state[t] # "PENDING"
  /\ HandlerGoes(s, "recv", "loop")
  /\ UNCHANGED <<is_connected, tx_queue, pending_requests, in_flight_urbs_count, hcur,
                 reaperVars, txVars, heapVars, urb, dev, wire>>

UnlinkMissing(s, u, t) ==
  /\ RecvUnlink(s, u, t)
  /\ t \notin pending_requests
  /\ Enqueue(s, RetUnlink(u, "0"))
  /\ HandlerGoes(s, "recv", "loop")
  /\ UNCHANGED <<is_connected, pending_requests, in_flight_urbs_count, hcur,
                 reaperVars, txVars, heapVars, urb, dev, wire>>

\* req_to_discard->ctx is read after request_mutex was released.  If a reaper
\* freed the request in between, the address handed to the kernel is whatever
\* the memory holds: nothing usbfs knows, or another URB of that device.
DiscardUrb(s) ==
  /\ HandlerGoes(s, "discard", "loop")
  /\ \/ heap[hcur[s]] = "live" /\ Discard({hcur[s]})
     \/ /\ heap[hcur[s]] = "freed"
        /\ \/ Discard({})
           \/ \E r \in OnDevice(s, "pending") : Discard({r})
  /\ HandlerForgets(s)
  /\ UNCHANGED <<is_connected, tx_queue, pending_requests, in_flight_urbs_count,
                 reaperVars, txVars, heapVars, dev, issued, wire>>

Leave(s) ==
  /\ HandlerGoes(s, "leave", "cleanup")
  /\ Disconnect(s)
  /\ UNCHANGED <<tx_queue, pending_requests, in_flight_urbs_count, hcur, reaperVars,
                 txVars, heapVars, urb, dev, issued, wire>>

Zombies_None(s) == {}
Zombies(s) == {r \in pending_requests : Owner(r) = s}

CleanupZombieUrbs(s) ==
  /\ HandlerGoes(s, "cleanup", "done")
  /\ Discard(Zombies(s))
  /\ UNCHANGED <<is_connected, tx_queue, pending_requests, in_flight_urbs_count, hcur,
                 reaperVars, txVars, heapVars, dev, issued, wire>>

-----------------------------------------------------------------------------
(* reap_thread *)

ReapCondition_OwnSession(s) == is_connected[s]
ReapCondition_InFlightOnly(s) == in_flight_urbs_count > 0
ReapCondition(s) == is_connected[s] \/ in_flight_urbs_count > 0

ReapCheck(s) ==
  /\ \/ ReapCondition(s) /\ ReaperGoes(s, "check", "reap")
     \/ ~ReapCondition(s) /\ ReaperGoes(s, "check", "done")
  /\ UNCHANGED <<is_connected, tx_queue, pending_requests, in_flight_urbs_count,
                 handlerVars, rcur, emit, txVars, heapVars, urb, dev, issued, wire>>

\* USBDEVFS_REAPURBNDELAY hands out any completed URB of the descriptor.
ReapUrb(s) ==
  /\ ReaperGoes(s, "reap", "settle")
  /\ \E r \in OnDevice(s, "done") :
       /\ rcur' = [rcur EXCEPT ![s] = r]
       /\ urb' = [urb EXCEPT ![r] = "reaped"]
  /\ UNCHANGED <<is_connected, tx_queue, pending_requests, in_flight_urbs_count,
                 handlerVars, emit, txVars, heapVars, dev, issued, wire>>

\* EAGAIN: poll for POLLOUT, then test the loop condition again.
ReapAgain(s) ==
  /\ ReaperGoes(s, "reap", "check")
  /\ OnDevice(s, "done") = {}
  /\ dev[DeviceOf[s]] = "attached"
  /\ UNCHANGED <<is_connected, tx_queue, pending_requests, in_flight_urbs_count,
                 handlerVars, rcur, emit, txVars, heapVars, urb, dev, issued, wire>>

\* ENODEV: the device is gone and nothing is left to reap at this moment.
ReapNoDevice(s) ==
  /\ ReaperGoes(s, "reap", "done")
  /\ OnDevice(s, "done") = {}
  /\ dev[DeviceOf[s]] = "detached"
  /\ UNCHANGED <<is_connected, tx_queue, pending_requests, in_flight_urbs_count,
                 handlerVars, rcur, emit, txVars, heapVars, urb, dev, issued, wire>>

EmitFor_DropsUnlinked(st) == IF st = "PENDING" THEN "RET_SUBMIT" ELSE "none"
EmitFor_AlwaysSubmit(st) == IF st = "COMPLETED" THEN "none" ELSE "RET_SUBMIT"
EmitFor(st) == CASE st = "PENDING" -> "RET_SUBMIT"
                 [] st = "UNLINKING" -> "RET_UNLINK"
                 [] st = "COMPLETED" -> "none"

\* The transition under the request_mutex of the session that owns the URB.
Settle(s) ==
  LET r == rcur[s] IN
  /\ ReaperGoes(s, "settle", "uncount")
  /\ emit' = [emit EXCEPT ![s] = EmitFor(state[r])]
  /\ state' = [state EXCEPT ![r] = "COMPLETED"]
  /\ pending_requests' = IF state[r] = "COMPLETED" THEN pending_requests
                                                   ELSE pending_requests \ {r}
  /\ UNCHANGED <<is_connected, tx_queue, in_flight_urbs_count, handlerVars, rcur, txVars,
                 heap, unlink_seqnum, urb, dev, issued, wire>>

Uncount_SubmitOnly(s) ==
  /\ ReaperGoes(s, "uncount", "reply")
  /\ in_flight_urbs_count' = in_flight_urbs_count - (IF emit[s] = "RET_SUBMIT" THEN 1 ELSE 0)
  /\ UNCHANGED <<is_connected, tx_queue, pending_requests, handlerVars, rcur, emit,
                 txVars, heapVars, urb, dev, issued, wire>>

Uncount(s) ==
  /\ ReaperGoes(s, "uncount", "reply")
  /\ in_flight_urbs_count' = in_flight_urbs_count - 1
  /\ UNCHANGED <<is_connected, tx_queue, pending_requests, handlerVars, rcur, emit,
                 txVars, heapVars, urb, dev, issued, wire>>

\* urb_session: the session that submitted the URB, not the reaper's own.
UrbSession_Reaper(s) == s
UrbSession(s) == Owner(rcur[s])

\* is_connected of the owner is read before the packet is queued.
Reply(s) ==
  /\ ReaperGoes(s, "reply", "enqueue")
  /\ emit[s] # "none"
  /\ is_connected[UrbSession(s)]
  /\ UNCHANGED <<is_connected, tx_queue, pending_requests, in_flight_urbs_count,
                 handlerVars, rcur, emit, txVars, heapVars, urb, dev, issued, wire>>

NoReply(s) ==
  /\ ReaperGoes(s, "reply", "check")
  /\ ~(emit[s] # "none" /\ is_connected[UrbSession(s)])
  /\ Free(rcur[s])
  /\ ReaperForgets(s)
  /\ UNCHANGED <<is_connected, tx_queue, pending_requests, in_flight_urbs_count,
                 handlerVars, txVars, state, unlink_seqnum, urb, dev, issued, wire>>

ReplyPacket_UnlinkSeqnum(r, e) ==
  IF e = "RET_SUBMIT" THEN RetSubmit(unlink_seqnum[r], "urb")
                      ELSE RetUnlink(unlink_seqnum[r], "-2")
ReplyPacket(r, e) ==
  IF e = "RET_SUBMIT" THEN RetSubmit(r, "urb") ELSE RetUnlink(unlink_seqnum[r], "-2")

EnqueueReply(s) ==
  LET r == rcur[s] IN
  /\ ReaperGoes(s, "enqueue", "check")
  /\ Enqueue(UrbSession(s), ReplyPacket(r, emit[s]))
  /\ Free(r)
  /\ ReaperForgets(s)
  /\ UNCHANGED <<is_connected, pending_requests, in_flight_urbs_count, handlerVars, txVars,
                 state, unlink_seqnum, urb, dev, issued, wire>>

-----------------------------------------------------------------------------
(* tcp_tx_thread *)

TxCheck(s) ==
  /\ TxGoes(s, "check", "wait")
  /\ is_connected[s]
  /\ UNCHANGED <<is_connected, tx_queue, pending_requests, in_flight_urbs_count,
                 handlerVars, reaperVars, tcur, heapVars, urb, dev, issued, wire>>

\* On exit whatever is still queued is deleted.
TxExit(s) ==
  /\ TxGoes(s, "check", "done")
  /\ ~is_connected[s]
  /\ tx_queue' = [tx_queue EXCEPT ![s] = << >>]
  /\ UNCHANGED <<is_connected, pending_requests, in_flight_urbs_count, handlerVars,
                 reaperVars, tcur, heapVars, urb, dev, issued, wire>>

TxPop(s) ==
  /\ TxGoes(s, "wait", "send")
  /\ tx_queue[s] # << >>
  /\ tcur' = [tcur EXCEPT ![s] = Head(tx_queue[s])]
  /\ tx_queue' = [tx_queue EXCEPT ![s] = Tail(@)]
  /\ UNCHANGED <<is_connected, pending_requests, in_flight_urbs_count, handlerVars,
                 reaperVars, heapVars, urb, dev, issued, wire>>

\* wait_for times out, or wakes because the session was disconnected.
TxIdle(s) ==
  /\ TxGoes(s, "wait", "check")
  /\ tx_queue[s] = << >>
  /\ UNCHANGED <<is_connected, tx_queue, pending_requests, in_flight_urbs_count,
                 handlerVars, reaperVars, tcur, heapVars, urb, dev, issued, wire>>

TxSend(s) ==
  /\ TxGoes(s, "send", "check")
  /\ wire' = [wire EXCEPT ![s] = @ \cup {tcur[s]}]
  /\ tcur' = [tcur EXCEPT ![s] = NoPacket]
  /\ UNCHANGED <<is_connected, tx_queue, pending_requests, in_flight_urbs_count,
                 handlerVars, reaperVars, heapVars, urb, dev, issued>>

\* A failed send only clears the flag: the socket is left open for recv.
TxFails(s) ==
  /\ "send" \in Faults
  /\ TxGoes(s, "send", "check")
  /\ Disconnect(s)
  /\ tcur' = [tcur EXCEPT ![s] = NoPacket]
  /\ UNCHANGED <<tx_queue, pending_requests, in_flight_urbs_count, handlerVars,
                 reaperVars, heapVars, urb, dev, issued, wire>>

-----------------------------------------------------------------------------
(* The USB device and usbfs *)

CompleteUrb(r) ==
  /\ urb[r] = "pending"
  /\ urb' = [urb EXCEPT ![r] = "done"]
  /\ UNCHANGED <<is_connected, tx_queue, pending_requests, in_flight_urbs_count,
                 handlerVars, reaperVars, txVars, heapVars, dev, issued, wire>>

\* The kernel marks the device detached first and completes its URBs after.
Unplug(d) ==
  /\ "unplug" \in Faults
  /\ dev[d] = "attached"
  /\ dev' = [dev EXCEPT ![d] = "detached"]
  /\ UNCHANGED <<is_connected, tx_queue, pending_requests, in_flight_urbs_count,
                 handlerVars, reaperVars, txVars, heapVars, urb, issued, wire>>

-----------------------------------------------------------------------------
Receive(s) ==
  \/ RecvFails(s)
  \/ \E r \in Commands(s) : RecvSubmit(s, r)
  \/ \E u, t \in Commands(s) : UnlinkPending(s, u, t) \/ UnlinkDuplicate(s, u, t) \/ UnlinkMissing(s, u, t)

Handle(s) ==
  \/ LoopTest(s) \/ AllocFails(s) \/ Intercept(s) \/ CountInFlight(s) \/ SubmitUrb(s)
  \/ SubmitFails(s) \/ DiscardUrb(s) \/ Leave(s) \/ CleanupZombieUrbs(s)

Reap(s) ==
  \/ ReapCheck(s) \/ ReapUrb(s) \/ ReapAgain(s) \/ ReapNoDevice(s)
  \/ Settle(s) \/ Uncount(s) \/ Reply(s) \/ NoReply(s) \/ EnqueueReply(s)

Transmit(s) == TxCheck(s) \/ TxExit(s) \/ TxPop(s) \/ TxIdle(s) \/ TxSend(s) \/ TxFails(s)

Finished ==
  /\ \A s \in Sessions : hpc[s] = "done" /\ rpc[s] \in {"none", "done"} /\ tpc[s] = "done"
  /\ UNCHANGED vars

Next ==
  \/ \E s \in Sessions : Refuse(s) \/ Import(s) \/ Receive(s) \/ Handle(s) \/ Reap(s) \/ Transmit(s)
  \/ \E r \in Requests : CompleteUrb(r)
  \/ \E d \in Devices : Unplug(d)
  \/ Finished

Spec == Init /\ [][Next]_vars

\* The OS runs every thread that is not blocked; a client need not send and a
\* device need not complete a URB.
FairSpec ==
  /\ Spec
  /\ \A s \in Sessions : WF_vars(Handle(s)) /\ WF_vars(Reap(s)) /\ WF_vars(Transmit(s))

-----------------------------------------------------------------------------
(* Properties *)

TypeOK ==
  /\ is_connected \in [Sessions -> BOOLEAN]
  /\ tx_queue \in [Sessions -> Seq(Packets)]
  /\ pending_requests \subseteq Requests
  /\ in_flight_urbs_count \in Int
  /\ hpc \in [Sessions -> {"handshake", "loop", "recv", "prepare", "submit", "discard",
                            "leave", "cleanup", "done"}]
  /\ hcur \in [Sessions -> Requests \cup {NoReq}]
  /\ rpc \in [Sessions -> {"none", "check", "reap", "settle", "uncount", "reply",
                            "enqueue", "done"}]
  /\ rcur \in [Sessions -> Requests \cup {NoReq}]
  /\ emit \in [Sessions -> {"none", "RET_SUBMIT", "RET_UNLINK"}]
  /\ tpc \in [Sessions -> {"check", "wait", "send", "done"}]
  /\ tcur \in [Sessions -> Packets \cup {NoPacket}]
  /\ heap \in [Requests -> {"unallocated", "live", "freed"}]
  /\ state \in [Requests -> {"PENDING", "UNLINKING", "COMPLETED"}]
  /\ unlink_seqnum \in [Requests -> Requests \cup {NoReq}]
  /\ urb \in [Requests -> {"none", "pending", "done", "reaped"}]
  /\ dev \in [Devices -> {"attached", "detached"}]
  /\ issued \in [Requests -> {"unused", "SUBMIT", "UNLINK"}]
  /\ wire \in [Sessions -> SUBSET Packets]

InKernel(r) == urb[r] \in {"pending", "done"}
Submitting(s, r) == hpc[s] \in {"prepare", "submit"} /\ hcur[s] = r
Reaping(s, r) == rpc[s] \in {"settle", "uncount", "reply", "enqueue"} /\ rcur[s] = r

\* Every pointer the code follows is to memory not yet freed: the entries of
\* pending_requests (cleanup_zombie_urbs and CMD_UNLINK read item->ctx), the
\* usercontext of a URB in the kernel (reap_thread reads it), and the context a
\* handler or a reaper has in hand.  The discard of an unlink is stated apart.
MemorySafe ==
  \A r \in Requests :
    \/ r \in pending_requests
    \/ InKernel(r)
    \/ \E s \in Sessions : Submitting(s, r) \/ Reaping(s, r)
    => heap[r] = "live"

\* The request whose URB CMD_UNLINK hands to USBDEVFS_DISCARDURB after it
\* released request_mutex has not been deleted by a reaper.
DiscardTargetLive ==
  \A s \in Sessions : hpc[s] = "discard" => heap[hcur[s]] = "live"

\* in_flight_urbs_count, which decides when every reaper may exit, is the number
\* of URBs between the handler's increment and the reaper's decrement.
CountedInFlight ==
  {r \in Requests :
     \/ InKernel(r)
     \/ \E s \in Sessions : hpc[s] = "submit" /\ hcur[s] = r
     \/ \E s \in Sessions : rpc[s] \in {"settle", "uncount"} /\ rcur[s] = r}
InFlightExact == in_flight_urbs_count = Cardinality(CountedInFlight)

InHand(s) == IF tcur[s] = NoPacket THEN << >> ELSE <<tcur[s]>>
Outgoing(s) == InHand(s) \o tx_queue[s]
Queued(s) == {Outgoing(s)[i] : i \in DOMAIN Outgoing(s)}
Replies(s) == wire[s] \cup Queued(s)

\* A reply goes to the client that sent the command, whichever reaper of the
\* device reaped its URB, and no reply is queued or written twice.
RepliesRoutedOnce ==
  \A s \in Sessions :
    /\ \A pkt \in Replies(s) : Owner(pkt.seqnum) = s
    /\ Cardinality(Queued(s)) = Len(Outgoing(s))
    /\ Queued(s) \cap wire[s] = {}

Completed(s, r) == \E st \in {"urb", "errno"} : RetSubmit(r, st) \in Replies(s)
Cancelled(s, r) == unlink_seqnum[r] # NoReq /\ RetUnlink(unlink_seqnum[r], "-2") \in Replies(s)
ReplyDue(r) == \E s \in Sessions : rpc[s] \in {"uncount", "reply", "enqueue"} /\ rcur[s] = r

\* While a session is up, every submitted request has exactly one fate: it is
\* still pending, a reaper is about to answer it, or it was answered, by a
\* RET_SUBMIT or by the -2 of its unlink and never by both.
OneFate ==
  \A r \in Requests :
    LET s == Owner(r)
        fates == <<r \in pending_requests, ReplyDue(r), Completed(s, r), Cancelled(s, r)>>
    IN issued[r] = "SUBMIT" /\ is_connected[s] /\ hpc[s] # "leave"
         => Cardinality({i \in DOMAIN fates : fates[i]}) = 1

\* A pending entry always has a thread or the kernel that will settle it: no
\* entry outlives its URB, which cleanup_zombie_urbs would discard again.
PendingHasUrb ==
  \A r \in pending_requests :
    \/ InKernel(r)
    \/ Submitting(Owner(r), r)
    \/ \E s \in Sessions : rpc[s] = "settle" /\ rcur[s] = r

\* Without send failures or unplugging, a reaper that exits leaves no URB of its
\* session in the kernel, where nobody would reap it.
NothingLeftInKernel ==
  \A s \in Sessions : rpc[s] = "done" => \A r \in Requests : Owner(r) = s => ~InKernel(r)

\* A URB that completed while its session is up is answered on the socket,
\* unless the session ends.
CompletionAnswered ==
  \A r \in Requests :
    urb[r] = "done" ~> \/ ~is_connected[Owner(r)]
                       \/ \E pkt \in wire[Owner(r)] :
                            pkt.seqnum = r \/ (pkt.seqnum = unlink_seqnum[r] /\ pkt.status = "-2")

\* A request being unlinked is answered with the unlink's seqnum, even if the
\* device itself would never complete it, unless the session ends.
UnlinkAnswered ==
  \A r \in Requests :
    state[r] = "UNLINKING" ~> \/ ~is_connected[Owner(r)]
                              \/ RetUnlink(unlink_seqnum[r], "-2") \in wire[Owner(r)]

\* When every client has gone, every reaper and every TX thread exits: the
\* comment on the thread-local JNI cache says that no thread is left attached
\* forever, and stopNativeServer waits for the last of them.
ThreadsExit ==
  (\A s \in Sessions : hpc[s] = "done")
    ~> (\A s \in Sessions : rpc[s] \in {"none", "done"} /\ tpc[s] = "done")

-----------------------------------------------------------------------------
(* What the client sees *)

\* A connection is over for its client once its handler is on the way out.
Up == [s \in Sessions |-> is_connected[s] /\ hpc[s] # "leave"]

\* unlink_seqnum is set only by the unlink that found the request pending.
FateOfSettled(r) == IF unlink_seqnum[r] = NoReq THEN "completed" ELSE "cancelled"
FateOfPending(r) == IF r \in pending_requests THEN "open" ELSE "abandoned"
Fate ==
  [r \in Requests |->
     IF issued[r] # "SUBMIT" THEN "none"
     ELSE IF state[r] = "COMPLETED" THEN FateOfSettled(r)
     ELSE IF state[r] = "UNLINKING" THEN "unlinking" ELSE FateOfPending(r)]

Client == INSTANCE UsbRequests WITH up <- Up, fate <- Fate, canceller <- unlink_seqnum

\* The three threads of each session together keep what UsbRequests promises a client.
ImplementsRequests == Client!Spec
=============================================================================
