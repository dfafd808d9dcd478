------------------------ MODULE UsbipSession_proofs ------------------------
(***************************************************************************)
(* Proofs about UsbipSession, for any number of sessions, sequence numbers *)
(* and devices and for every set of faults.                                *)
(*                                                                         *)
(* Neither TypeOK nor MemorySafe is inductive.  Inv adds who may hold a    *)
(* request and when: a handler between recv and USBDEVFS_SUBMITURB, then   *)
(* the kernel, then the one reaper that took the URB, which erases it from *)
(* pending_requests before it frees it.                                    *)
(*                                                                         *)
(* Nothing bounds the number of requests, so that the set that             *)
(* in_flight_urbs_count counts is finite is part of its invariant.  Each   *)
(* step of a thread adds one request to the set, removes one or leaves it  *)
(* alone, and moves the counter likewise; that a request is added or       *)
(* removed once needs Inv.                                                 *)
(***************************************************************************)
EXTENDS UsbipSession, FiniteSetTheorems, TLAPS

Holding == {"settle", "uncount", "reply", "enqueue"}
Settled == {"uncount", "reply", "enqueue"}

\* A sequence number not used for a CMD_SUBMIT has no memory and no URB.
Fresh == \A r \in Requests :
  issued[r] # "SUBMIT" => heap[r] = "unallocated" /\ urb[r] = "none"

\* A handler preparing a request holds one of its own, not yet submitted.
HandlerHolds == \A s \in Sessions :
  hpc[s] \in {"prepare", "submit"} =>
    /\ hcur[s] \in Requests
    /\ Owner(hcur[s]) = s
    /\ issued[hcur[s]] = "SUBMIT"
    /\ urb[hcur[s]] = "none"

\* A reaper holds a request whose URB it took from the kernel.
ReaperHolds == \A s \in Sessions :
  rpc[s] \in Holding =>
    /\ rcur[s] \in Requests
    /\ issued[rcur[s]] = "SUBMIT"
    /\ urb[rcur[s]] = "reaped"

\* No two reapers hold the same request.
ReapersApart == \A s, t \in Sessions :
  rpc[s] \in Holding /\ rpc[t] \in Holding /\ rcur[s] = rcur[t] => s = t

\* Once settled a request has left pending_requests.
SettledErased == \A s \in Sessions :
  rpc[s] \in Settled => rcur[s] \notin pending_requests

PendingOpen == \A r \in pending_requests : state[r] # "COMPLETED"

\* A request being unlinked, or about to be answered as unlinked, has the seqnum
\* of its unlink.
UnlinkKnown ==
  /\ \A r \in Requests : state[r] = "UNLINKING" => unlink_seqnum[r] \in Requests
  /\ \A s \in Sessions :
       rpc[s] \in Settled /\ emit[s] = "RET_UNLINK" => unlink_seqnum[rcur[s]] \in Requests
  /\ \A s \in Sessions : rpc[s] = "enqueue" => emit[s] # "none"

PacketInHand == \A s \in Sessions : tpc[s] = "send" => tcur[s] \in Packets

Ownership ==
  /\ Fresh
  /\ HandlerHolds
  /\ ReaperHolds
  /\ ReapersApart
  /\ SettledErased
  /\ PendingOpen

Inv == TypeOK /\ MemorySafe /\ Ownership /\ UnlinkKnown /\ PacketInHand

-----------------------------------------------------------------------------
LEMMA RetSubmitType ==
  ASSUME NEW r \in Requests, NEW st \in {"urb", "errno"}
  PROVE  RetSubmit(r, st) \in Packets
BY DEF RetSubmit, Packets

LEMMA RetUnlinkType ==
  ASSUME NEW r \in Requests, NEW st \in {"-2", "0"}
  PROVE  RetUnlink(r, st) \in Packets
BY DEF RetUnlink, Packets

LEMMA RequestOwner ==
  ASSUME NEW r \in Requests
  PROVE  Owner(r) \in Sessions
BY RequestAssumption DEF Owner

LEMMA EnqueueType ==
  ASSUME TypeOK, NEW s \in Sessions, NEW pkt \in Packets, Enqueue(s, pkt)
  PROVE  tx_queue' \in [Sessions -> Seq(Packets)]
BY DEF TypeOK, Enqueue

LEMMA InitInv == Init => Inv
<1> SUFFICES ASSUME Init PROVE Inv
  OBVIOUS
<1>1. TypeOK
  BY DEF Init, TypeOK
<1>2. MemorySafe
  BY DEF Init, MemorySafe, InKernel, Submitting, Reaping
<1>3. Fresh /\ HandlerHolds /\ ReaperHolds /\ ReapersApart /\ SettledErased /\ PendingOpen
  BY DEF Init, Fresh, HandlerHolds, ReaperHolds, ReapersApart, SettledErased, PendingOpen,
      Holding, Settled
<1>4. UnlinkKnown /\ PacketInHand
  BY DEF Init, UnlinkKnown, PacketInHand, Settled
<1> QED
  BY <1>1, <1>2, <1>3, <1>4 DEF Inv, Ownership

-----------------------------------------------------------------------------
LEMMA DiscardKeeps ==
  ASSUME TypeOK, NEW R, Discard(R)
  PROVE  /\ urb' \in [Requests -> {"none", "pending", "done", "reaped"}]
         /\ \A r \in Requests : urb'[r] = urb[r] \/ (urb[r] = "pending" /\ urb'[r] = "done")
<1>1. urb' = [r \in Requests |->
                IF r \in R /\ urb[r] = "pending" /\ dev[DeviceOf[Owner(r)]] = "attached"
                THEN "done" ELSE urb[r]]
  BY DEF Discard
<1>2. urb \in [Requests -> {"none", "pending", "done", "reaped"}]
  BY DEF TypeOK
<1>3. \A r \in Requests : urb'[r] = urb[r] \/ (urb[r] = "pending" /\ urb'[r] = "done")
  BY <1>1, <1>2
<1>4. urb' \in [Requests -> {"none", "pending", "done", "reaped"}]
  BY <1>1, <1>2
<1> QED
  BY <1>3, <1>4

-----------------------------------------------------------------------------
LEMMA ReceiveInv ==
  ASSUME Inv, NEW s \in Sessions, Receive(s)
  PROVE  Inv'
<1> USE DEF Inv, HandlerGoes, ReaperGoes, TxGoes, HandlerForgets, ReaperForgets,
            Disconnect, Erase, Free, Enqueue, handlerVars, reaperVars, txVars, heapVars
<1>1. CASE RecvFails(s)
  <2>1. TypeOK'
    BY <1>1 DEF RecvFails, TypeOK
  <2>2. MemorySafe'
    BY <1>1 DEF RecvFails, MemorySafe, InKernel, Submitting, Reaping
  <2>3. Ownership'
    BY <1>1 DEF RecvFails, Ownership, Fresh, HandlerHolds, ReaperHolds, ReapersApart,
        SettledErased, PendingOpen
  <2>4. UnlinkKnown'
    BY <1>1 DEF RecvFails, UnlinkKnown
  <2>5. PacketInHand'
    BY <1>1 DEF RecvFails, PacketInHand
  <2> QED  BY <2>1, <2>2, <2>3, <2>4, <2>5 DEF Inv
<1>2. ASSUME NEW r \in Commands(s), RecvSubmit(s, r)
         PROVE  Inv'
  <2>1. TypeOK'
    BY <1>2, RetSubmitType, RetUnlinkType, RequestOwner DEF RecvSubmit, Commands, TypeOK
  <2>2. MemorySafe'
    BY <1>2 DEF RecvSubmit, Commands, TypeOK, MemorySafe, InKernel, Submitting, Reaping
  <2>3. Ownership'
    BY <1>2 DEF RecvSubmit, Commands, TypeOK, Ownership, Fresh, HandlerHolds, ReaperHolds,
        ReapersApart, SettledErased, PendingOpen, Holding, Settled
  <2>4. UnlinkKnown'
    BY <1>2 DEF RecvSubmit, Commands, UnlinkKnown
  <2>5. PacketInHand'
    BY <1>2 DEF RecvSubmit, Commands, PacketInHand
  <2> QED  BY <2>1, <2>2, <2>3, <2>4, <2>5 DEF Inv
<1>3. ASSUME NEW u \in Commands(s), NEW t \in Commands(s), UnlinkPending(s, u, t)
         PROVE  Inv'
  <2>1. TypeOK'
    BY <1>3, RetSubmitType, RetUnlinkType, RequestOwner DEF UnlinkPending, RecvUnlink,
        Commands, TypeOK
  <2>2. MemorySafe'
    BY <1>3 DEF UnlinkPending, RecvUnlink, Commands, MemorySafe, InKernel, Submitting, Reaping
  <2>3. Ownership'
    BY <1>3 DEF UnlinkPending, RecvUnlink, Commands, Ownership, Fresh, HandlerHolds,
        ReaperHolds, ReapersApart, SettledErased, PendingOpen
  <2>4. UnlinkKnown'
    BY <1>3 DEF UnlinkPending, RecvUnlink, Commands, TypeOK, UnlinkKnown
  <2>5. PacketInHand'
    BY <1>3 DEF UnlinkPending, RecvUnlink, Commands, PacketInHand
  <2> QED  BY <2>1, <2>2, <2>3, <2>4, <2>5 DEF Inv
<1>4. ASSUME NEW u \in Commands(s), NEW t \in Commands(s), UnlinkDuplicate(s, u, t)
         PROVE  Inv'
  <2>1. TypeOK'
    BY <1>4 DEF UnlinkDuplicate, RecvUnlink, Commands, TypeOK
  <2>2. MemorySafe'
    BY <1>4 DEF UnlinkDuplicate, RecvUnlink, Commands, MemorySafe, InKernel, Submitting,
        Reaping
  <2>3. Ownership'
    BY <1>4 DEF UnlinkDuplicate, RecvUnlink, Commands, Ownership, Fresh, HandlerHolds,
        ReaperHolds, ReapersApart, SettledErased, PendingOpen
  <2>4. UnlinkKnown'
    BY <1>4 DEF UnlinkDuplicate, RecvUnlink, Commands, UnlinkKnown
  <2>5. PacketInHand'
    BY <1>4 DEF UnlinkDuplicate, RecvUnlink, Commands, PacketInHand
  <2> QED  BY <2>1, <2>2, <2>3, <2>4, <2>5 DEF Inv
<1>5. ASSUME NEW u \in Commands(s), NEW t \in Commands(s), UnlinkMissing(s, u, t)
         PROVE  Inv'
  <2>1. TypeOK'
    BY <1>5, RetSubmitType, RetUnlinkType, RequestOwner DEF UnlinkMissing, RecvUnlink,
        Commands, TypeOK
  <2>2. MemorySafe'
    BY <1>5 DEF UnlinkMissing, RecvUnlink, Commands, MemorySafe, InKernel, Submitting, Reaping
  <2>3. Ownership'
    BY <1>5 DEF UnlinkMissing, RecvUnlink, Commands, Ownership, Fresh, HandlerHolds,
        ReaperHolds, ReapersApart, SettledErased, PendingOpen
  <2>4. UnlinkKnown'
    BY <1>5 DEF UnlinkMissing, RecvUnlink, Commands, UnlinkKnown
  <2>5. PacketInHand'
    BY <1>5 DEF UnlinkMissing, RecvUnlink, Commands, PacketInHand
  <2> QED  BY <2>1, <2>2, <2>3, <2>4, <2>5 DEF Inv
<1> QED  BY <1>1, <1>2, <1>3, <1>4, <1>5 DEF Receive

LEMMA HandleInv ==
  ASSUME Inv, NEW s \in Sessions, Handle(s)
  PROVE  Inv'
<1> USE DEF Inv, HandlerGoes, ReaperGoes, TxGoes, HandlerForgets, ReaperForgets,
            Disconnect, Erase, Free, Enqueue, handlerVars, reaperVars, txVars, heapVars
<1>1. CASE LoopTest(s)
  <2>1. TypeOK'
    <3>1. PICK to \in {"recv", "leave"} : hpc' = [hpc EXCEPT ![s] = to]
      BY <1>1 DEF LoopTest
    <3>2. hpc' \in [Sessions -> {"handshake", "loop", "recv", "prepare", "submit", "discard",
                                 "leave", "cleanup", "done"}]
      BY <3>1 DEF TypeOK
    <3>3. QED
      BY <1>1, <3>2 DEF LoopTest, TypeOK
  <2>2. MemorySafe'
    <3>1. \A x \in Sessions, r \in Requests : Submitting(x, r)' => Submitting(x, r)
      BY <1>1 DEF LoopTest, TypeOK, Submitting
    <3>2. UNCHANGED <<pending_requests, urb, heap, rpc, rcur>>
      BY <1>1 DEF LoopTest
    <3>3. QED
      BY <3>1, <3>2 DEF MemorySafe, InKernel, Reaping
  <2>3. Ownership'
    BY <1>1 DEF LoopTest, TypeOK, Ownership, Fresh, HandlerHolds, ReaperHolds, ReapersApart,
        SettledErased, PendingOpen
  <2>4. UnlinkKnown'
    BY <1>1 DEF LoopTest, UnlinkKnown
  <2>5. PacketInHand'
    BY <1>1 DEF LoopTest, PacketInHand
  <2> QED  BY <2>1, <2>2, <2>3, <2>4, <2>5 DEF Inv
<1>2. CASE AllocFails(s)
  <2>1. TypeOK'
    BY <1>2, RetSubmitType, RetUnlinkType, RequestOwner DEF AllocFails, TypeOK
  <2>2. MemorySafe'
    BY <1>2 DEF AllocFails, TypeOK, MemorySafe, InKernel, Submitting, Reaping, Ownership,
        Fresh, HandlerHolds, ReaperHolds, ReapersApart, SettledErased, PendingOpen, Holding,
        Settled
  <2>3. Ownership'
    BY <1>2 DEF AllocFails, TypeOK, Ownership, Fresh, HandlerHolds, ReaperHolds,
        ReapersApart, SettledErased, PendingOpen
  <2>4. UnlinkKnown'
    BY <1>2 DEF AllocFails, UnlinkKnown
  <2>5. PacketInHand'
    BY <1>2 DEF AllocFails, PacketInHand
  <2> QED  BY <2>1, <2>2, <2>3, <2>4, <2>5 DEF Inv
<1>3. CASE Intercept(s)
  <2>0. hcur[s] \in Requests
    BY <1>3 DEF Intercept, Ownership, HandlerHolds
  <2>6. PICK st \in {"urb", "errno"} : Enqueue(s, RetSubmit(hcur[s], st))
    BY <1>3 DEF Intercept
  <2>7. tx_queue' \in [Sessions -> Seq(Packets)]
    BY <2>0, <2>6, RetSubmitType DEF TypeOK
  <2>1. TypeOK'
    BY <1>3, <2>0, <2>7 DEF Intercept, TypeOK
  <2>2. MemorySafe'
    BY <1>3 DEF Intercept, TypeOK, MemorySafe, InKernel, Submitting, Reaping, Ownership,
        Fresh, HandlerHolds, ReaperHolds, ReapersApart, SettledErased, PendingOpen, Holding,
        Settled
  <2>3. Ownership'
    BY <1>3 DEF Intercept, TypeOK, Ownership, Fresh, HandlerHolds, ReaperHolds, ReapersApart,
        SettledErased, PendingOpen
  <2>4. UnlinkKnown'
    BY <1>3 DEF Intercept, UnlinkKnown
  <2>5. PacketInHand'
    BY <1>3 DEF Intercept, PacketInHand
  <2> QED  BY <2>1, <2>2, <2>3, <2>4, <2>5 DEF Inv
<1>4. CASE CountInFlight(s)
  <2>1. TypeOK'
    BY <1>4 DEF CountInFlight, TypeOK
  <2>2. MemorySafe'
    BY <1>4 DEF CountInFlight, MemorySafe, InKernel, Submitting, Reaping
  <2>3. Ownership'
    BY <1>4 DEF CountInFlight, Ownership, Fresh, HandlerHolds, ReaperHolds, ReapersApart,
        SettledErased, PendingOpen
  <2>4. UnlinkKnown'
    BY <1>4 DEF CountInFlight, UnlinkKnown
  <2>5. PacketInHand'
    BY <1>4 DEF CountInFlight, PacketInHand
  <2> QED  BY <2>1, <2>2, <2>3, <2>4, <2>5 DEF Inv
<1>5. CASE SubmitUrb(s)
  <2>1. TypeOK'
    BY <1>5 DEF SubmitUrb, TypeOK
  <2>2. MemorySafe'
    BY <1>5 DEF SubmitUrb, TypeOK, MemorySafe, InKernel, Submitting, Reaping
  <2>3. Ownership'
    BY <1>5 DEF SubmitUrb, TypeOK, Ownership, Fresh, HandlerHolds, ReaperHolds, ReapersApart,
        SettledErased, PendingOpen
  <2>4. UnlinkKnown'
    BY <1>5 DEF SubmitUrb, UnlinkKnown
  <2>5. PacketInHand'
    BY <1>5 DEF SubmitUrb, PacketInHand
  <2> QED  BY <2>1, <2>2, <2>3, <2>4, <2>5 DEF Inv
<1>6. CASE SubmitFails(s)
  <2>0. hcur[s] \in Requests
    BY <1>6 DEF SubmitFails, Ownership, HandlerHolds
  <2>7. tx_queue' \in [Sessions -> Seq(Packets)]
    BY <1>6, <2>0, RetSubmitType DEF SubmitFails, TypeOK
  <2>1. TypeOK'
    BY <1>6, <2>0, <2>7 DEF SubmitFails, TypeOK
  <2>2. MemorySafe'
    BY <1>6 DEF SubmitFails, TypeOK, MemorySafe, InKernel, Submitting, Reaping, Ownership,
        Fresh, HandlerHolds, ReaperHolds, ReapersApart, SettledErased, PendingOpen, Holding,
        Settled
  <2>3. Ownership'
    BY <1>6 DEF SubmitFails, TypeOK, Ownership, Fresh, HandlerHolds, ReaperHolds,
        ReapersApart, SettledErased, PendingOpen
  <2>4. UnlinkKnown'
    BY <1>6 DEF SubmitFails, UnlinkKnown
  <2>5. PacketInHand'
    BY <1>6 DEF SubmitFails, PacketInHand
  <2> QED  BY <2>1, <2>2, <2>3, <2>4, <2>5 DEF Inv
<1>7. CASE DiscardUrb(s)
  <2>0. PICK R : Discard(R)
    BY <1>7 DEF DiscardUrb
  <2>6. /\ urb' \in [Requests -> {"none", "pending", "done", "reaped"}]
        /\ \A r \in Requests : urb'[r] = urb[r] \/ (urb[r] = "pending" /\ urb'[r] = "done")
    BY <2>0, DiscardKeeps
  <2>1. TypeOK'
    BY <1>7, <2>6 DEF DiscardUrb, TypeOK
  <2>2. MemorySafe'
    BY <1>7, <2>6 DEF DiscardUrb, MemorySafe, InKernel, Submitting, Reaping
  <2>3. Ownership'
    BY <1>7, <2>6 DEF DiscardUrb, Ownership, Fresh, HandlerHolds, ReaperHolds, ReapersApart,
        SettledErased, PendingOpen
  <2>4. UnlinkKnown'
    BY <1>7, <2>6 DEF DiscardUrb, UnlinkKnown
  <2>5. PacketInHand'
    BY <1>7, <2>6 DEF DiscardUrb, PacketInHand
  <2> QED  BY <2>1, <2>2, <2>3, <2>4, <2>5 DEF Inv
<1>8. CASE Leave(s)
  <2>1. TypeOK'
    BY <1>8 DEF Leave, TypeOK
  <2>2. MemorySafe'
    BY <1>8 DEF Leave, MemorySafe, InKernel, Submitting, Reaping
  <2>3. Ownership'
    BY <1>8 DEF Leave, Ownership, Fresh, HandlerHolds, ReaperHolds, ReapersApart,
        SettledErased, PendingOpen
  <2>4. UnlinkKnown'
    BY <1>8 DEF Leave, UnlinkKnown
  <2>5. PacketInHand'
    BY <1>8 DEF Leave, PacketInHand
  <2> QED  BY <2>1, <2>2, <2>3, <2>4, <2>5 DEF Inv
<1>9. CASE CleanupZombieUrbs(s)
  <2>0. Discard(Zombies(s))
    BY <1>9 DEF CleanupZombieUrbs
  <2>6. /\ urb' \in [Requests -> {"none", "pending", "done", "reaped"}]
        /\ \A r \in Requests : urb'[r] = urb[r] \/ (urb[r] = "pending" /\ urb'[r] = "done")
    BY <2>0, DiscardKeeps
  <2>1. TypeOK'
    BY <1>9, <2>6 DEF CleanupZombieUrbs, TypeOK
  <2>2. MemorySafe'
    BY <1>9, <2>6 DEF CleanupZombieUrbs, MemorySafe, InKernel, Submitting, Reaping
  <2>3. Ownership'
    BY <1>9, <2>6 DEF CleanupZombieUrbs, Ownership, Fresh, HandlerHolds, ReaperHolds,
        ReapersApart, SettledErased, PendingOpen
  <2>4. UnlinkKnown'
    BY <1>9, <2>6 DEF CleanupZombieUrbs, UnlinkKnown
  <2>5. PacketInHand'
    BY <1>9, <2>6 DEF CleanupZombieUrbs, PacketInHand
  <2> QED  BY <2>1, <2>2, <2>3, <2>4, <2>5 DEF Inv
<1> QED  BY <1>1, <1>2, <1>3, <1>4, <1>5, <1>6, <1>7, <1>8, <1>9 DEF Handle

LEMMA ReapInv ==
  ASSUME Inv, NEW s \in Sessions, Reap(s)
  PROVE  Inv'
<1> USE DEF Inv, HandlerGoes, ReaperGoes, TxGoes, HandlerForgets, ReaperForgets,
            Disconnect, Erase, Free, Enqueue, handlerVars, reaperVars, txVars, heapVars
<1>1. CASE ReapCheck(s)
  <2>0. rpc'[s] \notin Holding /\ \A u \in Sessions : u # s => rpc'[u] = rpc[u]
    BY <1>1 DEF ReapCheck, TypeOK, Holding
  <2>1. TypeOK'
    BY <1>1 DEF ReapCheck, TypeOK
  <2>2. MemorySafe'
    BY <1>1 DEF ReapCheck, TypeOK, MemorySafe, InKernel, Submitting, Reaping
  <2>3. Ownership'
    <3>1. (Fresh /\ HandlerHolds /\ PendingOpen)'
      BY <1>1 DEF ReapCheck, Ownership, Fresh, HandlerHolds, PendingOpen
    <3>2. (ReaperHolds /\ ReapersApart /\ SettledErased)'
      BY <1>1, <2>0 DEF ReapCheck, Ownership, ReaperHolds, ReapersApart, SettledErased,
          Holding, Settled
    <3> QED  BY <3>1, <3>2 DEF Ownership
  <2>4. UnlinkKnown'
    BY <1>1 DEF ReapCheck, TypeOK, UnlinkKnown, Settled
  <2>5. PacketInHand'
    BY <1>1 DEF ReapCheck, PacketInHand
  <2> QED  BY <2>1, <2>2, <2>3, <2>4, <2>5 DEF Inv
<1>2. CASE ReapUrb(s)
  <2>1. TypeOK'
    BY <1>2 DEF ReapUrb, OnDevice, TypeOK
  <2>2. MemorySafe'
    BY <1>2 DEF ReapUrb, OnDevice, TypeOK, MemorySafe, InKernel, Submitting, Reaping
  <2>3. Ownership'
    BY <1>2 DEF ReapUrb, OnDevice, TypeOK, Ownership, Fresh, HandlerHolds, ReaperHolds,
        ReapersApart, SettledErased, PendingOpen, Holding, Settled
  <2>4. UnlinkKnown'
    BY <1>2 DEF ReapUrb, OnDevice, UnlinkKnown, Settled
  <2>5. PacketInHand'
    BY <1>2 DEF ReapUrb, OnDevice, PacketInHand
  <2> QED  BY <2>1, <2>2, <2>3, <2>4, <2>5 DEF Inv
<1>3. CASE ReapAgain(s)
  <2>1. TypeOK'
    BY <1>3 DEF ReapAgain, TypeOK
  <2>2. MemorySafe'
    BY <1>3 DEF ReapAgain, MemorySafe, InKernel, Submitting, Reaping
  <2>3. Ownership'
    BY <1>3 DEF ReapAgain, Ownership, Fresh, HandlerHolds, ReaperHolds, ReapersApart,
        SettledErased, PendingOpen, Holding, Settled
  <2>4. UnlinkKnown'
    BY <1>3 DEF ReapAgain, UnlinkKnown, Settled
  <2>5. PacketInHand'
    BY <1>3 DEF ReapAgain, PacketInHand
  <2> QED  BY <2>1, <2>2, <2>3, <2>4, <2>5 DEF Inv
<1>4. CASE ReapNoDevice(s)
  <2>1. TypeOK'
    BY <1>4 DEF ReapNoDevice, TypeOK
  <2>2. MemorySafe'
    BY <1>4 DEF ReapNoDevice, MemorySafe, InKernel, Submitting, Reaping
  <2>3. Ownership'
    BY <1>4 DEF ReapNoDevice, Ownership, Fresh, HandlerHolds, ReaperHolds, ReapersApart,
        SettledErased, PendingOpen, Holding, Settled
  <2>4. UnlinkKnown'
    BY <1>4 DEF ReapNoDevice, UnlinkKnown, Settled
  <2>5. PacketInHand'
    BY <1>4 DEF ReapNoDevice, PacketInHand
  <2> QED  BY <2>1, <2>2, <2>3, <2>4, <2>5 DEF Inv
<1>5. CASE Settle(s)
  <2>0. rcur[s] \in Requests /\ EmitFor(state[rcur[s]]) \in {"none", "RET_SUBMIT", "RET_UNLINK"}
    BY <1>5 DEF Settle, Ownership, ReaperHolds, Holding, EmitFor, TypeOK
  <2>1. TypeOK'
    BY <1>5, <2>0 DEF Settle, TypeOK
  <2>2. MemorySafe'
    BY <1>5 DEF Settle, EmitFor, MemorySafe, InKernel, Submitting, Reaping
  <2>3. Ownership'
    BY <1>5 DEF Settle, EmitFor, Ownership, Fresh, HandlerHolds, ReaperHolds, ReapersApart,
        SettledErased, PendingOpen, Holding, Settled
  <2>4. UnlinkKnown'
    BY <1>5 DEF Settle, EmitFor, TypeOK, UnlinkKnown, Ownership, Fresh, HandlerHolds,
        ReaperHolds, ReapersApart, SettledErased, PendingOpen, Holding
  <2>5. PacketInHand'
    BY <1>5 DEF Settle, EmitFor, PacketInHand
  <2> QED  BY <2>1, <2>2, <2>3, <2>4, <2>5 DEF Inv
<1>6. CASE Uncount(s)
  <2>1. TypeOK'
    BY <1>6 DEF Uncount, TypeOK
  <2>2. MemorySafe'
    BY <1>6 DEF Uncount, MemorySafe, InKernel, Submitting, Reaping
  <2>3. Ownership'
    BY <1>6 DEF Uncount, Ownership, Fresh, HandlerHolds, ReaperHolds, ReapersApart,
        SettledErased, PendingOpen, Holding, Settled
  <2>4. UnlinkKnown'
    BY <1>6 DEF Uncount, UnlinkKnown, Settled
  <2>5. PacketInHand'
    BY <1>6 DEF Uncount, PacketInHand
  <2> QED  BY <2>1, <2>2, <2>3, <2>4, <2>5 DEF Inv
<1>7. CASE Reply(s)
  <2>1. TypeOK'
    BY <1>7 DEF Reply, UrbSession, TypeOK
  <2>2. MemorySafe'
    BY <1>7 DEF Reply, UrbSession, MemorySafe, InKernel, Submitting, Reaping
  <2>3. Ownership'
    BY <1>7 DEF Reply, UrbSession, Ownership, Fresh, HandlerHolds, ReaperHolds, ReapersApart,
        SettledErased, PendingOpen, Holding, Settled
  <2>4. UnlinkKnown'
    BY <1>7 DEF Reply, UrbSession, UnlinkKnown, Settled
  <2>5. PacketInHand'
    BY <1>7 DEF Reply, UrbSession, PacketInHand
  <2> QED  BY <2>1, <2>2, <2>3, <2>4, <2>5 DEF Inv
<1>8. CASE NoReply(s)
  <2>1. TypeOK'
    BY <1>8 DEF NoReply, UrbSession, TypeOK
  <2>2. MemorySafe'
    BY <1>8 DEF NoReply, UrbSession, TypeOK, MemorySafe, InKernel, Submitting, Reaping,
        Ownership, Fresh, HandlerHolds, ReaperHolds, ReapersApart, SettledErased,
        PendingOpen, Holding, Settled
  <2>3. Ownership'
    BY <1>8 DEF NoReply, UrbSession, TypeOK, Ownership, Fresh, HandlerHolds, ReaperHolds,
        ReapersApart, SettledErased, PendingOpen, Holding, Settled
  <2>4. UnlinkKnown'
    BY <1>8 DEF NoReply, UrbSession, TypeOK, UnlinkKnown
  <2>5. PacketInHand'
    BY <1>8 DEF NoReply, UrbSession, PacketInHand
  <2> QED  BY <2>1, <2>2, <2>3, <2>4, <2>5 DEF Inv
<1>9. CASE EnqueueReply(s)
  <2>6. ReplyPacket(rcur[s], emit[s]) \in Packets
    BY <1>9, RetSubmitType, RetUnlinkType DEF EnqueueReply, ReplyPacket, Ownership,
        ReaperHolds, UnlinkKnown, Holding, Settled, TypeOK
  <2>0. tx_queue' \in [Sessions -> Seq(Packets)]
    <3>1. UrbSession(s) \in Sessions
      BY <1>9, RequestOwner DEF EnqueueReply, UrbSession, Ownership, ReaperHolds, Holding
    <3>2. Enqueue(UrbSession(s), ReplyPacket(rcur[s], emit[s]))
      BY <1>9 DEF EnqueueReply
    <3> HIDE DEF Enqueue
    <3> QED  BY <2>6, <3>1, <3>2, EnqueueType
  <2>1. TypeOK'
    BY <1>9, <2>0 DEF EnqueueReply, TypeOK
  <2>2. MemorySafe'
    BY <1>9 DEF EnqueueReply, ReplyPacket, UrbSession, TypeOK, MemorySafe, InKernel,
        Submitting, Reaping, Ownership, Fresh, HandlerHolds, ReaperHolds, ReapersApart,
        SettledErased, PendingOpen, Holding, Settled
  <2>3. Ownership'
    BY <1>9 DEF EnqueueReply, ReplyPacket, UrbSession, TypeOK, Ownership, Fresh,
        HandlerHolds, ReaperHolds, ReapersApart, SettledErased, PendingOpen, Holding, Settled
  <2>4. UnlinkKnown'
    BY <1>9 DEF EnqueueReply, ReplyPacket, UrbSession, TypeOK, UnlinkKnown
  <2>5. PacketInHand'
    BY <1>9 DEF EnqueueReply, ReplyPacket, UrbSession, PacketInHand
  <2> QED  BY <2>1, <2>2, <2>3, <2>4, <2>5 DEF Inv
<1> QED  BY <1>1, <1>2, <1>3, <1>4, <1>5, <1>6, <1>7, <1>8, <1>9 DEF Reap

LEMMA TransmitInv ==
  ASSUME Inv, NEW s \in Sessions, Transmit(s)
  PROVE  Inv'
<1> USE DEF Inv, HandlerGoes, ReaperGoes, TxGoes, HandlerForgets, ReaperForgets,
            Disconnect, Erase, Free, Enqueue, handlerVars, reaperVars, txVars, heapVars
<1>1. CASE TxCheck(s)
  <2>1. TypeOK'
    BY <1>1 DEF TxCheck, TypeOK
  <2>2. MemorySafe'
    BY <1>1 DEF TxCheck, MemorySafe, InKernel, Submitting, Reaping
  <2>3. Ownership'
    BY <1>1 DEF TxCheck, Ownership, Fresh, HandlerHolds, ReaperHolds, ReapersApart,
        SettledErased, PendingOpen
  <2>4. UnlinkKnown'
    BY <1>1 DEF TxCheck, UnlinkKnown
  <2>5. PacketInHand'
    BY <1>1 DEF TxCheck, PacketInHand
  <2> QED  BY <2>1, <2>2, <2>3, <2>4, <2>5 DEF Inv
<1>2. CASE TxExit(s)
  <2>1. TypeOK'
    BY <1>2 DEF TxExit, TypeOK
  <2>2. MemorySafe'
    BY <1>2 DEF TxExit, MemorySafe, InKernel, Submitting, Reaping
  <2>3. Ownership'
    BY <1>2 DEF TxExit, Ownership, Fresh, HandlerHolds, ReaperHolds, ReapersApart,
        SettledErased, PendingOpen
  <2>4. UnlinkKnown'
    BY <1>2 DEF TxExit, UnlinkKnown
  <2>5. PacketInHand'
    BY <1>2 DEF TxExit, PacketInHand
  <2> QED  BY <2>1, <2>2, <2>3, <2>4, <2>5 DEF Inv
<1>3. CASE TxPop(s)
  <2>1. TypeOK'
    BY <1>3 DEF TxPop, TypeOK
  <2>2. MemorySafe'
    BY <1>3 DEF TxPop, MemorySafe, InKernel, Submitting, Reaping
  <2>3. Ownership'
    BY <1>3 DEF TxPop, Ownership, Fresh, HandlerHolds, ReaperHolds, ReapersApart,
        SettledErased, PendingOpen
  <2>4. UnlinkKnown'
    BY <1>3 DEF TxPop, UnlinkKnown
  <2>5. PacketInHand'
    BY <1>3 DEF TxPop, TypeOK, PacketInHand
  <2> QED  BY <2>1, <2>2, <2>3, <2>4, <2>5 DEF Inv
<1>4. CASE TxIdle(s)
  <2>1. TypeOK'
    BY <1>4 DEF TxIdle, TypeOK
  <2>2. MemorySafe'
    BY <1>4 DEF TxIdle, MemorySafe, InKernel, Submitting, Reaping
  <2>3. Ownership'
    BY <1>4 DEF TxIdle, Ownership, Fresh, HandlerHolds, ReaperHolds, ReapersApart,
        SettledErased, PendingOpen
  <2>4. UnlinkKnown'
    BY <1>4 DEF TxIdle, UnlinkKnown
  <2>5. PacketInHand'
    BY <1>4 DEF TxIdle, PacketInHand
  <2> QED  BY <2>1, <2>2, <2>3, <2>4, <2>5 DEF Inv
<1>5. CASE TxSend(s)
  <2>1. TypeOK'
    BY <1>5 DEF TxSend, TypeOK, PacketInHand
  <2>2. MemorySafe'
    BY <1>5 DEF TxSend, MemorySafe, InKernel, Submitting, Reaping
  <2>3. Ownership'
    BY <1>5 DEF TxSend, Ownership, Fresh, HandlerHolds, ReaperHolds, ReapersApart,
        SettledErased, PendingOpen
  <2>4. UnlinkKnown'
    BY <1>5 DEF TxSend, UnlinkKnown
  <2>5. PacketInHand'
    BY <1>5 DEF TxSend, TypeOK, PacketInHand
  <2> QED  BY <2>1, <2>2, <2>3, <2>4, <2>5 DEF Inv
<1>6. CASE TxFails(s)
  <2>1. TypeOK'
    BY <1>6 DEF TxFails, TypeOK
  <2>2. MemorySafe'
    BY <1>6 DEF TxFails, MemorySafe, InKernel, Submitting, Reaping
  <2>3. Ownership'
    BY <1>6 DEF TxFails, Ownership, Fresh, HandlerHolds, ReaperHolds, ReapersApart,
        SettledErased, PendingOpen
  <2>4. UnlinkKnown'
    BY <1>6 DEF TxFails, UnlinkKnown
  <2>5. PacketInHand'
    BY <1>6 DEF TxFails, TypeOK, PacketInHand
  <2> QED  BY <2>1, <2>2, <2>3, <2>4, <2>5 DEF Inv
<1> QED  BY <1>1, <1>2, <1>3, <1>4, <1>5, <1>6 DEF Transmit

-----------------------------------------------------------------------------
LEMMA BusInv ==
  ASSUME Inv, \/ \E r \in Requests : CompleteUrb(r)
              \/ \E d \in Devices : Unplug(d)
  PROVE  Inv'
<1> USE DEF Inv, handlerVars, reaperVars, txVars, heapVars
<1>1. ASSUME NEW r \in Requests, CompleteUrb(r)
      PROVE  Inv'
  <2>1. TypeOK'
    BY <1>1 DEF CompleteUrb, TypeOK
  <2>2. MemorySafe'
    BY <1>1 DEF CompleteUrb, MemorySafe, InKernel, Submitting, Reaping
  <2>3. Ownership'
    BY <1>1 DEF CompleteUrb, Ownership, Fresh, HandlerHolds, ReaperHolds, ReapersApart,
        SettledErased, PendingOpen
  <2>4. (UnlinkKnown /\ PacketInHand)'
    BY <1>1 DEF CompleteUrb, UnlinkKnown, PacketInHand
  <2> QED  BY <2>1, <2>2, <2>3, <2>4
<1>2. ASSUME NEW d \in Devices, Unplug(d)
      PROVE  Inv'
  <2>1. TypeOK'
    BY <1>2 DEF Unplug, TypeOK
  <2>2. MemorySafe'
    BY <1>2 DEF Unplug, MemorySafe, InKernel, Submitting, Reaping
  <2>3. Ownership'
    BY <1>2 DEF Unplug, Ownership, Fresh, HandlerHolds, ReaperHolds, ReapersApart,
        SettledErased, PendingOpen
  <2>4. (UnlinkKnown /\ PacketInHand)'
    BY <1>2 DEF Unplug, UnlinkKnown, PacketInHand
  <2> QED  BY <2>1, <2>2, <2>3, <2>4
<1> QED
  BY <1>1, <1>2

LEMMA HandshakeInv ==
  ASSUME Inv, NEW s \in Sessions, Refuse(s) \/ Import(s)
  PROVE  Inv'
<1> USE DEF Inv, HandlerGoes, ReaperGoes, Disconnect, handlerVars, reaperVars, txVars,
            heapVars
<1>1. CASE Refuse(s)
  <2>1. TypeOK'
    BY <1>1 DEF Refuse, TypeOK
  <2>2. MemorySafe'
    BY <1>1 DEF Refuse, MemorySafe, InKernel, Submitting, Reaping
  <2>3. Ownership'
    BY <1>1 DEF Refuse, Ownership, Fresh, HandlerHolds, ReaperHolds, ReapersApart,
        SettledErased, PendingOpen
  <2>4. (UnlinkKnown /\ PacketInHand)'
    BY <1>1 DEF Refuse, UnlinkKnown, PacketInHand
  <2> QED  BY <2>1, <2>2, <2>3, <2>4
<1>2. CASE Import(s)
  <2>1. TypeOK'
    BY <1>2 DEF Import, TypeOK
  <2>2. MemorySafe'
    BY <1>2 DEF Import, MemorySafe, InKernel, Submitting, Reaping
  <2>3. (Fresh /\ HandlerHolds /\ PendingOpen)'
    BY <1>2 DEF Import, TypeOK, Ownership, Fresh, HandlerHolds, PendingOpen
  <2>4. (ReaperHolds /\ ReapersApart /\ SettledErased)'
    BY <1>2 DEF Import, TypeOK, Ownership, ReaperHolds, ReapersApart, SettledErased, Holding,
        Settled
  <2>5. (UnlinkKnown /\ PacketInHand)'
    BY <1>2 DEF Import, TypeOK, UnlinkKnown, PacketInHand, Settled
  <2> QED  BY <2>1, <2>2, <2>3, <2>4, <2>5 DEF Ownership
<1> QED
  BY <1>1, <1>2

LEMMA StutterInv ==
  ASSUME Inv, UNCHANGED vars
  PROVE  Inv'
BY DEF Inv, vars, handlerVars, reaperVars, txVars, heapVars, TypeOK, MemorySafe, InKernel,
    Submitting, Reaping, Ownership, Fresh, HandlerHolds, ReaperHolds, ReapersApart,
    SettledErased, PendingOpen, UnlinkKnown, PacketInHand

-----------------------------------------------------------------------------
\* Inv is an invariant of every behaviour of the code.
THEOREM Invariance == Spec => []Inv
<1>1. Init => Inv
  BY InitInv
<1>2. Inv /\ [Next]_vars => Inv'
  <2> SUFFICES ASSUME Inv, [Next]_vars PROVE Inv'
    OBVIOUS
  <2>1. ASSUME NEW s \in Sessions,
               Refuse(s) \/ Import(s) \/ Receive(s) \/ Handle(s) \/ Reap(s) \/ Transmit(s)
        PROVE  Inv'
    BY <2>1, HandshakeInv, ReceiveInv, HandleInv, ReapInv, TransmitInv
  <2>2. CASE \/ \E r \in Requests : CompleteUrb(r)
             \/ \E d \in Devices : Unplug(d)
    BY <2>2, BusInv
  <2>3. CASE Finished \/ UNCHANGED vars
    BY <2>3, StutterInv DEF Finished
  <2> QED  BY <2>1, <2>2, <2>3 DEF Next
<1> QED
  BY <1>1, <1>2, PTL DEF Spec

\* Every variable keeps its type: the threads only queue well-formed replies, and
\* a RET_UNLINK always carries the seqnum of an unlink the client sent.
THEOREM TypeCorrect == Spec => []TypeOK
<1>1. Inv => TypeOK
  BY DEF Inv
<1> QED
  BY <1>1, Invariance, PTL

\* No pending entry, no URB in the kernel and no request a thread is working on
\* has been deleted, whatever the interleaving of handlers and reapers.
THEOREM MemorySafety == Spec => []MemorySafe
<1>1. Inv => MemorySafe
  BY DEF Inv
<1> QED
  BY <1>1, Invariance, PTL

-----------------------------------------------------------------------------
(* in_flight_urbs_count *)

Counting == IsFiniteSet(CountedInFlight) /\ InFlightExact

countVars == <<hpc, hcur, rpc, rcur, urb>>

LEMMA CountedStutters ==
  ASSUME UNCHANGED countVars
  PROVE  CountedInFlight' = CountedInFlight
BY DEF countVars, CountedInFlight, InKernel

LEMMA SameCount ==
  ASSUME Counting, CountedInFlight' = CountedInFlight, UNCHANGED in_flight_urbs_count
  PROVE  Counting'
BY DEF Counting, InFlightExact

LEMMA CountUp ==
  ASSUME Counting, NEW r, r \notin CountedInFlight,
         CountedInFlight' = CountedInFlight \cup {r},
         in_flight_urbs_count' = in_flight_urbs_count + 1
  PROVE  Counting'
BY FS_AddElement DEF Counting, InFlightExact

LEMMA CountDown ==
  ASSUME Counting, NEW r, r \in CountedInFlight,
         CountedInFlight' = CountedInFlight \ {r},
         in_flight_urbs_count' = in_flight_urbs_count - 1
  PROVE  Counting'
BY FS_RemoveElement DEF Counting, InFlightExact

\* A handler that is not submitting, before or after its step, holds nothing counted.
LEMMA HandlerElsewhere ==
  ASSUME TypeOK, NEW s \in Sessions, NEW to, to # "submit", hpc[s] # "submit",
         hpc' = [hpc EXCEPT ![s] = to],
         hcur' = hcur \/ \E h : hcur' = [hcur EXCEPT ![s] = h],
         UNCHANGED <<rpc, rcur>>,
         \A r \in Requests : InKernel(r)' <=> InKernel(r)
  PROVE  CountedInFlight' = CountedInFlight
<1>1. \A x \in Sessions : (hpc'[x] = "submit") <=> (hpc[x] = "submit")
  BY DEF TypeOK
<1>2. \A x \in Sessions : hpc[x] = "submit" => hcur'[x] = hcur[x]
  BY DEF TypeOK
<1> QED
  BY <1>1, <1>2 DEF CountedInFlight

LEMMA InitCounting == Init => Counting
<1> SUFFICES ASSUME Init PROVE Counting
  OBVIOUS
<1>1. CountedInFlight = {}
  BY DEF Init, CountedInFlight, InKernel
<1> QED
  BY <1>1, FS_EmptySet DEF Init, Counting, InFlightExact

LEMMA HandshakeCounting ==
  ASSUME Inv, Counting, NEW s \in Sessions, Refuse(s) \/ Import(s)
  PROVE  Counting'
<1> USE DEF Inv, HandlerGoes, ReaperGoes, reaperVars
<1>1. CASE Refuse(s)
  <2>1. CountedInFlight' = CountedInFlight
    BY <1>1, HandlerElsewhere DEF Refuse, InKernel
  <2> QED  BY <1>1, <2>1, SameCount DEF Refuse
<1>2. CASE Import(s)
  <2>1. CountedInFlight' = CountedInFlight
    BY <1>2 DEF Import, TypeOK, CountedInFlight, InKernel
  <2> QED  BY <1>2, <2>1, SameCount DEF Import
<1> QED  BY <1>1, <1>2

LEMMA ReceiveCounting ==
  ASSUME Inv, Counting, NEW s \in Sessions, Receive(s)
  PROVE  Counting'
<1> USE DEF Inv, HandlerGoes, reaperVars
<1>1. CountedInFlight' = CountedInFlight
  BY HandlerElsewhere DEF Receive, RecvFails, RecvSubmit, RecvUnlink, UnlinkPending,
      UnlinkDuplicate, UnlinkMissing, InKernel
<1>2. UNCHANGED in_flight_urbs_count
  BY DEF Receive, RecvFails, RecvSubmit, UnlinkPending, UnlinkDuplicate, UnlinkMissing
<1> QED  BY <1>1, <1>2, SameCount

LEMMA DiscardInKernel ==
  ASSUME TypeOK, NEW R, Discard(R)
  PROVE  \A r \in Requests : InKernel(r)' <=> InKernel(r)
BY DiscardKeeps DEF InKernel

LEMMA HandleCounting ==
  ASSUME Inv, Counting, NEW s \in Sessions, Handle(s)
  PROVE  Counting'
<1> USE DEF Inv, HandlerGoes, HandlerForgets, reaperVars
<1>1. CASE LoopTest(s)
  <2>1. CountedInFlight' = CountedInFlight
    BY <1>1, HandlerElsewhere DEF LoopTest, InKernel
  <2> QED  BY <1>1, <2>1, SameCount DEF LoopTest
<1>2. CASE AllocFails(s)
  <2>1. CountedInFlight' = CountedInFlight
    BY <1>2, HandlerElsewhere DEF AllocFails, InKernel
  <2> QED  BY <1>2, <2>1, SameCount DEF AllocFails
<1>3. CASE Intercept(s)
  <2>1. CountedInFlight' = CountedInFlight
    BY <1>3, HandlerElsewhere DEF Intercept, InKernel
  <2> QED  BY <1>3, <2>1, SameCount DEF Intercept
<1>4. CASE CountInFlight(s)
  <2>1. hcur[s] \in Requests /\ Owner(hcur[s]) = s /\ urb[hcur[s]] = "none"
    BY <1>4 DEF CountInFlight, Ownership, HandlerHolds
  <2>2. \A x \in Sessions : hpc[x] = "submit" => hcur[x] # hcur[s]
    BY <1>4, <2>1 DEF CountInFlight, Ownership, HandlerHolds
  <2>3. \A x \in Sessions : rpc[x] \in {"settle", "uncount"} => rcur[x] # hcur[s]
    BY <2>1 DEF Ownership, ReaperHolds, Holding
  <2>4. hcur[s] \notin CountedInFlight
    BY <2>1, <2>2, <2>3 DEF CountedInFlight, InKernel
  <2>5. CountedInFlight' = CountedInFlight \cup {hcur[s]}
    BY <1>4, <2>1 DEF CountInFlight, TypeOK, CountedInFlight, InKernel
  <2> QED  BY <1>4, <2>4, <2>5, CountUp DEF CountInFlight
<1>5. CASE SubmitUrb(s)
  <2>1. hcur[s] \in Requests
    BY <1>5 DEF SubmitUrb, Ownership, HandlerHolds
  <2>2. \A r \in Requests : InKernel(r)' <=> InKernel(r) \/ r = hcur[s]
    BY <1>5, <2>1 DEF SubmitUrb, TypeOK, InKernel
  <2>3. \A x \in Sessions : x # s => hpc'[x] = hpc[x] /\ hcur'[x] = hcur[x]
    BY <1>5 DEF SubmitUrb, TypeOK
  <2>4. hpc[s] = "submit" /\ hpc'[s] # "submit" /\ UNCHANGED <<rpc, rcur>>
    BY <1>5 DEF SubmitUrb, TypeOK
  <2>5. CountedInFlight' = CountedInFlight
    BY <2>2, <2>3, <2>4 DEF CountedInFlight
  <2> QED  BY <1>5, <2>5, SameCount DEF SubmitUrb
<1>6. CASE SubmitFails(s)
  <2>1. hcur[s] \in Requests /\ Owner(hcur[s]) = s /\ urb[hcur[s]] = "none"
    BY <1>6 DEF SubmitFails, Ownership, HandlerHolds
  <2>2. \A x \in Sessions : x # s /\ hpc[x] = "submit" => hcur[x] # hcur[s]
    BY <2>1 DEF Ownership, HandlerHolds
  <2>3. \A x \in Sessions : rpc[x] \in {"settle", "uncount"} => rcur[x] # hcur[s]
    BY <2>1 DEF Ownership, ReaperHolds, Holding
  <2>4. \A x \in Sessions : x # s => hpc'[x] = hpc[x] /\ hcur'[x] = hcur[x]
    BY <1>6 DEF SubmitFails, TypeOK
  <2>5. hpc[s] = "submit" /\ hpc'[s] # "submit" /\ UNCHANGED <<urb, rpc, rcur>>
    BY <1>6 DEF SubmitFails, TypeOK
  <2>6. hcur[s] \in CountedInFlight
    BY <2>1, <2>5 DEF CountedInFlight
  <2>7. CountedInFlight' = CountedInFlight \ {hcur[s]}
    BY <2>1, <2>2, <2>3, <2>4, <2>5 DEF CountedInFlight, InKernel
  <2> QED  BY <1>6, <2>6, <2>7, CountDown DEF SubmitFails
<1>7. CASE DiscardUrb(s)
  <2>1. \E R : Discard(R)
    BY <1>7 DEF DiscardUrb
  <2>2. \A r \in Requests : InKernel(r)' <=> InKernel(r)
    BY <2>1, DiscardInKernel
  <2>3. CountedInFlight' = CountedInFlight
    BY <1>7, <2>2, HandlerElsewhere DEF DiscardUrb
  <2> QED  BY <1>7, <2>3, SameCount DEF DiscardUrb
<1>8. CASE Leave(s)
  <2>1. CountedInFlight' = CountedInFlight
    BY <1>8, HandlerElsewhere DEF Leave, InKernel
  <2> QED  BY <1>8, <2>1, SameCount DEF Leave
<1>9. CASE CleanupZombieUrbs(s)
  <2>1. \A r \in Requests : InKernel(r)' <=> InKernel(r)
    BY <1>9, DiscardInKernel DEF CleanupZombieUrbs
  <2>2. CountedInFlight' = CountedInFlight
    BY <1>9, <2>1, HandlerElsewhere DEF CleanupZombieUrbs
  <2> QED  BY <1>9, <2>2, SameCount DEF CleanupZombieUrbs
<1> QED
  BY <1>1, <1>2, <1>3, <1>4, <1>5, <1>6, <1>7, <1>8, <1>9 DEF Handle

\* A reaper that has not taken a URB, or has counted it out, holds nothing counted.
LEMMA ReaperElsewhere ==
  ASSUME TypeOK, NEW s \in Sessions, NEW to,
         {to, rpc[s]} \cap {"settle", "uncount"} = {},
         rpc' = [rpc EXCEPT ![s] = to],
         rcur' = rcur \/ \E h : rcur' = [rcur EXCEPT ![s] = h],
         UNCHANGED <<hpc, hcur, urb>>
  PROVE  CountedInFlight' = CountedInFlight
<1>1. \A x \in Sessions : (rpc'[x] \in {"settle", "uncount"}) <=> (rpc[x] \in {"settle", "uncount"})
  BY DEF TypeOK
<1>2. \A x \in Sessions : rpc[x] \in {"settle", "uncount"} => rcur'[x] = rcur[x]
  BY DEF TypeOK
<1> QED
  BY <1>1, <1>2 DEF CountedInFlight, InKernel

LEMMA ReapCounting ==
  ASSUME Inv, Counting, NEW s \in Sessions, Reap(s)
  PROVE  Counting'
<1> USE DEF Inv, ReaperGoes, ReaperForgets, handlerVars
<1>1. CASE ReapCheck(s) \/ ReapAgain(s) \/ ReapNoDevice(s) \/ Reply(s) \/ NoReply(s) \/ EnqueueReply(s)
  <2>1. CountedInFlight' = CountedInFlight
    BY <1>1, ReaperElsewhere DEF ReapCheck, ReapAgain, ReapNoDevice, Reply, NoReply, EnqueueReply
  <2>2. UNCHANGED in_flight_urbs_count
    BY <1>1 DEF ReapCheck, ReapAgain, ReapNoDevice, Reply, NoReply, EnqueueReply
  <2> QED  BY <2>1, <2>2, SameCount
<1>2. CASE ReapUrb(s)
  <2>1. PICK r \in OnDevice(s, "done") : /\ rcur' = [rcur EXCEPT ![s] = r]
                                         /\ urb' = [urb EXCEPT ![r] = "reaped"]
    BY <1>2 DEF ReapUrb
  <2>2. r \in Requests /\ urb[r] = "done"
    BY DEF OnDevice
  <2>3. \A x \in Sessions : x # s => rpc'[x] = rpc[x] /\ rcur'[x] = rcur[x]
    BY <1>2, <2>1 DEF ReapUrb, TypeOK
  <2>4. rpc[s] = "reap" /\ rpc'[s] = "settle" /\ rcur'[s] = r /\ UNCHANGED <<hpc, hcur>>
    BY <1>2, <2>1 DEF ReapUrb, TypeOK
  <2>5. \A q \in Requests : InKernel(q) <=> InKernel(q)' \/ q = r
    BY <2>1, <2>2 DEF TypeOK, InKernel
  <2>6. CountedInFlight' = CountedInFlight
    BY <2>2, <2>3, <2>4, <2>5 DEF CountedInFlight
  <2> QED  BY <1>2, <2>6, SameCount DEF ReapUrb
<1>3. CASE Settle(s)
  <2>1. CountedInFlight' = CountedInFlight
    BY <1>3 DEF Settle, TypeOK, CountedInFlight, InKernel
  <2> QED  BY <1>3, <2>1, SameCount DEF Settle
<1>4. CASE Uncount(s)
  <2>1. rcur[s] \in Requests /\ urb[rcur[s]] = "reaped"
    BY <1>4 DEF Uncount, Ownership, ReaperHolds, Holding
  <2>2. \A x \in Sessions : x # s /\ rpc[x] \in {"settle", "uncount"} => rcur[x] # rcur[s]
    BY <1>4 DEF Uncount, Ownership, ReapersApart, Holding
  <2>3. \A x \in Sessions : hpc[x] = "submit" => hcur[x] # rcur[s]
    BY <2>1 DEF Ownership, HandlerHolds
  <2>4. \A x \in Sessions : x # s => rpc'[x] = rpc[x]
    BY <1>4 DEF Uncount, TypeOK
  <2>5. rpc[s] = "uncount" /\ rpc'[s] = "reply" /\ UNCHANGED <<hpc, hcur, urb, rcur>>
    BY <1>4 DEF Uncount, TypeOK
  <2>6. rcur[s] \in CountedInFlight
    BY <2>1, <2>5 DEF CountedInFlight
  <2>7. CountedInFlight' = CountedInFlight \ {rcur[s]}
    BY <2>1, <2>2, <2>3, <2>4, <2>5 DEF CountedInFlight, InKernel
  <2> QED  BY <1>4, <2>6, <2>7, CountDown DEF Uncount
<1> QED
  BY <1>1, <1>2, <1>3, <1>4 DEF Reap

LEMMA OtherCounting ==
  ASSUME Inv, Counting,
         \/ \E s \in Sessions : Transmit(s)
         \/ \E r \in Requests : CompleteUrb(r)
         \/ \E d \in Devices : Unplug(d)
         \/ UNCHANGED vars
  PROVE  Counting'
<1> USE DEF Inv, handlerVars, reaperVars
<1>1. CASE \E r \in Requests : CompleteUrb(r)
  <2>1. PICK r \in Requests : CompleteUrb(r)
    BY <1>1
  <2>2. \A q \in Requests : InKernel(q)' <=> InKernel(q)
    BY <2>1 DEF CompleteUrb, TypeOK, InKernel
  <2>3. CountedInFlight' = CountedInFlight
    BY <2>1, <2>2 DEF CompleteUrb, CountedInFlight
  <2> QED  BY <2>1, <2>3, SameCount DEF CompleteUrb
<1>2. CASE \/ \E s \in Sessions : Transmit(s)
           \/ \E d \in Devices : Unplug(d)
           \/ UNCHANGED vars
  <2>1. UNCHANGED <<countVars, in_flight_urbs_count>>
    BY <1>2 DEF countVars, Transmit, TxCheck, TxExit, TxPop, TxIdle, TxSend, TxFails, Unplug, vars
  <2> QED  BY <2>1, CountedStutters, SameCount
<1> QED  BY <1>1, <1>2

LEMMA NextCounting == Inv /\ Counting /\ [Next]_vars => Counting'
<1> SUFFICES ASSUME Inv, Counting, [Next]_vars PROVE Counting'
  OBVIOUS
<1> QED
  BY HandshakeCounting, ReceiveCounting, HandleCounting, ReapCounting, OtherCounting
     DEF Next, Finished

\* The process-wide counter is at every moment the number of URBs between a
\* handler's increment and a reaper's decrement, for any number of sessions on
\* any devices, whatever fails.
THEOREM CounterExact == Spec => []InFlightExact
<1>1. Inv /\ Counting /\ [Next]_vars => Counting'
  BY NextCounting
<1>2. Counting => InFlightExact
  BY DEF Counting
<1>3. Spec => []Counting
  BY <1>1, InitCounting, Invariance, PTL DEF Spec
<1> QED
  BY <1>2, <1>3, PTL

-----------------------------------------------------------------------------
(* Without failing sends and unplugging *)

\* A connection ends only when its handler leaves, and a reaper exits only after
\* that, with nothing in flight anywhere.
Departed(s) == hpc[s] \in {"cleanup", "done"}
Emptied ==
  Faults = {} =>
    /\ \A d \in Devices : dev[d] = "attached"
    /\ \A s \in Sessions : ~is_connected[s] => Departed(s)
    /\ \A s \in Sessions :
         rpc[s] = "done" => Departed(s) /\ \A r \in Requests : Owner(r) = s => ~InKernel(r)

LEMMA InitEmptied == Init => Emptied
BY DEF Init, Emptied

LEMMA HandleEmptied ==
  ASSUME Inv, Emptied, NEW s \in Sessions, Handle(s) \/ Receive(s) \/ Refuse(s) \/ Import(s)
  PROVE  Emptied'
<1> SUFFICES ASSUME Faults = {} PROVE Emptied'
  BY DEF Emptied
<1> USE DEF Inv, HandlerGoes, Disconnect, reaperVars, Departed
<1>1. UNCHANGED dev
  BY DEF Handle, LoopTest, AllocFails, Intercept, CountInFlight, SubmitUrb, SubmitFails,
      DiscardUrb, Leave, CleanupZombieUrbs, Receive, RecvFails, RecvSubmit, UnlinkPending,
      UnlinkDuplicate, UnlinkMissing, Refuse, Import
<1>2. \A x \in Sessions : x # s =>
        hpc'[x] = hpc[x] /\ is_connected'[x] = is_connected[x] /\ rpc'[x] = rpc[x]
  <2>1. \E to : hpc' = [hpc EXCEPT ![s] = to]
    BY DEF Handle, LoopTest, AllocFails, Intercept, CountInFlight, SubmitUrb, SubmitFails,
        DiscardUrb, Leave, CleanupZombieUrbs, Receive, RecvFails, RecvSubmit, UnlinkPending,
        UnlinkDuplicate, UnlinkMissing, Refuse, Import
  <2>2. is_connected' = is_connected \/ is_connected' = [is_connected EXCEPT ![s] = FALSE]
    BY DEF Handle, LoopTest, AllocFails, Intercept, CountInFlight, SubmitUrb, SubmitFails,
        DiscardUrb, Leave, CleanupZombieUrbs, Receive, RecvFails, RecvSubmit, UnlinkPending,
        UnlinkDuplicate, UnlinkMissing, Refuse, Import
  <2>3. rpc' = rpc \/ rpc' = [rpc EXCEPT ![s] = "check"]
    BY DEF Handle, LoopTest, AllocFails, Intercept, CountInFlight, SubmitUrb, SubmitFails,
        DiscardUrb, Leave, CleanupZombieUrbs, Receive, RecvFails, RecvSubmit, UnlinkPending,
        UnlinkDuplicate, UnlinkMissing, Refuse, Import, ReaperGoes
  <2> QED  BY <2>1, <2>2, <2>3 DEF TypeOK
<1>5. Departed(s) => Departed(s)'
  BY DEF TypeOK, Handle, LoopTest, AllocFails, Intercept, CountInFlight, SubmitUrb, SubmitFails,
      DiscardUrb, Leave, CleanupZombieUrbs, Receive, RecvFails, RecvSubmit, UnlinkPending,
      UnlinkDuplicate, UnlinkMissing, RecvUnlink, Refuse, Import
<1>6. is_connected[s] /\ ~is_connected'[s] => Departed(s)'
  BY DEF TypeOK, Handle, LoopTest, AllocFails, Intercept, CountInFlight, SubmitUrb, SubmitFails,
      DiscardUrb, Leave, CleanupZombieUrbs, Receive, RecvFails, RecvSubmit, UnlinkPending,
      UnlinkDuplicate, UnlinkMissing, RecvUnlink, Refuse, Import
<1>3. \A x \in Sessions : rpc'[x] = "done" => rpc[x] = "done"
  BY DEF TypeOK, Handle, LoopTest, AllocFails, Intercept, CountInFlight, SubmitUrb, SubmitFails,
      DiscardUrb, Leave, CleanupZombieUrbs, Receive, RecvFails, RecvSubmit, UnlinkPending,
      UnlinkDuplicate, UnlinkMissing, Refuse, Import, ReaperGoes
<1>4. \A r \in Requests : InKernel(r)' => InKernel(r) \/ ~Departed(Owner(r))
  <2>1. CASE SubmitUrb(s)
    BY <2>1 DEF SubmitUrb, TypeOK, InKernel, Ownership, HandlerHolds
  <2>2. CASE DiscardUrb(s) \/ CleanupZombieUrbs(s)
    <3>1. \E R : Discard(R)
      BY <2>2 DEF DiscardUrb, CleanupZombieUrbs
    <3> QED  BY <3>1, DiscardInKernel
  <2>3. CASE ~SubmitUrb(s) /\ ~DiscardUrb(s) /\ ~CleanupZombieUrbs(s)
    BY <2>3 DEF InKernel, Handle, LoopTest, AllocFails, Intercept, CountInFlight, SubmitFails,
        Leave, Receive, RecvFails, RecvSubmit, UnlinkPending,
        UnlinkDuplicate, UnlinkMissing, Refuse, Import
  <2> QED  BY <2>1, <2>2, <2>3
<1>7. \A x \in Sessions : Departed(x) => Departed(x)'
  <2> HIDE DEF Departed
  <2>1. \A x \in Sessions : x # s => (Departed(x)' <=> Departed(x))
    BY <1>2 DEF Departed
  <2> QED  BY <2>1, <1>5
<1> HIDE DEF Departed
<1>8. \A x \in Sessions : ~is_connected'[x] => Departed(x)'
  BY <1>2, <1>6, <1>7 DEF Emptied
<1>9. \A x \in Sessions :
        rpc'[x] = "done" => Departed(x)' /\ \A r \in Requests : Owner(r) = x => ~InKernel(r)'
  BY <1>3, <1>4, <1>7 DEF Emptied
<1> QED
  BY <1>1, <1>8, <1>9 DEF Emptied

LEMMA ReapEmptied ==
  ASSUME Inv, Counting, Emptied, NEW s \in Sessions, Reap(s)
  PROVE  Emptied'
<1> SUFFICES ASSUME Faults = {} PROVE Emptied'
  BY DEF Emptied
<1> USE DEF Inv, ReaperGoes, handlerVars
<1>1. UNCHANGED <<dev, is_connected, hpc>>
  BY DEF Reap, ReapCheck, ReapUrb, ReapAgain, ReapNoDevice, Settle, Uncount, Reply, NoReply,
      EnqueueReply
<1>2. \A r \in Requests : InKernel(r)' => InKernel(r)
  BY DEF TypeOK, InKernel, OnDevice, Reap, ReapCheck, ReapUrb, ReapAgain, ReapNoDevice, Settle,
      Uncount, Reply, NoReply, EnqueueReply
<1>3. \A x \in Sessions : rpc'[x] = "done" /\ rpc[x] # "done" =>
        x = s /\ ReapCheck(s) /\ ~ReapCondition(s)
  <2>1. DeviceOf[s] \in Devices
    BY DeviceAssumption
  <2>2. ~ReapNoDevice(s)
    BY <2>1 DEF ReapNoDevice, Emptied
  <2> QED
    BY <2>2 DEF TypeOK, Reap, ReapCheck, ReapUrb, ReapAgain, Settle, Uncount, Reply, NoReply,
        EnqueueReply
<1>4. ~ReapCondition(s) => CountedInFlight = {}
  <2>1. Cardinality(CountedInFlight) \in Nat
    BY FS_CardinalityType DEF Counting
  <2> QED
    BY <2>1, FS_EmptySet DEF ReapCondition, Counting, InFlightExact
<1>5. ~ReapCondition(s) => Departed(s) /\ \A r \in Requests : ~InKernel(r)
  BY <1>4 DEF Emptied, ReapCondition, CountedInFlight
<1>6. \A x \in Sessions : rpc'[x] = "done" =>
        Departed(x) /\ \A r \in Requests : Owner(r) = x => ~InKernel(r)
  BY <1>3, <1>5 DEF Emptied
<1> QED
  BY <1>1, <1>2, <1>6 DEF Emptied, Departed

LEMMA OtherEmptied ==
  ASSUME Inv, Emptied,
         \/ \E s \in Sessions : Transmit(s)
         \/ \E r \in Requests : CompleteUrb(r)
         \/ \E d \in Devices : Unplug(d)
         \/ UNCHANGED vars
  PROVE  Emptied'
<1> SUFFICES ASSUME Faults = {} PROVE Emptied'
  BY DEF Emptied
<1>1. UNCHANGED <<dev, is_connected, hpc, rpc>>
  BY DEF Transmit, TxCheck, TxExit, TxPop, TxIdle, TxSend, TxFails, CompleteUrb, Unplug, vars,
      handlerVars, reaperVars
<1>2. \A r \in Requests : InKernel(r)' <=> InKernel(r)
  BY DEF Inv, TypeOK, InKernel, Transmit, TxCheck, TxExit, TxPop, TxIdle, TxSend, TxFails,
      CompleteUrb, Unplug, vars
<1> QED
  BY <1>1, <1>2 DEF Emptied, Departed

\* If sends do not fail and devices stay plugged, a reaper that exits leaves no
\* URB of its session in the kernel: the counter it read covered them all.
THEOREM KernelEmptied == Faults = {} => (Spec => []NothingLeftInKernel)
<1>1. Inv /\ Counting /\ Emptied /\ [Next]_vars => Emptied'
  <2> SUFFICES ASSUME Inv, Counting, Emptied, [Next]_vars PROVE Emptied'
    OBVIOUS
  <2> QED  BY HandleEmptied, ReapEmptied, OtherEmptied DEF Next, Finished
<1>2. Spec => []Counting
  BY NextCounting, InitCounting, Invariance, PTL DEF Spec
<1>3. Spec => []Emptied
  BY <1>1, <1>2, InitEmptied, Invariance, PTL DEF Spec
<1> SUFFICES ASSUME Faults = {} PROVE Spec => []NothingLeftInKernel
  OBVIOUS
<1>4. Emptied => NothingLeftInKernel
  BY DEF Emptied, NothingLeftInKernel
<1> QED
  BY <1>3, <1>4, PTL
=============================================================================
