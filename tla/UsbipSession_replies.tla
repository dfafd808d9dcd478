------------------------ MODULE UsbipSession_replies ------------------------
(***************************************************************************)
(* Proofs that the sessions of UsbipSession implement UsbRequests, and of  *)
(* the invariants about replies, for any number of sessions, sequence      *)
(* numbers and devices and for every set of faults.                        *)
(*                                                                         *)
(* Life adds to Inv the stages of a request: pending_requests is exactly   *)
(* what a handler is submitting, the kernel holds or a reaper has yet to   *)
(* settle.  Sending adds what lies between a settled request and the       *)
(* socket: every packet queued or in hand is due, is the only answer to    *)
(* its command, and is on the connection that asked.                       *)
(***************************************************************************)
EXTENDS UsbipSession_proofs, SequenceTheorems, FiniteSetTheorems

\* An entry of pending_requests is a submitted request that is in one hand.
PendingIssued == \A r \in pending_requests : issued[r] = "SUBMIT"
KernelPending == \A r \in Requests : InKernel(r) => r \in pending_requests
SubmittingPending == \A s \in Sessions : hpc[s] \in {"prepare", "submit"} =>
  hcur[s] \in pending_requests /\ state[hcur[s]] = "PENDING"
SettlingPending == \A s \in Sessions : rpc[s] = "settle" => rcur[s] \in pending_requests

PendingExact ==
  PendingHasUrb /\ PendingIssued /\ KernelPending /\ SubmittingPending /\ SettlingPending

\* The first unlink of a request, and only that, is remembered with it.
UnlinksApart ==
  /\ \A r \in Requests : state[r] = "PENDING" => unlink_seqnum[r] = NoReq
  /\ \A r \in Requests : state[r] = "UNLINKING" => r \in pending_requests
  /\ \A r \in Requests : issued[r] # "SUBMIT" => state[r] = "PENDING"
  /\ \A r \in Requests : unlink_seqnum[r] # NoReq =>
       /\ unlink_seqnum[r] \in Requests
       /\ issued[unlink_seqnum[r]] = "UNLINK"
       /\ Owner(unlink_seqnum[r]) = Owner(r)
  /\ \A r, q \in Requests :
       unlink_seqnum[r] # NoReq /\ unlink_seqnum[r] = unlink_seqnum[q] => r = q

\* What a reaper is about to answer is decided by the state it settled.
EmitKnown == \A s \in Sessions :
  rpc[s] \in Settled =>
    /\ state[rcur[s]] = "COMPLETED"
    /\ emit[s] = IF unlink_seqnum[rcur[s]] = NoReq THEN "RET_SUBMIT" ELSE "RET_UNLINK"

Life == PendingExact /\ UnlinksApart /\ EmitKnown

\* The command the reaper of s will answer.
Answering(s) == IF emit[s] = "RET_SUBMIT" THEN rcur[s] ELSE unlink_seqnum[rcur[s]]

\* Packets not yet on the socket are due, on the right connection, and the only
\* answers to their commands.
QueuedDue == \A s \in Sessions : \A i \in DOMAIN Outgoing(s) :
  /\ Outgoing(s)[i] \in Packets
  /\ Owner(Outgoing(s)[i].seqnum) = s
  /\ Client!Due(Outgoing(s)[i])
QueuedApart == \A s \in Sessions : \A i, j \in DOMAIN Outgoing(s) :
  Outgoing(s)[i].seqnum = Outgoing(s)[j].seqnum => i = j
QueuedNew == \A s \in Sessions : \A i \in DOMAIN Outgoing(s) : \A pkt \in wire[s] :
  pkt.seqnum # Outgoing(s)[i].seqnum
WireDue == \A s \in Sessions : \A pkt \in wire[s] : Owner(pkt.seqnum) = s /\ Client!Due(pkt)

\* A reaper answers a command nobody has answered.
Unanswered(q) == \A pkt \in Replies(Owner(q)) : pkt.seqnum # q
ReaperNew == \A s \in Sessions : rpc[s] \in Settled => Unanswered(Answering(s))

NothingInHand == \A s \in Sessions : tpc[s] # "send" => tcur[s] = NoPacket

Sending ==
  /\ QueuedDue
  /\ QueuedApart
  /\ QueuedNew
  /\ WireDue
  /\ ReaperNew
  /\ NothingInHand

Answered == Inv /\ Life /\ Sending

-----------------------------------------------------------------------------
(* Life *)

lifeVars == <<pending_requests, hpc, hcur, rpc, rcur, emit, state, unlink_seqnum, urb,
    issued>>

LEMMA LifeStutters ==
  ASSUME Life, UNCHANGED lifeVars
  PROVE  Life'
BY DEF Life, lifeVars, PendingExact, PendingHasUrb, PendingIssued, KernelPending,
    SubmittingPending, SettlingPending, InKernel, Submitting, UnlinksApart,
    EmitKnown

LEMMA InitLife == Init => Life
<1> SUFFICES ASSUME Init PROVE Life
  OBVIOUS
<1>1. PendingExact
  BY DEF Init, PendingExact, PendingHasUrb, PendingIssued, KernelPending,
      SubmittingPending, SettlingPending, InKernel
<1>2. UnlinksApart
  BY DEF Init, UnlinksApart
<1>3. EmitKnown
  BY DEF Init, EmitKnown, Settled
<1> QED
  BY <1>1, <1>2, <1>3 DEF Life

LEMMA TransmitLife ==
  ASSUME Life, NEW s \in Sessions, Transmit(s)
  PROVE  Life'
<1> UNCHANGED lifeVars
  BY DEF lifeVars, Transmit, TxCheck, TxExit, TxPop, TxIdle, TxSend, TxFails, handlerVars,
      reaperVars, heapVars
<1> QED
  BY LifeStutters

LEMMA BusLife ==
  ASSUME Life, \/ \E r \in Requests : CompleteUrb(r)
               \/ \E d \in Devices : Unplug(d)
  PROVE  Life'
<1>1. ASSUME NEW r \in Requests, CompleteUrb(r)
      PROVE  Life'
  <2>1. PendingExact'
    BY <1>1 DEF CompleteUrb, Life, PendingExact, PendingHasUrb, PendingIssued,
        KernelPending, SubmittingPending, SettlingPending, InKernel, Submitting,
        handlerVars, reaperVars, heapVars
  <2>2. (UnlinksApart /\ EmitKnown)'
    BY <1>1 DEF CompleteUrb, Life, UnlinksApart, EmitKnown, handlerVars, reaperVars,
        heapVars
  <2> QED  BY <2>1, <2>2 DEF Life
<1>2. ASSUME NEW d \in Devices, Unplug(d)
      PROVE  Life'
  BY <1>2, LifeStutters DEF Unplug, lifeVars, handlerVars, reaperVars, heapVars
<1> QED
  BY <1>1, <1>2

LEMMA HandshakeLife ==
  ASSUME Inv, Life, NEW s \in Sessions, Refuse(s) \/ Import(s)
  PROVE  Life'
<1> USE DEF HandlerGoes, ReaperGoes, handlerVars, reaperVars, heapVars
<1>1. CASE Refuse(s)
  <2>1. PendingExact'
    BY <1>1 DEF Refuse, Inv, TypeOK, Life, PendingExact, PendingHasUrb, PendingIssued,
        KernelPending, SubmittingPending, SettlingPending, InKernel, Submitting
  <2>2. (UnlinksApart /\ EmitKnown)'
    BY <1>1 DEF Refuse, Life, UnlinksApart, EmitKnown
  <2> QED  BY <2>1, <2>2 DEF Life
<1>2. CASE Import(s)
  <2>1. PendingExact'
    BY <1>2 DEF Import, Inv, TypeOK, Life, PendingExact, PendingHasUrb, PendingIssued,
        KernelPending, SubmittingPending, SettlingPending, InKernel, Submitting
  <2>2. UnlinksApart'
    BY <1>2 DEF Import, Life, UnlinksApart
  <2>3. EmitKnown'
    BY <1>2 DEF Import, Inv, TypeOK, Life, EmitKnown, Settled
  <2> QED  BY <2>1, <2>2, <2>3 DEF Life
<1> QED
  BY <1>1, <1>2

LEMMA ReceiveLife ==
  ASSUME Inv, Life, NEW s \in Sessions, Receive(s)
  PROVE  Life'
<1> USE DEF HandlerGoes, handlerVars, reaperVars, txVars, heapVars
<1>1. CASE RecvFails(s)
  <2>1. PendingExact'
    BY <1>1 DEF RecvFails, Inv, TypeOK, Life, PendingExact, PendingHasUrb, PendingIssued,
        KernelPending, SubmittingPending, SettlingPending, InKernel,
        Submitting
  <2>2. (UnlinksApart /\ EmitKnown)'
    BY <1>1 DEF RecvFails, Life, UnlinksApart, EmitKnown
  <2> QED  BY <2>1, <2>2 DEF Life
<1>2. ASSUME NEW r \in Commands(s), RecvSubmit(s, r)
      PROVE  Life'
  <2>0. r \in Requests /\ Owner(r) = s /\ issued[r] = "unused"
    BY <1>2 DEF RecvSubmit, Commands
  <2>1. PendingExact'
    BY <1>2, <2>0 DEF RecvSubmit, Inv, TypeOK, Life, PendingExact, PendingHasUrb,
        PendingIssued, KernelPending, SubmittingPending, SettlingPending, InKernel,
        Submitting
  <2>2. UnlinksApart'
    BY <1>2, <2>0 DEF RecvSubmit, Inv, TypeOK, Life, UnlinksApart
  <2>3. EmitKnown'
    BY <1>2, <2>0 DEF RecvSubmit, Inv, TypeOK, Ownership, ReaperHolds, Life, EmitKnown,
        Settled, Holding
  <2> QED  BY <2>1, <2>2, <2>3 DEF Life
<1>3. ASSUME NEW u \in Commands(s), NEW t \in Commands(s), UnlinkPending(s, u, t)
      PROVE  Life'
  <2>0. /\ u \in Requests /\ t \in Requests
        /\ Owner(u) = s /\ Owner(t) = s
        /\ issued[u] = "unused" /\ issued[t] = "SUBMIT"
    BY <1>3 DEF UnlinkPending, RecvUnlink, Commands
  <2>1. PendingExact'
    BY <1>3, <2>0 DEF UnlinkPending, RecvUnlink, Inv, TypeOK, Ownership, HandlerHolds, Life,
        PendingExact, PendingHasUrb, PendingIssued, KernelPending, SubmittingPending,
            SettlingPending, InKernel, Submitting
  <2>2. UnlinksApart'
    BY <1>3, <2>0, NullAssumption DEF UnlinkPending, RecvUnlink, Inv, TypeOK, Life,
        UnlinksApart
  <2>3. EmitKnown'
    BY <1>3, <2>0 DEF UnlinkPending, RecvUnlink, Inv, TypeOK, Ownership, ReaperHolds, Life,
        EmitKnown, Settled, Holding
  <2> QED  BY <2>1, <2>2, <2>3 DEF Life
<1>4. ASSUME NEW u \in Commands(s), NEW t \in Commands(s),
             UnlinkDuplicate(s, u, t) \/ UnlinkMissing(s, u, t)
      PROVE  Life'
  <2>0. u \in Requests /\ issued[u] = "unused"
    BY <1>4 DEF UnlinkDuplicate, UnlinkMissing, RecvUnlink, Commands
  <2>1. PendingExact'
    <3>1. \A x \in Sessions, r \in Requests : Submitting(x, r)' <=> Submitting(x, r)
      BY <1>4 DEF UnlinkDuplicate, UnlinkMissing, RecvUnlink, Inv, TypeOK, Submitting
    <3>2. UNCHANGED <<pending_requests, urb, rpc, rcur, state>>
      BY <1>4 DEF UnlinkDuplicate, UnlinkMissing
    <3>3. (PendingHasUrb /\ KernelPending /\ SettlingPending)'
      BY <3>1, <3>2, RequestOwner DEF Inv, TypeOK, Life, PendingExact, PendingHasUrb,
          KernelPending, SettlingPending, InKernel
    <3>4. PendingIssued'
      BY <1>4, <2>0 DEF UnlinkDuplicate, UnlinkMissing, RecvUnlink, Inv, TypeOK, Life,
          PendingExact, PendingIssued
    <3>5. SubmittingPending'
      BY <1>4 DEF UnlinkDuplicate, UnlinkMissing, RecvUnlink, Inv, TypeOK, Life,
          PendingExact, SubmittingPending
    <3> QED  BY <3>3, <3>4, <3>5 DEF PendingExact
  <2>2. UnlinksApart'
    BY <1>4, <2>0 DEF UnlinkDuplicate, UnlinkMissing, RecvUnlink, Inv, TypeOK, Life,
        UnlinksApart
  <2>3. EmitKnown'
    BY <1>4 DEF UnlinkDuplicate, UnlinkMissing, RecvUnlink, Life, EmitKnown
  <2> QED  BY <2>1, <2>2, <2>3 DEF Life
<1> QED
  BY <1>1, <1>2, <1>3, <1>4 DEF Receive

LEMMA HandleLife ==
  ASSUME Inv, Life, NEW s \in Sessions, Handle(s)
  PROVE  Life'
<1> USE DEF HandlerGoes, HandlerForgets, handlerVars, reaperVars, txVars, heapVars, Erase,
    Free
<1>1. CASE LoopTest(s) \/ CountInFlight(s) \/ Leave(s)
  <2>1. PendingExact'
    <3>1. \A x \in Sessions, r \in Requests : Submitting(x, r)' <=> Submitting(x, r)
      BY <1>1 DEF LoopTest, CountInFlight, Leave, Inv, TypeOK, Submitting
    <3>2. UNCHANGED <<pending_requests, urb, rpc, rcur, state, issued>>
      BY <1>1 DEF LoopTest, CountInFlight, Leave
    <3>3. (PendingHasUrb /\ PendingIssued /\ KernelPending /\ SettlingPending)'
      BY <3>1, <3>2, RequestOwner DEF Inv, TypeOK, Life, PendingExact, PendingHasUrb,
          PendingIssued, KernelPending, SettlingPending, InKernel
    <3>4. SubmittingPending'
      BY <1>1 DEF LoopTest, CountInFlight, Leave, Inv, TypeOK, Life, PendingExact,
          SubmittingPending
    <3> QED  BY <3>3, <3>4 DEF PendingExact
  <2>2. (UnlinksApart /\ EmitKnown)'
    BY <1>1 DEF LoopTest, CountInFlight, Leave, Life, UnlinksApart, EmitKnown
  <2> QED  BY <2>1, <2>2 DEF Life
<1>2. CASE AllocFails(s)
  <2>1. PendingExact'
    BY <1>2 DEF AllocFails, Inv, TypeOK, Ownership, HandlerHolds, ReaperHolds, Holding,
        Life,
        PendingExact, PendingHasUrb, PendingIssued, KernelPending, SubmittingPending,
            SettlingPending, InKernel, Submitting
  <2>2. UnlinksApart'
    BY <1>2 DEF AllocFails, Inv, TypeOK, Life, PendingExact, SubmittingPending, UnlinksApart
  <2>3. EmitKnown'
    BY <1>2 DEF AllocFails, Life, EmitKnown
  <2> QED  BY <2>1, <2>2, <2>3 DEF Life
<1>3. CASE Intercept(s) \/ SubmitFails(s)
  <2>0. /\ hcur[s] \in Requests /\ Owner(hcur[s]) = s
        /\ issued[hcur[s]] = "SUBMIT" /\ urb[hcur[s]] = "none"
    BY <1>3 DEF Intercept, SubmitFails, Inv, Ownership, HandlerHolds
  <2>1. /\ state' = [state EXCEPT ![hcur[s]] = "COMPLETED"]
        /\ pending_requests' = pending_requests \ {hcur[s]}
        /\ UNCHANGED <<rpc, rcur, emit, unlink_seqnum, urb, issued>>
    BY <1>3 DEF Intercept, SubmitFails
  <2>2. /\ hpc'[s] = "loop"
        /\ \A t \in Sessions : t # s => hpc'[t] = hpc[t] /\ hcur'[t] = hcur[t]
    BY <1>3 DEF Intercept, SubmitFails, Inv, TypeOK
  <2>3. PendingExact'
    <3>1. PendingHasUrb'
      <4> SUFFICES ASSUME NEW r \in pending_requests, r # hcur[s]
                   PROVE  \/ InKernel(r)'
                          \/ Submitting(Owner(r), r)'
                          \/ \E t \in Sessions : rpc'[t] = "settle" /\ rcur'[t] = r
        BY <2>1 DEF PendingHasUrb
      <4>1. r \in Requests /\ Owner(r) \in Sessions
        BY RequestOwner DEF Inv, TypeOK
      <4>2. Submitting(Owner(r), r) => Submitting(Owner(r), r)'
        BY <2>2, <4>1 DEF Submitting
      <4> QED  BY <2>1, <4>2 DEF Life, PendingExact, PendingHasUrb, InKernel
    <3>2. (PendingIssued /\ KernelPending)'
      BY <2>0, <2>1 DEF Life, PendingExact, PendingIssued, KernelPending, InKernel
    <3>3. SubmittingPending'
      <4> SUFFICES ASSUME NEW t \in Sessions, t # s, hpc[t] \in {"prepare", "submit"}
                   PROVE  hcur[t] \in pending_requests' /\ state'[hcur[t]] = "PENDING"
        BY <2>2 DEF SubmittingPending
      <4>1. hcur[t] # hcur[s] /\ hcur[t] \in pending_requests /\ state[hcur[t]] = "PENDING"
        BY <2>0 DEF Inv, Ownership, HandlerHolds, Life, PendingExact, SubmittingPending
      <4> QED  BY <2>1, <4>1 DEF Inv, TypeOK
    <3>4. SettlingPending'
      BY <2>0, <2>1 DEF Inv, Ownership, ReaperHolds, Holding, Life, PendingExact,
          SettlingPending
    <3> QED  BY <3>1, <3>2, <3>3, <3>4 DEF PendingExact
  <2>4. UnlinksApart'
    BY <1>3, <2>0, <2>1 DEF Intercept, SubmitFails, Inv, TypeOK, Life, PendingExact,
        SubmittingPending, UnlinksApart
  <2>5. EmitKnown'
    BY <2>0, <2>1 DEF Inv, TypeOK, Ownership, ReaperHolds, Holding, Settled, Life, EmitKnown
  <2> QED  BY <2>3, <2>4, <2>5 DEF Life
<1>4. CASE SubmitUrb(s)
  <2>1. PendingExact'
    BY <1>4 DEF SubmitUrb, Inv, TypeOK, Ownership, HandlerHolds, Life, PendingExact,
        PendingHasUrb, PendingIssued, KernelPending, SubmittingPending, SettlingPending,
        InKernel, Submitting
  <2>2. (UnlinksApart /\ EmitKnown)'
    BY <1>4 DEF SubmitUrb, Life, UnlinksApart, EmitKnown
  <2> QED  BY <2>1, <2>2 DEF Life
<1>5. CASE DiscardUrb(s) \/ CleanupZombieUrbs(s)
  <2>0. PICK R : Discard(R)
    BY <1>5 DEF DiscardUrb, CleanupZombieUrbs
  <2>1. /\ urb' \in [Requests -> {"none", "pending", "done", "reaped"}]
        /\ \A r \in Requests : urb'[r] = urb[r] \/ (urb[r] = "pending" /\ urb'[r] = "done")
    BY <2>0, DiscardKeeps DEF Inv
  <2>2. PendingExact'
    <3>1. \A x \in Sessions, r \in Requests : Submitting(x, r)' <=> Submitting(x, r)
      BY <1>5 DEF DiscardUrb, CleanupZombieUrbs, Inv, TypeOK, Submitting
    <3>2. UNCHANGED <<pending_requests, rpc, rcur, state, issued>>
      BY <1>5 DEF DiscardUrb, CleanupZombieUrbs
    <3>3. \A r \in Requests : InKernel(r)' <=> InKernel(r)
      BY <2>1 DEF InKernel
    <3>4. (PendingHasUrb /\ PendingIssued /\ KernelPending /\ SettlingPending)'
      BY <3>1, <3>2, <3>3, RequestOwner DEF Inv, TypeOK, Life, PendingExact, PendingHasUrb,
          PendingIssued, KernelPending, SettlingPending
    <3>5. SubmittingPending'
      BY <1>5 DEF DiscardUrb, CleanupZombieUrbs, Inv, TypeOK, Life, PendingExact,
          SubmittingPending
    <3> QED  BY <3>4, <3>5 DEF PendingExact
  <2>3. (UnlinksApart /\ EmitKnown)'
    BY <1>5 DEF DiscardUrb, CleanupZombieUrbs, Life, UnlinksApart, EmitKnown
  <2> QED  BY <2>2, <2>3 DEF Life
<1> QED
  BY <1>1, <1>2, <1>3, <1>4, <1>5 DEF Handle

LEMMA ReapLife ==
  ASSUME Inv, Life, NEW s \in Sessions, Reap(s)
  PROVE  Life'
<1> USE DEF ReaperGoes, ReaperForgets, handlerVars, reaperVars, txVars, heapVars, Free
<1>1. CASE ReapCheck(s) \/ ReapAgain(s) \/ ReapNoDevice(s)
  <2>1. rpc'[s] \notin Holding /\ \A t \in Sessions : t # s => rpc'[t] = rpc[t]
    BY <1>1 DEF ReapCheck, ReapAgain, ReapNoDevice, Inv, TypeOK, Holding
  <2>2. rpc[s] \notin Holding
    BY <1>1 DEF ReapCheck, ReapAgain, ReapNoDevice, Holding
  <2>3. UNCHANGED <<pending_requests, hpc, hcur, rcur, emit, state, unlink_seqnum, urb,
      issued>>
    BY <1>1 DEF ReapCheck, ReapAgain, ReapNoDevice
  <2>4. PendingExact'
    BY <2>1, <2>2, <2>3 DEF Life, PendingExact, PendingHasUrb, PendingIssued,
        KernelPending, SubmittingPending, SettlingPending, InKernel, Submitting, Holding
  <2>5. (UnlinksApart /\ EmitKnown)'
    BY <2>1, <2>3 DEF Life, UnlinksApart, EmitKnown, Holding, Settled
  <2> QED  BY <2>4, <2>5 DEF Life
<1>2. CASE ReapUrb(s)
  <2>1. PendingExact'
    BY <1>2 DEF ReapUrb, OnDevice, Inv, TypeOK, Life, PendingExact, PendingHasUrb,
        PendingIssued, KernelPending, SubmittingPending, SettlingPending, InKernel,
        Submitting
  <2>2. UnlinksApart'
    BY <1>2 DEF ReapUrb, Life, UnlinksApart
  <2>3. EmitKnown'
    BY <1>2 DEF ReapUrb, Inv, TypeOK, Life, EmitKnown, Settled
  <2> QED  BY <2>1, <2>2, <2>3 DEF Life
<1>3. CASE Settle(s)
  <2>0. /\ rcur[s] \in Requests /\ rcur[s] \in pending_requests
        /\ urb[rcur[s]] = "reaped" /\ issued[rcur[s]] = "SUBMIT"
        /\ state[rcur[s]] \in {"PENDING", "UNLINKING"}
    BY <1>3 DEF Settle, Inv, TypeOK, Ownership, ReaperHolds, PendingOpen, Holding, Life,
        PendingExact, SettlingPending
  <2>1. PendingExact'
    <3>1. PendingHasUrb'
      BY <1>3, <2>0 DEF Settle, Inv, TypeOK, Life, PendingExact, PendingHasUrb,
          PendingIssued, KernelPending, SubmittingPending, SettlingPending, InKernel,
          Submitting
    <3>2. KernelPending'
      BY <1>3, <2>0 DEF Settle, Life, PendingExact, KernelPending, InKernel
    <3>3. SubmittingPending'
      BY <1>3, <2>0 DEF Settle, Inv, TypeOK, Ownership, HandlerHolds, Life, PendingExact,
          SubmittingPending
    <3>4. SettlingPending'
      BY <1>3, <2>0 DEF Settle, Inv, TypeOK, Ownership, ReapersApart, Holding, Life,
          PendingExact, SettlingPending
    <3>5. PendingIssued'
      BY <1>3 DEF Settle, Life, PendingExact, PendingIssued
    <3> QED  BY <3>1, <3>2, <3>3, <3>4, <3>5 DEF PendingExact
  <2>2. UnlinksApart'
    BY <1>3, <2>0 DEF Settle, Inv, TypeOK, Life, UnlinksApart
  <2>3. EmitKnown'
    <3>1. emit'[s] = IF unlink_seqnum[rcur[s]] = NoReq THEN "RET_SUBMIT" ELSE "RET_UNLINK"
      BY <1>3, <2>0, NullAssumption DEF Settle, EmitFor, Inv, TypeOK, UnlinkKnown, Life,
          UnlinksApart
    <3>2. state'[rcur[s]] = "COMPLETED"
      BY <1>3, <2>0 DEF Settle, Inv, TypeOK
    <3>3. ASSUME NEW t \in Sessions, t # s, rpc'[t] \in Settled
          PROVE  /\ rpc[t] \in Settled /\ emit'[t] = emit[t]
                 /\ rcur[t] \in Requests /\ rcur[t] # rcur[s]
      BY <1>3, <3>3 DEF Settle, Inv, TypeOK, Ownership, ReaperHolds, ReapersApart, Holding,
          Settled
    <3>4. UNCHANGED <<rcur, unlink_seqnum>> /\ state' = [state EXCEPT ![rcur[s]] =
        "COMPLETED"]
      BY <1>3 DEF Settle
    <3> QED  BY <2>0, <3>1, <3>2, <3>3, <3>4 DEF Inv, TypeOK, Life, EmitKnown
  <2> QED  BY <2>1, <2>2, <2>3 DEF Life
<1>4. CASE Uncount(s) \/ Reply(s)
  <2>1. PendingExact'
    BY <1>4 DEF Uncount, Reply, Inv, TypeOK, Life, PendingExact, PendingHasUrb,
        PendingIssued, KernelPending, SubmittingPending, SettlingPending, InKernel,
        Submitting
  <2>2. UnlinksApart'
    BY <1>4 DEF Uncount, Reply, Life, UnlinksApart
  <2>3. EmitKnown'
    BY <1>4 DEF Uncount, Reply, Inv, TypeOK, Life, EmitKnown, Settled
  <2> QED  BY <2>1, <2>2, <2>3 DEF Life
<1>5. CASE NoReply(s) \/ EnqueueReply(s)
  <2>0. /\ rpc[s] \in Settled /\ rpc'[s] = "check"
        /\ \A t \in Sessions : t # s => rpc'[t] = rpc[t] /\ rcur'[t] = rcur[t] /\ emit'[t] = emit[t]
        /\ UNCHANGED <<pending_requests, hpc, hcur, state, unlink_seqnum, urb, issued>>
    BY <1>5 DEF NoReply, EnqueueReply, Inv, TypeOK, Settled
  <2>1. PendingExact'
    BY <2>0 DEF Life, PendingExact, PendingHasUrb, PendingIssued, KernelPending,
        SubmittingPending, SettlingPending, InKernel, Submitting, Settled
  <2>2. (UnlinksApart /\ EmitKnown)'
    BY <2>0 DEF Life, UnlinksApart, EmitKnown, Settled
  <2> QED  BY <2>1, <2>2 DEF Life
<1> QED
  BY <1>1, <1>2, <1>3, <1>4, <1>5 DEF Reap

-----------------------------------------------------------------------------
(* Every step but a send is a step of UsbRequests, or none. *)

LEMMA FateIsFunction == Fate = [r \in Requests |-> Fate[r]]
BY DEF Fate

LEMMA FateValues == TypeOK => \A r \in Requests :
  /\ issued[r] # "SUBMIT" => Fate[r] = "none"
  /\ issued[r] = "SUBMIT" /\ state[r] = "COMPLETED" =>
       Fate[r] = IF unlink_seqnum[r] = NoReq THEN "completed" ELSE "cancelled"
  /\ issued[r] = "SUBMIT" /\ state[r] = "UNLINKING" => Fate[r] = "unlinking"
  /\ issued[r] = "SUBMIT" /\ state[r] = "PENDING" =>
       Fate[r] = IF r \in pending_requests THEN "open" ELSE "abandoned"
BY DEF Fate, FateOfSettled, FateOfPending, TypeOK

LEMMA FateValuesNext == TypeOK' => \A r \in Requests :
  /\ issued'[r] # "SUBMIT" => Fate'[r] = "none"
  /\ issued'[r] = "SUBMIT" /\ state'[r] = "COMPLETED" =>
       Fate'[r] = IF unlink_seqnum'[r] = NoReq THEN "completed" ELSE "cancelled"
  /\ issued'[r] = "SUBMIT" /\ state'[r] = "UNLINKING" => Fate'[r] = "unlinking"
  /\ issued'[r] = "SUBMIT" /\ state'[r] = "PENDING" =>
       Fate'[r] = IF r \in pending_requests' THEN "open" ELSE "abandoned"
BY DEF Fate, FateOfSettled, FateOfPending, TypeOK

LEMMA FateKept ==
  ASSUME NEW r \in Requests, issued'[r] = issued[r], state'[r] = state[r],
         unlink_seqnum'[r] = unlink_seqnum[r],
         r \in pending_requests' <=> r \in pending_requests
  PROVE  Fate'[r] = Fate[r]
BY DEF Fate, FateOfSettled, FateOfPending

LEMMA FateBecomes ==
  ASSUME NEW r \in Requests, NEW to, Fate'[r] = to,
         \A q \in Requests : q # r => Fate'[q] = Fate[q]
  PROVE  Fate' = [Fate EXCEPT ![r] = to]
<1>1. Fate' = [q \in Requests |-> Fate'[q]] /\ Fate = [q \in Requests |-> Fate[q]]
  BY DEF Fate
<1> HIDE DEF Fate
<1> QED
  BY <1>1

LEMMA FateStutters ==
  ASSUME \A q \in Requests : Fate'[q] = Fate[q]
  PROVE  Fate' = Fate
<1>1. Fate' = [q \in Requests |-> Fate'[q]] /\ Fate = [q \in Requests |-> Fate[q]]
  BY DEF Fate
<1> QED
  BY <1>1

LEMMA UpEnds ==
  ASSUME NEW s \in Sessions, is_connected'[s] = FALSE \/ hpc'[s] = "leave",
         \A t \in Sessions : t # s => is_connected'[t] = is_connected[t] /\ hpc'[t] = hpc[t]
  PROVE  Up' = [Up EXCEPT ![s] = FALSE]
<1>1. Up' = [t \in Sessions |-> Up'[t]] /\ Up = [t \in Sessions |-> Up[t]]
  BY DEF Up
<1>2. Up'[s] = FALSE
  BY DEF Up
<1>3. ASSUME NEW t \in Sessions, t # s
      PROVE  Up'[t] = Up[t]
  BY <1>3 DEF Up
<1> QED
  BY <1>1, <1>2, <1>3

LEMMA UpStutters ==
  ASSUME TypeOK, \A t \in Sessions : is_connected'[t] = is_connected[t],
         \A t \in Sessions : hpc'[t] = "leave" <=> hpc[t] = "leave"
  PROVE  Up' = Up
BY DEF Up, TypeOK

\* What the client sees does not depend on the reapers' control points, on
\* in_flight_urbs_count, on the heap or on what is queued.
LEMMA UnseenSteps ==
  ASSUME TypeOK, UNCHANGED <<pending_requests, issued, state, unlink_seqnum>>
  PROVE  Fate' = Fate
BY DEF Fate, FateOfSettled, FateOfPending

ClientStep == [Client!Next]_(Client!vars)

LEMMA UnseenStep ==
  ASSUME TypeOK, Up' = Up, UNCHANGED <<pending_requests, issued, state, unlink_seqnum, wire>>
  PROVE  ClientStep
BY UnseenSteps DEF ClientStep, Client!vars

LEMMA EndStep ==
  ASSUME TypeOK, NEW s \in Sessions, Up' = [Up EXCEPT ![s] = FALSE],
         UNCHANGED <<pending_requests, issued, state, unlink_seqnum, wire>>
  PROVE  ClientStep
BY UnseenSteps DEF ClientStep, Client!Next, Client!End

LEMMA HandshakeStep ==
  ASSUME Inv, NEW s \in Sessions, Refuse(s) \/ Import(s)
  PROVE  ClientStep
<1> USE DEF HandlerGoes, Disconnect, handlerVars, reaperVars, heapVars
<1>1. CASE Refuse(s)
  <2>1. /\ is_connected'[s] = FALSE \/ hpc'[s] = "leave"
        /\ \A t \in Sessions : t # s => is_connected'[t] = is_connected[t] /\ hpc'[t] = hpc[t]
    BY <1>1 DEF Refuse, Inv, TypeOK
  <2>2. Up' = [Up EXCEPT ![s] = FALSE]
    BY <2>1, UpEnds
  <2> QED
    BY <1>1, <2>2, EndStep DEF Refuse, Inv
<1>2. CASE Import(s)
  <2>1. Up' = Up
    BY <1>2, UpStutters DEF Import, Inv, TypeOK
  <2> QED
    BY <1>2, <2>1, UnseenStep DEF Import, Inv
<1> QED
  BY <1>1, <1>2

LEMMA ReceiveStep ==
  ASSUME Inv, Inv', Life, NEW s \in Sessions, Receive(s)
  PROVE  ClientStep
<1> USE DEF HandlerGoes, handlerVars, reaperVars, txVars, heapVars
<1>0. TypeOK /\ TypeOK'
  BY DEF Inv
<1>1. CASE RecvFails(s)
  <2>1. /\ is_connected'[s] = FALSE \/ hpc'[s] = "leave"
        /\ \A t \in Sessions : t # s => is_connected'[t] = is_connected[t] /\ hpc'[t] = hpc[t]
    BY <1>1 DEF RecvFails, Inv, TypeOK
  <2>2. Up' = [Up EXCEPT ![s] = FALSE]
    BY <2>1, UpEnds
  <2> QED
    BY <1>1, <2>2, EndStep DEF RecvFails, Inv
<1>2. ASSUME NEW r \in Commands(s), RecvSubmit(s, r)
      PROVE  ClientStep
  <2>1. /\ r \in Requests /\ issued[r] = "unused"
        /\ issued' = [issued EXCEPT ![r] = "SUBMIT"]
        /\ state' = [state EXCEPT ![r] = "PENDING"]
        /\ pending_requests' = pending_requests \cup {r}
        /\ UNCHANGED <<unlink_seqnum, wire>>
    BY <1>2 DEF RecvSubmit, Commands
  <2>2. Up' = Up
    BY <1>2, UpStutters DEF RecvSubmit, Inv, TypeOK
  <2>3. Fate[r] = "none" /\ Fate'[r] = "open"
    BY <1>0, <2>1, FateValues, FateValuesNext DEF TypeOK
  <2>4. \A q \in Requests : q # r => Fate'[q] = Fate[q]
    <3> SUFFICES ASSUME NEW q \in Requests, q # r
                 PROVE  Fate'[q] = Fate[q]
      OBVIOUS
    <3>1. issued'[q] = issued[q] /\ state'[q] = state[q] /\ unlink_seqnum'[q] = unlink_seqnum[q]
      BY <2>1 DEF Inv, TypeOK
    <3>2. q \in pending_requests' <=> q \in pending_requests
      BY <2>1
    <3> QED  BY <3>1, <3>2, FateKept
  <2>5. Fate' = [Fate EXCEPT ![r] = "open"]
    BY <2>1, <2>3, <2>4, FateBecomes
  <2>6. Client!Submit(r)
    BY <2>1, <2>2, <2>3, <2>5 DEF Client!Submit, Client!Use, Client!Becomes
  <2> QED
    BY <2>1, <2>6 DEF ClientStep, Client!Next
<1>3. ASSUME NEW u \in Commands(s), NEW t \in Commands(s), UnlinkPending(s, u, t)
      PROVE  ClientStep
  <2>1. /\ u \in Requests /\ t \in Requests /\ Owner(u) = Owner(t)
        /\ issued[u] = "unused" /\ issued[t] = "SUBMIT"
        /\ issued' = [issued EXCEPT ![u] = "UNLINK"]
        /\ state[t] = "PENDING" /\ state' = [state EXCEPT ![t] = "UNLINKING"]
        /\ t \in pending_requests
        /\ unlink_seqnum' = [unlink_seqnum EXCEPT ![t] = u]
        /\ UNCHANGED <<pending_requests, wire>>
    BY <1>3 DEF UnlinkPending, RecvUnlink, Commands
  <2>2. Up' = Up
    BY <1>3, UpStutters DEF UnlinkPending, RecvUnlink, Inv, TypeOK
  <2>3. Fate[t] = "open" /\ Fate'[t] = "unlinking"
    BY <1>0, <2>1, FateValues, FateValuesNext DEF TypeOK
  <2>4. \A q \in Requests : q # t => Fate'[q] = Fate[q]
    <3>1. Fate[u] = "none" /\ Fate'[u] = "none"
      BY <1>0, <2>1, FateValues, FateValuesNext DEF TypeOK
    <3>2. \A q \in Requests : q # t /\ q # u => Fate'[q] = Fate[q]
      BY <1>0, <2>1, FateKept DEF TypeOK
    <3> QED  BY <3>1, <3>2
  <2>5. Fate' = [Fate EXCEPT ![t] = "unlinking"]
    BY <2>1, <2>3, <2>4, FateBecomes
  <2>6. Client!Unlink(u, t)
    BY <2>1, <2>2, <2>3, <2>5 DEF Client!Unlink, Client!Use, Client!Becomes, Client!Owner, Owner
  <2> QED
    BY <2>1, <2>6 DEF ClientStep, Client!Next
<1>4. ASSUME NEW u \in Commands(s), NEW t \in Commands(s),
             UnlinkDuplicate(s, u, t) \/ UnlinkMissing(s, u, t)
      PROVE  ClientStep
  <2>1. /\ u \in Requests /\ issued[u] = "unused"
        /\ issued' = [issued EXCEPT ![u] = "UNLINK"]
        /\ UNCHANGED <<pending_requests, state, unlink_seqnum, wire>>
    BY <1>4 DEF UnlinkDuplicate, UnlinkMissing, RecvUnlink, Commands
  <2>2. Up' = Up
    BY <1>4, UpStutters DEF UnlinkDuplicate, UnlinkMissing, RecvUnlink, Inv, TypeOK
  <2>3. \A q \in Requests : Fate'[q] = Fate[q]
    <3>1. Fate[u] = "none" /\ Fate'[u] = "none"
      BY <1>0, <2>1, FateValues, FateValuesNext DEF TypeOK
    <3>2. \A q \in Requests : q # u => Fate'[q] = Fate[q]
      BY <1>0, <2>1, FateKept DEF TypeOK
    <3> QED  BY <3>1, <3>2
  <2>4. Fate' = Fate
    BY <2>3, FateStutters
  <2>5. Client!UnlinkLate(u)
    BY <2>1, <2>2, <2>4 DEF Client!UnlinkLate, Client!Use
  <2> QED
    BY <2>1, <2>5 DEF ClientStep, Client!Next
<1> QED
  BY <1>1, <1>2, <1>3, <1>4 DEF Receive

\* A request is completed or abandoned by the handler only while it is open.
LEMMA HandleStep ==
  ASSUME Inv, Inv', Life, NEW s \in Sessions, Handle(s)
  PROVE  ClientStep
<1> USE DEF HandlerGoes, HandlerForgets, Disconnect, Erase, Free, handlerVars, reaperVars,
            txVars, heapVars
<1>0. TypeOK /\ TypeOK'
  BY DEF Inv
<1>9. hpc[s] \in {"prepare", "submit"} =>
        /\ hcur[s] \in Requests /\ Owner(hcur[s]) = s /\ issued[hcur[s]] = "SUBMIT"
        /\ hcur[s] \in pending_requests /\ state[hcur[s]] = "PENDING"
        /\ unlink_seqnum[hcur[s]] = NoReq /\ Fate[hcur[s]] = "open"
  BY <1>0, FateValues DEF Inv, Ownership, HandlerHolds, Life, PendingExact, SubmittingPending,
      UnlinksApart
<1>1. CASE LoopTest(s)
  <2>1. UNCHANGED <<is_connected, pending_requests, issued, state, unlink_seqnum, wire>>
    BY <1>1 DEF LoopTest
  <2>2. Up' = Up
    BY <1>1 DEF LoopTest, Inv, TypeOK, Up
  <2> QED
    BY <1>0, <2>1, <2>2, UnseenStep
<1>2. CASE AllocFails(s)
  <2>0. DEFINE r == hcur[s]
  <2>1. /\ hpc[s] = "prepare"
        /\ pending_requests' = pending_requests \ {r}
        /\ UNCHANGED <<state, unlink_seqnum, issued, wire>>
    BY <1>2 DEF AllocFails
  <2>2. /\ is_connected'[s] = FALSE \/ hpc'[s] = "leave"
        /\ \A t \in Sessions : t # s => is_connected'[t] = is_connected[t] /\ hpc'[t] = hpc[t]
    BY <1>2 DEF AllocFails, Inv, TypeOK
  <2>3. Up' = [Up EXCEPT ![s] = FALSE]
    BY <2>2, UpEnds
  <2>4. Fate'[r] = "abandoned"
    BY <1>0, <1>9, <2>1, FateValuesNext
  <2>5. \A q \in Requests : q # r => Fate'[q] = Fate[q]
    BY <2>1, FateKept
  <2>6. Fate' = [Fate EXCEPT ![r] = "abandoned"]
    BY <1>9, <2>1, <2>4, <2>5, FateBecomes
  <2>7. Client!Abandon(r)
    BY <1>9, <2>1, <2>3, <2>6 DEF Client!Abandon, Client!Becomes, Client!Owner, Owner
  <2> QED
    BY <1>9, <2>1, <2>7 DEF ClientStep, Client!Next
<1>3. CASE Intercept(s) \/ SubmitFails(s)
  <2>0. DEFINE r == hcur[s]
  <2>1. /\ hpc[s] \in {"prepare", "submit"}
        /\ pending_requests' = pending_requests \ {r}
        /\ state' = [state EXCEPT ![r] = "COMPLETED"]
        /\ UNCHANGED <<unlink_seqnum, issued, wire>>
    BY <1>3 DEF Intercept, SubmitFails
  <2>2. Up' = Up
    BY <1>3, UpStutters DEF Intercept, SubmitFails, Inv, TypeOK
  <2>4. Fate'[r] = "completed"
    BY <1>0, <1>9, <2>1, FateValuesNext DEF TypeOK
  <2>5. \A q \in Requests : q # r => Fate'[q] = Fate[q]
    <3> SUFFICES ASSUME NEW q \in Requests, q # r
                 PROVE  Fate'[q] = Fate[q]
      OBVIOUS
    <3>1. issued'[q] = issued[q] /\ state'[q] = state[q] /\ unlink_seqnum'[q] = unlink_seqnum[q]
      BY <2>1 DEF Inv, TypeOK
    <3>2. q \in pending_requests' <=> q \in pending_requests
      BY <2>1
    <3> QED  BY <3>1, <3>2, FateKept
  <2>6. Fate' = [Fate EXCEPT ![r] = "completed"]
    BY <1>9, <2>1, <2>4, <2>5, FateBecomes
  <2>7. Client!Complete(r)
    BY <1>9, <2>1, <2>2, <2>6 DEF Client!Complete, Client!Becomes
  <2> QED
    BY <1>9, <2>1, <2>7 DEF ClientStep, Client!Next
<1>4. CASE CountInFlight(s) \/ SubmitUrb(s) \/ DiscardUrb(s) \/ CleanupZombieUrbs(s)
  <2>1. UNCHANGED <<is_connected, pending_requests, issued, state, unlink_seqnum, wire>>
    BY <1>4 DEF CountInFlight, SubmitUrb, DiscardUrb, CleanupZombieUrbs
  <2>2. Up' = Up
    BY <1>4, <2>1, UpStutters DEF CountInFlight, SubmitUrb, DiscardUrb, CleanupZombieUrbs, Inv,
        TypeOK
  <2> QED
    BY <1>0, <2>1, <2>2, UnseenStep
<1>5. CASE Leave(s)
  <2>1. UNCHANGED <<pending_requests, issued, state, unlink_seqnum, wire>>
    BY <1>5 DEF Leave
  <2>2. Up' = Up
    BY <1>5 DEF Leave, Inv, TypeOK, Up
  <2> QED
    BY <1>0, <2>1, <2>2, UnseenStep
<1> QED
  BY <1>1, <1>2, <1>3, <1>4, <1>5 DEF Handle

LEMMA ReapStep ==
  ASSUME Inv, Inv', Life, NEW s \in Sessions, Reap(s)
  PROVE  ClientStep
<1> USE DEF ReaperGoes, ReaperForgets, Free, handlerVars, reaperVars, txVars, heapVars
<1>1. CASE Settle(s)
  <2>0. DEFINE r == rcur[s]
  <2>1. /\ r \in Requests /\ r \in pending_requests /\ issued[r] = "SUBMIT"
        /\ state[r] \in {"PENDING", "UNLINKING"}
    BY <1>1 DEF Settle, Inv, TypeOK, Ownership, ReaperHolds, PendingOpen, Holding, Life,
        PendingExact, SettlingPending
  <2>2. /\ pending_requests' = pending_requests \ {r}
        /\ state' = [state EXCEPT ![r] = "COMPLETED"]
        /\ UNCHANGED <<is_connected, hpc, unlink_seqnum, issued, wire>>
    BY <1>1, <2>1 DEF Settle
  <2>3. Up' = Up
    BY <2>2 DEF Up
  <2>4. Fate'[r] = IF unlink_seqnum[r] = NoReq THEN "completed" ELSE "cancelled"
    BY <2>1, <2>2, FateValuesNext DEF Inv, TypeOK
  <2>5. \A q \in Requests : q # r => Fate'[q] = Fate[q]
    <3> SUFFICES ASSUME NEW q \in Requests, q # r
                 PROVE  Fate'[q] = Fate[q]
      OBVIOUS
    <3>1. issued'[q] = issued[q] /\ state'[q] = state[q] /\ unlink_seqnum'[q] = unlink_seqnum[q]
      BY <2>2 DEF Inv, TypeOK
    <3>2. q \in pending_requests' <=> q \in pending_requests
      BY <2>2
    <3> QED  BY <3>1, <3>2, FateKept
  <2>6. CASE state[r] = "PENDING"
    <3>1. Fate[r] = "open" /\ unlink_seqnum[r] = NoReq
      BY <2>1, <2>6, FateValues DEF Inv, Life, UnlinksApart
    <3>2. Fate' = [Fate EXCEPT ![r] = "completed"]
      BY <2>1, <2>4, <2>5, <3>1, FateBecomes
    <3>3. Client!Complete(r)
      BY <2>2, <2>3, <3>1, <3>2 DEF Client!Complete, Client!Becomes
    <3> QED  BY <2>1, <3>3 DEF ClientStep, Client!Next
  <2>7. CASE state[r] = "UNLINKING"
    <3>1. Fate[r] = "unlinking" /\ unlink_seqnum[r] # NoReq
      BY <2>1, <2>7, FateValues, NullAssumption DEF Inv, UnlinkKnown
    <3>2. Fate' = [Fate EXCEPT ![r] = "cancelled"]
      BY <2>1, <2>4, <2>5, <3>1, FateBecomes
    <3>3. Client!Cancel(r)
      BY <2>2, <2>3, <3>1, <3>2 DEF Client!Cancel, Client!Becomes
    <3> QED  BY <2>1, <3>3 DEF ClientStep, Client!Next
  <2> QED
    BY <2>1, <2>6, <2>7
<1>2. CASE ~Settle(s)
  <2>1. UNCHANGED <<is_connected, hpc, pending_requests, issued, state, unlink_seqnum, wire>>
    BY <1>2 DEF Reap, ReapCheck, ReapUrb, ReapAgain, ReapNoDevice, Uncount, Reply, NoReply,
        EnqueueReply
  <2>2. Up' = Up
    BY <2>1 DEF Up
  <2> QED
    BY <2>1, <2>2, UnseenStep DEF Inv
<1> QED
  BY <1>1, <1>2

LEMMA TransmitStep ==
  ASSUME Inv, NEW s \in Sessions, Transmit(s), ~TxSend(s)
  PROVE  ClientStep
<1> USE DEF Disconnect, handlerVars, reaperVars, heapVars
<1>1. UNCHANGED <<pending_requests, issued, state, unlink_seqnum, wire, hpc>>
  BY DEF Transmit, TxCheck, TxExit, TxPop, TxIdle, TxFails
<1>2. CASE TxFails(s)
  <2>1. /\ is_connected'[s] = FALSE \/ hpc'[s] = "leave"
        /\ \A t \in Sessions : t # s => is_connected'[t] = is_connected[t] /\ hpc'[t] = hpc[t]
    BY <1>2 DEF TxFails, Inv, TypeOK
  <2>2. Up' = [Up EXCEPT ![s] = FALSE]
    BY <2>1, UpEnds
  <2> QED
    BY <1>1, <2>2, EndStep DEF Inv
<1>3. CASE ~TxFails(s)
  <2>1. UNCHANGED is_connected
    BY <1>3 DEF Transmit, TxCheck, TxExit, TxPop, TxIdle
  <2>2. Up' = Up
    BY <1>1, <2>1 DEF Up
  <2> QED
    BY <1>1, <2>2, UnseenStep DEF Inv
<1> QED
  BY <1>2, <1>3

LEMMA OtherStep ==
  ASSUME Inv, \/ \E r \in Requests : CompleteUrb(r)
              \/ \E d \in Devices : Unplug(d)
              \/ UNCHANGED vars
  PROVE  ClientStep
<1>1. UNCHANGED <<is_connected, hpc, pending_requests, issued, state, unlink_seqnum, wire>>
  BY DEF CompleteUrb, Unplug, vars, handlerVars, heapVars
<1>2. Up' = Up
  BY <1>1 DEF Up
<1> QED
  BY <1>1, <1>2, UnseenStep DEF Inv

-----------------------------------------------------------------------------
(* What each kind of step does to the packets not yet on a socket. *)

LEMMA InHandType ==
  ASSUME TypeOK, NEW s \in Sessions
  PROVE  InHand(s) \in Seq(Packets)
BY DEF TypeOK, InHand

LEMMA OutgoingType ==
  ASSUME TypeOK, NEW s \in Sessions
  PROVE  Outgoing(s) \in Seq(Packets)
<1>1. tx_queue[s] \in Seq(Packets)
  BY DEF TypeOK
<1> QED
  BY <1>1, InHandType, ConcatProperties DEF Outgoing

LEMMA OutgoingKept ==
  ASSUME NEW s \in Sessions, tcur'[s] = tcur[s], tx_queue'[s] = tx_queue[s]
  PROVE  Outgoing(s)' = Outgoing(s)
BY DEF Outgoing, InHand

LEMMA AppendConcat ==
  ASSUME NEW S, NEW p \in Seq(S), NEW q \in Seq(S), NEW e \in S
  PROVE  p \o Append(q, e) = Append(p \o q, e)
OBVIOUS

LEMMA OutgoingEnqueue ==
  ASSUME TypeOK, NEW o \in Sessions, NEW pkt \in Packets, Enqueue(o, pkt), UNCHANGED tcur
  PROVE  /\ Outgoing(o)' = Append(Outgoing(o), pkt)
         /\ \A s \in Sessions : s # o => Outgoing(s)' = Outgoing(s)
<1>1. tx_queue[o] \in Seq(Packets) /\ InHand(o) \in Seq(Packets)
  BY InHandType DEF TypeOK
<1>2. tx_queue'[o] = Append(tx_queue[o], pkt)
  BY DEF TypeOK, Enqueue
<1>3. Outgoing(o)' = InHand(o) \o Append(tx_queue[o], pkt)
  BY <1>2 DEF Outgoing, InHand
<1>4. Outgoing(o)' = Append(Outgoing(o), pkt)
  BY <1>1, <1>3, AppendConcat DEF Outgoing
<1>5. ASSUME NEW s \in Sessions, s # o
      PROVE  Outgoing(s)' = Outgoing(s)
  BY <1>5, OutgoingKept DEF TypeOK, Enqueue
<1> QED
  BY <1>4, <1>5

LEMMA OutgoingPop ==
  ASSUME TypeOK, NEW s \in Sessions, tcur[s] = NoPacket, tx_queue[s] # << >>,
         tcur'[s] = Head(tx_queue[s]), tx_queue'[s] = Tail(tx_queue[s])
  PROVE  Outgoing(s)' = Outgoing(s)
<1> DEFINE q == tx_queue[s]
<1>1. q \in Seq(Packets)
  BY DEF TypeOK
<1>2. q = <<Head(q)>> \o Tail(q)
  BY <1>1
<1>3. Outgoing(s) = q
  BY <1>1, ConcatEmptySeq DEF Outgoing, InHand
<1>4. Head(q) # NoPacket
  BY <1>1, HeadTailProperties, NullAssumption
<1>5. Outgoing(s)' = <<Head(q)>> \o Tail(q)
  BY <1>4 DEF Outgoing, InHand
<1> QED
  BY <1>2, <1>3, <1>5

LEMMA OutgoingSent ==
  ASSUME TypeOK, NEW s \in Sessions, tcur[s] \in Packets,
         tcur'[s] = NoPacket, tx_queue'[s] = tx_queue[s]
  PROVE  /\ Outgoing(s) = <<tcur[s]>> \o tx_queue[s]
         /\ Outgoing(s)' = tx_queue[s]
<1>1. tx_queue[s] \in Seq(Packets)
  BY DEF TypeOK
<1>2. tcur[s] # NoPacket
  BY NullAssumption
<1> QED
  BY <1>1, <1>2, ConcatEmptySeq DEF Outgoing, InHand

LEMMA RepliesOf ==
  ASSUME NEW s \in Sessions, NEW pkt
  PROVE  pkt \in Replies(s) <=>
           pkt \in wire[s] \/ \E i \in DOMAIN Outgoing(s) : pkt = Outgoing(s)[i]
BY DEF Replies, Queued

LEMMA RepliesNext ==
  ASSUME NEW s \in Sessions, NEW pkt
  PROVE  pkt \in Replies(s)' <=>
           pkt \in wire'[s] \/ \E i \in DOMAIN Outgoing(s)' : pkt = Outgoing(s)'[i]
BY DEF Replies, Queued

-----------------------------------------------------------------------------
(* Due packets stay due. *)

DueKept == \A pkt \in Packets : Client!Due(pkt) => Client!Due(pkt)'

LEMMA DueStays ==
  ASSUME TypeOK, \/ ClientStep
                 \/ UNCHANGED <<issued, state, unlink_seqnum, pending_requests>>
  PROVE  DueKept
<1> SUFFICES ASSUME NEW pkt \in Packets, Client!Due(pkt)
             PROVE  Client!Due(pkt)'
  BY DEF DueKept
<1>0. /\ pkt.seqnum \in Requests
      /\ Fate = [r \in Requests |-> Fate[r]]
      /\ issued = [r \in Requests |-> issued[r]]
      /\ unlink_seqnum = [r \in Requests |-> unlink_seqnum[r]]
  BY FateIsFunction DEF Packets, TypeOK
<1> USE DEF Client!Due, Client!Use, Client!Becomes
<1>1. ASSUME NEW r \in Requests, Client!Submit(r)
      PROVE  Client!Due(pkt)'
  BY <1>0, <1>1 DEF Client!Submit
<1>2. ASSUME NEW r \in Requests, Client!Complete(r)
      PROVE  Client!Due(pkt)'
  BY <1>0, <1>2 DEF Client!Complete
<1>3. ASSUME NEW r \in Requests, Client!Cancel(r)
      PROVE  Client!Due(pkt)'
  BY <1>0, <1>3 DEF Client!Cancel
<1>4. ASSUME NEW r \in Requests, Client!UnlinkLate(r)
      PROVE  Client!Due(pkt)'
  BY <1>0, <1>4 DEF Client!UnlinkLate
<1>5. ASSUME NEW r \in Requests, Client!Abandon(r)
      PROVE  Client!Due(pkt)'
  BY <1>0, <1>5 DEF Client!Abandon
<1>6. ASSUME NEW u \in Requests, NEW t \in Requests, Client!Unlink(u, t)
      PROVE  Client!Due(pkt)'
  BY <1>0, <1>6 DEF Client!Unlink
<1>7. CASE UNCHANGED <<issued, Fate, unlink_seqnum>>
  BY <1>7
<1>8. UNCHANGED <<issued, state, unlink_seqnum, pending_requests>>
        => UNCHANGED <<issued, Fate, unlink_seqnum>>
  BY UnseenSteps
<1>9. ASSUME NEW s \in Sessions, Client!Send(s) \/ Client!End(s)
      PROVE  UNCHANGED <<issued, Fate, unlink_seqnum>>
  BY <1>9 DEF Client!Send, Client!End
<1>10. UNCHANGED Client!vars => UNCHANGED <<issued, Fate, unlink_seqnum>>
  BY DEF Client!vars
<1> HIDE DEF Client!Due, Client!Use, Client!Becomes
<1> QED
  BY <1>1, <1>2, <1>3, <1>4, <1>5, <1>6, <1>7, <1>8, <1>9, <1>10 DEF ClientStep, Client!Next

\* Nothing is due to a sequence number not used yet, to a request not settled, or
\* to an unlink whose request is not settled.
LEMMA NothingDue ==
  ASSUME TypeOK, UnlinksApart, NEW q \in Requests,
         \/ issued[q] = "unused"
         \/ issued[q] = "SUBMIT" /\ Fate[q] # "completed"
         \/ \E r \in Requests : unlink_seqnum[r] = q /\ Fate[r] # "cancelled",
         NEW pkt \in Packets, Client!Due(pkt)
  PROVE  pkt.seqnum # q
<1> SUFFICES ASSUME pkt.seqnum = q PROVE FALSE
  OBVIOUS
<1>1. /\ unlink_seqnum \in [Requests -> Requests \cup {NoReq}]
      /\ \A r \in Requests : unlink_seqnum[r] # NoReq => issued[unlink_seqnum[r]] = "UNLINK"
      /\ q # NoReq
  BY NullAssumption DEF TypeOK, UnlinksApart
<1>2. CASE pkt.command = "RET_SUBMIT" /\ Fate[q] = "completed"
  <2>1. issued[q] = "SUBMIT"
    BY <1>2, FateValues DEF TypeOK
  <2> QED  BY <1>1, <1>2, <2>1
<1>3. CASE \E r \in Requests : Fate[r] = "cancelled" /\ unlink_seqnum[r] = q
  BY <1>1, <1>3 DEF UnlinksApart
<1>4. CASE issued[q] = "UNLINK" /\ \A r \in Requests : unlink_seqnum[r] # q
  BY <1>4
<1> QED
  BY <1>2, <1>3, <1>4 DEF Client!Due

LEMMA NobodyAnswered ==
  ASSUME TypeOK, UnlinksApart, QueuedDue, WireDue, NEW q \in Requests,
         \/ issued[q] = "unused"
         \/ issued[q] = "SUBMIT" /\ Fate[q] # "completed"
         \/ \E r \in Requests : unlink_seqnum[r] = q /\ Fate[r] # "cancelled"
  PROVE  Unanswered(q)
<1> SUFFICES ASSUME NEW pkt \in Replies(Owner(q))
             PROVE  pkt.seqnum # q
  BY DEF Unanswered
<1>1. Owner(q) \in Sessions
  BY RequestOwner
<1>2. pkt \in Packets /\ Client!Due(pkt)
  BY <1>1, RepliesOf DEF QueuedDue, WireDue, TypeOK
<1> QED
  BY <1>2, NothingDue

-----------------------------------------------------------------------------
(* Sending *)

\* The commands that reapers are about to answer stay the same, or become fewer.
ReapersKept == \A s \in Sessions :
  rpc'[s] \in Settled => rpc[s] \in Settled /\ Answering(s)' = Answering(s)

LEMMA AnsweringType ==
  ASSUME Inv, Life, NEW s \in Sessions, rpc[s] \in Settled
  PROVE  /\ Answering(s) \in Requests
         /\ rcur[s] \in Requests
         /\ emit[s] = "RET_SUBMIT" => issued[Answering(s)] = "SUBMIT"
         /\ emit[s] = "RET_UNLINK" => issued[Answering(s)] = "UNLINK"
         /\ emit[s] \in {"RET_SUBMIT", "RET_UNLINK"}
<1>1. rcur[s] \in Requests /\ issued[rcur[s]] = "SUBMIT"
  BY DEF Inv, Ownership, ReaperHolds, Holding, Settled
<1>2. emit[s] = IF unlink_seqnum[rcur[s]] = NoReq THEN "RET_SUBMIT" ELSE "RET_UNLINK"
  BY DEF Life, EmitKnown
<1>3. unlink_seqnum[rcur[s]] # NoReq =>
        unlink_seqnum[rcur[s]] \in Requests /\ issued[unlink_seqnum[rcur[s]]] = "UNLINK"
  BY <1>1 DEF Life, UnlinksApart
<1> QED
  BY <1>1, <1>2, <1>3 DEF Answering

LEMMA KeptSending ==
  ASSUME Inv, Life, Sending, DueKept, ReapersKept, wire' = wire, NothingInHand',
         \A s \in Sessions : Outgoing(s)' = Outgoing(s)
  PROVE  Sending'
<1>1. \A s \in Sessions : Replies(s)' = Replies(s)
  BY DEF Replies, Queued
<1>2. QueuedDue'
  BY DEF Sending, QueuedDue, DueKept
<1>3. (QueuedApart /\ QueuedNew)'
  BY DEF Sending, QueuedApart, QueuedNew
<1>4. WireDue'
  BY DEF Sending, WireDue, DueKept, Inv, TypeOK
<1>5. ReaperNew'
  BY <1>1, AnsweringType, RequestOwner DEF Sending, ReaperNew, ReapersKept, Unanswered
<1> QED
  BY <1>2, <1>3, <1>4, <1>5 DEF Sending

\* A thread queues the only answer to a command that is due.
LEMMA EnqueuedSending ==
  ASSUME Inv, Life, Sending, DueKept, wire' = wire, NothingInHand',
         NEW o \in Sessions, NEW pkt \in Packets,
         Enqueue(o, pkt), UNCHANGED tcur,
         Owner(pkt.seqnum) = o, Client!Due(pkt)', Unanswered(pkt.seqnum),
         ReapersKept,
         \A s \in Sessions : rpc'[s] \in Settled => Answering(s) # pkt.seqnum
  PROVE  Sending'
<1> DEFINE Q == Outgoing(o)
<1>1. /\ Q \in Seq(Packets)
      /\ Outgoing(o)' = Append(Q, pkt)
      /\ \A s \in Sessions : s # o => Outgoing(s)' = Outgoing(s)
  BY OutgoingType, OutgoingEnqueue DEF Inv
<1>2. /\ DOMAIN Q = 1..Len(Q) /\ DOMAIN Append(Q, pkt) = 1..(Len(Q) + 1) /\ Len(Q) \in Nat
      /\ Append(Q, pkt)[Len(Q) + 1] = pkt
      /\ \A i \in 1..Len(Q) : Append(Q, pkt)[i] = Q[i]
  BY <1>1
<1>3. \A i \in 1..Len(Q) : Q[i].seqnum # pkt.seqnum
  BY <1>2, RepliesOf DEF Unanswered
<1>4. \A p \in wire[o] : p.seqnum # pkt.seqnum
  BY RepliesOf DEF Unanswered
<1>5. QueuedDue'
  <2> SUFFICES ASSUME NEW s \in Sessions, NEW i \in DOMAIN Outgoing(s)'
               PROVE  /\ Outgoing(s)'[i] \in Packets /\ Owner(Outgoing(s)'[i].seqnum) = s
                      /\ Client!Due(Outgoing(s)[i])'
    BY DEF QueuedDue
  <2>1. CASE s # o
    BY <1>1, <2>1 DEF Sending, QueuedDue, DueKept
  <2>2. CASE s = o /\ i \in 1..Len(Q)
    BY <1>1, <1>2, <2>2 DEF Sending, QueuedDue, DueKept
  <2>3. CASE s = o /\ i = Len(Q) + 1
    BY <1>1, <1>2, <2>3
  <2> QED  BY <1>1, <1>2, <2>1, <2>2, <2>3
<1>6. QueuedApart'
  <2> SUFFICES ASSUME NEW s \in Sessions,
                      NEW i \in DOMAIN Outgoing(s)', NEW j \in DOMAIN Outgoing(s)',
                      Outgoing(s)'[i].seqnum = Outgoing(s)'[j].seqnum
               PROVE  i = j
    BY DEF QueuedApart
  <2>1. CASE s # o
    BY <1>1, <2>1 DEF Sending, QueuedApart
  <2>2. CASE s = o
    <3>1. Outgoing(s)' = Append(Q, pkt) /\ i \in 1..(Len(Q) + 1) /\ j \in 1..(Len(Q) + 1)
      BY <1>1, <1>2, <2>2
    <3>2. i \in 1..Len(Q) /\ j \in 1..Len(Q) => i = j
      BY <1>2, <3>1 DEF Sending, QueuedApart
    <3> QED  BY <1>2, <1>3, <3>1, <3>2
  <2> QED  BY <2>1, <2>2
<1>7. QueuedNew'
  <2> SUFFICES ASSUME NEW s \in Sessions, NEW i \in DOMAIN Outgoing(s)', NEW p \in wire[s]
               PROVE  p.seqnum # Outgoing(s)'[i].seqnum
    BY DEF QueuedNew
  <2>1. CASE s # o
    BY <1>1, <2>1 DEF Sending, QueuedNew
  <2>2. CASE s = o /\ i \in 1..Len(Q)
    BY <1>1, <1>2, <2>2 DEF Sending, QueuedNew
  <2>3. CASE s = o /\ i = Len(Q) + 1
    BY <1>1, <1>2, <1>4, <2>3
  <2> QED  BY <1>1, <1>2, <2>1, <2>2, <2>3
<1>8. WireDue'
  BY DEF Sending, WireDue, DueKept, Inv, TypeOK
<1>9. ReaperNew'
  <2> SUFFICES ASSUME NEW s \in Sessions, rpc'[s] \in Settled,
                      NEW p \in Replies(Owner(Answering(s)))'
               PROVE  p.seqnum # Answering(s)
    BY DEF ReaperNew, ReapersKept, Unanswered
  <2>1. rpc[s] \in Settled /\ Answering(s)' = Answering(s) /\ Owner(Answering(s)) \in Sessions
    BY AnsweringType, RequestOwner DEF ReapersKept
  <2>2. p \in Replies(Owner(Answering(s))) \/ p = pkt
    <3> DEFINE w == Owner(Answering(s))
    <3>1. p \in wire[w] \/ \E i \in DOMAIN Outgoing(w)' : p = Outgoing(w)'[i]
      BY <2>1, RepliesNext
    <3>2. p \in wire[w] \/ (\E i \in DOMAIN Outgoing(w) : p = Outgoing(w)[i]) => p \in Replies(w)
      BY <2>1, RepliesOf
    <3>3. CASE w # o
      BY <1>1, <2>1, <3>1, <3>2, <3>3
    <3>4. CASE w = o
      BY <1>1, <1>2, <2>1, <3>1, <3>2, <3>4
    <3> QED  BY <3>3, <3>4
  <2> QED  BY <2>1, <2>2 DEF Sending, ReaperNew, Unanswered
<1> QED
  BY <1>5, <1>6, <1>7, <1>8, <1>9 DEF Sending

\* A packet is sent: it was the first of those not yet on the socket.
LEMMA SentSending ==
  ASSUME Inv, Life, Sending, DueKept, NEW s \in Sessions, TxSend(s)
  PROVE  Sending'
<1> USE DEF handlerVars, reaperVars, heapVars
<1> DEFINE q == tx_queue[s]
           c == tcur[s]
<1>1. /\ c \in Packets /\ q \in Seq(Packets)
      /\ tcur' = [tcur EXCEPT ![s] = NoPacket]
      /\ wire' = [wire EXCEPT ![s] = @ \cup {c}]
      /\ tpc' = [tpc EXCEPT ![s] = "check"]
      /\ UNCHANGED <<tx_queue, rpc, rcur, emit, unlink_seqnum>>
  BY DEF TxSend, TxGoes, Inv, TypeOK, PacketInHand
<1>2. Outgoing(s) = <<c>> \o q /\ Outgoing(s)' = q
  BY <1>1, OutgoingSent DEF Inv, TypeOK
<1>3. \A t \in Sessions : t # s => Outgoing(t)' = Outgoing(t) /\ wire'[t] = wire[t]
  BY <1>1, OutgoingKept DEF Inv, TypeOK
<1>4. wire'[s] = wire[s] \cup {c}
  BY <1>1 DEF Inv, TypeOK
<1>5. /\ DOMAIN q = 1..Len(q) /\ DOMAIN (<<c>> \o q) = 1..(Len(q) + 1) /\ Len(q) \in Nat
      /\ (<<c>> \o q)[1] = c
      /\ \A i \in 1..Len(q) : (<<c>> \o q)[i + 1] = q[i]
  BY <1>1
<1>6. /\ Owner(c.seqnum) = s /\ Client!Due(c)
      /\ \A p \in wire[s] : p.seqnum # c.seqnum
      /\ \A i \in 1..Len(q) : q[i].seqnum # c.seqnum
      /\ \A i \in 1..Len(q) : q[i] \in Packets /\ Owner(q[i].seqnum) = s /\ Client!Due(q[i])
      /\ \A i \in 1..Len(q) : \A p \in wire[s] : p.seqnum # q[i].seqnum
      /\ \A i, j \in 1..Len(q) : q[i].seqnum = q[j].seqnum => i = j
  <2>1. /\ 1 \in DOMAIN Outgoing(s) /\ Outgoing(s)[1] = c
        /\ \A i \in 1..Len(q) : i + 1 \in DOMAIN Outgoing(s) /\ Outgoing(s)[i + 1] = q[i]
    BY <1>2, <1>5
  <2>2. Owner(c.seqnum) = s /\ Client!Due(c) /\ \A p \in wire[s] : p.seqnum # c.seqnum
    BY <2>1 DEF Sending, QueuedDue, QueuedNew
  <2>3. ASSUME NEW i \in 1..Len(q)
        PROVE  /\ q[i].seqnum # c.seqnum
               /\ q[i] \in Packets /\ Owner(q[i].seqnum) = s /\ Client!Due(q[i])
               /\ \A p \in wire[s] : p.seqnum # q[i].seqnum
    <3>1. i + 1 # 1
      OBVIOUS
    <3> QED  BY <2>1, <3>1 DEF Sending, QueuedDue, QueuedNew, QueuedApart
  <2>4. ASSUME NEW i \in 1..Len(q), NEW j \in 1..Len(q), q[i].seqnum = q[j].seqnum
        PROVE  i = j
    <3>1. i + 1 = j + 1
      BY <2>1, <2>4 DEF Sending, QueuedApart
    <3> QED  BY <3>1
  <2> QED  BY <2>2, <2>3, <2>4
<1>7. QueuedDue'
  <2> SUFFICES ASSUME NEW t \in Sessions, NEW i \in DOMAIN Outgoing(t)'
               PROVE  /\ Outgoing(t)'[i] \in Packets /\ Owner(Outgoing(t)'[i].seqnum) = t
                      /\ Client!Due(Outgoing(t)[i])'
    BY DEF QueuedDue
  <2>1. CASE t # s
    BY <1>3, <2>1 DEF Sending, QueuedDue, DueKept
  <2>2. CASE t = s
    BY <1>2, <1>5, <1>6, <2>2 DEF DueKept
  <2> QED  BY <2>1, <2>2
<1>8. QueuedApart'
  BY <1>2, <1>3, <1>5, <1>6 DEF Sending, QueuedApart
<1>9. QueuedNew'
  <2> SUFFICES ASSUME NEW t \in Sessions, NEW i \in DOMAIN Outgoing(t)', NEW p \in wire'[t]
               PROVE  p.seqnum # Outgoing(t)'[i].seqnum
    BY DEF QueuedNew
  <2>1. CASE t # s
    BY <1>3, <2>1 DEF Sending, QueuedNew
  <2>2. CASE t = s
    BY <1>2, <1>4, <1>5, <1>6, <2>2
  <2> QED  BY <2>1, <2>2
<1>10. WireDue'
  <2> SUFFICES ASSUME NEW t \in Sessions, NEW p \in wire'[t]
               PROVE  Owner(p.seqnum) = t /\ Client!Due(p)'
    BY DEF WireDue
  <2>1. p \in wire[t] \/ (t = s /\ p = c)
    BY <1>3, <1>4
  <2>2. p \in Packets /\ Owner(p.seqnum) = t /\ Client!Due(p)
    BY <1>1, <1>6, <2>1 DEF Sending, WireDue, Inv, TypeOK
  <2> QED  BY <2>2 DEF DueKept
<1>11. ASSUME NEW w \in Sessions, NEW p \in Replies(w)'
       PROVE  p \in Replies(w)
  <2>1. p \in wire'[w] \/ \E i \in DOMAIN Outgoing(w)' : p = Outgoing(w)'[i]
    BY RepliesNext
  <2>2. CASE w # s
    BY <1>3, <2>1, <2>2, RepliesOf
  <2>3. CASE w = s
    <3>1. p \in wire[s] \/ p = c \/ \E i \in 1..Len(q) : p = q[i]
      BY <1>2, <1>4, <1>5, <2>1, <2>3
    <3>2. /\ 1 \in DOMAIN Outgoing(s) /\ Outgoing(s)[1] = c
          /\ \A i \in 1..Len(q) : i + 1 \in DOMAIN Outgoing(s) /\ Outgoing(s)[i + 1] = q[i]
      BY <1>2, <1>5
    <3> HIDE DEF c, q
    <3> QED  BY <2>3, <3>1, <3>2, RepliesOf
  <2> QED  BY <2>2, <2>3
<1>12. ReaperNew'
  BY <1>1, <1>11, AnsweringType, RequestOwner DEF Sending, ReaperNew, Unanswered, Answering
<1>13. NothingInHand'
  BY <1>1 DEF Sending, NothingInHand, Inv, TypeOK
<1> QED
  BY <1>7, <1>8, <1>9, <1>10, <1>12, <1>13 DEF Sending

\* A packet that is the only answer due is a Send of UsbRequests.
LEMMA SentStep ==
  ASSUME Inv, Life, Sending, NEW s \in Sessions, TxSend(s)
  PROVE  ClientStep
<1> USE DEF handlerVars, reaperVars, heapVars
<1> DEFINE c == tcur[s]
<1>1. /\ c \in Packets
      /\ wire' = [wire EXCEPT ![s] = @ \cup {c}]
      /\ UNCHANGED <<is_connected, hpc, pending_requests, issued, state, unlink_seqnum>>
  BY DEF TxSend, TxGoes, Inv, PacketInHand
<1>2. Up' = Up
  BY <1>1 DEF Up
<1>3. Fate' = Fate
  BY <1>1, UnseenSteps DEF Inv
<1>4. 1 \in DOMAIN Outgoing(s) /\ Outgoing(s)[1] = c
  <2>1. tx_queue[s] \in Seq(Packets) /\ c # NoPacket
    BY <1>1, NullAssumption DEF Inv, TypeOK
  <2> QED  BY <1>1, <2>1 DEF Outgoing, InHand
<1>5. /\ Owner(c.seqnum) = s /\ Client!Due(c)
      /\ \A p \in wire[s] : p.seqnum # c.seqnum
  BY <1>4 DEF Sending, QueuedDue, QueuedNew
<1>6. Client!Answers(c) = {}
  BY <1>5 DEF Client!Answers, Client!Owner, Owner
<1>7. c \in wire'[s]
  BY <1>1 DEF Inv, TypeOK
<1>8. Client!Send(s)
  BY <1>1, <1>2, <1>3, <1>5, <1>6, <1>7 DEF Client!Send, Client!Owner, Owner
<1> QED
  BY <1>8 DEF ClientStep, Client!Next

\* Packets are deleted unsent, the first ones of those not yet on the socket.
LEMMA DroppedSending ==
  ASSUME Inv, Life, Sending, DueKept, ReapersKept, wire' = wire, NothingInHand',
         NEW s \in Sessions, NEW k \in Nat, DOMAIN Outgoing(s)' \subseteq Nat,
         \A i \in DOMAIN Outgoing(s)' :
           i + k \in DOMAIN Outgoing(s) /\ Outgoing(s)[i + k] = Outgoing(s)'[i],
         \A t \in Sessions : t # s => Outgoing(t)' = Outgoing(t)
  PROVE  Sending'
<1>1. QueuedDue'
  <2> SUFFICES ASSUME NEW t \in Sessions, NEW i \in DOMAIN Outgoing(t)'
               PROVE  /\ Outgoing(t)'[i] \in Packets /\ Owner(Outgoing(t)'[i].seqnum) = t
                      /\ Client!Due(Outgoing(t)[i])'
    BY DEF QueuedDue
  <2>1. CASE t # s
    BY <2>1 DEF Sending, QueuedDue, DueKept
  <2>2. CASE t = s
    BY <2>2 DEF Sending, QueuedDue, DueKept
  <2> QED  BY <2>1, <2>2
<1>2. QueuedApart'
  <2> SUFFICES ASSUME NEW t \in Sessions,
                      NEW i \in DOMAIN Outgoing(t)', NEW j \in DOMAIN Outgoing(t)',
                      Outgoing(t)'[i].seqnum = Outgoing(t)'[j].seqnum
               PROVE  i = j
    BY DEF QueuedApart
  <2>1. CASE t # s
    BY <2>1 DEF Sending, QueuedApart
  <2>2. CASE t = s
    <3>1. i + k = j + k
      BY <2>2 DEF Sending, QueuedApart
    <3>2. i \in Nat /\ j \in Nat
      BY <2>2
    <3> QED  BY <3>1, <3>2
  <2> QED  BY <2>1, <2>2
<1>3. QueuedNew'
  BY DEF Sending, QueuedNew
<1>4. WireDue'
  BY DEF Sending, WireDue, DueKept, Inv, TypeOK
<1>5. ASSUME NEW w \in Sessions, NEW p \in Replies(w)'
      PROVE  p \in Replies(w)
  <2>1. p \in wire[w] \/ \E i \in DOMAIN Outgoing(w)' : p = Outgoing(w)'[i]
    BY RepliesNext
  <2> QED  BY <2>1, RepliesOf
<1>6. ReaperNew'
  BY <1>5, AnsweringType, RequestOwner DEF Sending, ReaperNew, ReapersKept, Unanswered
<1> QED
  BY <1>1, <1>2, <1>3, <1>4, <1>6 DEF Sending

LEMMA TransmitSending ==
  ASSUME Inv, Life, Sending, DueKept, NEW s \in Sessions, Transmit(s)
  PROVE  Sending'
<1> USE DEF TxGoes, handlerVars, reaperVars, heapVars
<1>0. /\ TypeOK
      /\ \A t \in Sessions : tpc[t] # "send" => tcur[t] = NoPacket
  BY DEF Inv, Sending, NothingInHand
<1>1. ~TxSend(s) => wire' = wire
  BY DEF Transmit, TxCheck, TxExit, TxPop, TxIdle, TxFails
<1>2. ReapersKept
  BY DEF Transmit, TxCheck, TxExit, TxPop, TxIdle, TxSend, TxFails, ReapersKept, Answering
<1>3. CASE TxCheck(s) \/ TxIdle(s)
  <2>1. UNCHANGED <<tcur, tx_queue>>
    BY <1>3 DEF TxCheck, TxIdle
  <2>2. NothingInHand'
    BY <1>0, <1>3, <2>1 DEF TxCheck, TxIdle, NothingInHand, TypeOK
  <2>3. ~TxSend(s)
    BY <1>3 DEF TxCheck, TxIdle, TxSend
  <2> QED
    BY <1>1, <1>2, <2>1, <2>2, <2>3, OutgoingKept, KeptSending
<1>4. CASE TxPop(s)
  <2>1. /\ tcur' = [tcur EXCEPT ![s] = Head(tx_queue[s])] /\ tx_queue[s] # << >>
        /\ tx_queue' = [tx_queue EXCEPT ![s] = Tail(@)]
        /\ tpc[s] = "wait" /\ tpc' = [tpc EXCEPT ![s] = "send"]
    BY <1>4 DEF TxPop
  <2>2. Outgoing(s)' = Outgoing(s)
    BY <1>0, <2>1, OutgoingPop DEF TypeOK
  <2>3. \A t \in Sessions : t # s => Outgoing(t)' = Outgoing(t)
    BY <1>0, <2>1, OutgoingKept DEF TypeOK
  <2>4. NothingInHand'
    BY <1>0, <2>1 DEF NothingInHand, TypeOK
  <2>5. ~TxSend(s)
    BY <2>1 DEF TxSend
  <2> QED
    BY <1>1, <1>2, <2>2, <2>3, <2>4, <2>5, KeptSending
<1>5. CASE TxExit(s)
  <2>1. /\ tx_queue' = [tx_queue EXCEPT ![s] = << >>] /\ UNCHANGED tcur
        /\ tpc[s] = "check" /\ tpc' = [tpc EXCEPT ![s] = "done"]
    BY <1>5 DEF TxExit
  <2>2. Outgoing(s)' = << >>
    BY <1>0, <2>1 DEF Outgoing, InHand, TypeOK
  <2>3. \A t \in Sessions : t # s => Outgoing(t)' = Outgoing(t)
    BY <1>0, <2>1, OutgoingKept DEF TypeOK
  <2>4. NothingInHand'
    BY <1>0, <2>1 DEF NothingInHand, TypeOK
  <2>5. ~TxSend(s)
    BY <2>1 DEF TxSend
  <2>6. DOMAIN Outgoing(s)' = {}
    BY <2>2
  <2> QED
    BY <1>1, <1>2, <2>3, <2>4, <2>5, <2>6, 0 \in Nat, DroppedSending
<1>6. CASE TxFails(s)
  <2> DEFINE q == tx_queue[s]
  <2>1. /\ tcur' = [tcur EXCEPT ![s] = NoPacket] /\ UNCHANGED tx_queue
        /\ tpc[s] = "send" /\ tpc' = [tpc EXCEPT ![s] = "check"]
    BY <1>6 DEF TxFails
  <2>2. Outgoing(s) = <<tcur[s]>> \o q /\ Outgoing(s)' = q /\ q \in Seq(Packets)
    BY <1>0, <2>1, OutgoingSent DEF Inv, PacketInHand, TypeOK
  <2>3. \A t \in Sessions : t # s => Outgoing(t)' = Outgoing(t)
    BY <1>0, <2>1, OutgoingKept DEF TypeOK
  <2>4. NothingInHand'
    BY <1>0, <2>1 DEF NothingInHand, TypeOK
  <2>5. \A i \in DOMAIN Outgoing(s)' :
          i + 1 \in DOMAIN Outgoing(s) /\ Outgoing(s)[i + 1] = Outgoing(s)'[i]
    BY <2>2
  <2>6. DOMAIN Outgoing(s)' \subseteq Nat
    BY <2>2
  <2>7. wire' = wire
    BY <1>6 DEF TxFails
  <2> QED
    BY <1>2, <2>3, <2>4, <2>5, <2>6, <2>7, 1 \in Nat, DroppedSending
<1>7. CASE TxSend(s)
  BY <1>7, SentSending
<1> QED
  BY <1>3, <1>4, <1>5, <1>6, <1>7 DEF Transmit

\* Steps that neither queue a reply nor bring a reaper nearer to one.
LEMMA QuietSending ==
  ASSUME Inv, Life, Sending, DueKept, ReapersKept, UNCHANGED <<tx_queue, tcur, tpc, wire>>
  PROVE  Sending'
<1>1. \A s \in Sessions : Outgoing(s)' = Outgoing(s)
  BY OutgoingKept
<1>2. NothingInHand'
  BY DEF Sending, NothingInHand
<1> QED
  BY <1>1, <1>2, KeptSending

LEMMA OtherSending ==
  ASSUME Inv, Life, Sending, DueKept,
         \/ \E s \in Sessions : Refuse(s) \/ Import(s)
         \/ \E r \in Requests : CompleteUrb(r)
         \/ \E d \in Devices : Unplug(d)
         \/ UNCHANGED vars
  PROVE  Sending'
<1> USE DEF ReaperGoes, handlerVars, reaperVars, txVars, heapVars
<1>1. UNCHANGED <<tx_queue, tcur, tpc, wire, rcur, emit, unlink_seqnum>>
  BY DEF Refuse, Import, CompleteUrb, Unplug, vars
<1>2. \A s \in Sessions : rpc'[s] \in Settled => rpc[s] \in Settled
  BY DEF Refuse, Import, CompleteUrb, Unplug, vars, Settled, Inv, TypeOK
<1>3. ReapersKept
  BY <1>1, <1>2 DEF ReapersKept, Answering
<1> QED
  BY <1>1, <1>3, QuietSending

LEMMA ReceiveSending ==
  ASSUME Inv, Inv', Life, Sending, DueKept, NEW s \in Sessions, Receive(s)
  PROVE  Sending'
<1> USE DEF handlerVars, reaperVars, txVars, heapVars
<1>1. UNCHANGED <<tcur, tpc, wire, rpc, rcur, emit>>
  BY DEF Receive, RecvFails, RecvSubmit, RecvUnlink, UnlinkPending, UnlinkDuplicate,
      UnlinkMissing
<1>2. ReapersKept
  <2>1. CASE \E u, t \in Commands(s) : UnlinkPending(s, u, t)
    <3>1. PICK u \in Commands(s), t \in Commands(s) : UnlinkPending(s, u, t)
      BY <2>1
    <3>2. state[t] = "PENDING" /\ unlink_seqnum' = [unlink_seqnum EXCEPT ![t] = u]
      BY <3>1 DEF UnlinkPending
    <3>3. \A x \in Sessions : rpc[x] \in Settled =>
            rcur[x] \in Requests /\ state[rcur[x]] = "COMPLETED"
      BY AnsweringType DEF Life, EmitKnown
    <3> QED  BY <1>1, <3>2, <3>3 DEF ReapersKept, Answering, Inv, TypeOK
  <2>2. CASE ~\E u, t \in Commands(s) : UnlinkPending(s, u, t)
    <3>1. UNCHANGED unlink_seqnum
      BY <2>2 DEF Receive, RecvFails, RecvSubmit, UnlinkDuplicate, UnlinkMissing
    <3> QED  BY <1>1, <3>1 DEF ReapersKept, Answering
  <2> QED  BY <2>1, <2>2
<1>3. CASE UNCHANGED tx_queue
  BY <1>1, <1>2, <1>3, QuietSending
<1>4. ASSUME NEW u \in Commands(s), NEW t \in Commands(s), UnlinkMissing(s, u, t)
      PROVE  Sending'
  <2> DEFINE pkt == RetUnlink(u, "0")
  <2>1. /\ u \in Requests /\ Owner(u) = s /\ issued[u] = "unused"
        /\ issued' = [issued EXCEPT ![u] = "UNLINK"]
        /\ Enqueue(s, pkt) /\ UNCHANGED unlink_seqnum
    BY <1>4 DEF UnlinkMissing, RecvUnlink, Commands
  <2>2. pkt \in Packets /\ pkt.seqnum = u /\ pkt.command = "RET_UNLINK" /\ pkt.status = "0"
    BY <2>1, RetUnlinkType DEF RetUnlink
  <2>3. \A r \in Requests : unlink_seqnum[r] # u
    BY <2>1, NullAssumption DEF Life, UnlinksApart
  <2>4. Client!Due(pkt)'
    BY <2>1, <2>2, <2>3 DEF Client!Due, Inv, TypeOK, RetUnlink
  <2>5. Unanswered(u)
    BY <2>1, NobodyAnswered DEF Inv, Life, Sending
  <2>6. \A x \in Sessions : rpc'[x] \in Settled => Answering(x) # u
    BY <1>1, <2>1, AnsweringType
  <2>7. NothingInHand'
    BY <1>1 DEF Sending, NothingInHand
  <2> HIDE DEF pkt
  <2> QED
    BY <1>1, <1>2, <2>1, <2>2, <2>4, <2>5, <2>6, <2>7, EnqueuedSending
<1> QED
  BY <1>3, <1>4 DEF Receive, RecvFails, RecvSubmit, UnlinkPending, UnlinkDuplicate

LEMMA HandleSending ==
  ASSUME Inv, Inv', Life, Sending, DueKept, NEW s \in Sessions, Handle(s)
  PROVE  Sending'
<1> USE DEF handlerVars, reaperVars, txVars, heapVars
<1>1. UNCHANGED <<tcur, tpc, wire, rpc, rcur, emit, unlink_seqnum>>
  BY DEF Handle, LoopTest, AllocFails, Intercept, CountInFlight, SubmitUrb, SubmitFails,
      DiscardUrb, Leave, CleanupZombieUrbs
<1>2. ReapersKept
  BY <1>1 DEF ReapersKept, Answering
<1>3. CASE UNCHANGED tx_queue
  BY <1>1, <1>2, <1>3, QuietSending
<1>4. CASE Intercept(s) \/ SubmitFails(s)
  <2>1. hcur[s] \in Requests
    BY <1>4 DEF Intercept, SubmitFails, HandlerGoes, Inv, Ownership, HandlerHolds
  <2>2. PICK r \in Requests : r = hcur[s]
    BY <2>1
  <2>3. PICK st \in {"urb", "errno"} : Enqueue(s, RetSubmit(r, st))
    BY <1>4, <2>2 DEF Intercept, SubmitFails
  <2>4. PICK pkt \in Packets : pkt = RetSubmit(r, st)
    BY RetSubmitType
  <2>5. /\ Owner(r) = s /\ issued[r] = "SUBMIT" /\ state[r] = "PENDING"
        /\ unlink_seqnum[r] = NoReq
    BY <1>4, <2>2 DEF Intercept, SubmitFails, HandlerGoes, Inv, Ownership, HandlerHolds, Life,
        PendingExact, SubmittingPending, UnlinksApart
  <2>6. Fate[r] # "completed"
    BY <2>5, FateValues DEF Inv
  <2>7. state' = [state EXCEPT ![r] = "COMPLETED"] /\ UNCHANGED issued
    BY <1>4, <2>2 DEF Intercept, SubmitFails
  <2>8. pkt.seqnum = r /\ pkt.command = "RET_SUBMIT"
    BY <2>4 DEF RetSubmit
  <2>9. Client!Due(pkt)'
    <3>1. Fate'[r] = "completed"
      BY <1>1, <2>5, <2>7, FateValuesNext DEF Inv, TypeOK
    <3> QED  BY <2>8, <3>1 DEF Client!Due
  <2>10. Unanswered(r)
    BY <2>5, <2>6, NobodyAnswered DEF Inv, Life, Sending
  <2>11. \A x \in Sessions : rpc'[x] \in Settled => Answering(x) # r
    BY <1>1, <2>5, AnsweringType DEF Life, EmitKnown, Answering
  <2>12. NothingInHand'
    BY <1>1 DEF Sending, NothingInHand
  <2>13. Enqueue(s, pkt) /\ Owner(pkt.seqnum) = s /\ Unanswered(pkt.seqnum)
    BY <2>3, <2>4, <2>5, <2>8, <2>10
  <2> QED
    BY <1>1, <1>2, <2>8, <2>9, <2>11, <2>12, <2>13, EnqueuedSending
<1> QED
  BY <1>3, <1>4 DEF Handle, LoopTest, AllocFails, CountInFlight, SubmitUrb,
      DiscardUrb, Leave, CleanupZombieUrbs

LEMMA ReapSending ==
  ASSUME Inv, Inv', Life, Life', Sending, DueKept, NEW s \in Sessions, Reap(s)
  PROVE  Sending'
<1> USE DEF ReaperGoes, ReaperForgets, handlerVars, reaperVars, txVars, heapVars
<1>1. UNCHANGED <<tcur, tpc, wire, unlink_seqnum>>
  BY DEF Reap, ReapCheck, ReapUrb, ReapAgain, ReapNoDevice, Settle, Uncount, Reply, NoReply,
      EnqueueReply
<1>2. NothingInHand'
  BY <1>1 DEF Sending, NothingInHand
<1>3. CASE ReapCheck(s) \/ ReapUrb(s) \/ ReapAgain(s) \/ ReapNoDevice(s) \/ NoReply(s)
  <2>1. /\ rpc'[s] \notin Settled /\ UNCHANGED tx_queue
        /\ \A t \in Sessions : t # s => rpc'[t] = rpc[t] /\ rcur'[t] = rcur[t] /\ emit'[t] = emit[t]
    BY <1>3 DEF ReapCheck, ReapUrb, ReapAgain, ReapNoDevice, NoReply, Settled, Inv, TypeOK
  <2>2. ReapersKept
    BY <1>1, <2>1 DEF ReapersKept, Answering
  <2> QED
    BY <1>1, <2>1, <2>2, QuietSending
<1>4. CASE Uncount(s) \/ Reply(s)
  <2>1. UNCHANGED <<tx_queue, rcur, emit>>
    BY <1>4 DEF Uncount, Reply
  <2>2. \A t \in Sessions : rpc'[t] \in Settled => rpc[t] \in Settled
    BY <1>4 DEF Uncount, Reply, Settled, Inv, TypeOK
  <2>3. ReapersKept
    BY <1>1, <2>1, <2>2 DEF ReapersKept, Answering
  <2> QED
    BY <1>1, <2>1, <2>3, QuietSending
<1>5. CASE Settle(s)
  <2>1. rcur[s] \in Requests
    BY <1>5 DEF Settle, Inv, Ownership, ReaperHolds, Holding
  <2>2. PICK r \in Requests : r = rcur[s]
    BY <2>1
  <2>3. /\ issued[r] = "SUBMIT" /\ state[r] \in {"PENDING", "UNLINKING"}
        /\ UNCHANGED <<tx_queue, rcur>>
        /\ rpc[s] = "settle" /\ rpc' = [rpc EXCEPT ![s] = "uncount"]
        /\ emit' = [emit EXCEPT ![s] = EmitFor(state[r])]
    BY <1>5, <2>2 DEF Settle, Inv, TypeOK, Ownership, ReaperHolds, PendingOpen, Holding, Life,
        PendingExact, SettlingPending
  <2>4. Fate[r] # "completed" /\ Fate[r] # "cancelled"
    <3>1. state[r] = "UNLINKING" => Fate[r] = "unlinking"
      BY <2>3, FateValues DEF Inv
    <3>2. state[r] = "PENDING" => Fate[r] \in {"open", "abandoned"}
      BY <2>3, FateValues DEF Inv
    <3> QED  BY <2>3, <3>1, <3>2
  <2>5. Answering(s)' = r \/ (Answering(s)' = unlink_seqnum[r] /\ unlink_seqnum[r] \in Requests)
    <3>1. rpc'[s] \in Settled /\ rcur'[s] = r
      BY <2>2, <2>3 DEF Settled, Inv, TypeOK
    <3>2. emit'[s] = IF unlink_seqnum[r] = NoReq THEN "RET_SUBMIT" ELSE "RET_UNLINK"
      BY <1>1, <3>1 DEF Life, EmitKnown
    <3>3. unlink_seqnum[r] # NoReq => unlink_seqnum[r] \in Requests
      BY DEF Life, UnlinksApart
    <3> QED  BY <1>1, <3>1, <3>2, <3>3 DEF Answering
  <2>6. \A q \in Requests : q = r \/ q = unlink_seqnum[r] => Unanswered(q)
    BY <2>3, <2>4, NobodyAnswered DEF Inv, Life, Sending
  <2>7. \A w \in Sessions : Replies(w)' = Replies(w)
    BY <1>1, <2>3, OutgoingKept DEF Replies, Queued
  <2>8. PICK a \in Requests : a = Answering(s)'
    BY <2>2, <2>5
  <2>9. Unanswered(a)'
    BY <2>5, <2>6, <2>7, <2>8, RequestOwner DEF Unanswered
  <2>10. \A t \in Sessions : Outgoing(t)' = Outgoing(t)
    BY <1>1, <2>3, OutgoingKept
  <2>11. (QueuedDue /\ QueuedApart /\ QueuedNew /\ WireDue)'
    BY <1>1, <2>10 DEF Sending, QueuedDue, QueuedApart, QueuedNew, WireDue, DueKept, Inv,
        TypeOK
  <2>12. ReaperNew'
    <3> SUFFICES ASSUME NEW t \in Sessions, rpc'[t] \in Settled
                 PROVE  Unanswered(Answering(t))'
      BY DEF ReaperNew
    <3>1. CASE t # s
      <4>1. rpc[t] \in Settled /\ Answering(t)' = Answering(t)
        BY <1>1, <2>3, <3>1 DEF Answering, Inv, TypeOK
      <4> QED
        BY <2>7, <4>1, AnsweringType, RequestOwner DEF Sending, ReaperNew, Unanswered
    <3>2. CASE t = s
      BY <2>8, <2>9, <3>2 DEF Unanswered
    <3> QED  BY <3>1, <3>2
  <2> QED
    BY <1>2, <2>11, <2>12 DEF Sending
<1>6. CASE EnqueueReply(s)
  <2>1. rcur[s] \in Requests /\ rpc[s] \in Settled
    BY <1>6 DEF EnqueueReply, Inv, Ownership, ReaperHolds, Holding, Settled
  <2>2. PICK r \in Requests : r = rcur[s]
    BY <2>1
  <2>3. PICK a \in Requests : a = Answering(s)
    BY <2>1, AnsweringType
  <2>4. PICK pkt : pkt = ReplyPacket(r, emit[s])
    OBVIOUS
  <2>5. /\ rpc' = [rpc EXCEPT ![s] = "check"]
        /\ rcur' = [rcur EXCEPT ![s] = NoReq]
        /\ emit' = [emit EXCEPT ![s] = "none"]
        /\ Enqueue(Owner(r), pkt)
        /\ UNCHANGED <<pending_requests, issued, state, unlink_seqnum>>
    BY <1>6, <2>2, <2>4 DEF EnqueueReply, UrbSession
  <2>6. /\ issued[r] = "SUBMIT" /\ state[r] = "COMPLETED"
        /\ emit[s] = IF unlink_seqnum[r] = NoReq THEN "RET_SUBMIT" ELSE "RET_UNLINK"
        /\ unlink_seqnum[r] # NoReq => unlink_seqnum[r] \in Requests /\ Owner(unlink_seqnum[r]) = Owner(r)
    BY <2>1, <2>2 DEF Inv, Ownership, ReaperHolds, Holding, Settled, Life, EmitKnown, UnlinksApart
  <2>7. Fate[r] = IF unlink_seqnum[r] = NoReq THEN "completed" ELSE "cancelled"
    BY <2>6, FateValues DEF Inv
  <2>8. pkt \in Packets /\ pkt.seqnum = a /\ Owner(a) = Owner(r) /\ Client!Due(pkt)
    <3>1. CASE unlink_seqnum[r] = NoReq
      <4>1. pkt = RetSubmit(r, "urb") /\ a = r
        BY <2>2, <2>3, <2>4, <2>6, <3>1 DEF ReplyPacket, Answering
      <4> QED
        BY <2>7, <3>1, <4>1, RetSubmitType DEF Client!Due, RetSubmit
    <3>2. CASE unlink_seqnum[r] # NoReq
      <4>1. pkt = RetUnlink(a, "-2") /\ a = unlink_seqnum[r]
        BY <2>2, <2>3, <2>4, <2>6, <3>2 DEF ReplyPacket, Answering
      <4> QED
        BY <2>6, <2>7, <3>2, <4>1, RetUnlinkType DEF Client!Due, RetUnlink
    <3> QED  BY <3>1, <3>2
  <2>9. Client!Due(pkt)'
    BY <2>8 DEF DueKept
  <2>10. Unanswered(a)
    BY <2>1, <2>3 DEF Sending, ReaperNew, Unanswered
  <2>11. \A t \in Sessions : rpc'[t] \in Settled => t # s /\ rpc[t] \in Settled
    BY <2>5 DEF Settled, Inv, TypeOK
  <2>12. ReapersKept
    BY <2>5, <2>11 DEF ReapersKept, Answering, Inv, TypeOK
  <2>13. \A t \in Sessions : rpc'[t] \in Settled => Answering(t) # a
    <3> SUFFICES ASSUME NEW t \in Sessions, rpc[t] \in Settled, t # s, Answering(t) = a
                 PROVE  FALSE
      BY <2>11
    <3>1. rcur[t] \in Requests /\ rcur[t] # r
      BY <2>1, <2>2, AnsweringType DEF Inv, Ownership, ReapersApart, Holding, Settled
    <3>2. emit[t] = "RET_SUBMIT" <=> emit[s] = "RET_SUBMIT"
      BY <2>1, <2>3, AnsweringType
    <3>3. emit[s] # "RET_SUBMIT" => unlink_seqnum[r] # NoReq /\ unlink_seqnum[rcur[t]] = unlink_seqnum[r]
      BY <2>2, <2>3, <2>6, <3>2 DEF Answering
    <3>4. emit[s] = "RET_SUBMIT" => rcur[t] = r
      BY <2>2, <2>3, <3>2 DEF Answering
    <3> QED  BY <3>1, <3>3, <3>4 DEF Life, UnlinksApart
  <2> QED
    BY <1>1, <1>2, <2>5, <2>8, <2>9, <2>10, <2>12, <2>13, RequestOwner, EnqueuedSending
<1> QED
  BY <1>3, <1>4, <1>5, <1>6 DEF Reap

LEMMA InitSending == Init => Sending
<1> SUFFICES ASSUME Init PROVE Sending
  OBVIOUS
<1>1. \A s \in Sessions : DOMAIN Outgoing(s) = {}
  BY DEF Init, Outgoing, InHand
<1>2. QueuedDue /\ QueuedApart /\ QueuedNew
  BY <1>1 DEF QueuedDue, QueuedApart, QueuedNew
<1>3. WireDue /\ ReaperNew /\ NothingInHand
  BY DEF Init, WireDue, ReaperNew, Settled, NothingInHand
<1> QED
  BY <1>2, <1>3 DEF Sending

-----------------------------------------------------------------------------
LEMMA InitAnswered == Init => Answered
BY InitInv, InitLife, InitSending DEF Answered

LEMMA NextAnswered ==
  ASSUME Answered, [Next]_vars
  PROVE  Answered' /\ ClientStep
<1> USE DEF Answered
<1>1. ASSUME NEW s \in Sessions, Refuse(s) \/ Import(s)
      PROVE  Answered' /\ ClientStep
  BY <1>1, HandshakeInv, HandshakeLife, HandshakeStep, DueStays, OtherSending DEF Inv
<1>2. ASSUME NEW s \in Sessions, Receive(s)
      PROVE  Answered' /\ ClientStep
  BY <1>2, ReceiveInv, ReceiveLife, ReceiveStep, DueStays, ReceiveSending DEF Inv
<1>3. ASSUME NEW s \in Sessions, Handle(s)
      PROVE  Answered' /\ ClientStep
  BY <1>3, HandleInv, HandleLife, HandleStep, DueStays, HandleSending DEF Inv
<1>4. ASSUME NEW s \in Sessions, Reap(s)
      PROVE  Answered' /\ ClientStep
  BY <1>4, ReapInv, ReapLife, ReapStep, DueStays, ReapSending DEF Inv
<1>5. ASSUME NEW s \in Sessions, Transmit(s)
      PROVE  Answered' /\ ClientStep
  BY <1>5, TransmitInv, TransmitLife, TransmitStep, SentStep, DueStays, TransmitSending DEF Inv
<1>6. CASE (\E r \in Requests : CompleteUrb(r)) \/ (\E d \in Devices : Unplug(d))
  BY <1>6, BusInv, BusLife, OtherStep, DueStays, OtherSending DEF Inv
<1>7. CASE UNCHANGED vars
  <2>1. Life'
    BY <1>7, LifeStutters DEF lifeVars, vars, handlerVars, reaperVars, heapVars
  <2> QED
    BY <1>7, <2>1, StutterInv, OtherStep, DueStays, OtherSending DEF Inv
<1> QED
  BY <1>1, <1>2, <1>3, <1>4, <1>5, <1>6, <1>7 DEF Next, Finished

\* Answered is an invariant of every behaviour of the code.
THEOREM AnsweredInvariance == Spec => []Answered
<1>1. Init => Answered
  BY InitAnswered
<1>2. Answered /\ [Next]_vars => Answered'
  BY NextAnswered
<1> QED
  BY <1>1, <1>2, PTL DEF Spec

\* The handlers, reapers and TX threads of all sessions together implement what a
\* USB/IP client is promised, whatever is sent, unlinked, unplugged or broken.
THEOREM Refinement == Spec => ImplementsRequests
<1>1. Init => Client!Init
  <2> SUFFICES ASSUME Init PROVE Client!Init
    OBVIOUS
  <2>1. Up = [s \in Sessions |-> TRUE]
    BY DEF Init, Up
  <2>2. Fate = [r \in Requests |-> "none"]
    BY DEF Init, Fate
  <2> QED
    BY <2>1, <2>2 DEF Init, Client!Init
<1>2. Answered /\ [Next]_vars => [Client!Next]_(Client!vars)
  BY NextAnswered DEF ClientStep
<1> QED
  BY <1>1, <1>2, AnsweredInvariance, PTL DEF Spec, ImplementsRequests, Client!Spec

\* No entry of pending_requests outlives its URB, so cleanup_zombie_urbs and CMD_UNLINK
\* never discard a URB that was settled.
THEOREM PendingEntries == Spec => []PendingHasUrb
<1>1. Answered => PendingHasUrb
  BY DEF Answered, Life, PendingExact
<1> QED
  BY <1>1, AnsweredInvariance, PTL

\* A reaper that reaped another session's URB still answers the client that asked,
\* and no command is answered twice.
THEOREM RoutedOnce == Spec => []RepliesRoutedOnce
<1>1. ASSUME Answered, NEW s \in Sessions
      PROVE  /\ \A pkt \in Replies(s) : Owner(pkt.seqnum) = s
             /\ Cardinality(Queued(s)) = Len(Outgoing(s))
             /\ Queued(s) \cap wire[s] = {}
  <2> DEFINE Q == Outgoing(s)
             n == Len(Q)
  <2>1. Q \in Seq(Packets) /\ n \in Nat /\ DOMAIN Q = 1..n
    BY <1>1, OutgoingType DEF Answered, Inv
  <2>2. \A pkt \in Replies(s) : Owner(pkt.seqnum) = s
    BY <1>1, RepliesOf DEF Answered, Sending, QueuedDue, WireDue
  <2>3. Queued(s) \cap wire[s] = {}
    BY <1>1 DEF Answered, Sending, QueuedNew, Queued
  <2>4. Q \in Bijection(1..n, Queued(s))
    <3>1. Queued(s) = {Q[i] : i \in 1..n}
      BY <2>1 DEF Queued
    <3>2. \A i, j \in 1..n : Q[i] = Q[j] => i = j
      BY <1>1, <2>1 DEF Answered, Sending, QueuedApart
    <3>3. Q \in [1..n -> Queued(s)]
      BY <2>1, <3>1
    <3> HIDE DEF Q, n
    <3>4. \A p \in Queued(s) : \E i \in 1..n : Q[i] = p
      BY <3>1
    <3> QED
      BY <3>2, <3>3, <3>4 DEF Bijection, Injection, Surjection, IsInjective
  <2>5. Cardinality(Queued(s)) = n
    BY <2>1, <2>4, FS_CountingElements DEF ExistsBijection
  <2> QED
    BY <2>2, <2>3, <2>5
<1>2. Answered => RepliesRoutedOnce
  BY <1>1 DEF RepliesRoutedOnce
<1> QED
  BY <1>2, AnsweredInvariance, PTL

-----------------------------------------------------------------------------
(* No answer is lost while the session is up. *)

Answerable(r) == ReplyDue(r) \/ Completed(Owner(r), r) \/ Cancelled(Owner(r), r)

\* While a session is up, a request that is not settled is still pending, and one
\* that is settled is about to be answered or was answered.
NotLostOf(r) ==
  issued[r] = "SUBMIT" /\ is_connected[Owner(r)] /\ hpc[Owner(r)] # "leave" =>
    IF state[r] = "COMPLETED" THEN Answerable(r) ELSE r \in pending_requests
NotLost == \A r \in Requests : NotLostOf(r)

LEMMA KeptNotLost ==
  ASSUME NEW r \in Requests, NotLostOf(r),
         issued'[r] = issued[r], state'[r] = state[r], unlink_seqnum'[r] = unlink_seqnum[r],
         r \in pending_requests' <=> r \in pending_requests,
         is_connected'[Owner(r)] /\ hpc'[Owner(r)] # "leave" =>
           /\ is_connected[Owner(r)] /\ hpc[Owner(r)] # "leave"
           /\ \A p \in Replies(Owner(r)) : p \in Replies(Owner(r))'
           /\ ReplyDue(r) => ReplyDue(r)'
  PROVE  NotLostOf(r)'
<1> SUFFICES ASSUME issued'[r] = "SUBMIT", is_connected'[Owner(r)], hpc'[Owner(r)] # "leave"
             PROVE  IF state'[r] = "COMPLETED" THEN Answerable(r)' ELSE r \in pending_requests'
  BY DEF NotLostOf
<1>1. CASE state[r] = "COMPLETED"
  <2>1. Answerable(r)
    BY <1>1 DEF NotLostOf
  <2>2. Completed(Owner(r), r) => Completed(Owner(r), r)'
    BY DEF Completed, RetSubmit
  <2>3. Cancelled(Owner(r), r) => Cancelled(Owner(r), r)'
    BY DEF Cancelled, RetUnlink
  <2> QED
    BY <1>1, <2>1, <2>2, <2>3 DEF Answerable
<1>2. CASE state[r] # "COMPLETED"
  BY <1>2 DEF NotLostOf
<1> QED
  BY <1>1, <1>2

LEMMA EnqueueGrows ==
  ASSUME TypeOK, NEW o \in Sessions, NEW pkt \in Packets, Enqueue(o, pkt),
         UNCHANGED <<tcur, wire>>
  PROVE  /\ pkt \in Replies(o)'
         /\ \A w \in Sessions : \A p \in Replies(w) : p \in Replies(w)'
<1> DEFINE Q == Outgoing(o)
<1>1. /\ Q \in Seq(Packets)
      /\ Outgoing(o)' = Append(Q, pkt)
      /\ \A s \in Sessions : s # o => Outgoing(s)' = Outgoing(s)
  BY OutgoingType, OutgoingEnqueue
<1>2. /\ DOMAIN Q = 1..Len(Q) /\ DOMAIN Append(Q, pkt) = 1..(Len(Q) + 1) /\ Len(Q) \in Nat
      /\ Append(Q, pkt)[Len(Q) + 1] = pkt
      /\ \A i \in 1..Len(Q) : i \in 1..(Len(Q) + 1) /\ Append(Q, pkt)[i] = Q[i]
  BY <1>1
<1>3. pkt \in Replies(o)'
  BY <1>1, <1>2, RepliesNext
<1>4. ASSUME NEW w \in Sessions, NEW p \in Replies(w)
      PROVE  p \in Replies(w)'
  <2>1. p \in wire[w] \/ \E i \in DOMAIN Outgoing(w) : p = Outgoing(w)[i]
    BY RepliesOf
  <2>2. p \in wire'[w] \/ \E i \in DOMAIN Outgoing(w)' : p = Outgoing(w)'[i]
    BY <1>1, <1>2, <2>1
  <2> QED  BY <2>2, RepliesNext
<1> QED
  BY <1>3, <1>4

\* Only a session that is not up deletes packets unsent.
LEMMA TransmitGrows ==
  ASSUME Inv, NothingInHand, NEW s \in Sessions, Transmit(s),
         NEW w \in Sessions, is_connected'[w], NEW p \in Replies(w)
  PROVE  p \in Replies(w)'
<1> USE DEF TxGoes, Disconnect, handlerVars, reaperVars, heapVars
<1>0. TypeOK /\ (p \in wire[w] \/ \E i \in DOMAIN Outgoing(w) : p = Outgoing(w)[i])
  BY RepliesOf DEF Inv
<1>1. CASE Outgoing(w)' = Outgoing(w) /\ wire'[w] = wire[w]
  BY <1>0, <1>1, RepliesNext
<1>2. CASE w # s
  <2>1. tcur'[w] = tcur[w] /\ tx_queue'[w] = tx_queue[w] /\ wire'[w] = wire[w]
    BY <1>0, <1>2 DEF Transmit, TxCheck, TxExit, TxPop, TxIdle, TxSend, TxFails, TypeOK
  <2> QED  BY <1>1, <2>1, OutgoingKept
<1>3. CASE TxCheck(s) \/ TxIdle(s)
  <2>1. UNCHANGED <<tcur, tx_queue, wire>>
    BY <1>3 DEF TxCheck, TxIdle
  <2> QED  BY <1>1, <2>1, OutgoingKept
<1>4. CASE TxPop(s) /\ w = s
  <2>1. /\ tcur' = [tcur EXCEPT ![s] = Head(tx_queue[s])] /\ tx_queue[s] # << >>
        /\ tx_queue' = [tx_queue EXCEPT ![s] = Tail(@)]
        /\ tcur[s] = NoPacket /\ UNCHANGED wire
    BY <1>4 DEF TxPop, NothingInHand
  <2>2. Outgoing(s)' = Outgoing(s)
    <3>1. tcur'[s] = Head(tx_queue[s]) /\ tx_queue'[s] = Tail(tx_queue[s])
      BY <1>0, <2>1 DEF TypeOK
    <3> QED  BY <1>0, <2>1, <3>1, OutgoingPop
  <2> QED  BY <1>1, <1>4, <2>1, <2>2
<1>5. CASE (TxExit(s) \/ TxFails(s)) /\ w = s
  <2>1. ~is_connected'[s]
    BY <1>0, <1>5 DEF TxExit, TxFails, TypeOK
  <2> QED  BY <1>5, <2>1
<1>6. CASE TxSend(s) /\ w = s
  <2> DEFINE q == tx_queue[s]
             c == tcur[s]
  <2>1. /\ c \in Packets /\ q \in Seq(Packets)
        /\ tcur' = [tcur EXCEPT ![s] = NoPacket]
        /\ wire' = [wire EXCEPT ![s] = @ \cup {c}]
        /\ UNCHANGED tx_queue
    BY <1>6 DEF TxSend, Inv, TypeOK, PacketInHand
  <2>2. Outgoing(s) = <<c>> \o q /\ Outgoing(s)' = q
    BY <1>0, <2>1, OutgoingSent DEF TypeOK
  <2>3. wire'[s] = wire[s] \cup {c}
    BY <1>0, <2>1 DEF TypeOK
  <2>4. CASE p \in wire[s]
    BY <1>6, <2>3, <2>4, RepliesNext
  <2>5. ASSUME NEW i \in DOMAIN Outgoing(s), p = Outgoing(s)[i]
        PROVE  p \in Replies(w)'
    <3>1. i = 1 \/ (i - 1 \in DOMAIN q /\ p = q[i - 1])
      BY <2>1, <2>2, <2>5
    <3>2. i = 1 => p = c
      BY <2>1, <2>2, <2>5
    <3> HIDE DEF c, q
    <3> QED  BY <1>6, <2>2, <2>3, <3>1, <3>2, RepliesNext
  <2> QED  BY <1>0, <1>6, <2>4, <2>5
<1> QED
  BY <1>2, <1>3, <1>4, <1>5, <1>6 DEF Transmit

LEMMA OtherNotLost ==
  ASSUME Inv, NotLost,
         \/ \E s \in Sessions : Refuse(s) \/ Import(s)
         \/ \E r \in Requests : CompleteUrb(r)
         \/ \E d \in Devices : Unplug(d)
         \/ UNCHANGED vars
  PROVE  NotLost'
<1> USE DEF HandlerGoes, ReaperGoes, Disconnect, handlerVars, reaperVars, txVars, heapVars
<1>1. UNCHANGED <<tx_queue, tcur, wire, rcur, issued, state, unlink_seqnum, pending_requests>>
  BY DEF Refuse, Import, CompleteUrb, Unplug, vars
<1>2. \A s \in Sessions : rpc[s] \in Settled => rpc'[s] = rpc[s]
  BY DEF Refuse, Import, CompleteUrb, Unplug, vars, Settled, Inv, TypeOK
<1>3. \A s \in Sessions : is_connected'[s] /\ hpc'[s] # "leave" =>
        is_connected[s] /\ hpc[s] # "leave"
  BY DEF Refuse, Import, CompleteUrb, Unplug, vars, Inv, TypeOK
<1>4. \A s \in Sessions : Replies(s)' = Replies(s)
  BY <1>1, OutgoingKept DEF Replies, Queued
<1>5. \A r \in Requests : ReplyDue(r) => ReplyDue(r)'
  BY <1>1, <1>2 DEF ReplyDue, Settled
<1>6. ASSUME NEW r \in Requests
      PROVE  NotLostOf(r)'
  BY <1>1, <1>3, <1>4, <1>5, RequestOwner, KeptNotLost DEF NotLost
<1> QED
  BY <1>6 DEF NotLost

LEMMA TransmitNotLost ==
  ASSUME Inv, NothingInHand, NotLost, NEW s \in Sessions, Transmit(s)
  PROVE  NotLost'
<1> USE DEF Disconnect, handlerVars, reaperVars, heapVars
<1>1. UNCHANGED <<rpc, rcur, hpc, issued, state, unlink_seqnum, pending_requests>>
  BY DEF Transmit, TxCheck, TxExit, TxPop, TxIdle, TxSend, TxFails
<1>2. \A w \in Sessions : is_connected'[w] => is_connected[w]
  <2>1. CASE TxFails(s)
    <3>1. is_connected' = [is_connected EXCEPT ![s] = FALSE]
      BY <2>1 DEF TxFails
    <3> QED  BY <3>1 DEF Inv, TypeOK
  <2>2. CASE UNCHANGED is_connected
    BY <2>2
  <2> QED
    BY <2>1, <2>2 DEF Transmit, TxCheck, TxExit, TxPop, TxIdle, TxSend
<1>3. ASSUME NEW r \in Requests
      PROVE  NotLostOf(r)'
  <2>1. ReplyDue(r)' = ReplyDue(r)
    BY <1>1 DEF ReplyDue
  <2> QED
    BY <1>1, <1>2, <2>1, RequestOwner, TransmitGrows, KeptNotLost DEF NotLost
<1> QED
  BY <1>3 DEF NotLost

LEMMA ReceiveNotLost ==
  ASSUME Inv, Inv', NotLost, NEW s \in Sessions, Receive(s)
  PROVE  NotLost'
<1> USE DEF HandlerGoes, handlerVars, reaperVars, txVars, heapVars
<1>1. UNCHANGED <<tcur, wire, rpc, rcur, is_connected>>
  BY DEF Receive, RecvFails, RecvSubmit, RecvUnlink, UnlinkPending, UnlinkDuplicate,
      UnlinkMissing
<1>2. \A r \in Requests : ReplyDue(r)' = ReplyDue(r)
  BY <1>1 DEF ReplyDue
<1>3. \A w \in Sessions : hpc'[w] # "leave" => hpc[w] # "leave"
  BY DEF Receive, RecvFails, RecvSubmit, RecvUnlink, UnlinkPending, UnlinkDuplicate,
      UnlinkMissing, Inv, TypeOK
<1>4. \A w \in Sessions : \A p \in Replies(w) : p \in Replies(w)'
  <2>1. CASE UNCHANGED tx_queue
    BY <1>1, <2>1, OutgoingKept DEF Replies, Queued
  <2>2. ASSUME NEW u \in Commands(s), NEW t \in Commands(s), UnlinkMissing(s, u, t)
        PROVE  \A w \in Sessions : \A p \in Replies(w) : p \in Replies(w)'
    <3>1. RetUnlink(u, "0") \in Packets /\ Enqueue(s, RetUnlink(u, "0"))
      BY <2>2, RetUnlinkType DEF UnlinkMissing, Commands
    <3> QED  BY <1>1, <3>1, EnqueueGrows DEF Inv
  <2> QED
    BY <2>1, <2>2 DEF Receive, RecvFails, RecvSubmit, UnlinkPending, UnlinkDuplicate
<1>5. ASSUME NEW r \in Requests, issued'[r] = issued[r], state'[r] = state[r],
             unlink_seqnum'[r] = unlink_seqnum[r],
             r \in pending_requests' <=> r \in pending_requests
      PROVE  NotLostOf(r)'
  BY <1>1, <1>2, <1>3, <1>4, <1>5, RequestOwner, KeptNotLost DEF NotLost
<1>6. CASE RecvFails(s)
  BY <1>5, <1>6 DEF RecvFails, NotLost
<1>7. ASSUME NEW q \in Commands(s), RecvSubmit(s, q)
      PROVE  NotLost'
  <2>1. NotLostOf(q)'
    BY <1>7 DEF RecvSubmit, Commands, NotLostOf, Inv, TypeOK
  <2>2. ASSUME NEW r \in Requests, r # q
        PROVE  NotLostOf(r)'
    BY <1>5, <1>7, <2>2 DEF RecvSubmit, Commands, Inv, TypeOK
  <2> QED  BY <2>1, <2>2 DEF NotLost
<1>8. ASSUME NEW u \in Commands(s), NEW t \in Commands(s), UnlinkPending(s, u, t)
      PROVE  NotLost'
  <2>1. NotLostOf(t)'
    BY <1>8 DEF UnlinkPending, RecvUnlink, Commands, NotLostOf, Inv, TypeOK
  <2>2. NotLostOf(u)'
    BY <1>8 DEF UnlinkPending, RecvUnlink, Commands, NotLostOf, Inv, TypeOK
  <2>3. ASSUME NEW r \in Requests, r # t, r # u
        PROVE  NotLostOf(r)'
    BY <1>5, <1>8, <2>3 DEF UnlinkPending, RecvUnlink, Commands, Inv, TypeOK
  <2> QED  BY <2>1, <2>2, <2>3 DEF NotLost
<1>9. ASSUME NEW u \in Commands(s), NEW t \in Commands(s),
             UnlinkDuplicate(s, u, t) \/ UnlinkMissing(s, u, t)
      PROVE  NotLost'
  <2>1. NotLostOf(u)'
    BY <1>9 DEF UnlinkDuplicate, UnlinkMissing, RecvUnlink, Commands, NotLostOf, Inv, TypeOK
  <2>2. ASSUME NEW r \in Requests, r # u
        PROVE  NotLostOf(r)'
    <3>1. /\ issued' = [issued EXCEPT ![u] = "UNLINK"]
          /\ UNCHANGED <<state, unlink_seqnum, pending_requests>>
      BY <1>9 DEF UnlinkDuplicate, UnlinkMissing, RecvUnlink
    <3> QED  BY <1>5, <2>2, <3>1 DEF Inv, TypeOK
  <2> QED  BY <2>1, <2>2 DEF NotLost
<1> QED
  BY <1>6, <1>7, <1>8, <1>9 DEF Receive

LEMMA HandleNotLost ==
  ASSUME Inv, Inv', NotLost, NEW s \in Sessions, Handle(s)
  PROVE  NotLost'
<1> USE DEF HandlerGoes, Disconnect, Erase, handlerVars, reaperVars, txVars, heapVars
<1>1. UNCHANGED <<tcur, wire, rpc, rcur, issued, unlink_seqnum>>
  BY DEF Handle, LoopTest, AllocFails, Intercept, CountInFlight, SubmitUrb, SubmitFails,
      DiscardUrb, Leave, CleanupZombieUrbs
<1>2. \A r \in Requests : ReplyDue(r)' = ReplyDue(r)
  BY <1>1 DEF ReplyDue
<1>3. \A w \in Sessions : is_connected'[w] /\ hpc'[w] # "leave" =>
        is_connected[w] /\ hpc[w] # "leave"
  <2>1. \A w \in Sessions : w # s => is_connected'[w] = is_connected[w] /\ hpc'[w] = hpc[w]
    BY DEF Handle, LoopTest, AllocFails, Intercept, CountInFlight, SubmitUrb, SubmitFails,
        DiscardUrb, Leave, CleanupZombieUrbs, Inv, TypeOK
  <2>2. CASE Leave(s)
    <3>1. is_connected'[s] = FALSE
      BY <2>2 DEF Leave, Inv, TypeOK
    <3> QED  BY <2>1, <3>1
  <2>3. CASE ~Leave(s)
    <3>1. is_connected' = is_connected /\ hpc[s] # "leave"
      BY <2>3 DEF Handle, LoopTest, AllocFails, Intercept, CountInFlight, SubmitUrb,
          SubmitFails, DiscardUrb, CleanupZombieUrbs
    <3> QED  BY <2>1, <3>1
  <2> QED  BY <2>2, <2>3
<1>4. CASE UNCHANGED <<state, pending_requests, tx_queue>>
  <2>1. \A w \in Sessions : Replies(w)' = Replies(w)
    BY <1>1, <1>4, OutgoingKept DEF Replies, Queued
  <2>2. ASSUME NEW r \in Requests
        PROVE  NotLostOf(r)'
    BY <1>1, <1>2, <1>3, <1>4, <2>1, RequestOwner, KeptNotLost DEF NotLost
  <2> QED  BY <2>2 DEF NotLost
<1>5. CASE AllocFails(s)
  <2>1. /\ hcur[s] \in Requests /\ Owner(hcur[s]) = s /\ hpc'[s] = "leave"
        /\ pending_requests' = pending_requests \ {hcur[s]} /\ UNCHANGED <<state, tx_queue>>
    BY <1>5 DEF AllocFails, Inv, Ownership, HandlerHolds, TypeOK
  <2>2. PICK q \in Requests : q = hcur[s]
    BY <2>1
  <2>3. \A w \in Sessions : Replies(w)' = Replies(w)
    BY <1>1, <2>1, OutgoingKept DEF Replies, Queued
  <2>4. NotLostOf(q)'
    BY <2>1, <2>2 DEF NotLostOf
  <2>5. ASSUME NEW r \in Requests, r # q
        PROVE  NotLostOf(r)'
    BY <1>1, <1>2, <1>3, <2>1, <2>2, <2>3, <2>5, RequestOwner, KeptNotLost DEF NotLost
  <2> QED  BY <2>4, <2>5 DEF NotLost
<1>6. CASE Intercept(s) \/ SubmitFails(s)
  <2>1. /\ hcur[s] \in Requests /\ Owner(hcur[s]) = s
        /\ pending_requests' = pending_requests \ {hcur[s]}
        /\ state' = [state EXCEPT ![hcur[s]] = "COMPLETED"]
    BY <1>6 DEF Intercept, SubmitFails, Inv, Ownership, HandlerHolds
  <2>2. PICK q \in Requests : q = hcur[s]
    BY <2>1
  <2>3. PICK st \in {"urb", "errno"} : Enqueue(s, RetSubmit(q, st))
    BY <1>6, <2>2 DEF Intercept, SubmitFails
  <2>4. RetSubmit(q, st) \in Packets
    BY RetSubmitType
  <2>5. /\ RetSubmit(q, st) \in Replies(s)'
        /\ \A w \in Sessions : \A p \in Replies(w) : p \in Replies(w)'
    BY <1>1, <2>3, <2>4, EnqueueGrows DEF Inv
  <2>6. NotLostOf(q)'
    <3>1. Completed(s, q)'
      BY <2>5 DEF Completed, RetSubmit
    <3>2. Answerable(q)'
      BY <2>1, <2>2, <3>1 DEF Answerable
    <3>3. state'[q] = "COMPLETED"
      BY <2>1, <2>2 DEF Inv, TypeOK
    <3> QED  BY <3>2, <3>3 DEF NotLostOf
  <2>7. ASSUME NEW r \in Requests, r # q
        PROVE  NotLostOf(r)'
    <3>1. state'[r] = state[r] /\ (r \in pending_requests' <=> r \in pending_requests)
      BY <2>1, <2>2, <2>7 DEF Inv, TypeOK
    <3> QED  BY <1>1, <1>2, <1>3, <2>5, <3>1, RequestOwner, KeptNotLost DEF NotLost
  <2> QED  BY <2>6, <2>7 DEF NotLost
<1> QED
  BY <1>4, <1>5, <1>6 DEF Handle, LoopTest, CountInFlight, SubmitUrb, DiscardUrb, Leave,
      CleanupZombieUrbs

LEMMA ReapNotLost ==
  ASSUME Inv, Inv', Life, Life', NotLost, NEW s \in Sessions, Reap(s)
  PROVE  NotLost'
<1> USE DEF ReaperGoes, ReaperForgets, handlerVars, reaperVars, txVars, heapVars
<1>1. UNCHANGED <<is_connected, hpc, tcur, wire, issued, unlink_seqnum>>
  BY DEF Reap, ReapCheck, ReapUrb, ReapAgain, ReapNoDevice, Settle, Uncount, Reply, NoReply,
      EnqueueReply
<1>2. \A t \in Sessions : t # s => rpc'[t] = rpc[t] /\ rcur'[t] = rcur[t]
  BY DEF Reap, ReapCheck, ReapUrb, ReapAgain, ReapNoDevice, Settle, Uncount, Reply, NoReply,
      EnqueueReply, Inv, TypeOK
<1>3. \A w \in Sessions : \A p \in Replies(w) : p \in Replies(w)'
  <2>1. CASE UNCHANGED tx_queue
    BY <1>1, <2>1, OutgoingKept DEF Replies, Queued
  <2>2. CASE EnqueueReply(s)
    <3>1. PICK o \in Sessions, pkt \in Packets : Enqueue(o, pkt)
      <4>1. rcur[s] \in Requests /\ ReplyPacket(rcur[s], emit[s]) \in Packets
        BY <2>2, RetSubmitType, RetUnlinkType DEF EnqueueReply, ReplyPacket, Inv, Ownership,
            ReaperHolds, UnlinkKnown, Holding, Settled, TypeOK
      <4> QED  BY <2>2, <4>1, RequestOwner DEF EnqueueReply, UrbSession
    <3> QED  BY <1>1, <3>1, EnqueueGrows DEF Inv
  <2> QED
    BY <2>1, <2>2 DEF Reap, ReapCheck, ReapUrb, ReapAgain, ReapNoDevice, Settle, Uncount,
        Reply, NoReply
<1>4. ASSUME NEW r \in Requests, state'[r] = state[r],
             r \in pending_requests' <=> r \in pending_requests, ReplyDue(r) => ReplyDue(r)'
      PROVE  NotLostOf(r)'
  BY <1>1, <1>3, <1>4, RequestOwner, KeptNotLost DEF NotLost
<1>5. CASE ReapCheck(s) \/ ReapUrb(s) \/ ReapAgain(s) \/ ReapNoDevice(s)
  <2>1. rpc[s] \notin Settled /\ UNCHANGED <<state, pending_requests>>
    BY <1>5 DEF ReapCheck, ReapUrb, ReapAgain, ReapNoDevice, Settled
  <2>2. \A r \in Requests : ReplyDue(r) => ReplyDue(r)'
    BY <1>2, <2>1 DEF ReplyDue, Settled
  <2> QED  BY <1>4, <2>1, <2>2 DEF NotLost
<1>6. CASE Uncount(s) \/ Reply(s)
  <2>1. rpc'[s] \in Settled /\ UNCHANGED <<rcur, state, pending_requests>>
    BY <1>6 DEF Uncount, Reply, Settled, Inv, TypeOK
  <2>2. \A r \in Requests : ReplyDue(r) => ReplyDue(r)'
    BY <1>2, <2>1 DEF ReplyDue, Settled
  <2> QED  BY <1>4, <2>1, <2>2 DEF NotLost
<1>7. CASE Settle(s)
  <2>1. /\ rcur[s] \in Requests /\ rpc[s] = "settle" /\ rpc'[s] = "uncount"
        /\ UNCHANGED rcur /\ state' = [state EXCEPT ![rcur[s]] = "COMPLETED"]
        /\ pending_requests' \in {pending_requests, pending_requests \ {rcur[s]}}
    BY <1>7 DEF Settle, Inv, TypeOK, Ownership, ReaperHolds, Holding
  <2>2. PICK q \in Requests : q = rcur[s]
    BY <2>1
  <2>3. NotLostOf(q)'
    <3>1. ReplyDue(q)'
      BY <2>1, <2>2 DEF ReplyDue
    <3>2. state'[q] = "COMPLETED"
      BY <2>1, <2>2 DEF Inv, TypeOK
    <3> QED  BY <3>1, <3>2 DEF NotLostOf, Answerable
  <2>4. ASSUME NEW r \in Requests, r # q
        PROVE  NotLostOf(r)'
    <3>1. state'[r] = state[r] /\ (r \in pending_requests' <=> r \in pending_requests)
      BY <2>1, <2>2, <2>4 DEF Inv, TypeOK
    <3>2. ReplyDue(r) => ReplyDue(r)'
      BY <1>2, <2>1 DEF ReplyDue
    <3> QED  BY <1>4, <3>1, <3>2
  <2> QED  BY <2>3, <2>4 DEF NotLost
<1>8. CASE NoReply(s) \/ EnqueueReply(s)
  <2>1. /\ rcur[s] \in Requests /\ rpc[s] \in Settled
        /\ UNCHANGED <<state, pending_requests>>
    BY <1>8 DEF NoReply, EnqueueReply, Inv, Ownership, ReaperHolds, Holding, Settled
  <2>2. PICK q \in Requests : q = rcur[s]
    BY <2>1
  <2>3. ASSUME NEW r \in Requests, r # q
        PROVE  NotLostOf(r)'
    <3>1. ReplyDue(r) => ReplyDue(r)'
      BY <1>2, <2>2, <2>3 DEF ReplyDue
    <3> QED  BY <1>4, <2>1, <3>1
  <2>4. /\ state[q] = "COMPLETED"
        /\ emit[s] = IF unlink_seqnum[q] = NoReq THEN "RET_SUBMIT" ELSE "RET_UNLINK"
        /\ unlink_seqnum[q] # NoReq => unlink_seqnum[q] \in Requests
    BY <2>1, <2>2 DEF Life, EmitKnown, UnlinksApart
  <2>5. CASE NoReply(s)
    <3>1. ~is_connected[Owner(q)]
      BY <2>2, <2>4, <2>5 DEF NoReply, UrbSession
    <3> QED  BY <1>1, <2>3, <3>1 DEF NotLost, NotLostOf
  <2>6. CASE EnqueueReply(s)
    <3>1. PICK pkt : pkt = ReplyPacket(q, emit[s])
      OBVIOUS
    <3>2. Enqueue(Owner(q), pkt) /\ Owner(q) \in Sessions
      BY <2>2, <2>6, <3>1, RequestOwner DEF EnqueueReply, UrbSession
    <3>3. pkt = IF unlink_seqnum[q] = NoReq THEN RetSubmit(q, "urb")
                                            ELSE RetUnlink(unlink_seqnum[q], "-2")
      BY <2>4, <3>1 DEF ReplyPacket
    <3>4. pkt \in Packets
      BY <2>4, <3>3, RetSubmitType, RetUnlinkType
    <3>5. pkt \in Replies(Owner(q))'
      BY <1>1, <3>2, <3>4, EnqueueGrows DEF Inv
    <3>6. Completed(Owner(q), q)' \/ Cancelled(Owner(q), q)'
      <4>1. CASE unlink_seqnum[q] = NoReq
        <5>1. RetSubmit(q, "urb") \in Replies(Owner(q))'
          BY <3>3, <3>5, <4>1
        <5> QED  BY <5>1 DEF Completed, RetSubmit
      <4>2. CASE unlink_seqnum[q] # NoReq
        BY <1>1, <3>3, <3>5, <4>2 DEF Cancelled, RetUnlink
      <4> QED  BY <4>1, <4>2
    <3>7. NotLostOf(q)'
      BY <2>1, <2>4, <3>6 DEF NotLostOf, Answerable
    <3> QED  BY <2>3, <3>7 DEF NotLost
  <2> QED  BY <1>8, <2>5, <2>6
<1> QED
  BY <1>5, <1>6, <1>7, <1>8 DEF Reap

LEMMA NextNotLost ==
  ASSUME Answered, NotLost, [Next]_vars
  PROVE  NotLost'
<1> USE DEF Answered
<1>0. Answered'
  BY NextAnswered
<1>1. ASSUME NEW s \in Sessions,
             Receive(s) \/ Handle(s) \/ Reap(s) \/ Transmit(s)
      PROVE  NotLost'
  BY <1>0, <1>1, ReceiveNotLost, HandleNotLost, ReapNotLost, TransmitNotLost DEF Sending
<1>2. CASE \/ \E s \in Sessions : Refuse(s) \/ Import(s)
           \/ \E r \in Requests : CompleteUrb(r)
           \/ \E d \in Devices : Unplug(d)
           \/ UNCHANGED vars
  BY <1>2, OtherNotLost
<1> QED
  BY <1>1, <1>2 DEF Next, Finished

\* While a session is up, every submitted request has exactly one fate: no reply is
\* lost between the reaper and the socket, and none is answered both ways.
THEOREM ExactlyOneFate == Spec => []OneFate
<1>1. ASSUME Answered, NotLost, NEW r \in Requests, issued[r] = "SUBMIT",
             is_connected[Owner(r)], hpc[Owner(r)] # "leave"
      PROVE  LET s == Owner(r)
                 fates == <<r \in pending_requests, ReplyDue(r), Completed(s, r), Cancelled(s, r)>>
             IN  Cardinality({i \in DOMAIN fates : fates[i]}) = 1
  <2> DEFINE s == Owner(r)
             a == r \in pending_requests
             b == ReplyDue(r)
             c == Completed(s, r)
             d == Cancelled(s, r)
             fates == <<a, b, c, d>>
  <2>0. Inv /\ Life /\ Sending /\ TypeOK /\ s \in Sessions
    BY <1>1, RequestOwner DEF Answered, Inv
  <2>1. a \/ b \/ c \/ d
    BY <1>1 DEF NotLost, NotLostOf, Answerable
  <2>2. \A pkt \in Replies(s) : Client!Due(pkt)
    BY <2>0, RepliesOf DEF Sending, QueuedDue, WireDue
  <2>3. a => state[r] # "COMPLETED"
    BY <2>0 DEF Inv, Ownership, PendingOpen
  <2>4. b => state[r] = "COMPLETED"
    BY <2>0 DEF ReplyDue, Settled, Life, EmitKnown
  <2>5. c => Fate[r] = "completed"
    BY <2>2 DEF Completed, RetSubmit, Client!Due
  <2>6. d => Fate[r] = "cancelled"
    <3> SUFFICES ASSUME d PROVE Fate[r] = "cancelled"
      OBVIOUS
    <3>1. unlink_seqnum[r] # NoReq /\ Client!Due(RetUnlink(unlink_seqnum[r], "-2"))
      BY <2>2 DEF Cancelled
    <3>2. \E q \in Requests : Fate[q] = "cancelled" /\ unlink_seqnum[q] = unlink_seqnum[r]
      BY <3>1 DEF RetUnlink, Client!Due
    <3> QED  BY <2>0, <3>1, <3>2 DEF Life, UnlinksApart
  <2>7. state[r] # "COMPLETED" => Fate[r] # "completed" /\ Fate[r] # "cancelled"
    BY <1>1, <2>0, FateValues DEF TypeOK
  <2>8. b => ~c /\ ~d
    <3> SUFFICES ASSUME b PROVE ~c /\ ~d
      OBVIOUS
    <3>1. PICK t \in Sessions : rpc[t] \in Settled /\ rcur[t] = r
      BY DEF ReplyDue, Settled
    <3>2. Answering(t) = IF unlink_seqnum[r] = NoReq THEN r ELSE unlink_seqnum[r]
      BY <2>0, <3>1 DEF Life, EmitKnown, Answering
    <3>3. Unanswered(Answering(t))
      BY <2>0, <3>1 DEF Sending, ReaperNew
    <3>4. Fate[r] = IF unlink_seqnum[r] = NoReq THEN "completed" ELSE "cancelled"
      BY <1>1, <2>0, <2>4, FateValues
    <3>5. CASE unlink_seqnum[r] = NoReq
      <4>1. \A pkt \in Replies(s) : pkt.seqnum # r
        BY <3>2, <3>3, <3>5 DEF Unanswered
      <4> QED  BY <3>5, <4>1 DEF Completed, Cancelled, RetSubmit
    <3>6. CASE unlink_seqnum[r] # NoReq
      <4>1. Owner(unlink_seqnum[r]) = s
        BY <2>0, <3>6 DEF Life, UnlinksApart
      <4>2. \A pkt \in Replies(s) : pkt.seqnum # unlink_seqnum[r]
        BY <3>2, <3>3, <3>6, <4>1 DEF Unanswered
      <4>3. ~d
        BY <4>2 DEF Cancelled, RetUnlink
      <4> QED  BY <2>5, <3>4, <3>6, <4>3
    <3> QED  BY <3>5, <3>6
  <2>9. ~(c /\ d)
    BY <2>5, <2>6
  <2>10. \E k \in 1..4 : {i \in DOMAIN fates : fates[i]} = {k}
    <3>1. DOMAIN fates = {1, 2, 3, 4} /\ {1, 2, 3, 4} = 1..4
      OBVIOUS
    <3>2. fates[1] = a /\ fates[2] = b /\ fates[3] = c /\ fates[4] = d
      OBVIOUS
    <3>3. a \in BOOLEAN /\ b \in BOOLEAN /\ c \in BOOLEAN /\ d \in BOOLEAN
      BY DEF ReplyDue, Completed, Cancelled
    <3>4. /\ a => ~b /\ ~c /\ ~d
          /\ b => ~a /\ ~c /\ ~d
          /\ c => ~a /\ ~b /\ ~d
          /\ d => ~a /\ ~b /\ ~c
      BY <2>3, <2>4, <2>5, <2>6, <2>7, <2>8, <2>9
    <3> HIDE DEF a, b, c, d, fates
    <3>5. CASE a
      <4>1. fates[1] /\ ~fates[2] /\ ~fates[3] /\ ~fates[4]
        BY <3>2, <3>4, <3>5, Zenon
      <4>2. {i \in {1, 2, 3, 4} : fates[i]} = {1}
        BY <4>1, Zenon
      <4> QED  BY <3>1, <4>2
    <3>6. CASE b
      <4>1. ~fates[1] /\ fates[2] /\ ~fates[3] /\ ~fates[4]
        BY <3>2, <3>4, <3>6, Zenon
      <4>2. {i \in {1, 2, 3, 4} : fates[i]} = {2}
        BY <4>1, Zenon
      <4> QED  BY <3>1, <4>2
    <3>7. CASE c
      <4>1. ~fates[1] /\ ~fates[2] /\ fates[3] /\ ~fates[4]
        BY <3>2, <3>4, <3>7, Zenon
      <4>2. {i \in {1, 2, 3, 4} : fates[i]} = {3}
        BY <4>1, Zenon
      <4> QED  BY <3>1, <4>2
    <3>8. CASE d
      <4>1. ~fates[1] /\ ~fates[2] /\ ~fates[3] /\ fates[4]
        BY <3>2, <3>4, <3>8, Zenon
      <4>2. {i \in {1, 2, 3, 4} : fates[i]} = {4}
        BY <4>1, Zenon
      <4> QED  BY <3>1, <4>2
    <3> QED  BY <2>1, <3>5, <3>6, <3>7, <3>8
  <2> QED
    BY <2>10, FS_Singleton
<1>2. Init => NotLost
  BY DEF Init, NotLost, NotLostOf
<1>3. Answered /\ NotLost /\ [Next]_vars => NotLost'
  BY NextNotLost
<1>4. Answered /\ NotLost => OneFate
  BY <1>1 DEF OneFate
<1> QED
  BY <1>2, <1>3, <1>4, AnsweredInvariance, PTL DEF Spec
=============================================================================
