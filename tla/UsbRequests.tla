----------------------------- MODULE UsbRequests -----------------------------
(***************************************************************************)
(* What a USB/IP client may rely on.  A submitted request stays open until *)
(* it completes or is cancelled by the first unlink that meets it open;    *)
(* each is answered at most once, on its own connection: a completed one   *)
(* by RET_SUBMIT, a cancelled one by RET_UNLINK(-2) to its unlink, an      *)
(* unlink that cancelled nothing by RET_UNLINK(0) or not at all.  A request*)
(* is abandoned only by a connection that is over.                         *)
(***************************************************************************)
CONSTANTS Sessions, Requests, NoReq

Owner(r) == r[1]

VARIABLES
  up,         \* the connections that are not over
  issued,     \* what a sequence number was used for
  fate,       \* of a submitted request
  canceller,  \* the unlink that cancels it
  wire        \* replies sent on a connection

vars == <<up, issued, fate, canceller, wire>>

Init ==
  /\ up = [s \in Sessions |-> TRUE]
  /\ issued = [r \in Requests |-> "unused"]
  /\ fate = [r \in Requests |-> "none"]
  /\ canceller = [r \in Requests |-> NoReq]
  /\ wire = [s \in Sessions |-> {}]

Becomes(r, from, to) == fate[r] = from /\ fate' = [fate EXCEPT ![r] = to]
Use(r, for) == issued[r] = "unused" /\ issued' = [issued EXCEPT ![r] = for]

Submit(r) ==
  /\ Use(r, "SUBMIT")
  /\ Becomes(r, "none", "open")
  /\ UNCHANGED <<up, canceller, wire>>

Complete(r) ==
  /\ Becomes(r, "open", "completed")
  /\ UNCHANGED <<up, issued, canceller, wire>>

Unlink(u, t) ==
  /\ Owner(u) = Owner(t)
  /\ Use(u, "UNLINK")
  /\ Becomes(t, "open", "unlinking")
  /\ canceller' = [canceller EXCEPT ![t] = u]
  /\ UNCHANGED <<up, wire>>

Cancel(r) ==
  /\ Becomes(r, "unlinking", "cancelled")
  /\ UNCHANGED <<up, issued, canceller, wire>>

\* An unlink of a request that is no longer open.
UnlinkLate(u) ==
  /\ Use(u, "UNLINK")
  /\ UNCHANGED <<up, fate, canceller, wire>>

Answers(pkt) == \* those that answer the same command
  {p \in wire[Owner(pkt.seqnum)] : p.seqnum = pkt.seqnum}

Due(pkt) ==
  \/ pkt.command = "RET_SUBMIT" /\ fate[pkt.seqnum] = "completed"
  \/ /\ pkt.command = "RET_UNLINK" /\ pkt.status = "-2"
     /\ \E r \in Requests : fate[r] = "cancelled" /\ canceller[r] = pkt.seqnum
  \/ /\ pkt.command = "RET_UNLINK" /\ pkt.status = "0"
     /\ issued[pkt.seqnum] = "UNLINK"
     /\ \A r \in Requests : canceller[r] # pkt.seqnum

Send(s) ==
  /\ \E pkt \in wire'[s] :
       /\ Owner(pkt.seqnum) = s
       /\ Due(pkt) /\ Answers(pkt) = {}
       /\ wire' = [wire EXCEPT ![s] = @ \cup {pkt}]
  /\ UNCHANGED <<up, issued, fate, canceller>>

End(s) ==
  /\ up' = [up EXCEPT ![s] = FALSE]
  /\ UNCHANGED <<issued, fate, canceller, wire>>

\* The connection ends because a request cannot be carried out.
Abandon(r) ==
  /\ Becomes(r, "open", "abandoned")
  /\ up' = [up EXCEPT ![Owner(r)] = FALSE]
  /\ UNCHANGED <<issued, canceller, wire>>

Next ==
  \/ \E r \in Requests : Submit(r) \/ Complete(r) \/ Cancel(r) \/ UnlinkLate(r) \/ Abandon(r)
  \/ \E u, t \in Requests : Unlink(u, t)
  \/ \E s \in Sessions : Send(s) \/ End(s)

Spec == Init /\ [][Next]_vars
=============================================================================
