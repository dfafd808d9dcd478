--------------------------- MODULE SocketTransfer ---------------------------
(***************************************************************************)
(* send_iovec_all and send_full_urb_payload of usbip_server.cpp: a packet  *)
(* is handed to the socket in pieces, because a system call takes as many  *)
(* bytes as it has room for.  A session's socket has two writers, its      *)
(* handler and its TX thread, with no lock between them.                   *)
(*                                                                         *)
(* The sockets block, so EAGAIN and its poll() with a timeout never occur; *)
(* EINTR changes nothing.  Byte n of a packet stands for its content.      *)
(***************************************************************************)
EXTENDS Integers, Sequences, SequencesExt, FiniteSetsExt

CONSTANTS Sessions, HeaderLen

VARIABLES
  wire,   \* the bytes each socket has taken
  iov,    \* what each writer still has to send: slices of a packet
  broken  \* sockets that have reported an error

Writers == Sessions \X {"handler", "tx"}

Init ==
  /\ wire = [s \in Sessions |-> << >>]
  /\ iov = [w \in Writers |-> << >>]
  /\ broken = {}

Length(pkt) == HeaderLen + pkt.length
Slice(pkt, from, to) == [pkt |-> pkt, from |-> from, to |-> to]
Size(sl) == sl.to - sl.from + 1

\* Header and payload are separate buffers.
Slices(pkt) ==
  <<Slice(pkt, 1, HeaderLen)>>
    \o IF pkt.length > 0 THEN <<Slice(pkt, HeaderLen + 1, Length(pkt))>> ELSE << >>

Bytes(sl) == [i \in 1..Size(sl) |-> [pkt |-> sl.pkt, n |-> sl.from + i - 1]]
Data(v) == FlattenSeq([i \in DOMAIN v |-> Bytes(v[i])])

Begin(w, pkt) == iov' = [iov EXCEPT ![w] = Slices(pkt)]

Advance_FirstOnly(v, k) ==
  [v EXCEPT ![1].from = @ + k]

\* Move past k bytes: at most two slices, the second after the first.
Advance(v, k) ==
  [i \in DOMAIN v |->
     LET before == IF i = 1 THEN 0 ELSE Size(v[1])
     IN [v[i] EXCEPT !.from = @ + Max({0, Min({Size(v[i]), k - before})})]]

\* Emptied slices are dropped; they come first.
Compact(v) ==
  LET left == {i \in DOMAIN v : Size(v[i]) > 0}
  IN IF left = {} THEN << >> ELSE SubSeq(v, Min(left), Len(v))

Takes(w, k) ==
  /\ w[1] \notin broken
  /\ wire' = [wire EXCEPT ![w[1]] = @ \o SubSeq(Data(iov[w]), 1, k)]
  /\ iov' = [iov EXCEPT ![w] = Compact(Advance(iov[w], k))]
  /\ UNCHANGED broken

\* One sendmsg() of all that is left.
SendMsg(w) == \E k \in 1..Len(Data(iov[w])) : Takes(w, k)

\* One send(): of one buffer.
Send(w) == \E k \in 1..Size(Head(iov[w])) : Takes(w, k)

\* A hard error, from which the socket does not recover.
SendFails(w) ==
  /\ broken' = broken \cup {w[1]}
  /\ iov' = [iov EXCEPT ![w] = << >>]
  /\ UNCHANGED wire

-----------------------------------------------------------------------------
Byte(pkts) == [pkt : pkts, n : Nat]

TypeOK(pkts) ==
  /\ wire \in [Sessions -> Seq(Byte(pkts))]
  /\ \A w \in Writers : ToSet(Data(iov[w])) \subseteq Byte(pkts) /\ Len(iov[w]) <= 2
  /\ broken \subseteq Sessions

\* A byte on the wire follows its predecessor in its packet, and a packet follows a whole
\* packet: a partial write resumes where it stopped and no writer cuts into a packet.
Whole ==
  \A s \in Sessions : \A i \in DOMAIN wire[s] :
    LET b == wire[s][i] IN
    IF b.n = 1 THEN i = 1 \/ wire[s][i - 1].n = Length(wire[s][i - 1].pkt)
    ELSE i > 1 /\ wire[s][i - 1] = [pkt |-> b.pkt, n |-> b.n - 1]
=============================================================================
