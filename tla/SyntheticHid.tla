---------------------------- MODULE SyntheticHid ----------------------------
(***************************************************************************)
(* The synthetic HID device: a session that imported synthetic-1 submits   *)
(* control requests, answered at once through its queue, and interrupt     *)
(* URBs, of which g_PendingHidUrb parks one until an input event comes.    *)
(* Events go from the UI through the ring (SPSCRing) to whichever TX       *)
(* thread polls them; every TX thread polls, whatever device its session   *)
(* imported.  Replies reach the client piece by piece (SocketTransfer).    *)
(*                                                                         *)
(* The data of an OUT request is left in the socket: the next header is    *)
(* read out of step with the client, as no command the handler knows, and  *)
(* ends the session.                                                       *)
(*                                                                         *)
(* The stores of the parked seqnum and of isActive are steps of their own, *)
(* as are the accesses to the ring.  The content of the reports            *)
(* (KeyboardReport) and the destruction of the ring are left out.          *)
(***************************************************************************)
EXTENDS Integers, Sequences, FiniteSets, SequencesExt, FiniteSetsExt

CONSTANTS
  Capacity, Events, NoEvent,  \* of the ring
  Unknown,        \* key events the translator has no usage for
  Sessions,       \* sessions with a TX thread
  Synthetic,      \* those that imported synthetic-1
  Requests,       \* control requests a client makes
  DescriptorLen,  \* the lengths of the descriptors the device has
  HeaderLen, ReportLen,  \* lengths of a packet's header and of a report
  NoSeq,          \* the value of g_PendingHidUrb.seqnum after a reset
  Pipelined,      \* whether a client submits before its last interrupt URB is over
  UnlinkParked,   \* whether a client unlinks what has not been answered
  MaxSeqs,        \* bound: commands of a session
  MaxPushes       \* bound: how many events are pushed

Seqnums == Sessions \X (1..MaxSeqs)

ASSUME UnknownAssumption == Unknown \subseteq Events
ASSUME SyntheticAssumption == Synthetic \subseteq Sessions
ASSUME NoSeqAssumption == NoSeq \notin Seqnums
ASSUME RingAssumption == Capacity \in Nat \ {0} /\ NoEvent \notin Events
ASSUME LengthAssumption ==
  /\ {HeaderLen, ReportLen} \subseteq Nat \ {0}
  /\ \A t \in DOMAIN DescriptorLen : DescriptorLen[t] \in Nat
  /\ \A req \in Requests : req.wLength \in Nat
ASSUME ClientAssumption == {Pipelined, UnlinkParked} \subseteq BOOLEAN
ASSUME BoundAssumption == {MaxSeqs, MaxPushes} \subseteq Nat

VARIABLES
  buffer, head, tail, ppc, pushing, cpc, currentHead, event, popped,  \* the ring
  wire, iov, broken,  \* the sockets
  isActive, seqnum,   \* g_PendingHidUrb
  is_connected, tx_queue,
  hpc, tpc,           \* handle_client and tcp_tx_thread of each session
  asked,              \* the commands each client has sent, by sequence number
  pushed, reports,    \* events the ring accepted, events reported, in order
  overlapped          \* history: two TX threads have been polling at once

ringVars == <<buffer, head, tail, ppc, pushing, cpc, currentHead, event, popped>>
socketVars == <<wire, iov, broken>>
parkedVars == <<isActive, seqnum>>
sessionVars == <<is_connected, tx_queue>>
historyVars == <<asked, pushed, reports, overlapped>>
vars == <<ringVars, socketVars, parkedVars, sessionVars, hpc, tpc, historyVars>>

Ring == INSTANCE SPSCRing WITH Consumers <- Sessions
Socket == INSTANCE SocketTransfer

Init ==
  /\ Ring!Init
  /\ Socket!Init
  /\ isActive = FALSE
  /\ seqnum = NoSeq
  /\ is_connected = [s \in Sessions |-> TRUE]
  /\ tx_queue = [s \in Sessions |-> << >>]
  /\ hpc = [s \in Sessions |-> IF s \in Synthetic THEN "import" ELSE "other"]
  /\ tpc = [s \in Sessions |-> "idle"]
  /\ asked = [s \in Sessions |-> << >>]
  /\ pushed = << >>
  /\ reports = << >>
  /\ overlapped = FALSE

TxGoes(s, from, to) == tpc[s] = from /\ tpc' = [tpc EXCEPT ![s] = to]
HandlerGoes(s, from, to) == hpc[s] = from /\ hpc' = [hpc EXCEPT ![s] = to]

Packet(c, r, status, length) ==
  [command |-> c, seqnum |-> r, status |-> status, length |-> length]

\* The whole packet has left.
Answered(r) ==
  \E i \in DOMAIN wire[r[1]] :
    LET b == wire[r[1]][i] IN b.pkt.seqnum = r /\ b.n = Socket!Length(b.pkt)

Asked == {r \in Seqnums : r[2] <= Len(asked[r[1]])}
Command(r) == asked[r[1]][r[2]]

\* The client need not wait for r any more.
Over(r) ==
  \/ Answered(r)
  \/ \E u \in Asked : Command(u) = [command |-> "UNLINK", target |-> r] /\ Answered(u)

-----------------------------------------------------------------------------
\* The UI thread; push returns false when the ring is full.
UiPush ==
  /\ \/ \E e \in Events :
          /\ Len(pushed) < MaxPushes
          /\ Ring!PushTest(e)
          /\ pushed' = Append(pushed, e)
     \/ (Ring!PushWrite \/ Ring!PushPublish) /\ UNCHANGED pushed
  /\ UNCHANGED <<socketVars, parkedVars, sessionVars, hpc, tpc, asked, reports,
                 overlapped>>

-----------------------------------------------------------------------------
(* handle_client *)

\* An import resets the parked URB of whoever used the device before, and is answered.
ResetSyntheticState(s) ==
  /\ HandlerGoes(s, "import", "reply")
  /\ isActive' = FALSE
  /\ seqnum' = NoSeq
  /\ Socket!Begin(<<s, "handler">>, Packet("REP_IMPORT", NoSeq, 0, HeaderLen))
  /\ UNCHANGED <<ringVars, wire, broken, sessionVars, tpc, historyVars>>

\* Errors are ignored: the next recv() will fail.
SendImport(s) ==
  /\ hpc[s] = "reply"
  /\ Socket!Send(<<s, "handler">>) \/ Socket!SendFails(<<s, "handler">>)
  /\ hpc' = [hpc EXCEPT ![s] = IF iov'[<<s, "handler">>] = << >> THEN "loop" ELSE "reply"]
  /\ UNCHANGED <<ringVars, parkedVars, sessionVars, tpc, historyVars>>

LoopTest(s) ==
  /\ HandlerGoes(s, "loop", IF is_connected[s] THEN "recv" ELSE "done")
  /\ UNCHANGED <<ringVars, socketVars, parkedVars, sessionVars, tpc, historyVars>>

\* The client hung up, or what it sent is read out of step and is no command.
Leave(s) ==
  /\ HandlerGoes(s, "recv", "done") \/ HandlerGoes(s, "skewed", "done")
  /\ is_connected' = [is_connected EXCEPT ![s] = FALSE]
  /\ UNCHANGED <<ringVars, socketVars, parkedVars, tx_queue, tpc, historyVars>>

NextSeq(s) == <<s, Len(asked[s]) + 1>>

Recv(s, cmd, to) ==
  /\ HandlerGoes(s, "recv", to)
  /\ Len(asked[s]) < MaxSeqs
  /\ asked' = [asked EXCEPT ![s] = Append(@, cmd)]

\* Where a request leaves the handler; data that follows the header is not received.
AfterData(out) == IF out THEN "skewed" ELSE "loop"

Enqueue(s, pkt) == tx_queue' = [tx_queue EXCEPT ![s] = Append(@, pkt)]

HandleSyntheticSubmit(s) ==
  /\ Recv(s, [command |-> "INTERRUPT"], "activate")
  /\ Pipelined \/ \A r \in Asked : r[1] = s /\ Command(r).command = "INTERRUPT" => Over(r)
  /\ seqnum' = NextSeq(s)
  /\ UNCHANGED <<ringVars, socketVars, isActive, sessionVars, tpc, pushed, reports,
                 overlapped>>

Activate(s) ==
  /\ HandlerGoes(s, "activate", "loop")
  /\ isActive' = TRUE
  /\ UNCHANGED <<ringVars, socketVars, seqnum, sessionVars, tpc, historyVars>>

\* A submission to any endpoint but 0 and 1-IN: it is deleted and never answered.
SubmitElsewhere(s) ==
  /\ \E out \in BOOLEAN : Recv(s, [command |-> "OTHER"], AfterData(out))
  /\ UNCHANGED <<ringVars, socketVars, parkedVars, sessionVars, tpc, pushed, reports,
                 overlapped>>

\* How much of a descriptor is copied; -1 if the device does not have it.
HandleControlGetDescriptor(descType, maxLength) ==
  IF descType \in DOMAIN DescriptorLen THEN Min({DescriptorLen[descType], maxLength}) ELSE -1

\* Requests that set something are accepted without effect; what is not known, a
\* descriptor included, stalls.
ControlReply(r, req) ==
  LET len == HandleControlGetDescriptor(req.type, req.wLength)
      accept(length) == Packet("RET_SUBMIT", r, 0, length)
  IN CASE req.name = "GET_DESCRIPTOR" /\ len >= 0 -> accept(len)
       [] req.name = "GET_STATUS" -> accept(Min({2, req.wLength}))
       [] req.name \in {"SET_CONFIGURATION", "SET_ADDRESS", "SET_IDLE", "SET_PROTOCOL"} ->
            accept(0)
       [] OTHER -> Packet("RET_SUBMIT", r, 1, 0)

ControlSubmit(s, req) ==
  /\ Recv(s, [command |-> "CONTROL", request |-> req], AfterData(req.out))
  /\ Enqueue(s, ControlReply(NextSeq(s), req))
  /\ UNCHANGED <<ringVars, socketVars, parkedVars, is_connected, tpc, pushed, reports,
                 overlapped>>

\* pending_requests has no request of a synthetic device: a parked URB stays parked.
RecvUnlink(s, t) ==
  /\ t \in Asked /\ t[1] = s /\ Command(t).command # "UNLINK"
  /\ UnlinkParked \/ Answered(t)
  /\ Recv(s, [command |-> "UNLINK", target |-> t], "loop")
  /\ Enqueue(s, Packet("RET_UNLINK", NextSeq(s), 0, 0))
  /\ UNCHANGED <<ringVars, socketVars, parkedVars, is_connected, tpc, pushed, reports,
                 overlapped>>

Handle(s) == SendImport(s) \/ LoopTest(s) \/ Activate(s)

-----------------------------------------------------------------------------
(* tcp_tx_thread *)

TxTake(s) ==
  /\ TxGoes(s, "idle", "send")
  /\ is_connected[s]
  /\ tx_queue[s] # << >>
  /\ Socket!Begin(<<s, "tx">>, Head(tx_queue[s]))
  /\ tx_queue' = [tx_queue EXCEPT ![s] = Tail(@)]
  /\ UNCHANGED <<ringVars, wire, broken, parkedVars, is_connected, hpc, historyVars>>

TxIdle(s) ==
  /\ TxGoes(s, "idle", "poll")
  /\ is_connected[s]
  /\ tx_queue[s] = << >>
  /\ UNCHANGED <<ringVars, socketVars, parkedVars, sessionVars, hpc, historyVars>>

TxExit(s) ==
  /\ TxGoes(s, "idle", "done")
  /\ ~is_connected[s]
  /\ tx_queue' = [tx_queue EXCEPT ![s] = << >>]
  /\ UNCHANGED <<ringVars, socketVars, parkedVars, is_connected, hpc, historyVars>>

\* After a packet from the queue the thread polls, even if the send failed.
AfterSend(s) == IF tpc[s] = "send" THEN "poll" ELSE "idle"

TxSend(s) ==
  /\ tpc[s] \in {"send", "send_report"}
  /\ Socket!SendMsg(<<s, "tx">>)
  /\ tpc' = [tpc EXCEPT ![s] = IF iov'[<<s, "tx">>] = << >> THEN AfterSend(s) ELSE @]
  /\ UNCHANGED <<ringVars, parkedVars, sessionVars, hpc, historyVars>>

TxFails(s) ==
  /\ tpc[s] \in {"send", "send_report"}
  /\ Socket!SendFails(<<s, "tx">>)
  /\ tpc' = [tpc EXCEPT ![s] = AfterSend(s)]
  /\ is_connected' = [is_connected EXCEPT ![s] = FALSE]
  /\ UNCHANGED <<ringVars, parkedVars, tx_queue, hpc, historyVars>>

\* PollSyntheticEvents

\* Inside PollSyntheticEvents, from its test of isActive on.
Polling(s) == tpc[s] \in {"pop", "unpark", "translate", "repark"}

PollParked(s) ==
  /\ TxGoes(s, "poll", IF isActive THEN "pop" ELSE "idle")
  /\ overlapped' = (overlapped \/ (isActive /\ \E other \in Sessions \ {s} : Polling(other)))
  /\ UNCHANGED <<ringVars, socketVars, parkedVars, sessionVars, hpc, asked, pushed, reports>>

PollPop(s) ==
  /\ \/ (Ring!PopBegin(s) \/ Ring!PopTest(s) \/ Ring!PopRead(s)) /\ TxGoes(s, "pop", "pop")
     \/ Ring!PopEmpty(s) /\ TxGoes(s, "pop", "idle")
     \/ Ring!PopAdvance(s) /\ TxGoes(s, "pop", "unpark")
  /\ UNCHANGED <<socketVars, parkedVars, sessionVars, hpc, historyVars>>

Unpark(s) ==
  /\ TxGoes(s, "unpark", "translate")
  /\ isActive' = FALSE
  /\ UNCHANGED <<ringVars, socketVars, seqnum, sessionVars, hpc, historyVars>>

\* The parked seqnum is read; what the translator knows is reported.
Translate(s) ==
  /\ \/ /\ popped[s] \in Unknown
        /\ TxGoes(s, "translate", "repark")
        /\ UNCHANGED <<iov, reports>>
     \/ /\ popped[s] \notin Unknown
        /\ TxGoes(s, "translate", "send_report")
        /\ Socket!Begin(<<s, "tx">>, Packet("RET_SUBMIT", seqnum, 0, ReportLen))
        /\ reports' = Append(reports, popped[s])
  /\ UNCHANGED <<ringVars, wire, broken, parkedVars, sessionVars, hpc, asked, pushed,
                 overlapped>>

Repark_Omitted(s) ==
  /\ TxGoes(s, "repark", "idle")
  /\ UNCHANGED <<ringVars, socketVars, parkedVars, sessionVars, hpc, historyVars>>

\* The event is swallowed and the URB waits for the next one.
Repark(s) ==
  /\ TxGoes(s, "repark", "idle")
  /\ isActive' = TRUE
  /\ UNCHANGED <<ringVars, socketVars, seqnum, sessionVars, hpc, historyVars>>

Transmit(s) ==
  \/ TxTake(s) \/ TxIdle(s) \/ TxExit(s) \/ TxSend(s)
  \/ PollParked(s) \/ PollPop(s) \/ Unpark(s) \/ Translate(s) \/ Repark(s)

-----------------------------------------------------------------------------
Next ==
  \/ UiPush
  \/ \E s \in Sessions :
       \/ ResetSyntheticState(s) \/ HandleSyntheticSubmit(s) \/ SubmitElsewhere(s)
       \/ Handle(s) \/ Leave(s) \/ Transmit(s) \/ TxFails(s)
       \/ \E req \in Requests : ControlSubmit(s, req)
       \/ \E t \in Seqnums : RecvUnlink(s, t)

Spec == Init /\ [][Next]_vars

\* A push that has begun, a handler that is not waiting for its client and a TX thread run
\* on; the client reads what it is sent, and a broken socket says so.
FairSpec ==
  /\ Spec
  /\ WF_vars(ppc # "idle" /\ UiPush)
  /\ \A s \in Sessions : WF_vars(Handle(s))
                          /\ WF_vars(Transmit(s) \/ (s \in broken /\ TxFails(s)))

-----------------------------------------------------------------------------
(* Properties *)

Packets ==
  [command : {"REP_IMPORT", "RET_SUBMIT", "RET_UNLINK"}, seqnum : Seqnums \cup {NoSeq},
   status : {0, 1}, length : Nat]

TypeOK ==
  /\ Ring!TypeOK
  /\ Socket!TypeOK(Packets)
  /\ isActive \in BOOLEAN
  /\ seqnum \in Seqnums \cup {NoSeq}
  /\ is_connected \in [Sessions -> BOOLEAN]
  /\ tx_queue \in [Sessions -> Seq(Packets)]
  /\ hpc \in [Sessions -> {"other", "import", "reply", "loop", "recv", "activate", "skewed",
                           "done"}]
  /\ tpc \in [Sessions -> {"idle", "send", "poll", "pop", "unpark", "translate", "repark",
                           "send_report", "done"}]
  /\ \A s \in Sessions : Len(asked[s]) <= MaxSeqs
  /\ pushed \in Seq(Events)
  /\ reports \in Seq(Events \cup {NoEvent})
  /\ overlapped \in BOOLEAN

\* The pushed events the translator knows, by position.
Known == {i \in DOMAIN pushed : pushed[i] \notin Unknown}

\* What the hosts are sent is what the UI pushed: the k-th report is the k-th known event,
\* so that none is lost, repeated or overtaken.
ReportsInOrder ==
  /\ Len(reports) <= Cardinality(Known)
  /\ \A i \in Known :
       LET k == Cardinality({j \in Known : j <= i})
       IN k <= Len(reports) => reports[k] = pushed[i]

\* Whatever sessions there are, the order is lost only after two TX threads were inside
\* PollSyntheticEvents at once.
OrderedUnlessOverlapped == ~overlapped => ReportsInOrder

\* What a client receives is whole packets: partial writes resume at the right byte, and
\* the handler's reply to an import is not cut by its TX thread.
WholePackets == Socket!Whole

Replies(s) == {i \in DOMAIN wire[s] : wire[s][i].n = 1 /\ wire[s][i].pkt.command # "REP_IMPORT"}

Interrupts == {r \in Asked : Command(r).command = "INTERRUPT"}
Report(r) == Packet("RET_SUBMIT", r, 0, ReportLen)

\* Whatever sessions there are and however their clients submit and unlink, a client gets
\* the one answer to each control request and unlink of its own, of the right kind and with
\* no more data than was asked for, or a report.  A report never names such a command: it
\* names some interrupt URB, or none after an import has reset the parked one.  Whose URB,
\* and whether for the first time, is up to the orders that InterruptAnswered excludes.
AnswersAsker ==
  \A s \in Sessions : \A i \in Replies(s) :
    LET pkt == wire[s][i].pkt
        r == pkt.seqnum IN
    \/ pkt = Report(r) /\ r \in Interrupts \cup {NoSeq}
    \/ /\ r \in Asked /\ r[1] = s /\ Command(r).command \in {"CONTROL", "UNLINK"}
       /\ (pkt.command = "RET_UNLINK") = (Command(r).command = "UNLINK")
       /\ Command(r).command = "CONTROL" => pkt.length <= Command(r).request.wLength
       /\ \A j \in Replies(s) : wire[s][j].pkt.seqnum = r => i = j

\* While its session lasts, a parked URB is answered once the UI has pushed enough known
\* events, and a control request or unlink without any: parking waits for input, it does
\* not lose the URB.  (A submission to another endpoint is never answered.)
InterruptAnswered ==
  \A r \in Seqnums :
    (/\ r \in Asked /\ Command(r).command # "OTHER"
     /\ r \in Interrupts => Cardinality(Interrupts) <= Cardinality(Known))
      ~> (Over(r) \/ ~is_connected[r[1]])
=============================================================================
