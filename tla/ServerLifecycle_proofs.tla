----------------------- MODULE ServerLifecycle_proofs -----------------------
(***************************************************************************)
(* Proofs about ServerLifecycle, for any number of starts, descriptor      *)
(* numbers and clients, whether or not the two Kotlin threads overlap.     *)
(*                                                                         *)
(* Listening is about the listening sockets.  A start keeps g_socket_mutex *)
(* from the close of the old socket to the bind of the new one, and joins  *)
(* the old thread in between: so at most one run_server thread is alive,   *)
(* and it can only be on its way out while no socket is set.               *)
(*                                                                         *)
(* Tally is about the threads of the connections: each is spawned once,    *)
(* so that g_active_workers counts them.  Urbs is about what the reapers   *)
(* wait for: in_flight_urbs_count counts what was submitted and not yet    *)
(* reaped, what was lost with its descriptor included.                     *)
(***************************************************************************)
EXTENDS ServerLifecycle, TLAPS, FiniteSetTheorems

\* What the proof needs of the types; TypeOK bounds the counter as well.
SocketTypes ==
  /\ g_server_socket \in Servers \cup {None}
  /\ g_server_thread \in Servers \cup {None}
  /\ starts \in 0..MaxStarts
  /\ fdOf \in [Servers -> Fds]
  /\ DOMAIN fds = Fds
  /\ closes \in [Servers -> Nat]
  /\ DOMAIN spc = Servers
  /\ DOMAIN cpc = Callers

\* A start that has taken the mutex keeps it until it has bound or failed.
StartHolds == \A k \in Callers :
  /\ cpc[k] \in {"start_join", "bind"} => g_socket_mutex = k /\ g_server_socket = None
  /\ cpc[k] = "bind" => g_server_thread = None

\* A thread that is not joined is the one g_server_thread stands for.
OneServer == \A i \in Servers :
  /\ spc[i] \notin {"none", "done"} => g_server_thread = i
  /\ spc[i] = "none" <=> i > starts
  /\ spc[i] = "exit" => g_server_socket = None
  /\ g_server_socket = i => spc[i] \notin {"none", "done"}

\* A number refers to the current listening socket or to none.
OneSocket == \A n \in Fds : fds[n] = None \/ (fds[n] = g_server_socket /\ fdOf[fds[n]] = n)

\* Every other socket was closed, once.
ClosedOnce == \A i \in Servers :
  closes[i] = IF spc[i] = "none" \/ g_server_socket = i THEN 0 ELSE 1

Sockets == SocketTypes /\ StartHolds /\ OneServer /\ OneSocket /\ ClosedOnce

LEMMA NoneIsNoServer == None \notin Servers /\ Servers \subseteq Nat
BY BoundAssumption DEF None, Servers

LEMMA InitSockets == Fds # {} => (Init => Sockets)
<1> SUFFICES ASSUME Fds # {}, Init PROVE Sockets
  OBVIOUS
<1>1. SocketTypes
  BY BoundAssumption DEF Init, SocketTypes
<1>2. StartHolds
  BY DEF Init, StartHolds
<1>3. OneServer
  BY NoneIsNoServer, BoundAssumption DEF Init, OneServer, Servers
<1>4. OneSocket /\ ClosedOnce
  BY DEF Init, OneSocket, ClosedOnce
<1> QED  BY <1>1, <1>2, <1>3, <1>4 DEF Sockets

\* "if (g_server_socket >= 0) close": afterwards no number refers to a socket.
LEMMA CloseServer ==
  ASSUME Sockets, CloseServerSocket, UNCHANGED <<g_server_thread, spc, starts, fdOf>>
  PROVE  /\ g_server_socket' = None
         /\ DOMAIN fds' = Fds /\ closes' \in [Servers -> Nat]
         /\ OneServer' /\ OneSocket' /\ ClosedOnce'
<1> USE NoneIsNoServer DEF Sockets, SocketTypes
<1>1. CASE g_server_socket = None
  <2>1. g_server_socket' = None /\ UNCHANGED <<fds, closes>>
    BY <1>1 DEF CloseServerSocket
  <2> QED  BY <1>1, <2>1 DEF OneServer, OneSocket, ClosedOnce
<1>2. CASE g_server_socket # None
  <2>1. /\ g_server_socket' = None
        /\ fds' = [fds EXCEPT ![fdOf[g_server_socket]] = None]
        /\ closes' = [closes EXCEPT ![g_server_socket] = @ + 1]
    BY <1>2 DEF CloseServerSocket, CloseSocket
  <2>2. OneServer'
    BY <2>1 DEF OneServer
  <2>3. OneSocket'
    BY <1>2, <2>1 DEF OneSocket
  <2>4. closes[g_server_socket] = 0 /\ spc[g_server_socket] # "none"
    BY <1>2 DEF ClosedOnce, OneServer
  <2>5. ClosedOnce'
    <3>1. closes'[g_server_socket] = 1
      BY <1>2, <2>1, <2>4
    <3>2. \A i \in Servers : i # g_server_socket => closes'[i] = closes[i]
      BY <2>1
    <3> SUFFICES ASSUME NEW i \in Servers
                 PROVE  closes'[i] = IF spc[i] = "none" \/ g_server_socket' = i THEN 0 ELSE 1
      BY DEF ClosedOnce
    <3>3. CASE i = g_server_socket
      BY <2>1, <2>4, <3>1, <3>3
    <3>4. CASE i # g_server_socket
      BY <2>1, <3>2, <3>4 DEF ClosedOnce
    <3> QED  BY <3>3, <3>4
  <2>6. DOMAIN fds' = Fds
    BY <2>1
  <2>7. closes' \in [Servers -> Nat]
    BY <2>1, <2>4, <1>2
  <2> QED  BY <2>1, <2>2, <2>3, <2>5, <2>6, <2>7
<1> QED  BY <1>1, <1>2

\* The steps that touch neither the sockets nor the server threads.
LEMMA CallerSockets ==
  ASSUME Sockets, NEW k \in Callers, NEW to, to \notin {"start_join", "bind"},
         cpc' = [cpc EXCEPT ![k] = to],
         \/ UNCHANGED g_socket_mutex
         \/ g_socket_mutex = k,
         UNCHANGED <<socketVars, spc>>
  PROVE  Sockets'
<1> USE DEF Sockets, socketVars
<1>1. SocketTypes'
  BY DEF SocketTypes
<1>2. \A other \in Callers : other # k => cpc'[other] = cpc[other]
  BY DEF SocketTypes
<1>3. cpc'[k] = to
  BY DEF SocketTypes
<1>4. StartHolds'
  BY <1>2, <1>3 DEF StartHolds
<1> QED
  BY <1>1, <1>4 DEF OneServer, OneSocket, ClosedOnce

LEMMA CallSockets ==
  ASSUME Sockets, NEW k \in Callers, OnStartCommand(k) \/ Restart(k) \/ OnDestroy(k) \/ Call(k)
  PROVE  Sockets'
<1> USE NoneIsNoServer
<1>1. CASE \/ OnStartCommand(k) \/ Restart(k) \/ OnDestroy(k) \/ Started(k) \/ Register(k)
           \/ Stopped(k) \/ NewServiceObj(k) \/ StopSnapshot(k) \/ StopShutdown(k) \/ StopWait(k)
           \/ StopDelete(k)
  <2>1. \E to : to \notin {"start_join", "bind"} /\ cpc' = [cpc EXCEPT ![k] = to]
    BY <1>1 DEF OnStartCommand, Restart, OnDestroy, Started, Register, Stopped, NewServiceObj,
        StopSnapshot, StopShutdown, StopWait, StopDelete, Begin, Return, CallGoes
  <2>2. UNCHANGED <<g_socket_mutex, socketVars, spc>>
    BY <1>1 DEF OnStartCommand, Restart, OnDestroy, Started, Register, Stopped, NewServiceObj,
        StopSnapshot, StopShutdown, StopWait, StopDelete, serverVars, socketVars
  <2> QED  BY <2>1, <2>2, CallerSockets
<1>2. CASE BindFails(k)
  <2>1. g_socket_mutex = k /\ cpc' = [cpc EXCEPT ![k] = "failed"] /\ UNCHANGED <<socketVars, spc>>
    BY <1>2 DEF BindFails, CallGoes, Sockets, StartHolds, serverVars
  <2> QED  BY <2>1, CallerSockets
<1>3. CASE StartLock(k)
  <2>1. /\ g_server_socket' = None /\ DOMAIN fds' = Fds /\ closes' \in [Servers -> Nat]
        /\ OneServer' /\ OneSocket' /\ ClosedOnce'
    BY <1>3, CloseServer DEF StartLock
  <2>2. /\ cpc' = [cpc EXCEPT ![k] = "start_join"] /\ g_socket_mutex = "free"
        /\ g_socket_mutex' = k
        /\ UNCHANGED <<g_server_thread, starts, fdOf, spc>>
    BY <1>3 DEF StartLock, CallGoes
  <2>3. SocketTypes'
    BY <2>1, <2>2 DEF Sockets, SocketTypes
  <2>4. "free" \notin Callers
    BY DEF Callers
  <2>5. \A other \in Callers : cpc[other] \notin {"start_join", "bind"}
    BY <2>2, <2>4 DEF Sockets, StartHolds
  <2>6. StartHolds'
    BY <2>1, <2>2, <2>5 DEF Sockets, SocketTypes, StartHolds
  <2> QED  BY <2>1, <2>3, <2>6 DEF Sockets
<1>4. CASE StopClose(k)
  <2>1. /\ g_server_socket' = None /\ DOMAIN fds' = Fds /\ closes' \in [Servers -> Nat]
        /\ OneServer' /\ OneSocket' /\ ClosedOnce'
    BY <1>4, CloseServer DEF StopClose
  <2>2. /\ cpc' = [cpc EXCEPT ![k] = "stop_snapshot"]
        /\ UNCHANGED <<g_server_thread, starts, fdOf, spc, g_socket_mutex>>
    BY <1>4 DEF StopClose, CallGoes
  <2>3. SocketTypes'
    BY <2>1, <2>2 DEF Sockets, SocketTypes
  <2>4. StartHolds'
    BY <2>1, <2>2 DEF Sockets, SocketTypes, StartHolds
  <2> QED  BY <2>1, <2>3, <2>4 DEF Sockets
<1>5. CASE StartJoin(k) \/ StopJoin(k)
  <2>1. UNCHANGED <<g_server_socket, g_socket_mutex, spc, starts, fdOf, fds, closes>>
    BY <1>5 DEF StartJoin, StopJoin
  <2>2. PICK to \in {"bind", "stop_wait", "aborted"} :
          /\ cpc' = [cpc EXCEPT ![k] = to]
          /\ to = "bind" => cpc[k] = "start_join" /\ g_server_thread' = None
    BY <1>5 DEF StartJoin, StopJoin, Join, CallGoes
  <2>3. \/ UNCHANGED g_server_thread
        \/ /\ g_server_thread' = None
           /\ g_server_thread # None => spc[g_server_thread] = "done"
    BY <1>5 DEF StartJoin, StopJoin, Join
  <2>4. SocketTypes'
    BY <2>1, <2>2, <2>3 DEF Sockets, SocketTypes
  <2>5. StartHolds'
    BY <2>1, <2>2, <2>3 DEF Sockets, SocketTypes, StartHolds
  <2>6. OneServer'
    BY <2>1, <2>3 DEF Sockets, SocketTypes, OneServer
  <2>7. OneSocket' /\ ClosedOnce'
    BY <2>1 DEF Sockets, OneSocket, ClosedOnce
  <2> QED  BY <2>4, <2>5, <2>6, <2>7 DEF Sockets
<1>6. CASE Bind(k)
  <2> DEFINE i == starts + 1
  <2>1. PICK n \in Fds : /\ fds[n] = None
                         /\ fds' = [fds EXCEPT ![n] = i]
                         /\ fdOf' = [fdOf EXCEPT ![i] = n]
    BY <1>6 DEF Bind
  <2>2. /\ starts < MaxStarts /\ starts' = i
        /\ g_server_socket' = i /\ g_server_thread' = i
        /\ spc' = [spc EXCEPT ![i] = "accept"]
        /\ cpc[k] = "bind" /\ cpc' = [cpc EXCEPT ![k] = "started"]
        /\ UNCHANGED closes
    BY <1>6 DEF Bind, CallGoes
  <2>3. i \in Servers
    BY <2>2, BoundAssumption DEF Sockets, SocketTypes, Servers
  <2>4. g_socket_mutex = k /\ g_server_socket = None /\ g_server_thread = None
    BY <2>2 DEF Sockets, StartHolds
  <2>5. \A j \in Servers : spc[j] \in {"none", "done"}
    BY <2>4 DEF Sockets, OneServer
  <2>6. spc[i] = "none"
    BY <2>3, BoundAssumption DEF Sockets, SocketTypes, OneServer, Servers
  <2>7. SocketTypes'
    BY <2>1, <2>2, <2>3, BoundAssumption DEF Sockets, SocketTypes, Servers
  <2>8. StartHolds'
    BY <2>2, <2>4 DEF Sockets, SocketTypes, StartHolds
  <2>9. OneServer'
    <3>1. \A j \in Servers : j # i => spc'[j] = spc[j]
      BY <2>2 DEF Sockets, SocketTypes
    <3>2. spc'[i] = "accept"
      BY <2>2, <2>3 DEF Sockets, SocketTypes
    <3>3. \A j \in Servers : spc'[j] = "none" <=> j > starts'
      BY <2>2, <2>3, <3>1, <3>2, BoundAssumption DEF Sockets, SocketTypes, OneServer, Servers
    <3> QED
      BY <2>2, <2>5, <3>1, <3>2, <3>3 DEF OneServer
  <2>10. OneSocket'
    <3>1. \A m \in Fds : fds[m] = None
      BY <2>4 DEF Sockets, OneSocket
    <3>2. \A m \in Fds : fds'[m] = IF m = n THEN i ELSE None
      BY <2>1, <3>1 DEF Sockets, SocketTypes
    <3>3. fdOf'[i] = n
      BY <2>1, <2>3 DEF Sockets, SocketTypes
    <3> QED  BY <2>2, <3>2, <3>3 DEF OneSocket
  <2>11. ClosedOnce'
    <3>1. \A j \in Servers : j # i => (spc'[j] = "none" <=> spc[j] = "none") /\ g_server_socket' # j
      BY <2>2 DEF Sockets, SocketTypes
    <3>2. closes[i] = 0
      BY <2>3, <2>6 DEF Sockets, ClosedOnce
    <3> QED  BY <2>2, <2>4, <3>1, <3>2 DEF Sockets, ClosedOnce
  <2> QED  BY <2>7, <2>8, <2>9, <2>10, <2>11 DEF Sockets
<1> QED
  BY <1>1, <1>2, <1>3, <1>4, <1>5, <1>6 DEF Call

LEMMA ServeSockets ==
  ASSUME Sockets, NEW i \in Servers, Serve(i) \/ \E c \in Clients : Accept(i, c)
  PROVE  Sockets'
<1> USE NoneIsNoServer
<1>1. PICK to \in {"accept", "accepted", "spawn", "retest", "exit", "done"} :
        /\ spc' = [spc EXCEPT ![i] = to]
        /\ spc[i] # "none" /\ spc[i] # "done"
        /\ to = "exit" => g_server_socket = None
        /\ to = "done" <=> spc[i] = "exit"
  BY DEF Serve, Accept, RejectInterface, ListClient, SpawnWorker, AcceptFails, Retest, ExitServer,
      ServerGoes
<1>2. UNCHANGED <<cpc, g_socket_mutex, g_server_thread, starts, fdOf>>
  BY DEF Serve, Accept, RejectInterface, ListClient, SpawnWorker, AcceptFails, Retest, ExitServer,
      callVars, socketVars
<1>3. UNCHANGED <<g_server_socket, fds, closes>>
  <2>1. CASE ExitServer(i)
    <3>1. g_server_socket = None
      BY <2>1 DEF ExitServer, ServerGoes, Sockets, OneServer
    <3> QED  BY <2>1, <3>1 DEF ExitServer
  <2>2. CASE ~ExitServer(i)
    BY <2>2 DEF Serve, Accept, RejectInterface, ListClient, SpawnWorker, AcceptFails, Retest,
        callVars, socketVars
  <2> QED  BY <2>1, <2>2
<1>4. SocketTypes' /\ StartHolds'
  BY <1>1, <1>2, <1>3 DEF Sockets, SocketTypes, StartHolds
<1>5. \A j \in Servers : spc'[j] = IF j = i THEN to ELSE spc[j]
  BY <1>1 DEF Sockets, SocketTypes
<1>6. OneServer'
  <2>1. to = "done" => g_server_socket # i
    BY <1>1 DEF Sockets, OneServer
  <2> QED  BY <1>1, <1>2, <1>3, <1>5, <2>1 DEF Sockets, OneServer
<1>7. OneSocket' /\ ClosedOnce'
  BY <1>1, <1>2, <1>3, <1>5 DEF Sockets, OneSocket, ClosedOnce
<1> QED  BY <1>4, <1>6, <1>7 DEF Sockets

LEMMA OtherSockets ==
  ASSUME Sockets,
         \/ \E t \in Threads : Work(t)
         \/ \E c \in Clients : Connection(c)
         \/ UNCHANGED vars
  PROVE  Sockets'
<1>1. UNCHANGED mainVars
  BY DEF Work, Count, Notify, NotifyRead, NotifyCall, Reap, LeaveLoop, Uncount, Connection,
      Import, SubmitUrb, LeaveClient, ClientWork, Greet, CloseClient, ClientCloses, ClientStep,
      TxFails, DeviceEvent, DeviceStep, CompleteUrb, Unplug, CloseDevice, ReopenDevice, vars
<1> QED
  BY <1>1 DEF mainVars, callVars, serverVars, socketVars, Sockets, SocketTypes, StartHolds,
      OneServer, OneSocket, ClosedOnce

LEMMA NextSockets == Sockets /\ [Next]_vars => Sockets'
BY CallSockets, ServeSockets, OtherSockets DEF Next

\* At most one server is up, and every socket it opened is accounted for.
THEOREM SocketsInvariance == Fds # {} => (Spec => []Sockets)
<1> SUFFICES ASSUME Fds # {} PROVE Spec => []Sockets
  OBVIOUS
<1>1. Init => Sockets
  BY InitSockets
<1> QED
  BY <1>1, NextSockets, PTL DEF Spec

\* Whatever entry points overlap, and however often descriptor numbers are reused,
\* a listening socket is closed once and never left open behind its thread.
THEOREM ClosedExactlyOnce == Fds # {} => (Spec => []SocketClosedOnce)
<1> SUFFICES ASSUME Fds # {} PROVE Spec => []SocketClosedOnce
  OBVIOUS
<1>1. Sockets => SocketClosedOnce
  BY NoneIsNoServer DEF Sockets, OneServer, ClosedOnce, SocketClosedOnce
<1> QED
  BY <1>1, SocketsInvariance, PTL

\* No run_server thread survives into the life of a later listening socket that has
\* been given its descriptor number.
THEOREM AcceptorsFresh == Fds # {} => (Spec => []NoStaleAcceptor)
<1> SUFFICES ASSUME Fds # {} PROVE Spec => []NoStaleAcceptor
  OBVIOUS
<1>1. Sockets => NoStaleAcceptor
  <2> SUFFICES ASSUME Sockets, NEW i \in Servers, spc[i] \notin {"none", "done"},
                      fds[fdOf[i]] # None
               PROVE  fds[fdOf[i]] = i
    BY DEF NoStaleAcceptor
  <2>1. fds[fdOf[i]] = g_server_socket /\ g_server_socket \in Servers
    BY DEF Sockets, SocketTypes, OneSocket
  <2>2. g_server_thread = i /\ g_server_thread = g_server_socket
    BY <2>1 DEF Sockets, OneServer
  <2> QED  BY <2>1, <2>2
<1> QED
  BY <1>1, SocketsInvariance, PTL

-----------------------------------------------------------------------------
(* The threads of the connections *)

Unspawned(c, kinds) == \A kind \in kinds : wpc[<<c, kind>>] = "none"
Arriving == {"none", "spawned", "acquire", "acquiring", "run"}

\* A thread is spawned at most once, from nothing: a connection is accepted by one
\* server, its worker starts its TX thread, and then its reaper.
SpawnedOnce ==
  /\ DOMAIN wpc = Threads
  /\ DOMAIN accepted = Servers
  /\ DOMAIN sock = Clients
  /\ \A i \in Servers : accepted[i] \subseteq Clients
  /\ \A c \in Clients : sock[c] = "none" =>
       Unspawned(c, Kinds) /\ \A i \in Servers : c \notin accepted[i]
  /\ \A c \in Clients, i \in Servers : c \in accepted[i] =>
       Unspawned(c, Kinds) /\ \A j \in Servers : c \in accepted[j] => i = j
  /\ \A c \in Clients :
       /\ wpc[<<c, "client">>] \in Arriving => Unspawned(c, {"tx", "reaper"})
       /\ wpc[<<c, "client">>] = "handshake" => Unspawned(c, {"reaper"})

CountedThreads == {t \in Threads : Counted(t)}
Exact == IsFiniteSet(CountedThreads) /\ g_active_workers = Cardinality(CountedThreads)

Tally == SpawnedOnce /\ Exact

LEMMA InitTally == Init => Tally
<1> SUFFICES ASSUME Init PROVE Tally
  OBVIOUS
<1>1. SpawnedOnce
  BY DEF Init, SpawnedOnce, Unspawned, Threads, Kinds
<1>2. CountedThreads = {}
  BY DEF Init, CountedThreads, Counted
<1> QED
  BY <1>1, <1>2, FS_EmptySet DEF Init, Tally, Exact

LEMMA SameExact ==
  ASSUME Exact, \A t \in Threads : Counted(t)' <=> Counted(t), UNCHANGED g_active_workers
  PROVE  Exact'
<1>1. CountedThreads' = CountedThreads
  BY DEF CountedThreads
<1> QED  BY <1>1 DEF Exact

\* The steps of Kotlin threads and the departure of a client.
LEMMA TallyStutters ==
  ASSUME Tally, UNCHANGED <<wpc, accepted, sock, g_active_workers>>
  PROVE  Tally'
<1>1. Exact'
  BY SameExact DEF Tally, Counted
<1> QED
  BY <1>1 DEF Tally, SpawnedOnce, Unspawned

LEMMA ServeTally ==
  ASSUME Tally, NEW i \in Servers, Serve(i) \/ \E c \in Clients : Accept(i, c)
  PROVE  Tally'
<1> USE DEF Tally
<1>1. CASE \E c \in Clients : Accept(i, c)
  <2>1. PICK c \in Clients : Accept(i, c)
    BY <1>1
  <2>2. /\ sock[c] = "none" /\ sock' = [sock EXCEPT ![c] = "open"]
        /\ accepted' = [accepted EXCEPT ![i] = {c}]
        /\ UNCHANGED <<wpc, g_active_workers>>
    BY <2>1 DEF Accept, workVars
  <2>3. \A j \in Servers : accepted'[j] = IF j = i THEN {c} ELSE accepted[j]
    BY <2>2 DEF SpawnedOnce
  <2>4. \A d \in Clients : sock'[d] = "none" => d # c /\ sock[d] = "none"
    BY <2>2 DEF SpawnedOnce
  <2>5. SpawnedOnce'
    BY <2>2, <2>3, <2>4 DEF SpawnedOnce, Unspawned
  <2> QED  BY <2>2, <2>5, SameExact DEF Counted
<1>2. CASE RejectInterface(i)
  <2>1. /\ sock' = [c \in Clients |-> IF c \in accepted[i] THEN "closed" ELSE sock[c]]
        /\ accepted' = [accepted EXCEPT ![i] = {}]
        /\ UNCHANGED <<wpc, g_active_workers>>
    BY <1>2 DEF RejectInterface, workVars
  <2>2. SpawnedOnce'
    BY <2>1 DEF SpawnedOnce, Unspawned
  <2> QED  BY <2>1, <2>2, SameExact DEF Counted
<1>3. CASE SpawnWorker(i)
  <2>1. /\ wpc' = [t \in Threads |->
                     IF t \in accepted[i] \X {"client"} THEN "spawned" ELSE wpc[t]]
        /\ accepted' = [accepted EXCEPT ![i] = {}]
        /\ UNCHANGED <<sock, g_active_workers>>
    BY <1>3 DEF SpawnWorker, clientVars
  <2>2. \A c \in Clients, kind \in Kinds :
          wpc'[<<c, kind>>] = IF c \in accepted[i] /\ kind = "client" THEN "spawned"
                                                                    ELSE wpc[<<c, kind>>]
    BY <2>1 DEF Threads
  <2>3. \A c \in Clients : c \in accepted[i] => Unspawned(c, Kinds) /\ sock[c] # "none"
    BY DEF SpawnedOnce
  <2>4. \A j \in Servers : accepted'[j] = IF j = i THEN {} ELSE accepted[j]
    BY <2>1 DEF SpawnedOnce
  <2>5. SpawnedOnce'
    BY <2>1, <2>2, <2>3, <2>4 DEF SpawnedOnce, Unspawned, Kinds, Arriving
  <2>6. \A t \in Threads : Counted(t)' <=> Counted(t)
    BY <2>2, <2>3 DEF Counted, Unspawned, Threads
  <2> QED  BY <2>1, <2>5, <2>6, SameExact
<1>4. CASE ListClient(i) \/ AcceptFails(i) \/ Retest(i) \/ ExitServer(i)
  <2>1. UNCHANGED <<wpc, accepted, sock, g_active_workers>>
    BY <1>4 DEF ListClient, AcceptFails, Retest, ExitServer, connVars, clientVars, workVars
  <2> QED  BY <2>1, TallyStutters
<1> QED  BY <1>1, <1>2, <1>3, <1>4 DEF Serve

\* A thread of a connection goes from one control point to the next.
LEMMA WorkSpawned ==
  ASSUME SpawnedOnce, NEW t \in Threads, NEW to,
         wpc' = [wpc EXCEPT ![t] = to], wpc[t] # "none",
         to \in Arriving \/ wpc[t] = "handshake" => wpc[t] \in Arriving,
         to # "handshake",
         UNCHANGED <<accepted, sock>>
  PROVE  SpawnedOnce'
<1>1. \A u \in Threads : wpc'[u] = IF u = t THEN to ELSE wpc[u]
  BY DEF SpawnedOnce
<1>2. PICK c \in Clients, kind \in Kinds : t = <<c, kind>>
  BY DEF Threads
<1>3. \A d \in Clients, k \in Kinds : wpc'[<<d, k>>] # wpc[<<d, k>>] => d = c /\ k = kind
  BY <1>1, <1>2 DEF Threads
<1>4. \A d \in Clients, kinds \in SUBSET Kinds :
        Unspawned(d, kinds) /\ ~(d = c /\ kind \in kinds) => Unspawned(d, kinds)'
  BY <1>3 DEF Unspawned
<1>5. ~Unspawned(c, Kinds)
  BY <1>2 DEF Unspawned
<1>6. \A d \in Clients : wpc'[<<d, "client">>] \in Arriving => Unspawned(d, {"tx", "reaper"})'
  <2> SUFFICES ASSUME NEW d \in Clients, wpc'[<<d, "client">>] \in Arriving
               PROVE  Unspawned(d, {"tx", "reaper"})'
    OBVIOUS
  <2>1. wpc[<<d, "client">>] \in Arriving
    BY <1>1 DEF Threads, Kinds
  <2>2. Unspawned(d, {"tx", "reaper"})
    BY <2>1 DEF SpawnedOnce
  <2>3. ~(d = c /\ kind \in {"tx", "reaper"})
    BY <1>2, <2>2 DEF Unspawned
  <2> QED  BY <2>2, <2>3, <1>4 DEF Kinds
<1>7. \A d \in Clients : wpc'[<<d, "client">>] = "handshake" => Unspawned(d, {"reaper"})'
  <2> SUFFICES ASSUME NEW d \in Clients, wpc'[<<d, "client">>] = "handshake"
               PROVE  Unspawned(d, {"reaper"})'
    OBVIOUS
  <2>1. wpc[<<d, "client">>] = "handshake"
    BY <1>1 DEF Threads, Kinds
  <2>2. Unspawned(d, {"reaper"})
    BY <2>1 DEF SpawnedOnce
  <2>3. ~(d = c /\ kind \in {"reaper"})
    BY <1>2, <2>2 DEF Unspawned
  <2> QED  BY <2>2, <2>3, <1>4 DEF Kinds
<1>8. \A d \in Clients : Unspawned(d, Kinds) => Unspawned(d, Kinds)'
  BY <1>4, <1>5
<1> QED
  BY <1>6, <1>7, <1>8 DEF SpawnedOnce

LEMMA WorkTally ==
  ASSUME Tally, NEW t \in Threads, Work(t)
  PROVE  Tally'
<1> USE DEF Tally, WorkGoes
<1>1. UNCHANGED <<accepted, sock>>
  BY DEF Work, Count, Notify, NotifyRead, NotifyCall, Reap, LeaveLoop, Uncount, mainVars,
      serverVars, clientVars
<1>2. CASE Count(t)
  <2>1. /\ wpc[t] = "spawned" /\ wpc' = [wpc EXCEPT ![t] = "acquire"]
        /\ g_active_workers' = g_active_workers + 1
    BY <1>2 DEF Count
  <2>2. SpawnedOnce'
    BY <1>1, <2>1, WorkSpawned DEF Arriving
  <2>3. t \notin CountedThreads /\ CountedThreads' = CountedThreads \cup {t}
    BY <2>1 DEF CountedThreads, Counted, SpawnedOnce
  <2>4. Exact'
    BY <2>1, <2>3, FS_AddElement DEF Exact
  <2> QED  BY <2>2, <2>4
<1>3. CASE Uncount(t)
  <2>1. /\ wpc[t] = "uncount" /\ wpc' = [wpc EXCEPT ![t] = "done"]
        /\ g_active_workers' = g_active_workers - 1
    BY <1>3 DEF Uncount
  <2>2. SpawnedOnce'
    BY <1>1, <2>1, WorkSpawned DEF Arriving
  <2>3. t \in CountedThreads /\ CountedThreads' = CountedThreads \ {t}
    BY <2>1 DEF CountedThreads, Counted, SpawnedOnce
  <2>4. Exact'
    BY <2>1, <2>3, FS_RemoveElement DEF Exact
  <2> QED  BY <2>2, <2>4
<1>4. CASE Notify(t) \/ Reap(t) \/ LeaveLoop(t)
  <2>1. PICK to \in {"acquiring", "run", "releasing", "release", "close", "uncount"} :
          /\ wpc' = [wpc EXCEPT ![t] = to]
          /\ wpc[t] \in {"acquire", "acquiring", "run", "release", "releasing"}
          /\ to \in Arriving => wpc[t] \in Arriving
    BY <1>4 DEF Notify, NotifyRead, NotifyCall, AfterNotify, Reap, LeaveLoop, Arriving
  <2>2. SpawnedOnce'
    BY <1>1, <2>1, WorkSpawned
  <2>3. \A u \in Threads : Counted(u)' <=> Counted(u)
    BY <2>1 DEF Counted, SpawnedOnce
  <2>4. UNCHANGED g_active_workers
    BY <1>4 DEF Notify, NotifyRead, NotifyCall, Reap, LeaveLoop
  <2> QED  BY <2>2, <2>3, <2>4, SameExact
<1> QED  BY <1>2, <1>3, <1>4 DEF Work

LEMMA ClientTally ==
  ASSUME Tally, NEW c \in Clients, Connection(c)
  PROVE  Tally'
<1> USE DEF Tally
<1>1. CASE ClientCloses(c) \/ TxFails(c) \/ DeviceEvent(c)
  <2>1. UNCHANGED <<wpc, accepted, sock, g_active_workers>>
    BY <1>1 DEF ClientCloses, TxFails, DeviceEvent, DeviceStep, CompleteUrb, Unplug, CloseDevice,
        ReopenDevice, mainVars, serverVars, clientVars, workVars
  <2> QED  BY <2>1, TallyStutters
<1>2. CASE Import(c) \/ SubmitUrb(c) \/ LeaveClient(c) \/ Greet(c) \/ CloseClient(c)
  <2> DEFINE Goes(from, to, kinds) ==
        /\ wpc[<<c, "client">>] = from
        /\ DOMAIN wpc' = Threads
        /\ wpc'[<<c, "client">>] = to
        /\ \A kind \in {"tx", "reaper"} :
             wpc'[<<c, kind>>] = IF kind \in kinds THEN "spawned" ELSE wpc[<<c, kind>>]
        /\ \A d \in Clients, kind \in Kinds : d # c => wpc'[<<d, kind>>] = wpc[<<d, kind>>]
  <2>1. PICK from \in {"run", "handshake", "serve", "leave", "close"},
             to \in {"handshake", "serve", "leave", "release", "uncount"},
             kinds \in SUBSET {"tx", "reaper"} :
          /\ Goes(from, to, kinds)
          /\ \/ from = "run" /\ to = "handshake" /\ kinds = {"tx"}
             \/ from = "handshake" /\ to = "serve" /\ kinds \subseteq {"reaper"}
             \/ from = "serve" /\ to \in {"serve", "leave"} /\ kinds = {}
             \/ from \in {"handshake", "serve", "leave"} /\ to = "release" /\ kinds = {}
             \/ from = "close" /\ to = "uncount" /\ kinds = {}
    <3> USE DEF ClientStep, Threads, Kinds
    <3>1. CASE Greet(c)
      <4>1. ClientStep(c, "run", "handshake", {<<c, "tx">>})
        BY <3>1 DEF Greet
      <4>2. Goes("run", "handshake", {"tx"})
        BY <4>1
      <4> HIDE DEF Goes
      <4> QED  BY <4>2
    <3>2. CASE Import(c)
      <4>1. CASE ClientStep(c, "handshake", "serve", {})
        <5>1. Goes("handshake", "serve", {})
          BY <4>1
        <5> HIDE DEF Goes
        <5> QED  BY <5>1
      <4>2. CASE ClientStep(c, "handshake", "serve", {<<c, "reaper">>})
        <5>1. Goes("handshake", "serve", {"reaper"})
          BY <4>2
        <5> HIDE DEF Goes
        <5> QED  BY <5>1
      <4> QED  BY <3>2, <4>1, <4>2 DEF Import
    <3>3. CASE LeaveClient(c)
      <4>1. PICK from \in {"handshake", "serve", "leave"} : ClientStep(c, from, "release", {})
        BY <3>3 DEF LeaveClient
      <4>2. Goes(from, "release", {})
        BY <4>1
      <4> HIDE DEF Goes
      <4> QED  BY <4>2
    <3>4. CASE CloseClient(c)
      <4>1. ClientStep(c, "close", "uncount", {})
        BY <3>4 DEF CloseClient
      <4>2. Goes("close", "uncount", {})
        BY <4>1
      <4> HIDE DEF Goes
      <4> QED  BY <4>2
    <3>5. CASE SubmitUrb(c)
      <4>1. PICK to \in {"serve", "leave"} : ClientStep(c, "serve", to, {})
        BY <3>5 DEF SubmitUrb
      <4>2. Goes("serve", to, {})
        BY <4>1
      <4> HIDE DEF Goes
      <4> QED  BY <4>2
    <3> QED  BY <1>2, <3>1, <3>2, <3>3, <3>4, <3>5
  <2>2. Unspawned(c, kinds)
    BY <2>1 DEF SpawnedOnce, Arriving, Unspawned
  <2>3. /\ wpc'[<<c, "client">>] = to
        /\ \A kind \in {"tx", "reaper"} :
             wpc'[<<c, kind>>] = IF kind \in kinds THEN "spawned" ELSE wpc[<<c, kind>>]
        /\ \A d \in Clients, kind \in Kinds : d # c => wpc'[<<d, kind>>] = wpc[<<d, kind>>]
    BY <2>1
  <2>4. UNCHANGED <<accepted, g_active_workers>>
    BY <1>2 DEF Import, SubmitUrb, LeaveClient, Greet, CloseClient, ClientStep, mainVars, serverVars
  <2>5. sock' = sock \/ sock' = [sock EXCEPT ![c] = "closed"]
    BY <1>2 DEF Import, SubmitUrb, LeaveClient, Greet, CloseClient, clientVars
  <2>6. ~Unspawned(c, Kinds)
    BY <2>1 DEF Unspawned, Kinds
  <2>7. /\ DOMAIN sock' = Clients
        /\ \A d \in Clients : sock'[d] = "none" => sock[d] = "none"
    BY <2>5 DEF SpawnedOnce
  <2>8. \A d \in Clients : Unspawned(d, Kinds) => Unspawned(d, Kinds)'
    BY <2>3, <2>6 DEF Unspawned
  <2>9. \A d \in Clients :
          /\ wpc'[<<d, "client">>] \in Arriving => Unspawned(d, {"tx", "reaper"})'
          /\ wpc'[<<d, "client">>] = "handshake" => Unspawned(d, {"reaper"})'
    <3>1. \A d \in Clients : d # c =>
            /\ wpc'[<<d, "client">>] = wpc[<<d, "client">>]
            /\ Unspawned(d, {"tx", "reaper"}) => Unspawned(d, {"tx", "reaper"})'
            /\ Unspawned(d, {"reaper"}) => Unspawned(d, {"reaper"})'
      BY <2>3 DEF Unspawned, Kinds
    <3>2. wpc'[<<c, "client">>] \notin Arriving
      BY <2>1, <2>3 DEF Arriving
    <3>3. wpc'[<<c, "client">>] = "handshake" => Unspawned(c, {"reaper"})'
      BY <2>1, <2>3 DEF SpawnedOnce, Unspawned, Arriving
    <3> QED  BY <3>1, <3>2, <3>3 DEF SpawnedOnce
  <2>10. SpawnedOnce'
    BY <2>1, <2>4, <2>7, <2>8, <2>9 DEF SpawnedOnce
  <2>11. \A t \in Threads : Counted(t)' <=> Counted(t)
    <3> SUFFICES ASSUME NEW d \in Clients, NEW kind \in Kinds
                 PROVE  Counted(<<d, kind>>)' <=> Counted(<<d, kind>>)
      BY DEF Threads
    <3>1. CASE d # c
      BY <2>3, <3>1 DEF Counted
    <3>2. CASE d = c /\ kind = "client"
      BY <2>1, <2>3, <3>2 DEF Counted
    <3>3. CASE d = c /\ kind \in {"tx", "reaper"}
      BY <2>2, <2>3, <3>3 DEF Counted, Unspawned
    <3> QED  BY <3>1, <3>2, <3>3 DEF Kinds
  <2> QED  BY <2>4, <2>10, <2>11, SameExact
<1> QED  BY <1>1, <1>2 DEF Connection, ClientWork

LEMMA CallTally ==
  ASSUME Tally, \/ \E k \in Callers : OnStartCommand(k) \/ Restart(k) \/ OnDestroy(k) \/ Call(k)
                \/ UNCHANGED vars
  PROVE  Tally'
<1>1. UNCHANGED <<wpc, accepted, sock, g_active_workers>>
  BY DEF OnStartCommand, Restart, OnDestroy, Call, Started, Register, Stopped, NewServiceObj,
      StartLock, StartJoin, Bind, BindFails, StopClose, StopSnapshot, StopShutdown, StopJoin,
      StopWait, StopDelete, vars, mainVars, connVars, serverVars, clientVars, workVars
<1> QED  BY <1>1, TallyStutters

LEMMA NextTally == Tally /\ [Next]_vars => Tally'
BY ServeTally, WorkTally, ClientTally, CallTally DEF Next

\* A stop gets past its wait only when every worker that counted itself has counted
\* itself out, for any number of clients and whatever ends their connections.
THEOREM StopWaitsForWorkers == Spec => StopAwaitsWorkers
<1>1. Tally /\ [Next]_vars =>
        [\A k \in Callers : cpc[k] = "stop_wait" /\ cpc'[k] = "stop_delete"
                               => \A t \in Threads : ~Counted(t)]_vars
  <2> SUFFICES ASSUME Tally, Next, NEW k \in Callers, cpc[k] = "stop_wait",
                      cpc'[k] = "stop_delete"
               PROVE  \A t \in Threads : ~Counted(t)
    OBVIOUS
  <2>1. StopWait(k)
    <3>1. PICK x \in Callers : OnStartCommand(x) \/ Restart(x) \/ OnDestroy(x) \/ Call(x)
      BY DEF Next, Serve, Accept, RejectInterface, ListClient, SpawnWorker, AcceptFails, Retest,
          ExitServer, Work, Count, Notify, NotifyRead, NotifyCall, Reap, LeaveLoop, Uncount,
          Connection, Import, SubmitUrb, LeaveClient, ClientWork, Greet, CloseClient, ClientCloses,
          ClientStep, TxFails, DeviceEvent, DeviceStep, CompleteUrb, Unplug, CloseDevice,
          ReopenDevice, mainVars, callVars
    <3>2. \E to : cpc' = [cpc EXCEPT ![x] = to]
      BY <3>1 DEF OnStartCommand, Restart, OnDestroy, Call, Begin, Return, CallGoes, Started, Register,
          Stopped, NewServiceObj, StartLock, StartJoin, Bind, BindFails, StopClose, StopSnapshot,
          StopShutdown, StopJoin, Join, StopWait, StopDelete
    <3>3. x = k
      BY <3>2
    <3> QED
      BY <3>1, <3>3 DEF OnStartCommand, Restart, OnDestroy, Call, Begin, Return, CallGoes, Started,
          Register, Stopped, NewServiceObj, StartLock, StartJoin, Bind, BindFails, StopClose,
          StopSnapshot, StopShutdown, StopJoin, Join, StopDelete
  <2>3. g_active_workers <= 0
    BY <2>1 DEF StopWait
  <2>2. CountedThreads = {}
    BY <2>3, FS_EmptySet, FS_CardinalityType DEF Tally, Exact
  <2> QED  BY <2>2 DEF CountedThreads
<1>2. Spec => []Tally
  BY InitTally, NextTally, PTL DEF Spec
<1> QED
  BY <1>1, <1>2, PTL DEF Spec, StopAwaitsWorkers

-----------------------------------------------------------------------------
(* Types *)

CallTypes ==
  /\ isNativeServerStarted \in BOOLEAN
  /\ advertised \in BOOLEAN
  /\ cpc \in [Callers -> {"idle", "start", "start_lock", "start_join", "bind", "started",
                           "failed", "register", "stop", "stop_snapshot", "stop_shutdown",
                           "stop_join", "stop_wait", "stop_delete", "stopped", "aborted"}]
  /\ job \in [Callers -> Jobs \cup {"none"}]
  /\ snapshot \in [Callers -> SUBSET Clients]
  /\ g_socket_mutex \in Callers \cup {"free"}
  /\ g_service_obj \in BOOLEAN

ServerTypes ==
  /\ spc \in [Servers -> {"none", "accept", "accepted", "spawn", "retest", "exit", "done"}]
  /\ accepted \in [Servers -> SUBSET Clients]
  /\ fds \in [Fds -> Servers \cup {None}]

ClientTypes ==
  /\ g_client_sockets \subseteq Clients
  /\ sock \in [Clients -> {"none", "open", "closed"}]
  /\ shut \in [Clients -> BOOLEAN]
  /\ gone \in [Clients -> BOOLEAN]
  /\ is_connected \in [Clients -> BOOLEAN]
  /\ missed \subseteq Clients

WorkTypes ==
  /\ wpc \in [Threads -> {"none", "spawned", "acquire", "acquiring", "run", "handshake",
                           "serve", "leave", "release", "releasing", "close", "uncount",
                           "done"}]
  /\ held \in [Threads -> {"none", "live", "deleted"}]

Types == CallTypes /\ ServerTypes /\ ClientTypes /\ WorkTypes

LEMMA InitTypes == Init => Types
<1> SUFFICES ASSUME Init PROVE Types
  OBVIOUS
<1>1. CallTypes
  BY DEF Init, CallTypes
<1>2. ServerTypes
  BY DEF Init, ServerTypes
<1>3. ClientTypes
  BY DEF Init, ClientTypes
<1>4. WorkTypes
  BY DEF Init, WorkTypes
<1> QED  BY <1>1, <1>2, <1>3, <1>4 DEF Types

LEMMA CallTypesKept ==
  ASSUME Sockets, Types, NEW k \in Callers, OnStartCommand(k) \/ Restart(k) \/ OnDestroy(k) \/ Call(k)
  PROVE  Types'
<1> USE DEF Types
<1>1. PICK to \in {"idle", "start", "start_lock", "start_join", "bind", "started",
                   "failed", "register", "stop", "stop_snapshot", "stop_shutdown",
                   "stop_join", "stop_wait", "stop_delete", "stopped", "aborted"} :
        cpc' = [cpc EXCEPT ![k] = to]
  BY DEF OnStartCommand, Restart, OnDestroy, Call, Begin, Return, CallGoes, Started, Register, Stopped,
      NewServiceObj, StartLock, StartJoin, Bind, BindFails, StopClose, StopSnapshot,
      StopShutdown, StopJoin, Join, StopWait, StopDelete
<1>2. /\ isNativeServerStarted' \in BOOLEAN /\ advertised' \in BOOLEAN
      /\ g_socket_mutex' \in Callers \cup {"free"} /\ g_service_obj' \in BOOLEAN
  BY DEF CallTypes, OnStartCommand, Restart, OnDestroy, Call, Started, Register, Stopped,
      NewServiceObj, StartLock, StartJoin, Bind, BindFails, StopClose, StopSnapshot,
      StopShutdown, StopJoin, StopWait, StopDelete, kotlinVars, connVars
<1>3. job' = job \/ \E j \in Jobs \cup {"none"} : job' = [job EXCEPT ![k] = j]
  BY DEF OnStartCommand, Restart, OnDestroy, Begin, Return, JobsOf, Call, Started, Register, Stopped,
      NewServiceObj, StartLock, StartJoin, Bind, BindFails, StopClose, StopSnapshot,
      StopShutdown, StopJoin, StopWait, StopDelete
<1>4. \/ UNCHANGED snapshot
      \/ \E S \in SUBSET Clients : snapshot' = [snapshot EXCEPT ![k] = S]
  BY DEF ClientTypes, OnStartCommand, Restart, OnDestroy, Call, Started, Register, Stopped,
      NewServiceObj, StartLock, StartJoin, Bind, BindFails, StopClose, StopSnapshot,
      StopShutdown, StopJoin, StopWait, StopDelete
<1>5. CallTypes'
  BY <1>1, <1>2, <1>3, <1>4 DEF CallTypes
<1>6. /\ UNCHANGED <<accepted, g_client_sockets, sock, gone, is_connected, wpc>>
      /\ shut' \in [Clients -> BOOLEAN]
      /\ missed' \subseteq Clients
      /\ held' \in [Threads -> {"none", "live", "deleted"}]
  BY DEF ClientTypes, WorkTypes, OnStartCommand, Restart, OnDestroy, Call, Started, Register,
      Stopped, NewServiceObj, Stale, StartLock, StartJoin, Bind, BindFails, StopClose,
      StopSnapshot, StopShutdown, StopJoin, StopWait, StopDelete, serverVars, connVars,
      clientVars, workVars
<1>7. spc' = spc \/ \E i \in Servers : spc' = [spc EXCEPT ![i] = "accept"]
  <2>1. CASE Bind(k)
    <3>1. starts + 1 \in Servers
      BY <2>1, BoundAssumption DEF Bind, Sockets, SocketTypes, Servers
    <3> QED  BY <2>1, <3>1 DEF Bind
  <2>2. CASE ~Bind(k)
    BY <2>2 DEF OnStartCommand, Restart, OnDestroy, Call, Started, Register, Stopped,
        NewServiceObj, StartLock, StartJoin, BindFails, StopClose, StopSnapshot,
        StopShutdown, StopJoin, StopWait, StopDelete, serverVars
  <2> QED  BY <2>1, <2>2
<1>8. \/ UNCHANGED fds
      \/ \E n \in Fds, v \in Servers \cup {None} : fds' = [fds EXCEPT ![n] = v]
  <2>1. CASE Bind(k)
    <3>1. starts + 1 \in Servers
      BY <2>1, BoundAssumption DEF Bind, Sockets, SocketTypes, Servers
    <3> QED  BY <2>1, <3>1 DEF Bind
  <2>2. CASE StartLock(k) \/ StopClose(k)
    BY <2>2 DEF StartLock, StopClose, CloseServerSocket, CloseSocket, Sockets, SocketTypes
  <2>3. CASE ~Bind(k) /\ ~StartLock(k) /\ ~StopClose(k)
    BY <2>3 DEF OnStartCommand, Restart, OnDestroy, Call, Started, Register, Stopped,
        NewServiceObj, StartJoin, BindFails, StopSnapshot,
        StopShutdown, StopJoin, StopWait, StopDelete, serverVars, socketVars
  <2> QED  BY <2>1, <2>2, <2>3
<1>9. ServerTypes'
  BY <1>6, <1>7, <1>8 DEF ServerTypes
<1> QED
  BY <1>5, <1>6, <1>9 DEF ClientTypes, WorkTypes

LEMMA ServeTypesKept ==
  ASSUME Sockets, Types, NEW i \in Servers, Serve(i) \/ \E c \in Clients : Accept(i, c)
  PROVE  Types'
<1> USE DEF Types
<1>1. UNCHANGED <<kotlinVars, callVars, g_service_obj, shut, gone, missed, is_connected, held>>
  BY DEF Serve, Accept, RejectInterface, ListClient, SpawnWorker, AcceptFails, Retest, ExitServer,
      connVars, clientVars, workVars
<1>2. \E to \in {"accept", "accepted", "spawn", "retest", "exit", "done"} :
        spc' = [spc EXCEPT ![i] = to]
  BY DEF Serve, Accept, RejectInterface, ListClient, SpawnWorker, AcceptFails, Retest, ExitServer,
      ServerGoes
<1>3. accepted' = accepted \/ \E S \in SUBSET Clients : accepted' = [accepted EXCEPT ![i] = S]
  BY DEF Serve, Accept, RejectInterface, ListClient, SpawnWorker, AcceptFails, Retest, ExitServer
<1>4. UNCHANGED fds
  <2>1. CASE ExitServer(i)
    BY <2>1, NoneIsNoServer DEF ExitServer, ServerGoes, Sockets, OneServer
  <2>2. CASE ~ExitServer(i)
    BY <2>2 DEF Serve, Accept, RejectInterface, ListClient, SpawnWorker, AcceptFails, Retest,
        serverVars, socketVars
  <2> QED  BY <2>1, <2>2
<1>5. ServerTypes'
  BY <1>2, <1>3, <1>4 DEF ServerTypes
<1>6. g_client_sockets' \subseteq Clients /\ sock' \in [Clients -> {"none", "open", "closed"}]
  BY DEF ServerTypes, ClientTypes, Serve, Accept, RejectInterface, ListClient, SpawnWorker,
      AcceptFails, Retest, ExitServer, connVars, clientVars
<1>7. WorkTypes'
  <2>1. CASE SpawnWorker(i)
    <3> DEFINE S == accepted[i] \X {"client"}
    <3>1. wpc' = [t \in Threads |-> IF t \in S THEN "spawned" ELSE wpc[t]]
      BY <2>1 DEF SpawnWorker
    <3> HIDE DEF S
    <3> QED  BY <1>1, <3>1 DEF WorkTypes
  <2>2. CASE ~SpawnWorker(i)
    <3>1. UNCHANGED wpc
      BY <2>2 DEF Serve, Accept, RejectInterface, ListClient, AcceptFails, Retest, ExitServer,
          connVars, workVars
    <3> QED  BY <1>1, <3>1 DEF WorkTypes
  <2> QED  BY <2>1, <2>2
<1> QED
  BY <1>1, <1>5, <1>6, <1>7 DEF CallTypes, ClientTypes, kotlinVars, callVars

LEMMA WorkTypesKept ==
  ASSUME Types,
         \/ \E t \in Threads : Work(t)
         \/ \E c \in Clients : Connection(c)
         \/ UNCHANGED vars
  PROVE  Types'
<1> USE DEF Types
<1>1. UNCHANGED <<mainVars, g_service_obj>>
  BY DEF Work, Count, Notify, NotifyRead, NotifyCall, Reap, LeaveLoop, Uncount, Connection,
      Import, SubmitUrb, LeaveClient, ClientWork, Greet, CloseClient, ClientCloses, ClientStep,
      TxFails, DeviceEvent, DeviceStep, CompleteUrb, Unplug, CloseDevice, ReopenDevice, vars,
      connVars
<1>2. CallTypes' /\ ServerTypes'
  BY <1>1 DEF CallTypes, ServerTypes, mainVars, kotlinVars, callVars, serverVars, socketVars
<1>3. ClientTypes'
  <2>1. ASSUME NEW t \in Threads, Work(t)
        PROVE  ClientTypes'
    BY <2>1 DEF ClientTypes, Work, Count, Notify, NotifyRead, NotifyCall, Reap, LeaveLoop,
        Uncount, clientVars
  <2>2. ASSUME NEW c \in Clients, Connection(c)
        PROVE  ClientTypes'
    BY <2>2 DEF ClientTypes, Connection, Import, SubmitUrb, LeaveClient, ClientWork, Greet,
        CloseClient, ClientCloses, ClientStep, TxFails, DeviceEvent, DeviceStep, CompleteUrb,
        Unplug, CloseDevice, ReopenDevice, clientVars, workVars
  <2>3. CASE UNCHANGED vars
    BY <2>3 DEF ClientTypes, vars, connVars, clientVars, workVars
  <2> QED  BY <2>1, <2>2, <2>3
<1>4. WorkTypes'
  <2>1. ASSUME NEW t \in Threads, Work(t)
        PROVE  WorkTypes'
    BY <2>1 DEF WorkTypes, Work, Count, Notify, NotifyRead, NotifyCall, AfterNotify, Reap,
        LeaveLoop, Uncount, WorkGoes
  <2>2. ASSUME NEW c \in Clients, Import(c) \/ SubmitUrb(c) \/ LeaveClient(c) \/ ClientWork(c)
        PROVE  WorkTypes'
    BY <2>2 DEF WorkTypes, Import, SubmitUrb, LeaveClient, ClientWork, Greet, CloseClient,
        ClientStep
  <2>3. CASE \/ \E c \in Clients : ClientCloses(c) \/ TxFails(c) \/ DeviceEvent(c)
             \/ UNCHANGED vars
    BY <2>3 DEF WorkTypes, ClientCloses, TxFails, DeviceEvent, DeviceStep, CompleteUrb, Unplug,
        CloseDevice, ReopenDevice, workVars, vars, connVars
  <2> QED  BY <2>1, <2>2, <2>3 DEF Connection
<1> QED  BY <1>2, <1>3, <1>4

-----------------------------------------------------------------------------
(* in_flight_urbs_count *)

\* What was submitted and not reaped, lost or not.
InFlight == {c \in Clients : urb[c] # "none"}

Urbs ==
  /\ urb \in [Clients -> {"none", "submitted", "completed", "lost"}]
  /\ device \in [Clients -> {"open", "unplugged", "closed"}]
  /\ IsFiniteSet(InFlight)
  /\ in_flight_urbs_count = Cardinality(InFlight)

LEMMA InitUrbs == Init => Urbs
<1> SUFFICES ASSUME Init PROVE Urbs
  OBVIOUS
<1>1. InFlight = {}
  BY DEF Init, InFlight
<1> QED  BY <1>1, FS_EmptySet DEF Init, Urbs

\* A URB that stays in flight, whatever becomes of it.
LEMMA SameInFlight ==
  ASSUME Urbs,
         urb' \in [Clients -> {"none", "submitted", "completed", "lost"}],
         device' \in [Clients -> {"open", "unplugged", "closed"}],
         \A c \in Clients : urb'[c] = "none" <=> urb[c] = "none",
         UNCHANGED in_flight_urbs_count
  PROVE  Urbs'
<1>1. InFlight' = InFlight
  BY DEF InFlight
<1> QED  BY <1>1 DEF Urbs

LEMMA NextUrbs == Urbs /\ [Next]_vars => Urbs'
<1> SUFFICES ASSUME Urbs, [Next]_vars PROVE Urbs'
  OBVIOUS
<1>1. CASE UNCHANGED urbVars
  BY <1>1, SameInFlight DEF Urbs, urbVars
<1>2. ASSUME NEW c \in Clients, SubmitUrb(c)
      PROVE  Urbs'
  <2>1. /\ urb[c] = "none" /\ urb' = [urb EXCEPT ![c] = "submitted"]
        /\ in_flight_urbs_count' = in_flight_urbs_count + 1 /\ UNCHANGED device
    BY <1>2 DEF SubmitUrb
  <2>2. c \notin InFlight /\ InFlight' = InFlight \cup {c}
    BY <2>1 DEF Urbs, InFlight
  <2>3. IsFiniteSet(InFlight)' /\ in_flight_urbs_count' = Cardinality(InFlight)'
    BY <2>1, <2>2, FS_AddElement DEF Urbs
  <2> QED  BY <2>1, <2>3 DEF Urbs
<1>3. ASSUME NEW t \in Threads, Reap(t)
      PROVE  Urbs'
  <2>1. PICK c \in Clients : t[1] = c
    BY DEF Threads
  <2>2. /\ urb[c] # "none" /\ urb' = [urb EXCEPT ![c] = "none"]
        /\ in_flight_urbs_count' = in_flight_urbs_count - 1 /\ UNCHANGED device
    BY <1>3, <2>1 DEF Reap
  <2>3. c \in InFlight /\ InFlight' = InFlight \ {c}
    BY <2>2 DEF Urbs, InFlight
  <2>4. IsFiniteSet(InFlight)' /\ in_flight_urbs_count' = Cardinality(InFlight)'
    BY <2>2, <2>3, FS_RemoveElement DEF Urbs
  <2> QED  BY <2>2, <2>4 DEF Urbs
<1>4. ASSUME NEW c \in Clients, LeaveClient(c) \/ DeviceEvent(c)
      PROVE  Urbs'
  <2>1. UNCHANGED in_flight_urbs_count
    BY <1>4 DEF LeaveClient, DeviceEvent, DeviceStep, CompleteUrb, Unplug, CloseDevice,
        ReopenDevice
  <2>2. \/ UNCHANGED device
        \/ \E to \in {"open", "unplugged", "closed"} : device' = [device EXCEPT ![c] = to]
    BY <1>4 DEF LeaveClient, DeviceEvent, DeviceStep, CompleteUrb, Unplug, CloseDevice,
        ReopenDevice
  <2>3. \/ UNCHANGED urb
        \/ \E to \in {"submitted", "completed", "lost"} :
             urb[c] # "none" /\ urb' = [urb EXCEPT ![c] = to]
        \/ urb[c] = "none" /\ urb' = [urb EXCEPT ![c] = "none"]
    BY <1>4 DEF Urbs, LeaveClient, DeviceEvent, DeviceStep, CompleteUrb, Unplug, CloseDevice,
        ReopenDevice
  <2> QED  BY <2>1, <2>2, <2>3, SameInFlight DEF Urbs
<1>5. CASE ~UNCHANGED urbVars
  <2>1. ASSUME NEW k \in Callers, OnStartCommand(k) \/ Restart(k) \/ OnDestroy(k) \/ Call(k)
        PROVE  UNCHANGED urbVars
    BY <2>1 DEF OnStartCommand, Restart, OnDestroy, Call, Started, Register, Stopped,
        NewServiceObj, StartLock, StartJoin, Bind, BindFails, StopClose, StopSnapshot,
        StopShutdown, StopJoin, StopWait, StopDelete, connVars, workVars
  <2>2. ASSUME NEW i \in Servers, Serve(i) \/ \E c \in Clients : Accept(i, c)
        PROVE  UNCHANGED urbVars
    BY <2>2 DEF Serve, Accept, RejectInterface, ListClient, SpawnWorker, AcceptFails, Retest,
        ExitServer, connVars, workVars
  <2>3. ASSUME NEW t \in Threads, Work(t), ~Reap(t)
        PROVE  UNCHANGED urbVars
    BY <2>3 DEF Work, Count, Notify, NotifyRead, NotifyCall, LeaveLoop, Uncount
  <2>4. ASSUME NEW c \in Clients, Import(c) \/ Greet(c) \/ CloseClient(c) \/ ClientCloses(c)
                                    \/ TxFails(c)
        PROVE  UNCHANGED urbVars
    BY <2>4 DEF Import, Greet, CloseClient, ClientCloses, TxFails, workVars
  <2>5. ~UNCHANGED vars
    BY <1>5 DEF vars, connVars, workVars
  <2> QED
    BY <1>2, <1>3, <1>4, <1>5, <2>1, <2>2, <2>3, <2>4, <2>5 DEF Next, Connection, ClientWork
<1> QED  BY <1>1, <1>5

\* Every variable keeps its type; g_active_workers stays between zero and the number of
\* threads, so that no thread counts itself out twice, and no URB is counted out twice.
THEOREM TypeCorrect == Fds # {} /\ IsFiniteSet(Clients) => (Spec => []TypeOK)
<1> SUFFICES ASSUME Fds # {}, IsFiniteSet(Clients) PROVE Spec => []TypeOK
  OBVIOUS
<1>6. IsFiniteSet(Threads)
  <2>1. IsFiniteSet(Kinds)
    <3>1. IsFiniteSet({} \cup {"client"})
      BY FS_EmptySet, FS_AddElement
    <3>2. IsFiniteSet(({} \cup {"client"}) \cup {"tx"})
      BY <3>1, FS_AddElement
    <3>3. IsFiniteSet((({} \cup {"client"}) \cup {"tx"}) \cup {"reaper"})
      BY <3>2, FS_AddElement
    <3>4. Kinds = (({} \cup {"client"}) \cup {"tx"}) \cup {"reaper"}
      BY DEF Kinds
    <3> QED  BY <3>3, <3>4
  <2> QED  BY <2>1, FS_Product DEF Threads
<1>1. Sockets /\ Types /\ [Next]_vars => Types'
  BY CallTypesKept, ServeTypesKept, WorkTypesKept DEF Next
<1>2. Init => Types
  BY InitTypes
<1>3. Sockets /\ Types /\ Tally /\ Urbs => TypeOK
  <2> SUFFICES ASSUME Sockets, Types, Tally, Urbs PROVE TypeOK
    OBVIOUS
  <2>1. CountedThreads \subseteq Threads
    BY DEF CountedThreads
  <2>2. Cardinality(CountedThreads) <= Cardinality(Threads)
    BY <1>6, <2>1, FS_Subset
  <2>3. Cardinality(CountedThreads) \in Nat /\ Cardinality(Threads) \in Nat
    BY <1>6, FS_CardinalityType DEF Tally, Exact
  <2>4. g_active_workers \in 0..Cardinality(Threads)
    BY <2>2, <2>3 DEF Tally, Exact
  <2>5. in_flight_urbs_count \in Nat
    BY FS_CardinalityType DEF Urbs
  <2> QED
    BY <2>4, <2>5 DEF TypeOK, Sockets, SocketTypes, Types, CallTypes, ServerTypes, ClientTypes,
        WorkTypes, Urbs
<1>4. Spec => []Sockets
  BY SocketsInvariance
<1>5. Spec => []Tally
  BY InitTally, NextTally, PTL DEF Spec
<1>7. Spec => []Urbs
  BY InitUrbs, NextUrbs, PTL DEF Spec
<1> QED
  BY <1>1, <1>2, <1>3, <1>4, <1>5, <1>7, PTL DEF Spec
=============================================================================
