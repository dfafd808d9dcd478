--------------------------- MODULE DeviceFds_proofs ---------------------------
(***************************************************************************)
(* Proofs about DeviceFds, for any bus ids, connections and numbers, and   *)
(* whichever closed number open() and accept() return.                     *)
(*                                                                         *)
(* TypeInv bounds the counter from both sides.  Inv says what the copies   *)
(* of a number refer to: as long as it was never handed out under          *)
(* somebody's copy, to what it was made for, or to nothing.  So two        *)
(* threads that close such a number close the same file, and what remains  *)
(* is the order of the steps: the client map lets go of a number before it *)
(* is closed, and a socket is shut down before somebody else closes it.    *)
(***************************************************************************)
EXTENDS DeviceFds, FiniteSetTheorems, TLAPS

Nums == Numbers \cup {NoFd}
Points == {"none", "import", "map", "serve", "recv", "submit", "leave", "close", "done"}

Types ==
  /\ file \in [Numbers -> BusIds \cup Conns \cup {Closed}]
  /\ reused \subseteq Numbers
  /\ urb \in [Conns -> Nums]
  /\ openedDevices \in [BusIds -> Nums]
  /\ apc \in [BusIds -> {"idle", "opened", "stored", "read"}]
  /\ afd \in [BusIds -> Nums]
  /\ kpc \in [BusIds -> {"idle", "client", "usb", "close_usb", "handle", "close_handle"}]
  /\ kfd \in [BusIds -> Nums]
  /\ g_active_devices \in [BusIds -> Nums]
  /\ g_busid_to_client_fd \in [BusIds -> Nums]
  /\ hpc \in [Conns -> Points]
  /\ client_fd \in [Conns -> Nums]
  /\ busid \in [Conns -> BusIds \cup {NoName}]
  /\ device_fd \in [Conns -> Nums]
  /\ lastImporter \in [BusIds -> Conns \cup {NoName}]
  /\ shut \subseteq Conns
  /\ rpc \in [Conns -> {"none", "reap", "wait", "done"}]
  /\ reap_fd \in [Conns -> Nums]

\* The kernel's lists are of files and URBs there are.
Listed ==
  /\ unplugged \subseteq {n \in Numbers : file[n] \in BusIds}
  /\ completed \subseteq {c \in Conns : urb[c] # NoFd}

Named ==
  \A c \in Conns :
    /\ hpc[c] \in {"map", "serve", "recv", "submit", "leave"} => busid[c] \in BusIds
    /\ rpc[c] \in {"reap", "wait"} => busid[c] \in BusIds

Kinds == Types /\ stopping \in BOOLEAN /\ calls \in 0..MaxCalls /\ Listed /\ Named

Queued == {c \in Conns : urb[c] # NoFd}
Submitting == {c \in Conns : hpc[c] = "submit"}

\* A queued URB is counted, and a submission that passed the bound may still count.
Counted ==
  /\ in_flight_urbs_count \in Int
  /\ Cardinality(Queued) <= in_flight_urbs_count
  /\ in_flight_urbs_count + Cardinality(Submitting) <= MaxInFlight + Cardinality(Conns)

TypeInv == Kinds /\ Counted

\* What a copy n was made for is what it refers to, unless it was handed out twice at a time.
Refers(n, x) == n \in Numbers \ reused => file[n] \in {x, Closed}

\* The descriptors of devices.
DeviceCopies ==
  \A b \in BusIds :
    /\ Refers(openedDevices[b], b) /\ Refers(afd[b], b) /\ Refers(g_active_devices[b], b)
    /\ kpc[b] \in {"close_usb", "close_handle"} => Refers(kfd[b], b)

\* The sockets: c's own is open, or was shut down.
SocketCopies ==
  \A c \in Conns :
    /\ Refers(client_fd[c], c)
    /\ hpc[c] \in {"import", "map"} =>
         client_fd[c] \in Numbers /\ (client_fd[c] \in reused \/ file[client_fd[c]] = c)
    /\ hpc[c] \in {"serve", "recv", "submit", "leave", "close"} =>
         /\ client_fd[c] \in Numbers
         /\ client_fd[c] \in reused \/ c \in shut \/ file[client_fd[c]] = c

\* The socket that a clean-up took from the client map is about to be closed.
ClientInHand ==
  \A b \in BusIds : kpc[b] = "client" /\ kfd[b] \in Numbers \ reused =>
    /\ g_busid_to_client_fd[b] # kfd[b]
    /\ file[kfd[b]] # Closed =>
         \E c \in Conns : /\ file[kfd[b]] = c /\ client_fd[c] = kfd[b] /\ busid[c] = b
                          /\ Serving(c) \/ hpc[c] = "close"

Importers ==
  \A b \in BusIds, c \in Conns :
    lastImporter[b] = c => busid[c] = b /\ hpc[c] \notin {"none", "import"}

Sockets == DeviceCopies /\ SocketCopies /\ ClientInHand /\ Importers /\ ClientMapExact

Inv == TypeInv /\ Sockets

-----------------------------------------------------------------------------
LEMMA Names == /\ \A b \in BusIds, c \in Conns : b # c
               /\ \A x \in BusIds \cup Conns : x # Closed /\ x # NoName
               /\ NoFd \notin Numbers
BY NamesAssumption, NumbersAssumption

LEMMA ExceptType ==
  ASSUME NEW D, NEW R, NEW f \in [D -> R], NEW a, NEW v \in R
  PROVE  [f EXCEPT ![a] = v] \in [D -> R]
OBVIOUS

\* A number that open() or accept() returns is not that of an older copy, or it is reused.
LEMMA NewNumber ==
  ASSUME TypeInv, NEW x, NEW n \in Numbers, Opens(x, n)
  PROVE  /\ file[n] = Closed /\ reused \subseteq reused'
         /\ \A m \in Numbers : m # n => file'[m] = file[m] /\ (m \in reused' <=> m \in reused)
         /\ file'[n] = x
         /\ n \notin reused' =>
              /\ \A b \in BusIds : n \notin {openedDevices[b], afd[b], kfd[b],
                                             g_active_devices[b], g_busid_to_client_fd[b]}
              /\ \A c \in Conns : n # client_fd[c]
<1>1. \A b \in BusIds : {openedDevices[b], afd[b], kfd[b], g_active_devices[b],
                         g_busid_to_client_fd[b]} \subseteq Copies
  BY DEF Copies
<1>2. \A c \in Conns : client_fd[c] \in Copies
  BY DEF Copies
<1> HIDE DEF Copies
<1> QED  BY <1>1, <1>2 DEF Opens, TypeInv, Kinds, Types

\* What close() does to the numbers and the URBs queued on them.
LEMMA Closes ==
  ASSUME Types, NEW ns, Close(ns)
  PROVE  /\ file' \in [Numbers -> BusIds \cup Conns \cup {Closed}]
         /\ \A n \in Numbers : file'[n] = IF n \in ns THEN Closed ELSE file[n]
         /\ urb' \in [Conns -> Nums]
         /\ \A c \in Conns : urb'[c] = IF urb[c] \in ns THEN NoFd ELSE urb[c]
         /\ reused' = reused
BY DEF Types, Close, Nums

-----------------------------------------------------------------------------
(* Types and the counter *)

LEMMA FiniteSubsets ==
  \A S \in SUBSET Conns :
    /\ IsFiniteSet(S) /\ Cardinality(S) \in Nat /\ Cardinality(S) <= Cardinality(Conns)
    /\ \A T \in SUBSET S : Cardinality(T) <= Cardinality(S)
    /\ \A c \in S : Cardinality(S \ {c}) = Cardinality(S) - 1
BY ConnsAssumption, FS_Subset, FS_CardinalityType, FS_RemoveElement

\* A step that counts nothing, queues nothing and lets nobody past the bound.
LEMMA UncountedStep ==
  ASSUME Counted, in_flight_urbs_count' = in_flight_urbs_count,
         \A c \in Conns : /\ urb'[c] # NoFd => urb[c] # NoFd
                          /\ hpc'[c] = "submit" => hpc[c] = "submit"
  PROVE  Counted'
<1>1. Queued \in SUBSET Conns /\ Submitting \in SUBSET Conns
  BY DEF Queued, Submitting
<1>2. Queued' \in SUBSET Queued /\ Submitting' \in SUBSET Submitting
  BY DEF Queued, Submitting
<1>3. /\ Cardinality(Queued') <= Cardinality(Queued)
      /\ Cardinality(Submitting') <= Cardinality(Submitting)
  BY <1>1, <1>2, FiniteSubsets
<1>4. {Cardinality(Queued), Cardinality(Queued'), Cardinality(Submitting),
       Cardinality(Submitting'), Cardinality(Conns)} \subseteq Nat
  BY <1>1, <1>2, FiniteSubsets
<1> HIDE DEF Queued, Submitting
<1> QED  BY <1>3, <1>4, BoundAssumption DEF Counted

LEMMA KotlinTypes ==
  ASSUME TypeInv, NEW b \in BusIds,
         Unplug(b) \/ OpenDevice(b) \/ Attach(b) \/ TakeClient(b) \/ CleanUp(b)
  PROVE  TypeInv'
<1> USE Names DEF TypeInv, Kinds, Types, Nums, Points, Listed, Named, AttachGoes, CleanupGoes,
          InHand, Call, kernelVars, cleanVars, kotlinVars, nativeVars, handlerVars, reaperVars
<1>1. CASE Unplug(b)
  <2>1. Kinds'
    BY <1>1 DEF Unplug
  <2>2. Counted'
    BY <1>1, UncountedStep DEF Unplug
  <2> QED  BY <2>1, <2>2
<1>2. CASE OpenDevice(b)
  <2>1. Kinds'
    <3>1. calls' \in 0..MaxCalls
      BY <1>2, BoundAssumption DEF OpenDevice
    <3>2. UNCHANGED <<urb, hpc, busid, rpc, unplugged, completed>>
      BY <1>2 DEF OpenDevice
    <3>3. Types'
      BY <1>2 DEF OpenDevice, Opens
    <3>4. Listed'
      BY <1>2 DEF OpenDevice, Opens
    <3> QED  BY <1>2, <3>1, <3>2, <3>3, <3>4 DEF OpenDevice
  <2>2. Counted'
    BY <1>2, UncountedStep DEF OpenDevice, Opens
  <2> QED  BY <2>1, <2>2
<1>3. CASE StoreHandle(b)
  <2>1. Kinds'
    BY <1>3 DEF StoreHandle
  <2>2. Counted'
    BY <1>3, UncountedStep DEF StoreHandle
  <2> QED  BY <2>1, <2>2
<1>4. CASE ReadDescriptor(b)
  <2>1. Kinds'
    BY <1>4 DEF ReadDescriptor
  <2>2. Counted'
    BY <1>4, UncountedStep DEF ReadDescriptor
  <2> QED  BY <2>1, <2>2
<1>5. CASE UpdateDeviceFd(b)
  <2>1. Kinds'
    BY <1>5 DEF UpdateDeviceFd
  <2>2. Counted'
    BY <1>5, UncountedStep DEF UpdateDeviceFd
  <2> QED  BY <2>1, <2>2
<1>6. CASE TakeClient(b)
  <2>1. Kinds'
    BY <1>6, BoundAssumption DEF TakeClient
  <2>2. Counted'
    BY <1>6, UncountedStep DEF TakeClient
  <2> QED  BY <2>1, <2>2
<1>7. CASE CloseClient(b)
  <2>1. Kinds'
    BY <1>7, Closes DEF CloseClient, Shutdown, Close
  <2>2. Counted'
    BY <1>7, UncountedStep DEF CloseClient, Shutdown, Close
  <2> QED  BY <2>1, <2>2
<1>8. CASE TakeUsb(b)
  <2>1. Kinds'
    BY <1>8 DEF TakeUsb
  <2>2. Counted'
    BY <1>8, UncountedStep DEF TakeUsb
  <2> QED  BY <2>1, <2>2
<1>9. CASE CloseUsb(b)
  <2>1. Kinds'
    BY <1>9, Closes DEF CloseUsb, Close
  <2>2. Counted'
    BY <1>9, UncountedStep DEF CloseUsb, Close
  <2> QED  BY <2>1, <2>2
<1>10. CASE TakeHandle(b)
  <2>1. Kinds'
    BY <1>10 DEF TakeHandle
  <2>2. Counted'
    BY <1>10, UncountedStep DEF TakeHandle
  <2> QED  BY <2>1, <2>2
<1>11. CASE CloseHandle(b)
  <2>1. Kinds'
    BY <1>11, Closes DEF CloseHandle, Close
  <2>2. Counted'
    BY <1>11, UncountedStep DEF CloseHandle, Close
  <2> QED  BY <2>1, <2>2
<1> QED
  BY <1>1, <1>2, <1>3, <1>4, <1>5, <1>6, <1>7, <1>8, <1>9, <1>10, <1>11
  DEF Attach, CleanUp

LEMMA StopTypes ==
  ASSUME TypeInv, StopShutdown \/ StopClose
  PROVE  TypeInv'
<1> USE Names DEF TypeInv, Kinds, Types, Nums, Points, Listed, Named,
          Call, kernelVars, cleanVars, kotlinVars, nativeVars, handlerVars, reaperVars
<1>1. CASE StopShutdown
  <2>1. Kinds'
    BY <1>1, BoundAssumption DEF StopShutdown, Shutdown
  <2>2. Counted'
    BY <1>1, UncountedStep DEF StopShutdown
  <2> QED  BY <2>1, <2>2
<1>2. CASE StopClose
  <2>1. Kinds'
    BY <1>2, Closes DEF StopClose, Close
  <2>2. Counted'
    BY <1>2, UncountedStep DEF StopClose, Close
  <2> QED  BY <2>1, <2>2
<1> QED  BY <1>1, <1>2

\* A submission that is received has passed the bound.
LEMMA RecvSubmitCounts ==
  ASSUME TypeInv, NEW c \in Conns, RecvSubmit(c)
  PROVE  Counted'
<1>1. Queued' = Queued /\ in_flight_urbs_count' = in_flight_urbs_count
  BY DEF Queued, RecvSubmit, kernelVars, nativeVars
<1>2. Submitting' \in SUBSET Conns /\ Queued \in SUBSET Conns
  BY DEF Submitting, Queued
<1>3. /\ Cardinality(Submitting') <= Cardinality(Conns)
      /\ {Cardinality(Submitting'), Cardinality(Queued), Cardinality(Conns)} \subseteq Nat
  BY <1>2, FiniteSubsets
<1>4. in_flight_urbs_count < MaxInFlight
  BY DEF RecvSubmit
<1> HIDE DEF Queued, Submitting
<1> QED  BY <1>1, <1>3, <1>4, BoundAssumption DEF TypeInv, Counted

\* The URB that is queued is the one that is counted.
LEMMA SubmitUrbCounts ==
  ASSUME TypeInv, NEW c \in Conns, SubmitUrb(c)
  PROVE  Counted'
<1>1. Queued' \in SUBSET Conns /\ Queued' \ {c} \in SUBSET Queued /\ Queued \in SUBSET Conns
  BY DEF Queued, SubmitUrb, TypeInv, Kinds, Types
<1>2. Cardinality(Queued') <= Cardinality(Queued) + 1
  <2>1. Cardinality(Queued' \ {c}) <= Cardinality(Queued)
    BY <1>1, FiniteSubsets
  <2>2. CASE c \in Queued'
    <3>1. Cardinality(Queued' \ {c}) = Cardinality(Queued') - 1
      BY <1>1, <2>2, FiniteSubsets
    <3>2. {Cardinality(Queued), Cardinality(Queued')} \subseteq Nat
      BY <1>1, FiniteSubsets
    <3> HIDE DEF Queued
    <3> QED  BY <2>1, <3>1, <3>2
  <2>3. CASE c \notin Queued'
    <3>1. Queued' \ {c} = Queued'
      BY <2>3
    <3>2. {Cardinality(Queued), Cardinality(Queued')} \subseteq Nat
      BY <1>1, FiniteSubsets
    <3> HIDE DEF Queued
    <3> QED  BY <2>1, <3>1, <3>2
  <2> QED  BY <2>2, <2>3
<1>3. /\ Submitting \in SUBSET Conns /\ c \in Submitting
      /\ Submitting' = Submitting \ {c}
  BY DEF Submitting, SubmitUrb, HandlerGoes, TypeInv, Kinds, Types
<1>4. Cardinality(Submitting') = Cardinality(Submitting) - 1
  BY <1>3, FiniteSubsets
<1>5. {Cardinality(Queued), Cardinality(Queued'), Cardinality(Submitting),
       Cardinality(Conns)} \subseteq Nat
  BY <1>1, <1>3, FiniteSubsets
<1>6. in_flight_urbs_count' = in_flight_urbs_count + 1
  BY DEF SubmitUrb
<1> HIDE DEF Queued, Submitting
<1> QED  BY <1>2, <1>4, <1>5, <1>6, BoundAssumption DEF TypeInv, Counted

LEMMA HandlerTypes ==
  ASSUME TypeInv, NEW c \in Conns,
         \/ Accept(c) \/ Refuse(c) \/ RecvSubmit(c) \/ RecvFails(c) \/ Handle(c)
         \/ \E b \in BusIds : ImportResolve(c, b)
  PROVE  TypeInv'
<1> USE Names DEF TypeInv, Kinds, Types, Nums, Points, Listed, Named,
          HandlerGoes, Call, kernelVars, cleanVars, kotlinVars, nativeVars, handlerVars, reaperVars
<1>1. CASE Accept(c)
  <2>1. Kinds'
    BY <1>1 DEF Accept, Opens
  <2>2. Counted'
    BY <1>1, UncountedStep DEF Accept, Opens
  <2> QED  BY <2>1, <2>2
<1>2. CASE Refuse(c) \/ RecvFails(c) \/ Recv(c) \/ SubmitFails(c)
  <2>1. Kinds'
    BY <1>2 DEF Refuse, RecvFails, Recv, SubmitFails
  <2>2. Counted'
    BY <1>2, UncountedStep DEF Refuse, RecvFails, Recv, SubmitFails
  <2> QED  BY <2>1, <2>2
<1>3. CASE RecvSubmit(c)
  <2> DEFINE n == IF g_active_devices[busid[c]] # NoFd THEN g_active_devices[busid[c]]
                  ELSE device_fd[c]
  <2>1. n \in Nums /\ device_fd \in [Conns -> Nums]
    BY <1>3 DEF RecvSubmit
  <2>2. device_fd' = [device_fd EXCEPT ![c] = n]
    BY <1>3 DEF RecvSubmit
  <2>3. device_fd' \in [Conns -> Nums]
    <3> HIDE DEF n, Nums
    <3> QED  BY <2>1, <2>2, ExceptType
  <2>4. Kinds'
    BY <1>3, <2>3 DEF RecvSubmit
  <2> QED  BY <1>3, <2>4, RecvSubmitCounts
<1>4. CASE \E b \in BusIds : ImportResolve(c, b)
  <2>1. Kinds'
    BY <1>4 DEF ImportResolve
  <2>2. Counted'
    BY <1>4, UncountedStep DEF ImportResolve
  <2> QED  BY <2>1, <2>2
<1>5. CASE ImportStart(c)
  <2>1. Kinds'
    BY <1>5 DEF ImportStart
  <2>2. Counted'
    BY <1>5, UncountedStep DEF ImportStart
  <2> QED  BY <2>1, <2>2
<1>6. CASE SubmitUrb(c)
  <2>1. Kinds'
    BY <1>6 DEF SubmitUrb
  <2> QED  BY <1>6, <2>1, SubmitUrbCounts
<1>7. CASE Leave(c)
  <2>1. Kinds'
    BY <1>7 DEF Leave, LeaveWith
  <2>2. Counted'
    BY <1>7, UncountedStep DEF Leave, LeaveWith
  <2> QED  BY <2>1, <2>2
<1>8. CASE CloseSocket(c)
  <2>1. Kinds'
    BY <1>8, Closes DEF CloseSocket, Close
  <2>2. Counted'
    BY <1>8, UncountedStep DEF CloseSocket, Close
  <2> QED  BY <2>1, <2>2
<1> QED  BY <1>1, <1>2, <1>3, <1>4, <1>5, <1>6, <1>7, <1>8 DEF Handle

\* A URB that is reaped was counted.
LEMMA ReapUrbCounts ==
  ASSUME TypeInv, NEW c \in Conns, NEW d \in Conns, ReapUrb(c, d)
  PROVE  Counted'
<1>1. Queued \in SUBSET Conns /\ d \in Queued /\ Queued' = Queued \ {d}
  BY DEF Queued, ReapUrb, TypeInv, Kinds, Types, Listed
<1>2. Cardinality(Queued') = Cardinality(Queued) - 1
  BY <1>1, FiniteSubsets
<1>3. Submitting' = Submitting /\ in_flight_urbs_count' = in_flight_urbs_count - 1
  BY DEF Submitting, ReapUrb, handlerVars
<1>4. Submitting \in SUBSET Conns
  BY DEF Submitting
<1>5. {Cardinality(Queued), Cardinality(Submitting), Cardinality(Conns)} \subseteq Nat
  BY <1>1, <1>4, FiniteSubsets
<1> HIDE DEF Queued, Submitting
<1> QED  BY <1>2, <1>3, <1>5, BoundAssumption DEF TypeInv, Counted

LEMMA ReaperTypes ==
  ASSUME TypeInv, NEW c \in Conns, CompleteUrb(c) \/ Reap(c)
  PROVE  TypeInv'
<1> USE Names DEF TypeInv, Kinds, Types, Nums, Points, Listed, Named,
          ReaperExits, Call, kernelVars, cleanVars, kotlinVars, nativeVars, handlerVars, reaperVars
<1>1. CASE CompleteUrb(c)
  <2>1. Kinds'
    BY <1>1 DEF CompleteUrb
  <2>2. Counted'
    BY <1>1, UncountedStep DEF CompleteUrb
  <2> QED  BY <2>1, <2>2
<1>2. CASE ReapEnds(c) \/ ReapNoDevice(c) \/ ReapTimeout(c)
  <2>1. Kinds'
    BY <1>2 DEF ReapEnds, ReapNoDevice, ReapTimeout
  <2>2. Counted'
    BY <1>2, UncountedStep DEF ReapEnds, ReapNoDevice, ReapTimeout
  <2> QED  BY <2>1, <2>2
<1>3. CASE ReapClosed(c) \/ ReapResume(c)
  <2>1. Kinds'
    BY <1>3 DEF ReapClosed, ReapResume
  <2>2. Counted'
    BY <1>3, UncountedStep DEF ReapClosed, ReapResume
  <2> QED  BY <2>1, <2>2
<1>4. ASSUME NEW d \in Conns, ReapUrb(c, d)
      PROVE  TypeInv'
  <2>1. Kinds'
    BY <1>4 DEF ReapUrb
  <2> QED  BY <1>4, <2>1, ReapUrbCounts
<1> QED  BY <1>1, <1>2, <1>3, <1>4 DEF Reap

LEMMA InitTypes == Init => TypeInv
<1> SUFFICES ASSUME Init PROVE TypeInv
  OBVIOUS
<1>1. Queued = {} /\ Submitting = {}
  BY DEF Init, Queued, Submitting
<1>2. Counted
  <2>1. Cardinality({}) = 0 /\ Cardinality(Conns) \in Nat
    BY FS_EmptySet, FS_CardinalityType, ConnsAssumption
  <2> QED  BY <1>1, <2>1, BoundAssumption DEF Init, Counted
<1>3. Types
  BY Names DEF Init, Types, Nums, Points
<1>4. Listed /\ Named /\ stopping \in BOOLEAN
  BY Names DEF Init, Listed, Named
<1>5. calls \in 0..MaxCalls
  BY BoundAssumption DEF Init
<1> QED  BY <1>2, <1>3, <1>4, <1>5 DEF TypeInv, Kinds

LEMMA TypesKept ==
  ASSUME TypeInv, [Next]_vars
  PROVE  TypeInv'
<1>1. CASE UNCHANGED vars
  BY <1>1 DEF vars, kernelVars, cleanVars, kotlinVars, nativeVars, handlerVars, reaperVars,
              TypeInv, Kinds, Types, Listed, Named, Counted, Queued, Submitting
<1> QED  BY <1>1, KotlinTypes, StopTypes, HandlerTypes, ReaperTypes DEF Next

\* The numbers are numbers, the kernel lists only what there is, and no order of reaps,
\* replacements and closings takes in_flight_urbs_count below zero or past the bound.
THEOREM TypeCorrect == Spec => []TypeOK
<1>1. TypeInv => TypeOK
  <2> SUFFICES ASSUME TypeInv PROVE TypeOK
    OBVIOUS
  <2>1. in_flight_urbs_count \in 0..MaxInFlight + Cardinality(Conns)
    <3>1. {Cardinality(Queued), Cardinality(Submitting), Cardinality(Conns)} \subseteq Nat
      BY FiniteSubsets DEF Queued, Submitting
    <3> HIDE DEF Queued, Submitting
    <3> QED  BY <3>1, BoundAssumption DEF TypeInv, Counted
  <2> QED  BY <2>1 DEF TypeInv, Kinds, Types, Nums, Points, Listed, TypeOK
<1> QED  BY InitTypes, TypesKept, <1>1, PTL DEF Spec

\* Every URB the kernel has is counted, however descriptors are closed, replaced and reused
\* under the threads: a reaper that finds the counter at zero leaves nothing behind.
THEOREM CountCovers == Spec => []CounterCovers
<1>1. TypeInv => CounterCovers
  BY DEF TypeInv, Counted, Queued, CounterCovers
<1> QED  BY InitTypes, TypesKept, <1>1, PTL DEF Spec

-----------------------------------------------------------------------------
(* What the copies of a number refer to *)

\* Steps that leave the files, their copies and the handlers' places alone.
LEMMA OtherSteps ==
  ASSUME Inv,
         UNCHANGED <<file, reused, openedDevices, afd, kpc, kfd, g_active_devices,
                     g_busid_to_client_fd, hpc, client_fd, busid, lastImporter>>,
         shut \subseteq shut'
  PROVE  Sockets'
BY DEF Inv, Sockets, DeviceCopies, SocketCopies, ClientInHand, Importers, ClientMapExact,
       Serving, Refers

LEMMA OpenDeviceKeeps ==
  ASSUME Inv, NEW b \in BusIds, OpenDevice(b)
  PROVE  Sockets'
<1> USE Names DEF Inv, TypeInv, Kinds, Types, Nums, Points, Named, Refers, Serving,
          OpenDevice, AttachGoes, kernelVars, cleanVars, kotlinVars, nativeVars,
          handlerVars, reaperVars
<1>0. PICK n \in Numbers : Opens(b, n) /\ afd' = [afd EXCEPT ![b] = n]
  BY DEF OpenDevice
<1>a. /\ file[n] = Closed /\ reused \subseteq reused'
      /\ \A m \in Numbers : m # n => file'[m] = file[m] /\ (m \in reused' <=> m \in reused)
      /\ file'[n] = b
      /\ n \notin reused' =>
           /\ \A e \in BusIds : n \notin {openedDevices[e], afd[e], kfd[e], g_active_devices[e],
                                          g_busid_to_client_fd[e]}
           /\ \A e \in Conns : n # client_fd[e]
  BY <1>0, NewNumber
<1>1. DeviceCopies'
  BY <1>0, <1>a DEF Sockets, DeviceCopies, SocketCopies, ClientInHand
<1>2. SocketCopies'
  BY <1>0, <1>a DEF Sockets, DeviceCopies, SocketCopies, ClientInHand
<1>3. ClientInHand'
  BY <1>0, <1>a DEF Sockets, DeviceCopies, SocketCopies, ClientInHand, Importers, ClientMapExact
<1>4. Importers'
  BY <1>0, <1>a DEF Sockets, Importers
<1>5. ClientMapExact'
  BY <1>0, <1>a DEF Sockets, DeviceCopies, SocketCopies, ClientInHand, Importers, ClientMapExact
<1> QED  BY <1>1, <1>2, <1>3, <1>4, <1>5 DEF Sockets

LEMMA AttachKeeps ==
  ASSUME Inv, NEW b \in BusIds, Attach(b)
  PROVE  Sockets'
<1> USE Names DEF Inv, TypeInv, Kinds, Types, Nums, Points, Named, Refers, Serving,
          Attach, StoreHandle, ReadDescriptor, UpdateDeviceFd, AttachGoes, kernelVars,
          cleanVars, kotlinVars, nativeVars, handlerVars, reaperVars
<1>1. DeviceCopies'
  BY DEF Sockets, DeviceCopies, SocketCopies, ClientInHand
<1>2. SocketCopies'
  BY DEF Sockets, DeviceCopies, SocketCopies, ClientInHand
<1>3. ClientInHand'
  BY DEF Sockets, DeviceCopies, SocketCopies, ClientInHand, Importers, ClientMapExact
<1>4. Importers'
  BY DEF Sockets, Importers
<1>5. ClientMapExact'
  BY DEF Sockets, DeviceCopies, SocketCopies, ClientInHand, Importers, ClientMapExact
<1> QED  BY <1>1, <1>2, <1>3, <1>4, <1>5 DEF Sockets

LEMMA TakeClientKeeps ==
  ASSUME Inv, NEW b \in BusIds, TakeClient(b)
  PROVE  Sockets'
<1> USE Names DEF Inv, TypeInv, Kinds, Types, Nums, Points, Named, Refers, Serving,
          TakeClient, CleanupGoes, InHand, kernelVars, cleanVars, kotlinVars, nativeVars,
          handlerVars, reaperVars
<1>1. DeviceCopies'
  BY DEF Sockets, DeviceCopies, SocketCopies, ClientInHand
<1>2. SocketCopies'
  BY DEF Sockets, DeviceCopies, SocketCopies, ClientInHand
<1>3. ClientInHand'
  BY DEF Sockets, DeviceCopies, SocketCopies, ClientInHand, Importers, ClientMapExact
<1>4. Importers'
  BY DEF Sockets, Importers
<1>5. ClientMapExact'
  BY DEF Sockets, DeviceCopies, SocketCopies, ClientInHand, Importers, ClientMapExact
<1> QED  BY <1>1, <1>2, <1>3, <1>4, <1>5 DEF Sockets

LEMMA CloseClientKeeps ==
  ASSUME Inv, NEW b \in BusIds, CloseClient(b)
  PROVE  Sockets'
<1> USE Names DEF Inv, TypeInv, Kinds, Types, Nums, Points, Named, Refers, Serving,
          CloseClient, CleanupGoes, InHand, Shutdown, kernelVars, cleanVars, kotlinVars,
          nativeVars, handlerVars, reaperVars
<1>0. /\ \A n \in Numbers : file'[n] = IF n \in {kfd[b]} THEN Closed ELSE file[n]
      /\ reused' = reused
  BY Closes
<1>a. kfd[b] \in Numbers \ reused => file[kfd[b]] \in Conns \cup {Closed}
  BY DEF Sockets, ClientInHand
<1>1. DeviceCopies'
  BY <1>0, <1>a DEF Sockets, DeviceCopies, SocketCopies, ClientInHand
<1>2. SocketCopies'
  BY <1>0, <1>a DEF Sockets, DeviceCopies, SocketCopies, ClientInHand
<1>3. ClientInHand'
  BY <1>0, <1>a DEF Sockets, DeviceCopies, SocketCopies, ClientInHand, Importers, ClientMapExact
<1>4. Importers'
  BY <1>0, <1>a DEF Sockets, Importers
<1>5. ClientMapExact'
  BY <1>0, <1>a DEF Sockets, DeviceCopies, SocketCopies, ClientInHand, Importers, ClientMapExact
<1> QED  BY <1>1, <1>2, <1>3, <1>4, <1>5 DEF Sockets

LEMMA TakeUsbKeeps ==
  ASSUME Inv, NEW b \in BusIds, TakeUsb(b) \/ TakeHandle(b)
  PROVE  Sockets'
<1> USE Names DEF Inv, TypeInv, Kinds, Types, Nums, Points, Named, Refers, Serving,
          TakeUsb, TakeHandle, CleanupGoes, InHand, kernelVars, cleanVars, kotlinVars,
          nativeVars, handlerVars, reaperVars
<1>1. DeviceCopies'
  BY DEF Sockets, DeviceCopies, SocketCopies, ClientInHand
<1>2. SocketCopies'
  BY DEF Sockets, DeviceCopies, SocketCopies, ClientInHand
<1>3. ClientInHand'
  BY DEF Sockets, DeviceCopies, SocketCopies, ClientInHand, Importers, ClientMapExact
<1>4. Importers'
  BY DEF Sockets, Importers
<1>5. ClientMapExact'
  BY DEF Sockets, DeviceCopies, SocketCopies, ClientInHand, Importers, ClientMapExact
<1> QED  BY <1>1, <1>2, <1>3, <1>4, <1>5 DEF Sockets

LEMMA CloseUsbKeeps ==
  ASSUME Inv, NEW b \in BusIds, CloseUsb(b) \/ CloseHandle(b)
  PROVE  Sockets'
<1> USE Names DEF Inv, TypeInv, Kinds, Types, Nums, Points, Named, Refers, Serving,
          CloseUsb, CloseHandle, CleanupGoes, InHand, kernelVars, cleanVars, kotlinVars,
          nativeVars, handlerVars, reaperVars
<1>0. /\ \A n \in Numbers : file'[n] = IF n \in {kfd[b]} THEN Closed ELSE file[n]
      /\ reused' = reused
  BY Closes
<1>a. kfd[b] \in Numbers \ reused => file[kfd[b]] \notin Conns
  BY DEF Sockets, DeviceCopies
<1>1. DeviceCopies'
  BY <1>0, <1>a DEF Sockets, DeviceCopies, SocketCopies, ClientInHand
<1>2. SocketCopies'
  BY <1>0, <1>a DEF Sockets, DeviceCopies, SocketCopies, ClientInHand
<1>3. ClientInHand'
  BY <1>0, <1>a DEF Sockets, DeviceCopies, SocketCopies, ClientInHand, Importers, ClientMapExact
<1>4. Importers'
  BY <1>0, <1>a DEF Sockets, Importers
<1>5. ClientMapExact'
  BY <1>0, <1>a DEF Sockets, DeviceCopies, SocketCopies, ClientInHand, Importers, ClientMapExact
<1> QED  BY <1>1, <1>2, <1>3, <1>4, <1>5 DEF Sockets

LEMMA StopCloseKeeps ==
  ASSUME Inv, StopClose
  PROVE  Sockets'
<1> USE Names DEF Inv, TypeInv, Kinds, Types, Nums, Points, Named, Refers, Serving,
          StopClose, kernelVars, cleanVars, kotlinVars, nativeVars, handlerVars,
          reaperVars
<1>0. /\ \A n \in Numbers :
           file'[n] = IF n \in {g_active_devices[b] : b \in BusIds} THEN Closed ELSE file[n]
      /\ reused' = reused
  BY Closes
<1>a. \A b \in BusIds :
        g_active_devices[b] \in Numbers \ reused => file[g_active_devices[b]] \notin Conns
  BY DEF Sockets, DeviceCopies
<1>1. DeviceCopies'
  BY <1>0, <1>a DEF Sockets, DeviceCopies, SocketCopies, ClientInHand
<1>2. SocketCopies'
  BY <1>0, <1>a DEF Sockets, DeviceCopies, SocketCopies, ClientInHand
<1>3. ClientInHand'
  BY <1>0, <1>a DEF Sockets, DeviceCopies, SocketCopies, ClientInHand, Importers, ClientMapExact
<1>4. Importers'
  BY <1>0, <1>a DEF Sockets, Importers
<1>5. ClientMapExact'
  BY <1>0, <1>a DEF Sockets, DeviceCopies, SocketCopies, ClientInHand, Importers, ClientMapExact
<1> QED  BY <1>1, <1>2, <1>3, <1>4, <1>5 DEF Sockets

LEMMA AcceptKeeps ==
  ASSUME Inv, NEW c \in Conns, Accept(c)
  PROVE  Sockets'
<1> USE Names DEF Inv, TypeInv, Kinds, Types, Nums, Points, Named, Refers, Serving,
          Accept, HandlerGoes, kernelVars, cleanVars, kotlinVars, nativeVars, handlerVars,
          reaperVars
<1>0. PICK n \in Numbers : Opens(c, n) /\ client_fd' = [client_fd EXCEPT ![c] = n]
  BY DEF Accept
<1>a. /\ file[n] = Closed /\ reused \subseteq reused'
      /\ \A m \in Numbers : m # n => file'[m] = file[m] /\ (m \in reused' <=> m \in reused)
      /\ file'[n] = c
      /\ n \notin reused' =>
           /\ \A e \in BusIds : n \notin {openedDevices[e], afd[e], kfd[e], g_active_devices[e],
                                          g_busid_to_client_fd[e]}
           /\ \A e \in Conns : n # client_fd[e]
  BY <1>0, NewNumber
<1>1. DeviceCopies'
  BY <1>0, <1>a DEF Sockets, DeviceCopies, SocketCopies, ClientInHand
<1>2. SocketCopies'
  BY <1>0, <1>a DEF Sockets, DeviceCopies, SocketCopies, ClientInHand
<1>3. ClientInHand'
  BY <1>0, <1>a DEF Sockets, DeviceCopies, SocketCopies, ClientInHand, Importers, ClientMapExact
<1>4. Importers'
  BY <1>0, <1>a DEF Sockets, Importers
<1>5. ClientMapExact'
  BY <1>0, <1>a DEF Sockets, DeviceCopies, SocketCopies, ClientInHand, Importers, ClientMapExact
<1> QED  BY <1>1, <1>2, <1>3, <1>4, <1>5 DEF Sockets

LEMMA ImportResolveKeeps ==
  ASSUME Inv, NEW c \in Conns, NEW b \in BusIds, ImportResolve(c, b)
  PROVE  Sockets'
<1> USE Names DEF Inv, TypeInv, Kinds, Types, Nums, Points, Named, Refers, Serving,
          ImportResolve, HandlerGoes, kernelVars, cleanVars, kotlinVars, nativeVars,
          handlerVars, reaperVars
<1>1. DeviceCopies'
  BY DEF Sockets, DeviceCopies, SocketCopies, ClientInHand
<1>2. SocketCopies'
  BY DEF Sockets, DeviceCopies, SocketCopies, ClientInHand
<1>3. ClientInHand'
  BY DEF Sockets, DeviceCopies, SocketCopies, ClientInHand, Importers, ClientMapExact
<1>4. Importers'
  BY DEF Sockets, Importers
<1>5. ClientMapExact'
  BY DEF Sockets, DeviceCopies, SocketCopies, ClientInHand, Importers, ClientMapExact
<1> QED  BY <1>1, <1>2, <1>3, <1>4, <1>5 DEF Sockets

LEMMA ImportStartKeeps ==
  ASSUME Inv, NEW c \in Conns, ImportStart(c)
  PROVE  Sockets'
<1> USE Names DEF Inv, TypeInv, Kinds, Types, Nums, Points, Named, Refers, Serving,
          ImportStart, HandlerGoes, kernelVars, cleanVars, kotlinVars, nativeVars,
          handlerVars, reaperVars
<1>1. DeviceCopies'
  BY DEF Sockets, DeviceCopies, SocketCopies, ClientInHand
<1>2. SocketCopies'
  BY DEF Sockets, DeviceCopies, SocketCopies, ClientInHand
<1>3. ClientInHand'
  BY DEF Sockets, DeviceCopies, SocketCopies, ClientInHand, Importers, ClientMapExact
<1>4. Importers'
  BY DEF Sockets, Importers
<1>5. ClientMapExact'
  BY DEF Sockets, DeviceCopies, SocketCopies, ClientInHand, Importers, ClientMapExact
<1> QED  BY <1>1, <1>2, <1>3, <1>4, <1>5 DEF Sockets

LEMMA HandlerKeeps ==
  ASSUME Inv, NEW c \in Conns,
         \/ Refuse(c) \/ Recv(c) \/ RecvSubmit(c) \/ RecvFails(c)
         \/ SubmitUrb(c) \/ SubmitFails(c)
  PROVE  Sockets'
<1> USE Names DEF Inv, TypeInv, Kinds, Types, Nums, Points, Named, Refers, Serving,
          Refuse, Recv, RecvSubmit, RecvFails, SubmitUrb, SubmitFails, HandlerGoes,
          kernelVars, cleanVars, kotlinVars, nativeVars, handlerVars, reaperVars
<1>1. DeviceCopies'
  BY DEF Sockets, DeviceCopies, SocketCopies, ClientInHand
<1>2. SocketCopies'
  BY DEF Sockets, DeviceCopies, SocketCopies, ClientInHand
<1>3. ClientInHand'
  BY DEF Sockets, DeviceCopies, SocketCopies, ClientInHand, Importers, ClientMapExact
<1>4. Importers'
  BY DEF Sockets, Importers
<1>5. ClientMapExact'
  BY DEF Sockets, DeviceCopies, SocketCopies, ClientInHand, Importers, ClientMapExact
<1> QED  BY <1>1, <1>2, <1>3, <1>4, <1>5 DEF Sockets

LEMMA LeaveKeeps ==
  ASSUME Inv, NEW c \in Conns, Leave(c)
  PROVE  Sockets'
<1> USE Names DEF Inv, TypeInv, Kinds, Types, Nums, Points, Named, Refers, Serving, Leave,
          LeaveWith, HandlerGoes, kernelVars, cleanVars, kotlinVars, nativeVars,
          handlerVars, reaperVars
<1>1. DeviceCopies'
  BY DEF Sockets, DeviceCopies, SocketCopies, ClientInHand
<1>2. SocketCopies'
  BY DEF Sockets, DeviceCopies, SocketCopies, ClientInHand
<1>3. ClientInHand'
  BY DEF Sockets, DeviceCopies, SocketCopies, ClientInHand, Importers, ClientMapExact
<1>4. Importers'
  BY DEF Sockets, Importers
<1>5. ClientMapExact'
  BY DEF Sockets, DeviceCopies, SocketCopies, ClientInHand, Importers, ClientMapExact
<1> QED  BY <1>1, <1>2, <1>3, <1>4, <1>5 DEF Sockets

LEMMA CloseSocketKeeps ==
  ASSUME Inv, NEW c \in Conns, CloseSocket(c)
  PROVE  Sockets'
<1> USE Names DEF Inv, TypeInv, Kinds, Types, Nums, Points, Named, Refers, Serving,
          CloseSocket, HandlerGoes, kernelVars, cleanVars, kotlinVars, nativeVars,
          handlerVars, reaperVars
<1>0. /\ \A n \in Numbers : file'[n] = IF n \in {client_fd[c]} THEN Closed ELSE file[n]
      /\ reused' = reused
  BY Closes
<1>a. client_fd[c] \in Numbers \ reused => file[client_fd[c]] \in {c, Closed}
  BY DEF Sockets, SocketCopies
<1>1. DeviceCopies'
  BY <1>0, <1>a DEF Sockets, DeviceCopies, SocketCopies, ClientInHand
<1>2. SocketCopies'
  BY <1>0, <1>a DEF Sockets, DeviceCopies, SocketCopies, ClientInHand
<1>3. ClientInHand'
  BY <1>0, <1>a DEF Sockets, DeviceCopies, SocketCopies, ClientInHand, Importers, ClientMapExact
<1>4. Importers'
  BY <1>0, <1>a DEF Sockets, Importers
<1>5. ClientMapExact'
  BY <1>0, <1>a DEF Sockets, DeviceCopies, SocketCopies, ClientInHand, Importers, ClientMapExact
<1> QED  BY <1>1, <1>2, <1>3, <1>4, <1>5 DEF Sockets

LEMMA InitSockets == Init => Sockets
BY Names DEF Init, Sockets, DeviceCopies, SocketCopies, ClientInHand, Importers, ClientMapExact,
             Serving, Refers

\* What a copy of a number refers to, and who has let go of it, is kept by every step.
THEOREM Invariance == Spec => []Inv
<1>1. ASSUME Inv, [Next]_vars
      PROVE  Inv'
  <2> USE <1>1 DEF kernelVars, cleanVars, kotlinVars, nativeVars, handlerVars, reaperVars
  <2>0. TypeInv'
    BY TypesKept DEF Inv
  <2>1. CASE UNCHANGED vars
    BY <2>0, <2>1, OtherSteps DEF vars, Inv
  <2>2. ASSUME NEW b \in BusIds, Unplug(b)
        PROVE  Inv'
    BY <2>0, <2>2, OtherSteps DEF Unplug, Inv
  <2>3. ASSUME NEW b \in BusIds, OpenDevice(b) \/ Attach(b) \/ TakeClient(b) \/ CleanUp(b)
        PROVE  Inv'
    BY <2>0, <2>3, OpenDeviceKeeps, AttachKeeps, TakeClientKeeps, CloseClientKeeps, TakeUsbKeeps,
       CloseUsbKeeps DEF CleanUp, Inv
  <2>4. CASE StopShutdown
    BY <2>0, <2>4, OtherSteps DEF StopShutdown, Shutdown, Inv
  <2>5. CASE StopClose
    BY <2>0, <2>5, StopCloseKeeps DEF Inv
  <2>6. ASSUME NEW c \in Conns, Accept(c) \/ Refuse(c) \/ RecvSubmit(c) \/ RecvFails(c) \/ Handle(c)
        PROVE  Inv'
    BY <2>0, <2>6, AcceptKeeps, ImportStartKeeps, HandlerKeeps, LeaveKeeps, CloseSocketKeeps
       DEF Handle, Inv
  <2>7. ASSUME NEW c \in Conns, CompleteUrb(c)
        PROVE  Inv'
    BY <2>0, <2>7, OtherSteps DEF CompleteUrb, Inv
  <2>8. ASSUME NEW c \in Conns, Reap(c)
        PROVE  Inv'
    <3>1. UNCHANGED <<file, reused, kotlinVars, g_active_devices, g_busid_to_client_fd,
                      handlerVars, shut>>
      BY <2>8 DEF Reap, ReapEnds, ReapNoDevice, ReapClosed, ReapResume, ReapTimeout, ReapUrb,
                  ReaperExits
    <3> QED  BY <2>0, <3>1, OtherSteps DEF Inv
  <2>9. ASSUME NEW c \in Conns, NEW b \in BusIds, ImportResolve(c, b)
        PROVE  Inv'
    BY <2>0, <2>9, ImportResolveKeeps DEF Inv
  <2> QED  BY <2>1, <2>2, <2>3, <2>4, <2>5, <2>6, <2>7, <2>8, <2>9 DEF Next
<1> QED  BY InitTypes, InitSockets, <1>1, PTL DEF Spec, Inv

-----------------------------------------------------------------------------
\* However connections of one bus id come and go, invalidateDeviceFd finds the socket of
\* the last that imported it, and never one that is closed or another's: only a number that
\* was handed out while somebody had a copy of it can mislead it.
THEOREM ClientMapKept == Spec => []ClientMapExact
<1>1. Inv => ClientMapExact
  BY DEF Inv, Sockets
<1> QED  BY <1>1, Invariance, PTL

\* Whoever closes the socket of a handler that waits in recv() has shut it down, unless the
\* handler's number was handed out while somebody had a copy of it.
THEOREM NobodyStuckInRecv == Spec => []RecvReachable
<1>1. Inv => RecvReachable
  BY DEF Inv, Sockets, SocketCopies, RecvReachable
<1> QED  BY <1>1, Invariance, PTL
=============================================================================
