------------------------- MODULE DeviceAttach_proofs -------------------------
(***************************************************************************)
(* Proofs about DeviceAttach, for any devices, threads and calls.          *)
(*                                                                         *)
(* The permission flag: whoever sets it is about to poll, and asks with a  *)
(* timer or clears it.  A pending entry: each step that loses the reason   *)
(* for one hands it to a job, a prompt or another step.  Neither depends   *)
(* on what the queue holds.  That it holds devices, that no connection is  *)
(* counted off twice, and that the queue is looked after, come next.       *)
(***************************************************************************)
EXTENDS DeviceAttach, FiniteSetTheorems, TLAPS, WellFoundedInduction

IsMap(f, S) == f = [x \in S |-> f[x]]

PromptShape(p) == p = [device |-> p.device, state |-> p.state, timer |-> p.timer]

Shapes ==
  /\ IsMap(pc, Threads) /\ IsMap(dev, Threads)
  /\ IsMap(prompt, Prompts) /\ \A n \in Prompts : PromptShape(prompt[n])
  /\ device \in [Devices ->
       [pending : BOOLEAN, tracked : BOOLEAN, opened : BOOLEAN, exported : BOOLEAN,
        permitted : BOOLEAN, job : {"none", "waiting", "started"}, loose : Nat,
        plug : {"in", "out", "gone"}, connections : Int]]

\* The points at which a thread is still to clear the pending entry of its device, or
\* to hand it on.
Carries == {"cancel", "launch", "attach", "track", "store", "update", "attached", "deny",
            "cleanup", "cleanupPending"}

Carried(d) == \E t \in Threads : dev[t] = d /\ pc[t] \in Carries
JobWaits(d) == device[d].job = "waiting" \/ device[d].loose > 0
Asked(d) == \E n \in Prompts : prompt[n].device = d /\ prompt[n].state \notin {"none", "answered"}

Explained == \A d \in Devices : device[d].pending => Carried(d) \/ JobWaits(d) \/ Asked(d)

Inv == Shapes /\ FlagReleased /\ Explained

LEMMA SetState ==
  ASSUME NEW p, PromptShape(p), NEW s
  PROVE  [p EXCEPT !.state = s] = [device |-> p.device, state |-> s, timer |-> p.timer]
<1>1. PICK a, b, c : p = [device |-> a, state |-> b, timer |-> c]
  BY Zenon DEF PromptShape
<1> QED  BY <1>1

LEMMA SetTimer ==
  ASSUME NEW p, PromptShape(p), NEW v
  PROVE  [p EXCEPT !.timer = v] = [device |-> p.device, state |-> p.state, timer |-> v]
<1>1. PICK a, b, c : p = [device |-> a, state |-> b, timer |-> c]
  BY Zenon DEF PromptShape
<1> QED  BY <1>1

LEMMA MapUpdate ==
  ASSUME NEW f, NEW S, IsMap(f, S), NEW a \in S, NEW v
  PROVE  /\ IsMap([f EXCEPT ![a] = v], S)
         /\ \A x \in S : [f EXCEPT ![a] = v][x] = IF x = a THEN v ELSE f[x]
BY DEF IsMap

\* What a step of a thread does to the control points.
LEMMA GoesFacts ==
  ASSUME Shapes, NEW t \in Threads, NEW from, NEW to, Goes(t, from, to)
  PROVE  /\ IsMap(pc', Threads) /\ IsMap(dev', Threads) /\ pc[t] = from
         /\ \A u \in Threads : pc'[u] = IF u = t THEN to ELSE pc[u]
         /\ \A u \in Threads : dev'[u] = IF u = t /\ to = "idle" THEN NoDevice ELSE dev[u]
<1>1. IsMap(pc', Threads) /\ \A u \in Threads : pc'[u] = IF u = t THEN to ELSE pc[u]
  <2>1. IsMap(pc, Threads) /\ pc' = [pc EXCEPT ![t] = to]
    BY DEF Shapes, Goes
  <2>2. IsMap([pc EXCEPT ![t] = to], Threads) /\ \A u \in Threads : [pc EXCEPT ![t] = to][u] = IF u = t THEN to ELSE pc[u]
    BY <2>1 DEF IsMap
  <2> QED  BY <2>1, <2>2
<1>2. IsMap(dev', Threads) /\ \A u \in Threads : dev'[u] = IF u = t /\ to = "idle" THEN NoDevice ELSE dev[u]
  BY MapUpdate DEF Shapes, Goes
<1> QED  BY <1>1, <1>2 DEF Goes

LEMMA BeginFacts ==
  ASSUME Shapes, NEW t \in Threads, NEW d, NEW to, Begin(t, d, to)
  PROVE  /\ IsMap(pc', Threads) /\ IsMap(dev', Threads) /\ pc[t] = "idle"
         /\ \A u \in Threads : pc'[u] = IF u = t THEN to ELSE pc[u]
         /\ \A u \in Threads : dev'[u] = IF u = t THEN d ELSE dev[u]
<1>1. IsMap(pc', Threads) /\ \A u \in Threads : pc'[u] = IF u = t THEN to ELSE pc[u]
  <2>1. IsMap(pc, Threads) /\ pc' = [pc EXCEPT ![t] = to]
    BY DEF Shapes, Begin
  <2>2. IsMap([pc EXCEPT ![t] = to], Threads) /\ \A u \in Threads : [pc EXCEPT ![t] = to][u] = IF u = t THEN to ELSE pc[u]
    BY <2>1 DEF IsMap
  <2> QED  BY <2>1, <2>2
<1>2. IsMap(dev', Threads) /\ \A u \in Threads : dev'[u] = IF u = t THEN d ELSE dev[u]
  <2>1. IsMap(dev, Threads) /\ dev' = [dev EXCEPT ![t] = d]
    BY DEF Shapes, Begin
  <2>2. IsMap([dev EXCEPT ![t] = d], Threads) /\ \A u \in Threads : [dev EXCEPT ![t] = d][u] = IF u = t THEN d ELSE dev[u]
    BY <2>1 DEF IsMap
  <2> QED  BY <2>1, <2>2
<1> QED  BY <1>1, <1>2 DEF Begin

Flagging == {"poll", "unclaim", "ask"}

\* A step that changes nothing but a control point and the entries of the queue.
LEMMA ReadingStep ==
  ASSUME Inv, NEW t \in Threads, NEW from, NEW to, Goes(t, from, to),
         from \in Carries => to \in Carries,
         isRequesting' /\ ~isRequesting => to \in Flagging,
         isRequesting' /\ from \in Flagging => to \in Flagging,
         UNCHANGED <<prompt, device>>
  PROVE  Inv'
<1>1. /\ IsMap(pc', Threads) /\ IsMap(dev', Threads) /\ pc[t] = from
      /\ \A u \in Threads : pc'[u] = IF u = t THEN to ELSE pc[u]
      /\ \A u \in Threads : dev'[u] = IF u = t /\ to = "idle" THEN NoDevice ELSE dev[u]
  BY GoesFacts DEF Inv
<1>2. Shapes'
  BY <1>1 DEF Inv, Shapes, IsMap, PromptShape
<1>3. FlagReleased'
  BY <1>1 DEF Inv, FlagReleased, Flagging
<1>4. \A d \in Devices : Carried(d) => Carried(d)'
  <2> SUFFICES ASSUME NEW d \in Devices, NEW u \in Threads, dev[u] = d, pc[u] \in Carries
               PROVE  dev'[u] = d /\ pc'[u] \in Carries
    BY DEF Carried
  <2>1. "idle" \notin Carries
    BY DEF Carries
  <2> QED  BY <1>1, <2>1
<1>5. Explained'
  BY <1>4 DEF Inv, Explained, JobWaits, Asked
<1> QED  BY <1>2, <1>3, <1>5 DEF Inv

LEMMA TestStep ==
  ASSUME Inv, NEW t \in Threads, NEW from, NEW to, Test(t, from, to),
         from \in Carries => to \in Carries, from \in Flagging => to \in Flagging
  PROVE  Inv'
BY ReadingStep DEF Test, queueVars

Entry ==
  [pending : BOOLEAN, tracked : BOOLEAN, opened : BOOLEAN, exported : BOOLEAN,
   permitted : BOOLEAN, job : {"none", "waiting", "started"}, loose : Nat,
   plug : {"in", "out", "gone"}, connections : Int]

\* A step of a thread on the entries of its device: what is pending after it is on its
\* way, waits as a job, or is as the step found it.
LEMMA EntryStep ==
  ASSUME Inv, NEW t \in Threads, NEW from, NEW to, NEW r, Step(t, from, to, r),
         from \notin Flagging,
         dev[t] \in Devices => r \in Entry,
         dev[t] \in Devices =>
           \/ ~r.pending \/ to \in Carries \/ r.job = "waiting"
           \/ /\ from \notin Carries
              /\ r.pending = On(t).pending /\ r.job = On(t).job /\ r.loose = On(t).loose
  PROVE  Inv'
<1>1. /\ IsMap(pc', Threads) /\ IsMap(dev', Threads) /\ pc[t] = from
      /\ \A u \in Threads : pc'[u] = IF u = t THEN to ELSE pc[u]
      /\ \A u \in Threads : dev'[u] = IF u = t /\ to = "idle" THEN NoDevice ELSE dev[u]
  BY GoesFacts DEF Inv, Step
<1>2. device \in [Devices -> Entry]
  BY DEF Inv, Shapes, Entry
<1>3. /\ device' \in [Devices -> Entry]
      /\ \A d \in Devices : device'[d] = IF d = dev[t] THEN r ELSE device[d]
  BY <1>2 DEF Step
<1>4. prompt' = prompt /\ isRequesting' = isRequesting
  BY DEF Step, queueVars
<1>5. Shapes'
  BY <1>1, <1>3, <1>4 DEF Inv, Shapes, IsMap, PromptShape, Entry
<1>6. FlagReleased'
  BY <1>1, <1>4 DEF Inv, FlagReleased, Flagging
<1>7. ASSUME NEW d \in Devices, device'[d].pending
      PROVE  Carried(d)' \/ JobWaits(d)' \/ Asked(d)'
  <2>0. "idle" \notin Carries
    BY DEF Carries
  <2>1. CASE d = dev[t] /\ to \in Carries
    BY <1>1, <2>0, <2>1 DEF Carried
  <2>2. CASE d = dev[t] /\ r.job = "waiting"
    BY <1>3, <2>2 DEF JobWaits
  <2>3. CASE /\ from \notin Carries \/ d # dev[t]
             /\ device'[d].pending = device[d].pending /\ device'[d].job = device[d].job
             /\ device'[d].loose = device[d].loose
    <3>1. Carried(d) => Carried(d)'
      <4> SUFFICES ASSUME NEW u \in Threads, dev[u] = d, pc[u] \in Carries
                   PROVE  u # t
        BY <1>1 DEF Carried
      <4> QED  BY <1>1, <2>3
    <3> QED  BY <1>4, <1>7, <2>3, <3>1 DEF Inv, Explained, JobWaits, Asked
  <2>4. \/ d = dev[t] /\ to \in Carries
        \/ d = dev[t] /\ r.job = "waiting"
        \/ /\ from \notin Carries \/ d # dev[t]
           /\ device'[d].pending = device[d].pending /\ device'[d].job = device[d].job
           /\ device'[d].loose = device[d].loose
    BY <1>3, <1>7 DEF On
  <2> QED  BY <2>1, <2>2, <2>3, <2>4
<1> QED  BY <1>5, <1>6, <1>7 DEF Inv, Explained

\* A thread begins to work on a device, whose entries are left alone.
LEMMA BeginningStep ==
  ASSUME Inv, NEW t \in Threads, NEW d, NEW to, Begin(t, d, to),
         isRequesting' = isRequesting, UNCHANGED <<prompt>>,
         device' \in [Devices -> Entry],
         \A e \in Devices : /\ device'[e].pending => device[e].pending
                            /\ JobWaits(e) => JobWaits(e)' \/ (e = d /\ to \in Carries)
  PROVE  Inv'
<1>1. /\ IsMap(pc', Threads) /\ IsMap(dev', Threads) /\ pc[t] = "idle"
      /\ \A u \in Threads : pc'[u] = IF u = t THEN to ELSE pc[u]
      /\ \A u \in Threads : dev'[u] = IF u = t THEN d ELSE dev[u]
  BY BeginFacts DEF Inv
<1>2. Shapes'
  BY <1>1 DEF Inv, Shapes, IsMap, PromptShape, Entry
<1>3. FlagReleased'
  BY <1>1 DEF Inv, FlagReleased
<1>4. \A e \in Devices : Carried(e) => Carried(e)'
  <2> SUFFICES ASSUME NEW e \in Devices, NEW u \in Threads, dev[u] = e, pc[u] \in Carries
               PROVE  u # t
    BY <1>1 DEF Carried
  <2> QED  BY <1>1 DEF Carries
<1>5. \A e \in Devices : e = d /\ to \in Carries => Carried(e)'
  BY <1>1 DEF Carried
<1>6. Explained'
  BY <1>4, <1>5 DEF Inv, Explained, Asked
<1> QED  BY <1>2, <1>3, <1>6 DEF Inv

-----------------------------------------------------------------------------
LEMMA InitInv == Init => Inv
<1> SUFFICES ASSUME Init PROVE Inv
  OBVIOUS
<1>1. Shapes
  <2>1. IsMap(pc, Threads) /\ IsMap(dev, Threads)
    BY DEF Init, IsMap
  <2>2. IsMap(prompt, Prompts) /\ \A n \in Prompts : PromptShape(prompt[n])
    <3> DEFINE none == [device |-> NoDevice, state |-> "none", timer |-> FALSE]
    <3>1. PromptShape(none)
      BY DEF PromptShape
    <3>2. prompt = [n \in Prompts |-> none]
      BY DEF Init
    <3> HIDE DEF none
    <3>3. \A n \in Prompts : prompt[n] = none
      BY <3>2
    <3>4. IsMap(prompt, Prompts)
      BY <3>2 DEF IsMap
    <3>5. \A n \in Prompts : PromptShape(prompt[n])
      BY <3>1, <3>3
    <3> QED  BY <3>4, <3>5
  <2>3. device \in [Devices -> Entry]
    BY DEF Init, Entry
  <2> QED  BY <2>1, <2>2, <2>3 DEF Shapes, Entry
<1> QED  BY <1>1 DEF Init, Inv, FlagReleased, Explained

LEMMA PollInv ==
  ASSUME Inv, NEW t \in Threads, Poll(t)
  PROVE  Inv'
<1>1. CASE queue = << >> /\ Test(t, "poll", "unclaim")
  BY <1>1, TestStep DEF Carries, Flagging
<1>2. CASE /\ queue # << >> /\ pc[t] = "poll"
           /\ pc' = [pc EXCEPT ![t] = "ask"] /\ dev' = [dev EXCEPT ![t] = Head(queue)]
           /\ UNCHANGED <<isRequesting, prompt, device>>
  <2> DEFINE h == Head(queue)
  <2>1. dev' = [dev EXCEPT ![t] = h] /\ IsMap(dev, Threads) /\ IsMap(pc, Threads)
    BY <1>2 DEF Inv, Shapes
  <2> HIDE DEF h
  <2>2. /\ IsMap(pc', Threads) /\ IsMap(dev', Threads)
        /\ \A u \in Threads : pc'[u] = IF u = t THEN "ask" ELSE pc[u]
        /\ \A u \in Threads : dev'[u] = IF u = t THEN h ELSE dev[u]
    BY <1>2, <2>1 DEF IsMap
  <2>3. Shapes'
    BY <1>2, <2>2 DEF Inv, Shapes, IsMap, PromptShape
  <2>4. FlagReleased'
    BY <2>2 DEF FlagReleased
  <2>5. \A e \in Devices : Carried(e) => Carried(e)'
    BY <1>2, <2>2 DEF Carried, Carries
  <2> QED  BY <1>2, <2>3, <2>4, <2>5 DEF Inv, Explained, JobWaits, Asked
<1> QED  BY <1>1, <1>2 DEF Poll

\* A prompt that is made is one that waits for its answer, and its timer runs.
LEMMA AskInv ==
  ASSUME Inv, NEW t \in Threads, Ask(t)
  PROVE  Inv'
<1>1. /\ IsMap(pc', Threads) /\ IsMap(dev', Threads) /\ pc[t] = "ask"
      /\ \A u \in Threads : pc'[u] = IF u = t THEN "idle" ELSE pc[u]
      /\ \A u \in Threads : dev'[u] = IF u = t THEN NoDevice ELSE dev[u]
  BY GoesFacts DEF Inv, Ask, AskWith
<1>2. PICK n \in Prompts :
        /\ prompt[n].state = "none"
        /\ prompt' = [prompt EXCEPT ![n] = [device |-> dev[t], state |-> "launched", timer |-> TRUE]]
  BY DEF Ask, AskWith
<1> DEFINE new == [device |-> dev[t], state |-> "launched", timer |-> TRUE]
<1>3. IsMap(prompt', Prompts) /\ \A m \in Prompts : prompt'[m] = IF m = n THEN new ELSE prompt[m]
  BY <1>2 DEF Inv, Shapes, IsMap
<1>4. new.device = dev[t] /\ new.state = "launched" /\ new.timer = TRUE
  OBVIOUS
<1>5. device' = [device EXCEPT ![dev[t]].pending = TRUE]
  BY DEF Ask, AskWith
<1>6. device \in [Devices -> Entry]
  BY DEF Inv, Shapes, Entry
<1>7. /\ device' \in [Devices -> Entry]
      /\ \A d \in Devices :
           /\ device'[d].job = device[d].job /\ device'[d].loose = device[d].loose
           /\ d # dev[t] => device'[d].pending = device[d].pending
  BY <1>5, <1>6 DEF Entry
<1>8. Shapes'
  <2>1. PromptShape(new)
    BY DEF PromptShape
  <2>2. \A m \in Prompts : PromptShape(prompt'[m])
    BY <1>3, <2>1 DEF Inv, Shapes
  <2>3. (\A m \in Prompts : PromptShape(prompt[m]))'
    BY <2>2 DEF PromptShape
  <2>4. IsMap(pc', Threads) /\ IsMap(dev', Threads) /\ IsMap(prompt', Prompts)
    BY <1>1, <1>3
  <2> HIDE DEF new
  <2> QED  BY <1>7, <2>3, <2>4 DEF Shapes, Entry, IsMap
<1>9. FlagReleased'
  BY <1>3, <1>4 DEF FlagReleased
<1>10. ASSUME NEW d \in Devices, device'[d].pending
       PROVE  Carried(d)' \/ JobWaits(d)' \/ Asked(d)'
  <2> HIDE DEF new
  <2>1. CASE d = dev[t]
    BY <1>3, <1>4, <2>1 DEF Asked
  <2>2. CASE d # dev[t]
    <3>1. Carried(d) => Carried(d)'
      BY <1>1, <2>2 DEF Carried
    <3>2. Asked(d) => Asked(d)'
      BY <1>2, <1>3 DEF Asked
    <3> QED  BY <1>7, <1>10, <2>2, <3>1, <3>2 DEF Inv, Explained, JobWaits
  <2> QED  BY <2>1, <2>2
<1> QED  BY <1>8, <1>9, <1>10 DEF Inv, Explained

\* A step that only moves one prompt, keeping its device and its timer.
Moves(n, s) == prompt' = [prompt EXCEPT ![n].state = s]

LEMMA PromptStep ==
  ASSUME Inv, NEW n \in Prompts, NEW s, Moves(n, s)
  PROVE  /\ IsMap(prompt', Prompts) /\ \A m \in Prompts : PromptShape(prompt[m])'
         /\ \A m \in Prompts : /\ prompt'[m].device = prompt[m].device
                               /\ prompt'[m].timer = prompt[m].timer
                               /\ prompt'[m].state = IF m = n THEN s ELSE prompt[m].state
<1> DEFINE r == [device |-> prompt[n].device, state |-> s, timer |-> prompt[n].timer]
<1>1. [prompt[n] EXCEPT !.state = s] = r
  BY SetState DEF Inv, Shapes
<1>2. prompt' = [prompt EXCEPT ![n] = r]
  BY <1>1 DEF Moves
<1>3. r.device = prompt[n].device /\ r.state = s /\ r.timer = prompt[n].timer /\ PromptShape(r)
  BY DEF PromptShape
<1> HIDE DEF r
<1>4. IsMap(prompt', Prompts) /\ \A m \in Prompts : prompt'[m] = IF m = n THEN r ELSE prompt[m]
  BY <1>2 DEF Inv, Shapes, IsMap
<1>5. \A m \in Prompts : PromptShape(prompt'[m])
  BY <1>3, <1>4 DEF Inv, Shapes
<1>6. \A m \in Prompts : PromptShape(prompt[m])'
  BY <1>5 DEF PromptShape
<1> QED  BY <1>3, <1>4, <1>6

LEMMA ResultInv ==
  ASSUME Inv, NEW n \in Prompts, PermissionResult(n)
  PROVE  Inv'
<1> USE DEF Threads
<1>1. PICK to \in {"attach", "deny"} : Begin(Main, prompt[n].device, to)
  BY DEF PermissionResult
<1> DEFINE d == prompt[n].device
<1>2. /\ IsMap(pc', Threads) /\ IsMap(dev', Threads) /\ pc[Main] = "idle"
      /\ \A u \in Threads : pc'[u] = IF u = Main THEN to ELSE pc[u]
      /\ \A u \in Threads : dev'[u] = IF u = Main THEN d ELSE dev[u]
  BY <1>1, BeginFacts DEF Inv
<1>3. Moves(n, "answered") /\ ~isRequesting' /\ device' = device
  BY DEF PermissionResult, Moves
<1>4. /\ IsMap(prompt', Prompts) /\ \A m \in Prompts : PromptShape(prompt[m])'
      /\ \A m \in Prompts : /\ prompt'[m].device = prompt[m].device
                            /\ prompt'[m].state = IF m = n THEN "answered" ELSE prompt[m].state
  BY <1>3, PromptStep
<1>5. Shapes'
  BY <1>2, <1>3, <1>4 DEF Inv, Shapes, IsMap
<1>6. FlagReleased'
  BY <1>3 DEF FlagReleased
<1>7. ASSUME NEW e \in Devices, device'[e].pending
      PROVE  Carried(e)' \/ JobWaits(e)' \/ Asked(e)'
  <2>1. Carried(e) => Carried(e)'
    BY <1>2 DEF Carried, Carries
  <2>2. JobWaits(e) => JobWaits(e)'
    BY <1>3 DEF JobWaits
  <2>3. Asked(e) => Asked(e)' \/ e = d
    BY <1>4 DEF Asked
  <2>4. e = d => Carried(e)'
    BY <1>2 DEF Carried, Carries
  <2> QED  BY <1>3, <1>7, <2>1, <2>2, <2>3, <2>4 DEF Inv, Explained
<1> QED  BY <1>5, <1>6, <1>7 DEF Inv, Explained

LEMMA TimeoutInv ==
  ASSUME Inv, NEW t \in Io, NEW n \in Prompts, Timeout(t, n)
  PROVE  Inv'
<1>1. t \in Threads
  BY DEF Threads
<1>2. prompt' = [prompt EXCEPT ![n].timer = FALSE] /\ ~isRequesting' /\ device' = device
  BY DEF Timeout
<1>3. /\ IsMap(pc', Threads) /\ IsMap(dev', Threads)
      /\ \A u \in Threads : pc[u] # "idle" => pc'[u] = pc[u] /\ dev'[u] = dev[u]
  <2>1. CASE isRequesting
    <3>1. Begin(t, prompt[n].device, "deny")
      BY <2>1 DEF Timeout
    <3> QED  BY <1>1, <3>1, BeginFacts DEF Inv
  <2>2. CASE ~isRequesting
    BY <2>2 DEF Timeout, Inv, Shapes, IsMap
  <2> QED  BY <2>1, <2>2
<1>4. /\ IsMap(prompt', Prompts) /\ \A m \in Prompts : PromptShape(prompt[m])'
      /\ \A m \in Prompts : prompt'[m].device = prompt[m].device /\ prompt'[m].state = prompt[m].state
  <2> DEFINE r == [device |-> prompt[n].device, state |-> prompt[n].state, timer |-> FALSE]
  <2>1. [prompt[n] EXCEPT !.timer = FALSE] = r
    BY SetTimer DEF Inv, Shapes
  <2>2. prompt' = [prompt EXCEPT ![n] = r]
    BY <1>2, <2>1
  <2>3. r.device = prompt[n].device /\ r.state = prompt[n].state /\ PromptShape(r)
    BY DEF PromptShape
  <2> HIDE DEF r
  <2>4. IsMap(prompt', Prompts) /\ \A m \in Prompts : prompt'[m] = IF m = n THEN r ELSE prompt[m]
    BY <2>2 DEF Inv, Shapes, IsMap
  <2>5. \A m \in Prompts : PromptShape(prompt'[m])
    BY <2>3, <2>4 DEF Inv, Shapes
  <2>6. \A m \in Prompts : PromptShape(prompt[m])'
    BY <2>5 DEF PromptShape
  <2> QED  BY <2>3, <2>4, <2>6
<1>5. Shapes'
  BY <1>2, <1>3, <1>4 DEF Inv, Shapes, IsMap
<1>6. FlagReleased'
  BY <1>2 DEF FlagReleased
<1>7. \A e \in Devices : Carried(e) => Carried(e)'
  BY <1>3 DEF Carried, Carries
<1>8. \A e \in Devices : Asked(e) => Asked(e)'
  BY <1>4 DEF Asked
<1> QED  BY <1>2, <1>5, <1>6, <1>7, <1>8 DEF Inv, Explained, JobWaits

LEMMA PromptMoves ==
  ASSUME Inv, NEW n \in Prompts, RequestPermission(n) \/ UserAnswers(n)
  PROVE  Inv'
<1>1. PICK s \in {"shown", "granted", "denied"} : Moves(n, s)
  BY DEF RequestPermission, UserAnswers, Moves
<1>2. isRequesting' = isRequesting /\ pc' = pc /\ dev' = dev
  BY DEF RequestPermission, UserAnswers
<1>3. /\ IsMap(prompt', Prompts) /\ \A m \in Prompts : PromptShape(prompt[m])'
      /\ \A m \in Prompts : /\ prompt'[m].device = prompt[m].device
                            /\ prompt'[m].timer = prompt[m].timer
                            /\ prompt'[m].state = IF m = n THEN s ELSE prompt[m].state
  BY <1>1, PromptStep
<1>4. device \in [Devices -> Entry]
  BY DEF Inv, Shapes, Entry
<1>5. /\ device' \in [Devices -> Entry]
      /\ \A d \in Devices :
           /\ device'[d].pending = device[d].pending
           /\ device'[d].job = device[d].job /\ device'[d].loose = device[d].loose
  <2>1. CASE device' = device
    BY <1>4, <2>1
  <2>2. CASE device' = [device EXCEPT ![prompt[n].device].permitted = TRUE]
    BY <1>4, <2>2 DEF Entry
  <2> QED  BY <2>1, <2>2 DEF RequestPermission, UserAnswers
<1>6. Shapes'
  BY <1>2, <1>3, <1>5 DEF Inv, Shapes, IsMap, Entry
<1>7. FlagReleased'
  BY <1>2, <1>3 DEF Inv, FlagReleased
<1>8. \A e \in Devices : (Carried(e) => Carried(e)') /\ (JobWaits(e) => JobWaits(e)')
  BY <1>2, <1>5 DEF Carried, JobWaits
<1>9. \A e \in Devices : Asked(e) => Asked(e)'
  BY <1>3 DEF Asked
<1> QED  BY <1>5, <1>6, <1>7, <1>8, <1>9 DEF Inv, Explained

\* The steps of a thread that has begun.
LEMMA RunningInv ==
  ASSUME Inv, NEW t \in Threads, Running(t)
  PROVE  Inv'
<1> USE DEF Carries, Flagging
<1>0. dev[t] \in Devices => On(t) \in Entry
  BY DEF Inv, Shapes, On, Entry
<1>1. CASE GuardTracker(t)
  BY <1>1, TestStep DEF GuardTracker
<1>2. CASE GuardPending(t)
  BY <1>2, TestStep DEF GuardPending
<1>3. CASE HasPermission(t)
  <2>1. CASE Step(t, "permission", "cancel", [On(t) EXCEPT !.pending = TRUE])
    <3>1. dev[t] \in Devices => [On(t) EXCEPT !.pending = TRUE] \in Entry
      BY <1>0 DEF Entry
    <3> QED  BY <2>1, <3>1, EntryStep
  <2>2. CASE Test(t, "permission", "testQueue")
    BY <2>2, TestStep
  <2> QED  BY <1>3, <2>1, <2>2 DEF HasPermission
<1>4. CASE CancelPrevious(t)
  <2>1. dev[t] \in Devices => [On(t) EXCEPT !.job = "none"] \in Entry
    BY <1>0 DEF Entry
  <2> QED  BY <1>4, <2>1, EntryStep DEF CancelPrevious
<1>5. CASE LaunchAttach(t)
  <2> DEFINE r == [On(t) EXCEPT !.job = "waiting",
                                !.loose = IF On(t).job = "waiting" THEN @ + 1 ELSE @]
  <2>1. dev[t] \in Devices => r \in Entry /\ r.job = "waiting"
    <3>1. CASE On(t).job = "waiting"
      <4> DEFINE more == On(t).loose + 1
      <4>1. r = [On(t) EXCEPT !.job = "waiting", !.loose = more]
        BY <3>1
      <4>2. dev[t] \in Devices => more \in Nat
        BY <1>0 DEF Entry
      <4> HIDE DEF more
      <4> QED  BY <1>0, <4>1, <4>2 DEF Entry
    <3>2. CASE On(t).job # "waiting"
      <4>1. r = [On(t) EXCEPT !.job = "waiting", !.loose = @]
        BY <3>2
      <4> QED  BY <1>0, <4>1 DEF Entry
    <3> QED  BY <3>1, <3>2
  <2>2. Step(t, "launch", "idle", r)
    BY <1>5 DEF LaunchAttach
  <2> HIDE DEF r
  <2> QED  BY <2>1, <2>2, EntryStep
<1>6. CASE TestQueue(t)
  BY <1>6, TestStep DEF TestQueue
<1>7. CASE Enqueue(t)
  BY <1>7, ReadingStep DEF Enqueue
<1>8. CASE NextIsEmpty(t)
  BY <1>8, TestStep DEF NextIsEmpty
<1>9. CASE Claim(t)
  <2>1. CASE isRequesting
    <3>1. Goes(t, "claim", "idle")
      BY <1>9, <2>1 DEF Claim
    <3> QED  BY <1>9, <2>1, <3>1, ReadingStep DEF Claim
  <2>2. CASE ~isRequesting
    <3>1. Goes(t, "claim", "poll")
      BY <1>9, <2>2 DEF Claim
    <3> QED  BY <1>9, <2>2, <3>1, ReadingStep DEF Claim
  <2> QED  BY <2>1, <2>2
<1>10. CASE Poll(t)
  BY <1>10, PollInv
<1>11. CASE Unclaim(t)
  BY <1>11, ReadingStep DEF Unclaim
<1>12. CASE Ask(t)
  BY <1>12, AskInv
<1>13. CASE Deny(t)
  <2> DEFINE r == [On(t) EXCEPT !.pending = FALSE]
  <2>1. dev[t] \in Devices => r \in Entry /\ ~r.pending
    BY <1>0 DEF Entry
  <2>2. Step(t, "deny", "next", r)
    BY <1>13 DEF Deny
  <2> HIDE DEF r
  <2> QED  BY <2>1, <2>2, EntryStep
<1>14. CASE OpenDevice(t)
  <2>1. CASE Step(t, "attach", "track", [On(t) EXCEPT !.connections = @ + 1])
    <3>1. dev[t] \in Devices => [On(t) EXCEPT !.connections = @ + 1] \in Entry
      BY <1>0 DEF Entry
    <3> QED  BY <2>1, <3>1, EntryStep
  <2>2. CASE Test(t, "attach", "attached")
    BY <2>2, TestStep
  <2> QED  BY <1>14, <2>1, <2>2 DEF OpenDevice
<1>15. CASE Track(t)
  <2>1. dev[t] \in Devices => [On(t) EXCEPT !.tracked = TRUE] \in Entry
    BY <1>0 DEF Entry
  <2> QED  BY <1>15, <2>1, EntryStep DEF Track
<1>16. CASE StoreHandle(t)
  <2>1. dev[t] \in Devices => [On(t) EXCEPT !.opened = TRUE] \in Entry
    BY <1>0 DEF Entry
  <2> QED  BY <1>16, <2>1, EntryStep DEF StoreHandle
<1>17. CASE UpdateDeviceFd(t)
  <2>1. dev[t] \in Devices => [On(t) EXCEPT !.exported = TRUE] \in Entry
    BY <1>0 DEF Entry
  <2> QED  BY <1>17, <2>1, EntryStep DEF UpdateDeviceFd
<1>18. CASE Attached(t)
  <2> DEFINE r == [On(t) EXCEPT !.pending = FALSE]
  <2>1. dev[t] \in Devices => r \in Entry /\ ~r.pending
    BY <1>0 DEF Entry
  <2>2. Step(t, "attached", IF t = Main THEN "next" ELSE "idle", r)
    BY <1>18 DEF Attached
  <2> HIDE DEF r
  <2> QED  BY <2>1, <2>2, EntryStep
<1>19. CASE CleanupJob(t)
  <2>1. dev[t] \in Devices => [On(t) EXCEPT !.job = "none"] \in Entry
    BY <1>0 DEF Entry
  <2> QED  BY <1>19, <2>1, EntryStep DEF CleanupJob
<1>20. CASE CleanupPending(t)
  <2> DEFINE r == [On(t) EXCEPT !.pending = FALSE]
  <2>1. dev[t] \in Devices => r \in Entry /\ ~r.pending
    BY <1>0 DEF Entry
  <2>2. Step(t, "cleanupPending", "invalidate", r)
    BY <1>20 DEF CleanupPending
  <2> HIDE DEF r
  <2> QED  BY <2>1, <2>2, EntryStep
<1>21. CASE InvalidateDeviceFd(t)
  <2> DEFINE r == [On(t) EXCEPT !.exported = FALSE]
  <2>1. dev[t] \in Devices =>
          /\ r \in Entry
          /\ r.pending = On(t).pending /\ r.job = On(t).job /\ r.loose = On(t).loose
    BY <1>0 DEF Entry
  <2>2. Step(t, "invalidate", "close", r)
    BY <1>21 DEF InvalidateDeviceFd
  <2> HIDE DEF r
  <2> QED  BY <2>1, <2>2, EntryStep
<1>22. CASE CloseHandle(t)
  <2> DEFINE r == [On(t) EXCEPT !.opened = FALSE,
                                !.connections = IF On(t).opened THEN @ - 1 ELSE @]
  <2>1. dev[t] \in Devices =>
          /\ r \in Entry
          /\ r.pending = On(t).pending /\ r.job = On(t).job /\ r.loose = On(t).loose
    <3> DEFINE left == IF On(t).opened THEN On(t).connections - 1 ELSE On(t).connections
    <3>1. r = [On(t) EXCEPT !.opened = FALSE, !.connections = left]
      OBVIOUS
    <3>2. dev[t] \in Devices => left \in Int
      BY <1>0 DEF Entry
    <3> HIDE DEF left
    <3> QED  BY <1>0, <3>1, <3>2 DEF Entry
  <2>2. Step(t, "close", "untrack", r)
    BY <1>22 DEF CloseHandle
  <2> HIDE DEF r
  <2> QED  BY <2>1, <2>2, EntryStep
<1>23. CASE Untrack(t)
  <2> DEFINE r == [On(t) EXCEPT !.tracked = FALSE]
  <2>1. dev[t] \in Devices =>
          /\ r \in Entry
          /\ r.pending = On(t).pending /\ r.job = On(t).job /\ r.loose = On(t).loose
    BY <1>0 DEF Entry
  <2>2. Step(t, "untrack", "idle", r)
    BY <1>23 DEF Untrack
  <2> HIDE DEF r
  <2> QED  BY <2>1, <2>2, EntryStep
<1> HIDE DEF Carries, Flagging
<1> QED
  BY <1>1, <1>2, <1>3, <1>4, <1>5, <1>6, <1>7, <1>8, <1>9, <1>10, <1>11, <1>12, <1>13, <1>14,
     <1>15, <1>16, <1>17, <1>18, <1>19, <1>20, <1>21, <1>22, <1>23 DEF Running

\* The steps by which a thread begins to work on a device.
LEMMA CallInv ==
  ASSUME Inv, NEW t \in Threads, NEW d \in Devices,
         \/ HandleIncomingDevice(t, d) \/ StartJob(t, d) \/ DisconnectDeviceManually(t, d)
         \/ t = Main /\ (ConnectDeviceManually(d) \/ DetachDevice(d))
  PROVE  Inv'
<1>0. device \in [Devices -> Entry]
  BY DEF Inv, Shapes, Entry
<1>1. CASE HandleIncomingDevice(t, d) \/ DisconnectDeviceManually(t, d)
  <2>1. PICK to \in {"guardTracker", "cleanup"} : Begin(t, d, to)
    BY <1>1 DEF HandleIncomingDevice, DisconnectDeviceManually, Call
  <2>2. UNCHANGED <<isRequesting, prompt, device>>
    BY <1>1 DEF HandleIncomingDevice, DisconnectDeviceManually, queueVars
  <2>3. \A e \in Devices : JobWaits(e) => JobWaits(e)'
    BY <2>2 DEF JobWaits
  <2> QED  BY <1>0, <2>1, <2>2, <2>3, BeginningStep
<1>2. CASE t = Main /\ ConnectDeviceManually(d)
  <2>1. Begin(t, d, "guardTracker") /\ UNCHANGED <<isRequesting, prompt>>
    BY <1>2 DEF ConnectDeviceManually, Call, queueVars
  <2>2. device' = [device EXCEPT ![d].pending = FALSE]
    BY <1>2 DEF ConnectDeviceManually
  <2>3. /\ device' \in [Devices -> Entry]
        /\ \A e \in Devices :
             /\ device'[e].pending => device[e].pending
             /\ device'[e].job = device[e].job /\ device'[e].loose = device[e].loose
    BY <1>0, <2>2 DEF Entry
  <2>4. \A e \in Devices : JobWaits(e) => JobWaits(e)'
    BY <2>3 DEF JobWaits
  <2> QED  BY <2>1, <2>3, <2>4, BeginningStep
<1>3. CASE t = Main /\ DetachDevice(d)
  <2>1. Begin(t, d, "cleanup") /\ UNCHANGED <<isRequesting, prompt>>
    BY <1>3 DEF DetachDevice
  <2>2. device' = [device EXCEPT ![d].plug = "gone"]
    BY <1>3 DEF DetachDevice
  <2>3. /\ device' \in [Devices -> Entry]
        /\ \A e \in Devices :
             /\ device'[e].pending => device[e].pending
             /\ device'[e].job = device[e].job /\ device'[e].loose = device[e].loose
    BY <1>0, <2>2 DEF Entry
  <2>4. \A e \in Devices : JobWaits(e) => JobWaits(e)'
    BY <2>3 DEF JobWaits
  <2> QED  BY <2>1, <2>3, <2>4, BeginningStep
<1>4. CASE StartJob(t, d)
  <2>1. Begin(t, d, "attach") /\ UNCHANGED <<isRequesting, prompt>>
    BY <1>4 DEF StartJob, queueVars
  <2>2. \/ device' = [device EXCEPT ![d].job = "started"]
        \/ device[d].loose > 0 /\ device' = [device EXCEPT ![d].loose = @ - 1]
    BY <1>4 DEF StartJob
  <2>3. /\ device' \in [Devices -> Entry]
        /\ \A e \in Devices :
             /\ device'[e].pending => device[e].pending
             /\ e # d => device'[e].job = device[e].job /\ device'[e].loose = device[e].loose
    <3>1. CASE device' = [device EXCEPT ![d].job = "started"]
      BY <1>0, <3>1 DEF Entry
    <3>2. CASE device[d].loose > 0 /\ device' = [device EXCEPT ![d].loose = @ - 1]
      BY <1>0, <3>2 DEF Entry
    <3> QED  BY <2>2, <3>1, <3>2
  <2>4. \A e \in Devices : JobWaits(e) => JobWaits(e)' \/ e = d
    BY <2>3 DEF JobWaits
  <2>5. "attach" \in Carries
    BY DEF Carries
  <2> QED  BY <2>1, <2>3, <2>4, <2>5, BeginningStep
<1> QED  BY <1>1, <1>2, <1>3, <1>4

LEMMA UnplugInv ==
  ASSUME Inv, NEW d \in Devices, Unplug(d)
  PROVE  Inv'
<1>1. device \in [Devices -> Entry]
  BY DEF Inv, Shapes, Entry
<1>2. device' = [device EXCEPT ![d].plug = "out", ![d].permitted = FALSE]
  BY DEF Unplug
<1>3. /\ device' \in [Devices -> Entry]
      /\ \A e \in Devices :
           /\ device'[e].pending = device[e].pending
           /\ device'[e].job = device[e].job /\ device'[e].loose = device[e].loose
  <2> DEFINE r == [device[d] EXCEPT !.plug = "out", !.permitted = FALSE]
  <2>1. /\ r \in Entry
        /\ r.pending = device[d].pending /\ r.job = device[d].job /\ r.loose = device[d].loose
    BY <1>1 DEF Entry
  <2>2. device' = [device EXCEPT ![d] = r]
    BY <1>1, <1>2 DEF Entry
  <2> HIDE DEF r
  <2> QED  BY <1>1, <2>1, <2>2
<1>4. UNCHANGED <<isRequesting, prompt, pc, dev>>
  BY DEF Unplug, queueVars
<1>5. Shapes'
  BY <1>3, <1>4 DEF Inv, Shapes, IsMap, PromptShape, Entry
<1>6. FlagReleased'
  BY <1>4 DEF Inv, FlagReleased
<1> QED  BY <1>3, <1>4, <1>5, <1>6 DEF Inv, Explained, Carried, JobWaits, Asked

\* The flag, and the reasons of pending entries, are kept by every step.
THEOREM Invariance == Spec => []Inv
<1>1. ASSUME Inv, [Next]_vars
      PROVE  Inv'
  <2> USE <1>1
  <2>1. CASE UNCHANGED vars
    BY <2>1 DEF vars, queueVars, Inv, Shapes, IsMap, PromptShape, FlagReleased, Explained,
                Carried, JobWaits, Asked
  <2>2. ASSUME NEW t \in Threads, Running(t)
        PROVE  Inv'
    BY <2>2, RunningInv
  <2>3. ASSUME NEW t \in Threads, NEW d \in Devices, HandleIncomingDevice(t, d)
        PROVE  Inv'
    BY <2>3, CallInv
  <2>4. ASSUME NEW t \in Io, NEW d \in Devices, StartJob(t, d) \/ DisconnectDeviceManually(t, d)
        PROVE  Inv'
    BY <2>4, CallInv DEF Threads
  <2>5. ASSUME NEW t \in Io, NEW n \in Prompts, Timeout(t, n)
        PROVE  Inv'
    BY <2>5, TimeoutInv
  <2>6. ASSUME NEW n \in Prompts, RequestPermission(n) \/ UserAnswers(n)
        PROVE  Inv'
    BY <2>6, PromptMoves
  <2>7. ASSUME NEW n \in Prompts, PermissionResult(n)
        PROVE  Inv'
    BY <2>7, ResultInv
  <2>8. ASSUME NEW d \in Devices, ConnectDeviceManually(d) \/ DetachDevice(d)
        PROVE  Inv'
    BY <2>8, CallInv DEF Threads
  <2>9. ASSUME NEW d \in Devices, Unplug(d)
        PROVE  Inv'
    BY <2>9, UnplugInv
  <2> QED  BY <2>1, <2>2, <2>3, <2>4, <2>5, <2>6, <2>7, <2>8, <2>9 DEF Next
<1> QED  BY InitInv, <1>1, PTL DEF Spec

-----------------------------------------------------------------------------
(* Types: the queue, and the connections there are *)

PromptType ==
  [device : Devices \cup {NoDevice}, timer : BOOLEAN,
   state : {"none", "launched", "shown", "granted", "denied", "answered"}]

\* Threads that have opened e and not yet stored its handle.
Opening(e) == {t \in Threads : dev[t] = e /\ pc[t] \in {"track", "store"}}

\* The open connections of e that openedDevices does not hold.
Spare(e) == device[e].connections - (IF device[e].opened THEN 1 ELSE 0)

QueueTypes ==
  /\ queue \in Seq(Devices) /\ isRequesting \in BOOLEAN /\ stranded \in BOOLEAN
  /\ prompt \in [Prompts -> PromptType]
  /\ \A n \in Prompts : prompt[n].state # "none" \/ prompt[n].timer => prompt[n].device \in Devices

ThreadTypes ==
  /\ IsMap(pc, Threads) /\ dev \in [Threads -> Devices \cup {NoDevice}]
  /\ \A t \in Threads : dev[t] = NoDevice <=> pc[t] = "idle"

TypeInv ==
  /\ QueueTypes /\ ThreadTypes
  /\ device \in [Devices -> Entry]
  /\ \A e \in Devices : Cardinality(Opening(e)) <= Spare(e)
  /\ calls \in 0..MaxCalls

\* Every rank up to the number of elements is the rank of one of them.
LEMMA RankExists ==
  ASSUME NEW n \in Nat, NEW keep \in SUBSET (1..n), NEW k \in 1..Cardinality(keep)
  PROVE  \E i \in keep : Cardinality({j \in keep : j <= i}) = k
<1> DEFINE Upto(m) == {j \in keep : j <= m}
           S == {m \in 0..n : Cardinality(Upto(m)) >= k}
<1>0. \A j \in keep : j \in Nat /\ 1 <= j /\ j <= n
  OBVIOUS
<1>1. IsFiniteSet(keep)
  <2>1. IsFiniteSet(1..n)
    BY FS_Interval
  <2> QED  BY <2>1, FS_Subset
<1>2. \A m \in 0..n : Cardinality(Upto(m)) \in Nat
  <2>1. \A m \in 0..n : Upto(m) \in SUBSET keep
    OBVIOUS
  <2> QED  BY <1>1, <2>1, FS_Subset, FS_CardinalityType
<1>3. n \in S
  <2>1. Upto(n) = keep
    BY <1>0
  <2>2. Cardinality(keep) \in Nat
    BY <1>1, FS_CardinalityType
  <2> QED  BY <2>1, <2>2
<1>4. \E m \in S : \A l \in S : m <= l
  <2>1. S \in SUBSET Nat /\ S # {}
    BY <1>3
  <2> HIDE DEF S
  <2>2. \E m \in S : \A l \in S : <<l, m>> \notin {p \in Nat \X Nat : p[1] < p[2]}
    BY <2>1, NatLessThanWellFounded, WFMin, Zenon DEF OpToRel
  <2>3. \A l, m \in Nat : <<l, m>> \notin {p \in Nat \X Nat : p[1] < p[2]} => m <= l
    OBVIOUS
  <2>4. \A l \in S : l \in Nat
    BY <2>1
  <2> QED  BY <2>2, <2>3, <2>4, Zenon
<1>5. PICK m \in S : \A l \in S : m <= l
  BY <1>4
<1>6. m # 0
  <2>1. Upto(0) = {}
    <3> SUFFICES \A j \in keep : ~(j <= 0)
      OBVIOUS
    <3> QED  BY <1>0
  <2>2. Cardinality(Upto(0)) = 0
    BY <2>1, FS_EmptySet
  <2> QED  BY <2>2
<1>7. m - 1 \in 0..n /\ m - 1 \notin S
  <2>1. m \in 0..n
    BY <1>5
  <2> HIDE DEF S
  <2> QED  BY <1>5, <1>6, <2>1
<1>8. Cardinality(Upto(m - 1)) < k /\ Cardinality(Upto(m)) >= k
  <2>1. ~(Cardinality(Upto(m - 1)) >= k) /\ Cardinality(Upto(m - 1)) \in Nat
    BY <1>2, <1>7
  <2> HIDE DEF Upto
  <2> QED  BY <2>1
<1>9. m \in keep
  <2>1. CASE m \notin keep
    <3>1. Upto(m) = Upto(m - 1)
      <4>1. m \in Nat /\ \A j \in keep : j # m
        BY <1>7, <2>1
      <4>2. \A j \in keep : j <= m <=> j <= m - 1
        BY <1>0, <4>1
      <4> QED  BY <4>2
    <3>2. Cardinality(Upto(m - 1)) \in Nat
      BY <1>2, <1>7
    <3> HIDE DEF Upto
    <3> QED  BY <1>8, <3>1, <3>2
  <2> QED  BY <2>1
<1>10. Cardinality(Upto(m)) = Cardinality(Upto(m - 1)) + 1
  <2>1. Upto(m) = Upto(m - 1) \cup {m} /\ m \notin Upto(m - 1)
    <3>1. m \in Nat
      BY <1>0, <1>9
    <3>2. \A j \in keep : j <= m <=> j <= m - 1 \/ j = m
      BY <1>0, <3>1
    <3>3. m <= m /\ ~(m <= m - 1)
      BY <3>1
    <3> QED  BY <1>9, <3>2, <3>3
  <2>2. IsFiniteSet(Upto(m - 1))
    BY <1>1, FS_Subset
  <2> HIDE DEF Upto
  <2> QED  BY <2>1, <2>2, FS_AddElement
<1>11. Cardinality(Upto(m)) = k
  <2>1. Cardinality(Upto(m - 1)) \in Nat /\ k \in Nat
    <3>1. Cardinality(keep) \in Nat
      BY <1>1, FS_CardinalityType
    <3> HIDE DEF Upto
    <3> QED  BY <1>2, <1>7, <3>1
  <2> HIDE DEF Upto
  <2> QED  BY <1>8, <1>10, <2>1
<1> QED  BY <1>9, <1>11

LEMMA WithoutType ==
  ASSUME NEW q \in Seq(Devices), NEW d
  PROVE  Without(q, d) \in Seq(Devices)
<1> DEFINE keep == {i \in DOMAIN q : q[i] # d}
           At(k) == CHOOSE i \in keep : Cardinality({j \in keep : j <= i}) = k
<1>1. keep \in SUBSET (1..Len(q)) /\ Len(q) \in Nat /\ \A i \in keep : q[i] \in Devices
  OBVIOUS
<1>2. IsFiniteSet(keep)
  <2>1. IsFiniteSet(1..Len(q))
    BY <1>1, FS_Interval
  <2> QED  BY <1>1, <2>1, FS_Subset
<1>3. Cardinality(keep) \in Nat
  BY <1>2, FS_CardinalityType
<1>4. \A k \in 1..Cardinality(keep) : At(k) \in keep
  <2> HIDE DEF keep
  <2>1. \A k \in 1..Cardinality(keep) : \E i \in keep : Cardinality({j \in keep : j <= i}) = k
    BY <1>1, RankExists
  <2> QED  BY <2>1
<1>5. Without(q, d) = [k \in 1..Cardinality(keep) |-> q[At(k)]]
  BY DEF Without
<1> HIDE DEF keep, At
<1>6. \A k \in 1..Cardinality(keep) : q[At(k)] \in Devices
  BY <1>1, <1>4
<1> DEFINE c == Cardinality(keep)
           w == [k \in 1..c |-> q[At(k)]]
<1>7. w \in [1..c -> Devices]
  BY <1>6
<1>8. \A v : v \in [1..c -> Devices] => v \in Seq(Devices)
  <2> HIDE DEF c
  <2> QED  BY <1>3 DEF c
<1> QED  BY <1>5, <1>7, <1>8

LEMMA WithoutEmpty == \A d : Without(<< >>, d) = << >>
<1> SUFFICES ASSUME NEW d PROVE Without(<< >>, d) = << >>
  OBVIOUS
<1>1. {i \in DOMAIN << >> : << >>[i] # d} = {}
  OBVIOUS
<1>2. 1..Cardinality({}) = {}
  BY FS_EmptySet
<1> QED  BY <1>1, <1>2 DEF Without

LEMMA OpeningFinite ==
  \A e : IsFiniteSet(Opening(e)) /\ Cardinality(Opening(e)) \in Nat
<1>1. IsFiniteSet(Threads)
  BY ThreadAssumption, FS_AddElement DEF Threads
<1>2. \A e : Opening(e) \in SUBSET Threads
  BY DEF Opening
<1> QED  BY <1>1, <1>2, FS_Subset, FS_CardinalityType

\* A step of a thread that has begun: what it opens it has in hand, or stores.
LEMMA ThreadStep ==
  ASSUME TypeInv, NEW t \in Threads, NEW from, NEW to, Goes(t, from, to), from # "idle",
         QueueTypes', calls' = calls, device' \in [Devices -> Entry],
         \A e \in Devices :
           Spare(e)' >= Spare(e) + (IF e = dev[t] /\ to \in {"track", "store"} THEN 1 ELSE 0)
                                 - (IF e = dev[t] /\ from \in {"track", "store"} THEN 1 ELSE 0)
  PROVE  TypeInv'
<1>1. /\ pc[t] = from
      /\ pc' = [pc EXCEPT ![t] = to]
      /\ dev' = IF to = "idle" THEN [dev EXCEPT ![t] = NoDevice] ELSE dev
  BY DEF Goes
<1>2. /\ IsMap(pc', Threads)
      /\ \A u \in Threads : pc'[u] = IF u = t THEN to ELSE pc[u]
  <2>1. IsMap(pc, Threads)
    BY DEF TypeInv, ThreadTypes
  <2>2. /\ IsMap([pc EXCEPT ![t] = to], Threads)
        /\ \A u \in Threads : [pc EXCEPT ![t] = to][u] = IF u = t THEN to ELSE pc[u]
    BY <2>1 DEF IsMap
  <2> QED  BY <1>1, <2>1, <2>2
<1>3. /\ dev' \in [Threads -> Devices \cup {NoDevice}]
      /\ \A u \in Threads : dev'[u] = IF u = t /\ to = "idle" THEN NoDevice ELSE dev[u]
  BY <1>1 DEF TypeInv, ThreadTypes
<1>4. ThreadTypes'
  BY <1>1, <1>2, <1>3 DEF TypeInv, ThreadTypes
<1>5. ASSUME NEW e \in Devices
      PROVE  Cardinality(Opening(e)') <= Spare(e)'
  <2> DEFINE before == IF e = dev[t] /\ from \in {"track", "store"} THEN {t} ELSE {}
             after == IF e = dev[t] /\ to \in {"track", "store"} THEN {t} ELSE {}
             others == Opening(e) \ {t}
  <2>1. /\ Opening(e) = others \cup before
        /\ Opening(e)' = others \cup after
    BY <1>1, <1>2, <1>3, DeviceAssumption DEF Opening
  <2>2. IsFiniteSet(others) /\ t \notin others
    BY OpeningFinite, FS_Subset
  <2>3. Cardinality(others) \in Nat /\ Cardinality(others \cup {t}) = Cardinality(others) + 1
    BY <2>2, FS_AddElement, FS_CardinalityType
  <2>4. others \cup {} = others
    OBVIOUS
  <2>5. /\ Cardinality(Opening(e)) =
             Cardinality(others) + (IF e = dev[t] /\ from \in {"track", "store"} THEN 1 ELSE 0)
        /\ Cardinality(Opening(e)') =
             Cardinality(others) + (IF e = dev[t] /\ to \in {"track", "store"} THEN 1 ELSE 0)
    <3>1. /\ e = dev[t] /\ from \in {"track", "store"} => Opening(e) = others \cup {t}
          /\ ~(e = dev[t] /\ from \in {"track", "store"}) => Opening(e) = others
          /\ e = dev[t] /\ to \in {"track", "store"} => Opening(e)' = others \cup {t}
          /\ ~(e = dev[t] /\ to \in {"track", "store"}) => Opening(e)' = others
      BY <2>1, <2>4
    <3>2. \A S, b : (b => S = others \cup {t}) /\ (~b => S = others) =>
                     Cardinality(S) = Cardinality(others) + (IF b THEN 1 ELSE 0)
      <4> HIDE DEF others
      <4>1. Cardinality(others) + 0 = Cardinality(others)
        BY <2>3
      <4> QED  BY <2>3, <4>1
    <3> HIDE DEF others
    <3> QED  BY <3>1, <3>2
  <2>6. Spare(e) \in Int /\ Spare(e)' \in Int
    BY DEF Spare, TypeInv, Entry
  <2>7. Cardinality(Opening(e)) <= Spare(e)
    BY DEF TypeInv
  <2> HIDE DEF others
  <2> QED  BY <2>3, <2>5, <2>6, <2>7
<1>6. \A e \in Devices : (Cardinality(Opening(e)) <= Spare(e))'
  BY <1>5
<1> QED  BY <1>4, <1>6 DEF TypeInv

LEMMA TestTypes ==
  ASSUME TypeInv, NEW t \in Threads, NEW from, NEW to, Goes(t, from, to),
         from \notin {"idle", "track", "store"}, to \notin {"track", "store"},
         QueueTypes', UNCHANGED <<device, calls>>
  PROVE  TypeInv'
<1>1. \A e \in Devices : Spare(e)' = Spare(e) /\ Spare(e) \in Int
  BY DEF Spare, TypeInv, Entry
<1>2. device' \in [Devices -> Entry]
  BY DEF TypeInv
<1> QED  BY <1>1, <1>2, ThreadStep

LEMMA QueueKept ==
  ASSUME TypeInv, UNCHANGED queueVars
  PROVE  QueueTypes'
BY DEF TypeInv, QueueTypes, queueVars

\* The entries of a thread's device after a step of its own.
LEMMA EntryTypes ==
  ASSUME TypeInv, NEW t \in Threads, NEW from, NEW to, NEW r, Step(t, from, to, r),
         from # "idle",
         dev[t] \in Devices =>
           /\ r \in Entry
           /\ r.connections - (IF r.opened THEN 1 ELSE 0)
                >= Spare(dev[t]) + (IF to \in {"track", "store"} THEN 1 ELSE 0)
                                 - (IF from \in {"track", "store"} THEN 1 ELSE 0)
  PROVE  TypeInv'
<1>1. Goes(t, from, to) /\ calls' = calls /\ UNCHANGED queueVars
  BY DEF Step
<1>2. device' = [device EXCEPT ![dev[t]] = r] /\ device \in [Devices -> Entry]
  BY DEF Step, TypeInv
<1>3. /\ device' \in [Devices -> Entry]
      /\ \A e \in Devices : device'[e] = IF e = dev[t] THEN r ELSE device[e]
  BY <1>2
<1>4. \A e \in Devices :
        Spare(e)' >= Spare(e) + (IF e = dev[t] /\ to \in {"track", "store"} THEN 1 ELSE 0)
                              - (IF e = dev[t] /\ from \in {"track", "store"} THEN 1 ELSE 0)
  <2> SUFFICES ASSUME NEW e \in Devices
               PROVE  Spare(e)' >= Spare(e) + (IF e = dev[t] /\ to \in {"track", "store"} THEN 1 ELSE 0)
                              - (IF e = dev[t] /\ from \in {"track", "store"} THEN 1 ELSE 0)
    OBVIOUS
  <2>1. Spare(e) \in Int
    BY <1>2 DEF Spare, Entry
  <2>2. CASE e = dev[t]
    <3>1. Spare(e)' = r.connections - (IF r.opened THEN 1 ELSE 0)
      BY <1>3, <2>2 DEF Spare
    <3> QED  BY <2>1, <2>2, <3>1
  <2>3. CASE e # dev[t]
    <3>1. Spare(e)' = Spare(e)
      BY <1>3, <2>3 DEF Spare
    <3> QED  BY <2>1, <2>3, <3>1
  <2> QED  BY <2>2, <2>3
<1> QED  BY <1>1, <1>3, <1>4, QueueKept, ThreadStep

\* A thread begins to work on a device.
LEMMA BeginTypes ==
  ASSUME TypeInv, NEW t \in Threads, NEW d \in Devices, NEW to, Begin(t, d, to),
         to \notin {"idle", "track", "store"},
         QueueTypes', calls' \in 0..MaxCalls, device' \in [Devices -> Entry],
         \A e \in Devices : Spare(e)' = Spare(e)
  PROVE  TypeInv'
<1>1. pc[t] = "idle" /\ pc' = [pc EXCEPT ![t] = to] /\ dev' = [dev EXCEPT ![t] = d]
  BY DEF Begin
<1>2. /\ IsMap(pc', Threads)
      /\ \A u \in Threads : pc'[u] = IF u = t THEN to ELSE pc[u]
  <2>1. IsMap(pc, Threads)
    BY DEF TypeInv, ThreadTypes
  <2>2. /\ IsMap([pc EXCEPT ![t] = to], Threads)
        /\ \A u \in Threads : [pc EXCEPT ![t] = to][u] = IF u = t THEN to ELSE pc[u]
    BY <2>1 DEF IsMap
  <2> QED  BY <1>1, <2>1, <2>2
<1>3. /\ dev' \in [Threads -> Devices \cup {NoDevice}]
      /\ \A u \in Threads : dev'[u] = IF u = t THEN d ELSE dev[u]
  BY <1>1 DEF TypeInv, ThreadTypes
<1>4. ThreadTypes'
  BY <1>1, <1>2, <1>3, DeviceAssumption DEF TypeInv, ThreadTypes
<1>5. \A e \in Devices : Opening(e)' = Opening(e)
  BY <1>1, <1>2, <1>3 DEF Opening
<1>6. \A e \in Devices : (Cardinality(Opening(e)) <= Spare(e))'
  BY <1>5 DEF TypeInv
<1> QED  BY <1>4, <1>6 DEF TypeInv

LEMMA RunningTypes ==
  ASSUME TypeInv, NEW t \in Threads, Running(t)
  PROVE  TypeInv'
<1>0. dev[t] \in Devices => On(t) \in Entry
                            /\ Spare(dev[t]) = On(t).connections - (IF On(t).opened THEN 1 ELSE 0)
  BY DEF TypeInv, On, Entry, Spare
<1>1. CASE GuardTracker(t) \/ GuardPending(t) \/ TestQueue(t) \/ NextIsEmpty(t)
  BY <1>1, QueueKept, TestTypes DEF GuardTracker, GuardPending, TestQueue, NextIsEmpty, Test
<1>2. CASE HasPermission(t)
  <2>1. CASE Step(t, "permission", "cancel", [On(t) EXCEPT !.pending = TRUE])
    <3> DEFINE r == [On(t) EXCEPT !.pending = TRUE]
    <3>1. dev[t] \in Devices => /\ r \in Entry /\ r.connections = On(t).connections
                                /\ r.opened = On(t).opened /\ On(t).connections \in Int
      BY <1>0 DEF Entry
    <3>2. Step(t, "permission", "cancel", r)
      BY <2>1
    <3> HIDE DEF r
    <3> QED  BY <1>0, <3>1, <3>2, EntryTypes
  <2>2. CASE Test(t, "permission", "testQueue")
    BY <2>2, QueueKept, TestTypes DEF Test
  <2> QED  BY <1>2, <2>1, <2>2 DEF HasPermission
<1>3. CASE CancelPrevious(t)
  <2> DEFINE r == [On(t) EXCEPT !.job = "none"]
  <2>1. dev[t] \in Devices => /\ r \in Entry /\ r.connections = On(t).connections
                              /\ r.opened = On(t).opened /\ On(t).connections \in Int
    BY <1>0 DEF Entry
  <2>2. Step(t, "cancel", "launch", r)
    BY <1>3 DEF CancelPrevious
  <2> HIDE DEF r
  <2> QED  BY <1>0, <2>1, <2>2, EntryTypes
<1>4. CASE LaunchAttach(t)
  <2> DEFINE more == IF On(t).job = "waiting" THEN On(t).loose + 1 ELSE On(t).loose
             r == [On(t) EXCEPT !.job = "waiting", !.loose = more]
  <2>1. dev[t] \in Devices => more \in Nat
    BY <1>0 DEF Entry
  <2>2. Step(t, "launch", "idle", r)
    BY <1>4 DEF LaunchAttach
  <2> HIDE DEF more
  <2>3. dev[t] \in Devices => /\ r \in Entry /\ r.connections = On(t).connections
                              /\ r.opened = On(t).opened /\ On(t).connections \in Int
    BY <1>0, <2>1 DEF Entry
  <2> HIDE DEF r
  <2> QED  BY <1>0, <2>2, <2>3, EntryTypes
<1>5. CASE Enqueue(t)
  <2>1. dev[t] \in Devices
    BY <1>5 DEF Enqueue, Goes, TypeInv, ThreadTypes
  <2>2. QueueTypes'
    BY <1>5, <2>1 DEF Enqueue, TypeInv, QueueTypes
  <2> QED  BY <1>5, <2>2, TestTypes DEF Enqueue
<1>6. CASE Claim(t)
  <2>1. QueueTypes'
    BY <1>6 DEF Claim, TypeInv, QueueTypes
  <2> QED  BY <1>6, <2>1, TestTypes DEF Claim
<1>7. CASE Poll(t)
  <2>1. CASE queue = << >> /\ Test(t, "poll", "unclaim")
    BY <2>1, QueueKept, TestTypes DEF Test
  <2>2. CASE /\ queue # << >> /\ pc[t] = "poll"
             /\ pc' = [pc EXCEPT ![t] = "ask"] /\ dev' = [dev EXCEPT ![t] = Head(queue)]
             /\ queue' = Tail(queue)
             /\ UNCHANGED <<isRequesting, stranded, prompt, device, calls>>
    <3> DEFINE h == Head(queue)
    <3>1. h \in Devices /\ queue' \in Seq(Devices)
      BY <2>2 DEF TypeInv, QueueTypes
    <3>2. dev' = [dev EXCEPT ![t] = h]
      BY <2>2
    <3> HIDE DEF h
    <3>3. /\ IsMap(pc', Threads)
          /\ \A u \in Threads : pc'[u] = IF u = t THEN "ask" ELSE pc[u]
      <4>1. IsMap(pc, Threads) /\ pc' = [pc EXCEPT ![t] = "ask"]
        BY <2>2 DEF TypeInv, ThreadTypes
      <4>2. /\ IsMap([pc EXCEPT ![t] = "ask"], Threads)
            /\ \A u \in Threads : [pc EXCEPT ![t] = "ask"][u] = IF u = t THEN "ask" ELSE pc[u]
        BY <4>1 DEF IsMap
      <4> QED  BY <4>1, <4>2
    <3>4. /\ dev' \in [Threads -> Devices \cup {NoDevice}]
          /\ \A u \in Threads : dev'[u] = IF u = t THEN h ELSE dev[u]
      BY <3>1, <3>2 DEF TypeInv, ThreadTypes
    <3>5. ThreadTypes'
      BY <3>1, <3>3, <3>4, DeviceAssumption DEF TypeInv, ThreadTypes
    <3>6. \A e \in Devices : Opening(e)' = Opening(e) /\ Spare(e)' = Spare(e)
      BY <2>2, <3>3, <3>4 DEF Opening, Spare
    <3>7. \A e \in Devices : (Cardinality(Opening(e)) <= Spare(e))'
      BY <3>6 DEF TypeInv
    <3>8. QueueTypes'
      BY <2>2, <3>1 DEF TypeInv, QueueTypes
    <3> QED  BY <2>2, <3>5, <3>7, <3>8 DEF TypeInv
  <2> QED  BY <1>7, <2>1, <2>2 DEF Poll
<1>8. CASE Unclaim(t)
  <2>1. QueueTypes'
    BY <1>8 DEF Unclaim, TypeInv, QueueTypes
  <2> QED  BY <1>8, <2>1, TestTypes DEF Unclaim
<1>9. CASE Ask(t)
  <2>1. dev[t] \in Devices
    BY <1>9 DEF Ask, AskWith, Goes, TypeInv, ThreadTypes
  <2>2. QueueTypes'
    <3> DEFINE p == [device |-> dev[t], state |-> "launched", timer |-> TRUE]
    <3>1. PICK n \in Prompts : prompt' = [prompt EXCEPT ![n] = p]
      BY <1>9 DEF Ask, AskWith
    <3>2. p \in PromptType /\ p.device \in Devices
      BY <2>1 DEF PromptType
    <3> HIDE DEF p
    <3>3. /\ prompt' \in [Prompts -> PromptType]
          /\ \A m \in Prompts : prompt'[m] = IF m = n THEN p ELSE prompt[m]
      BY <3>1, <3>2 DEF TypeInv, QueueTypes
    <3> QED  BY <1>9, <3>2, <3>3 DEF Ask, AskWith, TypeInv, QueueTypes
  <2>3. device' = [device EXCEPT ![dev[t]].pending = TRUE] /\ device \in [Devices -> Entry]
    BY <1>9 DEF Ask, AskWith, TypeInv
  <2>4. /\ device' \in [Devices -> Entry]
        /\ \A e \in Devices : /\ device'[e].connections = device[e].connections
                              /\ device'[e].opened = device[e].opened
    <3> DEFINE r == [On(t) EXCEPT !.pending = TRUE]
    <3>1. r \in Entry /\ r.connections = On(t).connections /\ r.opened = On(t).opened
      BY <1>0, <2>1 DEF Entry
    <3>2. device' = [device EXCEPT ![dev[t]] = r]
      BY <2>3 DEF On
    <3> HIDE DEF r
    <3> QED  BY <2>1, <2>3, <3>1, <3>2 DEF On
  <2>5. \A e \in Devices : Spare(e)' = Spare(e) /\ Spare(e) \in Int
    BY <2>3, <2>4 DEF Spare, Entry
  <2>6. Goes(t, "ask", "idle") /\ calls' = calls
    BY <1>9 DEF Ask, AskWith
  <2> QED  BY <2>2, <2>4, <2>5, <2>6, ThreadStep
<1>10. CASE Deny(t) \/ Attached(t) \/ CleanupPending(t)
  <2> DEFINE r == [On(t) EXCEPT !.pending = FALSE]
  <2>1. dev[t] \in Devices => /\ r \in Entry /\ r.connections = On(t).connections
                              /\ r.opened = On(t).opened /\ On(t).connections \in Int
    BY <1>0 DEF Entry
  <2>2. \/ Step(t, "deny", "next", r)
        \/ Step(t, "attached", IF t = Main THEN "next" ELSE "idle", r)
        \/ Step(t, "cleanupPending", "invalidate", r)
    BY <1>10 DEF Deny, Attached, CleanupPending
  <2> HIDE DEF r
  <2> QED  BY <1>0, <2>1, <2>2, EntryTypes
<1>11. CASE OpenDevice(t)
  <2>1. CASE Step(t, "attach", "track", [On(t) EXCEPT !.connections = @ + 1])
    <3> DEFINE r == [On(t) EXCEPT !.connections = @ + 1]
    <3>1. dev[t] \in Devices => /\ r \in Entry /\ r.connections = On(t).connections + 1
                                /\ r.opened = On(t).opened /\ On(t).connections \in Int
      BY <1>0 DEF Entry
    <3>2. Step(t, "attach", "track", r)
      BY <2>1
    <3> HIDE DEF r
    <3> QED  BY <1>0, <3>1, <3>2, EntryTypes
  <2>2. CASE Test(t, "attach", "attached")
    BY <2>2, QueueKept, TestTypes DEF Test
  <2> QED  BY <1>11, <2>1, <2>2 DEF OpenDevice
<1>12. CASE Track(t)
  <2> DEFINE r == [On(t) EXCEPT !.tracked = TRUE]
  <2>1. dev[t] \in Devices => /\ r \in Entry /\ r.connections = On(t).connections
                              /\ r.opened = On(t).opened /\ On(t).connections \in Int
    BY <1>0 DEF Entry
  <2>2. Step(t, "track", "store", r)
    BY <1>12 DEF Track
  <2> HIDE DEF r
  <2> QED  BY <1>0, <2>1, <2>2, EntryTypes
<1>13. CASE StoreHandle(t)
  <2> DEFINE r == [On(t) EXCEPT !.opened = TRUE]
  <2>1. dev[t] \in Devices => /\ r \in Entry /\ r.connections = On(t).connections
                              /\ r.opened = TRUE /\ On(t).connections \in Int
    BY <1>0 DEF Entry
  <2>2. Step(t, "store", "update", r)
    BY <1>13 DEF StoreHandle
  <2> HIDE DEF r
  <2> QED  BY <1>0, <2>1, <2>2, EntryTypes
<1>14. CASE UpdateDeviceFd(t) \/ CleanupJob(t) \/ InvalidateDeviceFd(t) \/ Untrack(t)
  <2>1. PICK from \in {"update", "cleanup", "invalidate", "untrack"},
             to \in {"attached", "cleanupPending", "close", "idle"},
             r \in {[On(t) EXCEPT !.exported = TRUE], [On(t) EXCEPT !.job = "none"],
                    [On(t) EXCEPT !.exported = FALSE], [On(t) EXCEPT !.tracked = FALSE]} :
          Step(t, from, to, r)
    BY <1>14 DEF UpdateDeviceFd, CleanupJob, InvalidateDeviceFd, Untrack
  <2>2. dev[t] \in Devices => /\ r \in Entry /\ r.connections = On(t).connections
                              /\ r.opened = On(t).opened /\ On(t).connections \in Int
    BY <1>0 DEF Entry
  <2> QED  BY <1>0, <2>1, <2>2, EntryTypes
<1>15. CASE CloseHandle(t)
  <2> DEFINE left == IF On(t).opened THEN On(t).connections - 1 ELSE On(t).connections
             r == [On(t) EXCEPT !.opened = FALSE, !.connections = left]
  <2>1. dev[t] \in Devices => left \in Int
    BY <1>0 DEF Entry
  <2>2. Step(t, "close", "untrack", r)
    BY <1>15 DEF CloseHandle
  <2>3. dev[t] \in Devices => /\ r \in Entry /\ r.connections = left /\ r.opened = FALSE
    BY <1>0, <2>1 DEF Entry
  <2>4. dev[t] \in Devices => left >= Spare(dev[t]) /\ left \in Int
    BY <1>0, <2>1 DEF Entry
  <2> HIDE DEF r, left
  <2>5. dev[t] \in Devices => r.connections - (IF r.opened THEN 1 ELSE 0) = left
    BY <2>3, <2>4
  <2>6. dev[t] \in Devices => Spare(dev[t]) \in Int
    BY <1>0 DEF Entry
  <2> QED  BY <2>2, <2>3, <2>4, <2>5, <2>6, EntryTypes
<1> QED  BY <1>1, <1>2, <1>3, <1>4, <1>5, <1>6, <1>7, <1>8, <1>9, <1>10, <1>11, <1>12, <1>13,
            <1>14, <1>15 DEF Running

\* The steps by which a thread begins, and those of the prompts and the devices.
LEMMA OtherTypes ==
  ASSUME TypeInv,
         \/ \E t \in Threads, d \in Devices : HandleIncomingDevice(t, d)
         \/ \E t \in Io, d \in Devices : StartJob(t, d) \/ DisconnectDeviceManually(t, d)
         \/ \E t \in Io, n \in Prompts : Timeout(t, n)
         \/ \E n \in Prompts : RequestPermission(n) \/ UserAnswers(n) \/ PermissionResult(n)
         \/ \E d \in Devices : ConnectDeviceManually(d) \/ DetachDevice(d) \/ Unplug(d)
  PROVE  TypeInv'
<1>0. /\ device \in [Devices -> Entry] /\ Main \in Threads /\ Io \subseteq Threads
      /\ \A d \in Devices : device[d] \in Entry
  BY DEF TypeInv, Threads
<1>c. \A t \in Threads, d \in Devices : \A to : Call(t, d, to) => calls' \in 0..MaxCalls
  BY BoundAssumption DEF Call, TypeInv
<1>d. UNCHANGED calls => calls' \in 0..MaxCalls
  BY DEF TypeInv
<1>1. ASSUME NEW t \in Threads, NEW d \in Devices,
             HandleIncomingDevice(t, d) \/ DisconnectDeviceManually(t, d)
      PROVE  TypeInv'
  <2>1. PICK to \in {"guardTracker", "cleanup"} : Call(t, d, to)
    BY <1>1 DEF HandleIncomingDevice, DisconnectDeviceManually
  <2>2. UNCHANGED <<queueVars, device>>
    BY <1>1 DEF HandleIncomingDevice, DisconnectDeviceManually
  <2>3. \A e \in Devices : Spare(e)' = Spare(e)
    BY <2>2 DEF Spare
  <2>4. Begin(t, d, to) /\ calls' \in 0..MaxCalls
    BY <1>c, <2>1 DEF Call
  <2> QED  BY <1>0, <2>2, <2>3, <2>4, QueueKept, BeginTypes
<1>2. ASSUME NEW t \in Io, NEW d \in Devices, StartJob(t, d)
      PROVE  TypeInv'
  <2>1. Begin(t, d, "attach") /\ UNCHANGED queueVars /\ calls' = calls
    BY <1>2 DEF StartJob
  <2>2. /\ device' \in [Devices -> Entry]
        /\ \A e \in Devices : /\ device'[e].connections = device[e].connections
                              /\ device'[e].opened = device[e].opened
    <3>1. CASE device' = [device EXCEPT ![d].job = "started"]
      BY <1>0, <3>1 DEF Entry
    <3>2. CASE device[d].loose > 0 /\ device' = [device EXCEPT ![d].loose = @ - 1]
      BY <1>0, <3>2 DEF Entry
    <3> QED  BY <1>2, <3>1, <3>2 DEF StartJob
  <2>3. \A e \in Devices : Spare(e)' = Spare(e)
    BY <2>2 DEF Spare
  <2> QED  BY <1>0, <1>d, <2>1, <2>2, <2>3, QueueKept, BeginTypes
<1>3. ASSUME NEW t \in Io, NEW n \in Prompts, Timeout(t, n)
      PROVE  TypeInv'
  <2>1. /\ prompt' = [prompt EXCEPT ![n].timer = FALSE] /\ isRequesting' = FALSE
        /\ prompt[n].timer
        /\ UNCHANGED <<queue, stranded, device, calls>>
    BY <1>3 DEF Timeout
  <2>2. /\ prompt' \in [Prompts -> PromptType]
        /\ \A m \in Prompts : /\ prompt'[m].device = prompt[m].device
                              /\ prompt'[m].state = prompt[m].state
                              /\ prompt'[m].timer => prompt[m].timer
    BY <2>1 DEF TypeInv, QueueTypes, PromptType
  <2>3. QueueTypes'
    BY <2>1, <2>2 DEF TypeInv, QueueTypes
  <2>4. prompt[n].device \in Devices
    BY <2>1 DEF TypeInv, QueueTypes
  <2>5. \A e \in Devices : Spare(e)' = Spare(e)
    BY <2>1 DEF Spare
  <2>6. CASE isRequesting
    <3>1. Begin(t, prompt[n].device, "deny")
      BY <1>3, <2>6 DEF Timeout
    <3> QED  BY <1>0, <1>d, <2>1, <2>3, <2>4, <2>5, <3>1, BeginTypes
  <2>7. CASE ~isRequesting
    <3>1. UNCHANGED <<pc, dev>>
      BY <1>3, <2>7 DEF Timeout
    <3>2. \A e \in Devices : Opening(e)' = Opening(e)
      BY <3>1 DEF Opening
    <3> QED  BY <2>1, <2>3, <2>5, <3>1, <3>2 DEF TypeInv, ThreadTypes, IsMap
  <2> QED  BY <2>6, <2>7
<1>4. ASSUME NEW n \in Prompts, RequestPermission(n) \/ UserAnswers(n)
      PROVE  TypeInv'
  <2>1. PICK s \in {"shown", "granted", "denied"} : prompt' = [prompt EXCEPT ![n].state = s]
    BY <1>4 DEF RequestPermission, UserAnswers
  <2>2. prompt[n].state # "none" /\ UNCHANGED <<queue, isRequesting, stranded, pc, dev, calls>>
    BY <1>4 DEF RequestPermission, UserAnswers
  <2>3. /\ prompt' \in [Prompts -> PromptType]
        /\ \A m \in Prompts : /\ prompt'[m].device = prompt[m].device
                              /\ prompt'[m].timer = prompt[m].timer
                              /\ m # n => prompt'[m].state = prompt[m].state
    BY <2>1 DEF TypeInv, QueueTypes, PromptType
  <2>4. QueueTypes'
    BY <2>2, <2>3 DEF TypeInv, QueueTypes
  <2>5. /\ device' \in [Devices -> Entry]
        /\ \A e \in Devices : /\ device'[e].connections = device[e].connections
                              /\ device'[e].opened = device[e].opened
    <3>1. CASE device' = device
      BY <1>0, <3>1
    <3>2. CASE device' = [device EXCEPT ![prompt[n].device].permitted = TRUE]
      BY <1>0, <3>2 DEF Entry
    <3> QED  BY <1>4, <3>1, <3>2 DEF RequestPermission, UserAnswers
  <2>6. \A e \in Devices : Spare(e)' = Spare(e) /\ Opening(e)' = Opening(e)
    BY <2>2, <2>5 DEF Spare, Opening
  <2> QED  BY <2>2, <2>4, <2>5, <2>6 DEF TypeInv, ThreadTypes, IsMap
<1>5. ASSUME NEW n \in Prompts, PermissionResult(n)
      PROVE  TypeInv'
  <2>1. /\ prompt[n].state # "none"
        /\ \E to \in {"attach", "deny"} : Begin(Main, prompt[n].device, to)
        /\ prompt' = [prompt EXCEPT ![n].state = "answered"] /\ isRequesting' = FALSE
        /\ UNCHANGED <<queue, stranded, device, calls>>
    BY <1>5 DEF PermissionResult
  <2>2. /\ prompt' \in [Prompts -> PromptType]
        /\ \A m \in Prompts : /\ prompt'[m].device = prompt[m].device
                              /\ prompt'[m].timer = prompt[m].timer
                              /\ m # n => prompt'[m].state = prompt[m].state
    BY <2>1 DEF TypeInv, QueueTypes, PromptType
  <2>3. QueueTypes'
    BY <2>1, <2>2 DEF TypeInv, QueueTypes
  <2>4. prompt[n].device \in Devices
    BY <2>1 DEF TypeInv, QueueTypes
  <2>5. \A e \in Devices : Spare(e)' = Spare(e)
    BY <2>1 DEF Spare
  <2> QED  BY <1>0, <1>d, <2>1, <2>3, <2>4, <2>5, BeginTypes
<1>6. ASSUME NEW d \in Devices, ConnectDeviceManually(d) \/ DetachDevice(d)
      PROVE  TypeInv'
  <2>1. /\ device' \in [Devices -> Entry]
        /\ \A e \in Devices : /\ device'[e].connections = device[e].connections
                              /\ device'[e].opened = device[e].opened
    <3>1. CASE device' = [device EXCEPT ![d].pending = FALSE]
      BY <1>0, <3>1 DEF Entry
    <3>2. CASE device' = [device EXCEPT ![d].plug = "gone"]
      BY <1>0, <3>2 DEF Entry
    <3> QED  BY <1>6, <3>1, <3>2 DEF ConnectDeviceManually, DetachDevice
  <2>2. \A e \in Devices : Spare(e)' = Spare(e)
    BY <2>1 DEF Spare
  <2>3. QueueTypes'
    <3>1. CASE ConnectDeviceManually(d)
      BY <3>1, QueueKept DEF ConnectDeviceManually
    <3>2. CASE DetachDevice(d)
      <4>1. queue' \in Seq(Devices)
        BY <3>2, WithoutType DEF DetachDevice, TypeInv, QueueTypes
      <4> QED  BY <3>2, <4>1 DEF DetachDevice, TypeInv, QueueTypes
    <3> QED  BY <1>6, <3>1, <3>2
  <2>4. calls' \in 0..MaxCalls /\ \E to \in {"guardTracker", "cleanup"} : Begin(Main, d, to)
    BY <1>0, <1>6, <1>c, <1>d DEF ConnectDeviceManually, DetachDevice, Call
  <2> QED  BY <1>0, <2>1, <2>2, <2>3, <2>4, BeginTypes
<1>7. ASSUME NEW d \in Devices, Unplug(d)
      PROVE  TypeInv'
  <2> DEFINE r == [device[d] EXCEPT !.plug = "out", !.permitted = FALSE]
  <2>1. /\ device' = [device EXCEPT ![d] = r]
        /\ UNCHANGED <<queueVars, pc, dev, calls>>
    <3>1. device' = [device EXCEPT ![d].plug = "out", ![d].permitted = FALSE]
      BY <1>7 DEF Unplug
    <3> QED  BY <1>0, <1>7, <3>1 DEF Unplug, Entry
  <2>2. r \in Entry /\ r.connections = device[d].connections /\ r.opened = device[d].opened
    BY <1>0 DEF Entry
  <2> HIDE DEF r
  <2>3. /\ device' \in [Devices -> Entry]
        /\ \A e \in Devices : /\ device'[e].connections = device[e].connections
                              /\ device'[e].opened = device[e].opened
    BY <1>0, <2>1, <2>2
  <2>4. \A e \in Devices : Spare(e)' = Spare(e) /\ Opening(e)' = Opening(e)
    BY <2>1, <2>3 DEF Spare, Opening
  <2>5. QueueTypes'
    BY <2>1, QueueKept
  <2> QED  BY <2>1, <2>3, <2>4, <2>5 DEF TypeInv, ThreadTypes, IsMap
<1> QED  BY <1>0, <1>1, <1>2, <1>3, <1>4, <1>5, <1>6, <1>7

LEMMA InitTypes == Init => TypeInv
<1> SUFFICES ASSUME Init PROVE TypeInv
  OBVIOUS
<1>1. QueueTypes
  <2> DEFINE none == [device |-> NoDevice, state |-> "none", timer |-> FALSE]
  <2>1. none \in PromptType /\ none.state = "none" /\ ~none.timer
    BY DEF PromptType
  <2>2. prompt = [n \in Prompts |-> none]
    BY DEF Init
  <2> HIDE DEF none
  <2>3. prompt \in [Prompts -> PromptType] /\ \A n \in Prompts : prompt[n] = none
    BY <2>1, <2>2
  <2>4. queue = << >> /\ isRequesting = FALSE /\ stranded = FALSE
    BY DEF Init
  <2>5. \A n \in Prompts : ~(prompt[n].state # "none" \/ prompt[n].timer)
    BY <2>1, <2>3
  <2>6. queue \in Seq(Devices) /\ isRequesting \in BOOLEAN /\ stranded \in BOOLEAN
    <3>1. << >> \in Seq(Devices)
      OBVIOUS
    <3> QED  BY <2>4, <3>1, Zenon
  <2>7. \A n \in Prompts : prompt[n].state # "none" \/ prompt[n].timer => prompt[n].device \in Devices
    BY <2>5
  <2> QED  BY <2>3, <2>6, <2>7, Zenon DEF QueueTypes
<1>2. ThreadTypes
  BY DEF Init, ThreadTypes, IsMap
<1>3. device \in [Devices -> Entry]
  BY DEF Init, Entry
<1>4. ASSUME NEW e \in Devices
      PROVE  Cardinality(Opening(e)) <= Spare(e)
  <2>1. Opening(e) = {}
    BY DEF Init, Opening
  <2>2. Spare(e) = 0
    BY <1>4 DEF Init, Spare
  <2> QED  BY <2>1, <2>2, FS_EmptySet
<1> QED  BY <1>1, <1>2, <1>3, <1>4, BoundAssumption DEF Init, TypeInv

LEMMA TypesKept == Spec => []TypeInv
<1>1. ASSUME TypeInv, [Next]_vars
      PROVE  TypeInv'
  <2> USE <1>1
  <2>1. CASE UNCHANGED vars
    <3>1. \A e \in Devices : Opening(e)' = Opening(e) /\ Spare(e)' = Spare(e)
      BY <2>1 DEF vars, Opening, Spare
    <3> QED  BY <2>1, <3>1 DEF vars, queueVars, TypeInv, QueueTypes, ThreadTypes, IsMap
  <2>2. CASE Next
    BY <2>2, RunningTypes, OtherTypes DEF Next
  <2> QED  BY <2>1, <2>2
<1> QED  BY InitTypes, <1>1, PTL DEF Spec

\* A queue entry is a device, a thread under way has one, and no order of attaches and
\* clean-ups counts a connection off that was not counted.
THEOREM TypeCorrect == Spec => []TypeOK
<1>1. TypeInv => TypeOK
  <2> SUFFICES ASSUME TypeInv PROVE TypeOK
    OBVIOUS
  <2>1. \A e \in Devices : device[e].connections \in Nat
    <3> SUFFICES ASSUME NEW e \in Devices PROVE device[e].connections \in Nat
      OBVIOUS
    <3>1. device[e].connections \in Int /\ Cardinality(Opening(e)) \in Nat
      BY OpeningFinite DEF TypeInv, Entry
    <3>2. Cardinality(Opening(e)) <= Spare(e)
      BY DEF TypeInv
    <3> QED  BY <3>1, <3>2 DEF Spare
  <2>2. device \in [Devices ->
       [pending : BOOLEAN, tracked : BOOLEAN, opened : BOOLEAN, exported : BOOLEAN,
        permitted : BOOLEAN, job : {"none", "waiting", "started"}, loose : Nat,
        plug : {"in", "out", "gone"}, connections : Nat]]
    BY <2>1 DEF TypeInv, Entry
  <2>3. \A t \in Threads : (dev[t] = NoDevice) = (pc[t] = "idle")
    BY DEF TypeInv, ThreadTypes
  <2> QED  BY <2>2, <2>3 DEF TypeInv, QueueTypes, PromptType, TypeOK
<1> QED  BY <1>1, TypesKept, PTL


-----------------------------------------------------------------------------
(* The queue is looked after *)

\* The points from which a thread goes on to the queue.
OnTheWay(t, p) ==
  p \in {"next", "claim", "deny"}
    \/ (t = Main /\ p \in {"attach", "track", "store", "update", "attached"})

Looked == \E t \in Threads : OnTheWay(t, pc[t])

\* A thread on its way gets there.
LEMMA WayKept ==
  ASSUME ThreadTypes, NEW t \in Threads, NEW from, NEW to, Goes(t, from, to), Looked,
         OnTheWay(t, from) => OnTheWay(t, to)
  PROVE  Looked'
<1>1. PICK u \in Threads : OnTheWay(u, pc[u])
  BY DEF Looked
<1>2. \A v \in Threads : pc'[v] = IF v = t THEN to ELSE pc[v]
  BY DEF Goes, ThreadTypes, IsMap
<1>3. OnTheWay(u, pc'[u])
  BY <1>1, <1>2 DEF Goes
<1> QED  BY <1>3 DEF Looked

LEMMA WayBegun ==
  ASSUME ThreadTypes, NEW t \in Threads, NEW d, NEW to, Begin(t, d, to), Looked
  PROVE  Looked'
<1>1. PICK u \in Threads : OnTheWay(u, pc[u])
  BY DEF Looked
<1>2. \A v \in Threads : pc'[v] = IF v = t THEN to ELSE pc[v]
  BY DEF Begin, ThreadTypes, IsMap
<1>3. u # t
  BY <1>1 DEF Begin, OnTheWay
<1> QED  BY <1>1, <1>2, <1>3 DEF Looked

LEMMA WayReached ==
  ASSUME ThreadTypes, NEW t \in Threads, NEW to, pc' = [pc EXCEPT ![t] = to], OnTheWay(t, to)
  PROVE  Looked'
<1>1. pc'[t] = to
  BY DEF ThreadTypes, IsMap
<1> QED  BY <1>1 DEF Looked

Forgotten == queue # << >> /\ ~isRequesting /\ ~stranded

LEMMA LookedFor == NotForgotten <=> (Forgotten => Looked)
<1>1. Main \in Threads
  BY DEF Threads
<1> QED  BY <1>1 DEF NotForgotten, Forgotten, Looked, OnTheWay

LEMMA RunningLooks ==
  ASSUME TypeInv, Forgotten => Looked, NEW t \in Threads, Running(t), Forgotten'
  PROVE  Looked'
<1>0. ThreadTypes
  BY DEF TypeInv
<1>1. CASE \/ GuardTracker(t) \/ GuardPending(t) \/ HasPermission(t) \/ CancelPrevious(t)
           \/ LaunchAttach(t) \/ TestQueue(t) \/ Deny(t) \/ OpenDevice(t) \/ Track(t)
           \/ StoreHandle(t) \/ UpdateDeviceFd(t) \/ Attached(t) \/ CleanupJob(t)
           \/ CleanupPending(t) \/ InvalidateDeviceFd(t) \/ CloseHandle(t) \/ Untrack(t)
  <2>1. UNCHANGED queueVars
    BY <1>1 DEF GuardTracker, GuardPending, HasPermission, CancelPrevious, LaunchAttach, TestQueue,
                Deny, OpenDevice, Track, StoreHandle, UpdateDeviceFd, Attached, CleanupJob,
                CleanupPending, InvalidateDeviceFd, CloseHandle, Untrack, Test, Step
  <2>2. Looked
    BY <2>1 DEF Forgotten, queueVars
  <2>3. PICK from, to : Goes(t, from, to) /\ (OnTheWay(t, from) => OnTheWay(t, to))
    <3>1. CASE GuardTracker(t) \/ GuardPending(t) \/ HasPermission(t) \/ CancelPrevious(t)
                 \/ LaunchAttach(t) \/ TestQueue(t)
      BY <3>1 DEF GuardTracker, GuardPending, HasPermission, CancelPrevious, LaunchAttach,
                  TestQueue, Test, Step, OnTheWay
    <3>2. CASE Deny(t)
      BY <3>2 DEF Deny, Step, OnTheWay
    <3>3. CASE OpenDevice(t)
      BY <3>3 DEF OpenDevice, Test, Step, OnTheWay
    <3>4. CASE Track(t) \/ StoreHandle(t) \/ UpdateDeviceFd(t)
      BY <3>4 DEF Track, StoreHandle, UpdateDeviceFd, Step, OnTheWay
    <3>5. CASE Attached(t)
      BY <3>5 DEF Attached, Step, OnTheWay
    <3>6. CASE CleanupJob(t) \/ CleanupPending(t) \/ InvalidateDeviceFd(t) \/ CloseHandle(t)
                 \/ Untrack(t)
      BY <3>6 DEF CleanupJob, CleanupPending, InvalidateDeviceFd, CloseHandle, Untrack, Step,
                  OnTheWay
    <3> QED  BY <1>1, <3>1, <3>2, <3>3, <3>4, <3>5, <3>6
  <2> QED  BY <1>0, <2>2, <2>3, WayKept
<1>2. CASE Enqueue(t)
  <2>1. pc' = [pc EXCEPT ![t] = "next"]
    BY <1>2 DEF Enqueue, Goes
  <2> QED  BY <1>0, <2>1, WayReached DEF OnTheWay
<1>3. CASE NextIsEmpty(t)
  <2>1. Looked /\ Goes(t, "next", "claim")
    BY <1>3 DEF NextIsEmpty, Test, queueVars, Forgotten
  <2> QED  BY <1>0, <2>1, WayKept DEF OnTheWay
<1>4. CASE Claim(t)
  BY <1>4 DEF Claim, Forgotten
<1>5. CASE Poll(t)
  <2>1. CASE queue = << >> /\ Test(t, "poll", "unclaim")
    BY <2>1 DEF Test, queueVars, Forgotten
  <2>2. CASE /\ queue # << >> /\ pc[t] = "poll" /\ pc' = [pc EXCEPT ![t] = "ask"]
             /\ UNCHANGED <<isRequesting, stranded>>
    <3>1. Looked
      BY <2>2 DEF Forgotten
    <3>2. PICK u \in Threads : OnTheWay(u, pc[u])
      BY <3>1 DEF Looked
    <3>3. u # t
      BY <2>2, <3>2 DEF OnTheWay
    <3>4. pc'[u] = pc[u]
      BY <1>0, <2>2, <3>3 DEF ThreadTypes, IsMap
    <3> QED  BY <3>2, <3>4 DEF Looked
  <2> QED  BY <1>5, <2>1, <2>2 DEF Poll
<1>6. CASE Unclaim(t)
  BY <1>6 DEF Unclaim, Forgotten
<1>7. CASE Ask(t)
  <2>1. Looked /\ Goes(t, "ask", "idle")
    BY <1>7 DEF Ask, AskWith, Forgotten
  <2> QED  BY <1>0, <2>1, WayKept DEF OnTheWay
<1> QED  BY <1>1, <1>2, <1>3, <1>4, <1>5, <1>6, <1>7 DEF Running

\* A device waits in the queue with no request outstanding only while somebody is on the way
\* to it, or somebody has cleared the flag over it: no answer, timeout, denial, failed
\* attach or detach leaves the queue to itself.
THEOREM QueueNotForgotten == Spec => []NotForgotten
<1>1. ASSUME TypeInv, Forgotten => Looked, [Next]_vars
      PROVE  (Forgotten => Looked)'
  <2> SUFFICES ASSUME Forgotten' PROVE Looked'
    OBVIOUS
  <2> USE <1>1
  <2>0. ThreadTypes /\ Main \in Threads /\ Io \subseteq Threads
    BY DEF TypeInv, Threads
  <2>1. CASE UNCHANGED vars
    BY <2>1 DEF vars, queueVars, Forgotten, Looked
  <2>2. ASSUME NEW t \in Threads, Running(t)
        PROVE  Looked'
    BY <2>2, RunningLooks
  <2>3. ASSUME NEW t \in Threads, NEW d \in Devices,
               \/ HandleIncomingDevice(t, d) \/ StartJob(t, d) \/ DisconnectDeviceManually(t, d)
               \/ t = Main /\ (ConnectDeviceManually(d) \/ DetachDevice(d))
        PROVE  Looked'
    <3>1. \E to : Begin(t, d, to)
      BY <2>3 DEF HandleIncomingDevice, StartJob, DisconnectDeviceManually, ConnectDeviceManually,
                  DetachDevice, Call
    <3>2. Forgotten
      <4>1. UNCHANGED <<isRequesting, stranded>>
        BY <2>3 DEF HandleIncomingDevice, StartJob, DisconnectDeviceManually,
                    ConnectDeviceManually, DetachDevice, queueVars
      <4>2. queue' = queue \/ queue' = Without(queue, d)
        BY <2>3 DEF HandleIncomingDevice, StartJob, DisconnectDeviceManually,
                    ConnectDeviceManually, DetachDevice, queueVars
      <4> QED  BY <4>1, <4>2, WithoutEmpty DEF Forgotten
    <3> QED  BY <2>0, <3>1, <3>2, WayBegun
  <2>4. ASSUME NEW t \in Io, NEW n \in Prompts, Timeout(t, n)
        PROVE  Looked'
    <3>1. CASE isRequesting
      <4>1. pc' = [pc EXCEPT ![t] = "deny"]
        BY <2>4, <3>1 DEF Timeout, Begin
      <4> QED  BY <2>0, <4>1, WayReached DEF OnTheWay
    <3>2. CASE ~isRequesting
      BY <2>4, <3>2 DEF Timeout, Forgotten, Looked
    <3> QED  BY <3>1, <3>2
  <2>5. ASSUME NEW n \in Prompts, RequestPermission(n) \/ UserAnswers(n)
        PROVE  Looked'
    BY <2>5 DEF RequestPermission, UserAnswers, Forgotten, Looked
  <2>6. ASSUME NEW n \in Prompts, PermissionResult(n)
        PROVE  Looked'
    <3>1. PICK to \in {"attach", "deny"} : pc' = [pc EXCEPT ![Main] = to]
      BY <2>6 DEF PermissionResult, Begin
    <3> QED  BY <2>0, <3>1, WayReached DEF OnTheWay
  <2>7. ASSUME NEW d \in Devices, Unplug(d)
        PROVE  Looked'
    BY <2>7 DEF Unplug, queueVars, Forgotten, Looked
  <2> QED  BY <2>0, <2>1, <2>2, <2>3, <2>4, <2>5, <2>6, <2>7 DEF Next
<1>2. Init => (Forgotten => Looked)
  BY DEF Init, Forgotten
<1> QED  BY <1>1, <1>2, TypesKept, LookedFor, PTL DEF Spec

-----------------------------------------------------------------------------
\* isRequestingPermission is never left set with nobody to clear it, however many
\* threads claim it and whatever timers and answers arrive.
THEOREM FlagCleared == Spec => []FlagReleased
<1>1. Inv => FlagReleased
  BY DEF Inv
<1> QED  BY <1>1, Invariance, PTL

\* A pendingConnections entry always has a reason: no order of attach, answer, timeout,
\* clean-up and cancellation leaves one behind that turns the device away for good.
THEOREM PendingHasReason == Spec => []PendingExplained
<1>1. Inv => PendingExplained
  BY DEF Inv, Explained, Carried, JobWaits, Asked, PendingExplained
<1> QED  BY <1>1, Invariance, PTL
=============================================================================
