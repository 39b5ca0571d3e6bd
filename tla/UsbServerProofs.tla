---------------------------- MODULE UsbServerProofs ----------------------------
(* The safety properties of UsbServer for any keys, fingerprints, connections,   *)
(* requests, capacities and faults.                                              *)
EXTENDS UsbServer, SequenceTheorems, TLAPS

USE DEF socketVars, cacheVars, stopVars, admitVars, history

-----------------------------------------------------------------------------
(* Types.                                                                        *)

TypeInv == TypeOK /\ InvRequest

\* What is queued for the desktop is queued for a generation.
LEMMA SendForType ==
  ASSUME TypeOK, NEW g, SendFor(g)
  PROVE  /\ outbound' \in Seq(Generations)
         /\ link' \in [Generations -> {"none", "up", "lost", "closed"}]
         /\ client' = client
  <1>1. CASE Accepts(g)
    <2>1. client \in Generations
      BY <1>1 DEF TypeOK, Accepts, IsCurrent, MaybeGeneration, Generations, NoGeneration
    <2> QED BY <1>1, <2>1, AppendProperties DEF TypeOK, SendFor, Accepts
  <1>2. CASE ~Accepts(g)
    BY <1>2 DEF TypeOK, SendFor
  <1> QED BY <1>1, <1>2

\* Sending a result keeps the queue and the counters of results well typed.
LEMMA AnswerType ==
  ASSUME TypeOK, NEW g, NEW k \in Keys, Answer(g, k)
  PROVE  /\ outbound' \in Seq(Generations)
         /\ link' \in [Generations -> {"none", "up", "lost", "closed"}]
         /\ client' = client
         /\ answered' \in [Generations \X Keys -> Nat]
  <1>1. answered' \in [Generations \X Keys -> Nat]
    <2>1. CASE Accepts(g)
      <3>1. client \in Generations
        BY <2>1 DEF TypeOK, Accepts, IsCurrent, MaybeGeneration, Generations, NoGeneration
      <3> QED BY <2>1, <3>1 DEF TypeOK, Answer
    <2>2. CASE ~Accepts(g)
      BY <2>2 DEF TypeOK, Answer
    <2> QED BY <2>1, <2>2
  <1> QED BY <1>1, SendForType DEF Answer

\* What is left of the cache has proper entries.
LEMMA ForgetType ==
  ASSUME TypeOK, NEW old, Forget(old)
  PROVE  cache' \in [Keys -> Entries \cup {Absent}] /\ order' \in [Keys -> SUBSET Keys]
  BY DEF TypeOK, Forget

\* A teardown leaves the links, the queue and the cache well typed.
LEMMA TeardownType ==
  ASSUME TypeOK, NEW g \in Generations, Teardown(g)
  PROVE  /\ client' \in MaybeGeneration /\ outbound' \in Seq(Generations)
         /\ link' \in [Generations -> {"none", "up", "lost", "closed"}]
         /\ cache' \in [Keys -> Entries \cup {Absent}] /\ order' \in [Keys -> SUBSET Keys]
  BY ForgetType, EmptySeq, BoundsAssumption
     DEF TypeOK, Teardown, CancelGeneration, MaybeGeneration, NoGeneration

\* A worker that is not idle has a command of a real generation.
LEMMA WorkerTask ==
  ASSUME TypeOK, worker.at # "idle"
  PROVE  worker.task \in Tasks /\ worker.deliveries \in Nat
  BY DEF TypeOK, WorkerStates, IdleWorker

\* A key that the cache knows has a proper entry.
LEMMA EntryType ==
  ASSUME TypeOK, NEW k \in Keys, cache[k].state # "absent"
  PROVE  cache[k] \in Entries /\ cache[k].waiters \in Nat
  <1>1. cache[k] \in Entries
    BY DEF TypeOK, Absent
  <1> QED BY <1>1 DEF Entries

\* The command of the worker is still in the cache.
LEMMA MineType ==
  ASSUME TypeOK, worker.at # "idle", Mine
  PROVE  /\ worker.task.key \in Keys
         /\ cache[worker.task.key] \in Entries /\ cache[worker.task.key].waiters \in Nat
  <1>1. worker.task.key \in Keys
    BY WorkerTask DEF Tasks
  <1>2. cache[worker.task.key].state = "running"
    BY DEF Mine, Known
  <1> QED BY <1>1, <1>2, EntryType

\* The results a completed command sends are counted by the waiters of its entry.
LEMMA DeliveriesType ==
  ASSUME TypeOK, worker.at # "idle"
  PROVE  Deliveries \in Nat
  <1>1. CASE Mine
    BY <1>1, MineType DEF Deliveries
  <1>2. CASE ~Mine
    BY <1>2 DEF Deliveries
  <1> QED BY <1>1, <1>2

\* The worker that took a command is a proper worker.
LEMMA WorkingType ==
  ASSUME TypeOK, worker.at # "idle", NEW d \in Nat,
         NEW at \in {"admitted", "executed", "answering"}, Working(at, d)
  PROVE  worker' \in WorkerStates
  BY WorkerTask DEF Working, WorkerStates

\* The server starts well typed, with readers that have no request (the constructor of
\* UsbServer and runServer before the first accept).
THEOREM TypeInvInit == Init => TypeInv
  BY BoundsAssumption, EmptySeq
     DEF Init, TypeInv, TypeOK, InvRequest, MaybeGeneration, NoGeneration, WorkerStates, Generations

\* Every handler of the server, of a connection and of the worker keeps the types.
THEOREM TypeInvStep == TypeInv /\ [Next]_vars => TypeInv'
  <1> SUFFICES ASSUME TypeInv, [Next]_vars PROVE TypeInv'
    OBVIOUS
  <1> USE DEF TypeInv
  <1>1. CASE Admit
    <2>1. nextGeneration' \in Generations /\ nextGeneration' \in MaybeGeneration
      BY <1>1, BoundsAssumption DEF TypeOK, Admit, MaybeGeneration, Generations
    <2> QED BY <1>1, <2>1, EmptySeq DEF TypeOK, Admit, InvRequest, Goto, MaybeGeneration, Generations
  <1>2. CASE SendEvent
    BY <1>2, SendForType DEF TypeOK, SendEvent, InvRequest
  <1>3. CASE WorkerStep
    <2>1. CASE TakeTask
      <3>1. Head(tasks) \in Tasks /\ tasks' \in Seq(Tasks)
        BY <2>1, HeadTailProperties DEF TypeOK, TakeTask
      <3>2. worker' \in WorkerStates
        BY <2>1, <3>1 DEF TypeOK, TakeTask, WorkerStates
      <3>3. cache' \in [Keys -> Entries \cup {Absent}] /\ order' \in [Keys -> SUBSET Keys]
        BY <2>1, ForgetType DEF TypeOK, TakeTask, CancelGeneration
      <3> QED BY <2>1, <3>1, <3>2, <3>3 DEF TypeOK, TakeTask, InvRequest
    <2>2. CASE Execute
      BY <2>2, WorkerTask, WorkingType DEF TypeOK, Execute, InvRequest, Tasks
    <2>3. CASE Complete
      <3>1. worker' \in WorkerStates
        BY <2>3, DeliveriesType, WorkingType DEF Complete
      <3>2. cache' \in [Keys -> Entries \cup {Absent}]
        <4>1. CASE Mine
          <5> DEFINE k == worker.task.key
          <5> DEFINE e == [cache[k] EXCEPT !.state = "complete", !.waiters = 0]
          <5>1. k \in Keys /\ cache[k] \in Entries
            BY <2>3, <4>1, MineType DEF Complete
          <5>2. e \in Entries
            BY <5>1 DEF Entries
          <5>3. cache' = [cache EXCEPT ![k] = e]
            BY <2>3, <4>1, <5>1 DEF Complete, TypeOK
          <5> HIDE DEF e, k
          <5> QED BY <5>1, <5>2, <5>3 DEF TypeOK
        <4>2. CASE ~Mine
          BY <2>3, <4>2 DEF TypeOK, Complete
        <4> QED BY <4>1, <4>2
      <3> QED BY <2>3, <3>1, <3>2 DEF TypeOK, Complete, InvRequest
    <2>4. CASE Fail
      BY <2>4, DeliveriesType, WorkingType, ForgetType DEF TypeOK, Fail, InvRequest
    <2>5. CASE Deliver
      <3>1. worker.deliveries - 1 \in Nat /\ worker.task.key \in Keys
        BY <2>5, WorkerTask DEF Deliver, Tasks
      <3> QED BY <2>5, <3>1, WorkingType, AnswerType DEF TypeOK, Deliver, InvRequest
    <2>6. CASE TaskDone
      BY <2>6 DEF TypeOK, TaskDone, InvRequest, WorkerStates
    <2> QED BY <1>3, <2>1, <2>2, <2>3, <2>4, <2>5, <2>6 DEF WorkerStep
  <1>4. CASE StopStep
    <2>1. CASE Stop
      BY <2>1 DEF TypeOK, Stop, InvRequest
    <2>2. CASE StopTearsDown
      <3>1. CASE stopTarget # NoGeneration /\ client = stopTarget
        <4>1. stopTarget \in Generations
          BY <3>1 DEF TypeOK, MaybeGeneration, Generations, NoGeneration
        <4> QED BY <2>2, <3>1, <4>1, TeardownType DEF TypeOK, StopTearsDown, InvRequest
      <3>2. CASE ~(stopTarget # NoGeneration /\ client = stopTarget)
        BY <2>2, <3>2 DEF TypeOK, StopTearsDown, InvRequest
      <3> QED BY <3>1, <3>2
    <2>3. CASE StopEnds
      BY <2>3, EmptySeq DEF TypeOK, StopEnds, InvRequest
    <2> QED BY <1>4, <2>1, <2>2, <2>3 DEF StopStep
  <1>5. ASSUME NEW g \in Generations, ReaderStep(g)
        PROVE  TypeInv'
    <2>1. CASE Authenticate(g) \/ AuthenticationFails(g)
      BY <2>1 DEF TypeOK, Authenticate, AuthenticationFails, InvRequest, Goto
    <2>2. CASE DesktopConnected(g)
      BY <2>2 DEF TypeOK, DesktopConnected, InvRequest, Goto, Serving, Generations, MaybeGeneration
    <2>3. CASE Announce(g)
      BY <2>3, SendForType DEF TypeOK, Announce, InvRequest, Goto, Serving
    <2>4. CASE Submit(g)
      <3>1. request[g] \in Requests
        BY <2>4 DEF Submit, InvRequest
      <3>2. tasks' \in Seq(Tasks)
        <4> DEFINE t == [gen |-> g, key |-> request[g].key, print |-> request[g].print]
        <4>1. t \in Tasks
          BY <3>1 DEF Requests, Tasks
        <4>2. tasks' = tasks \/ tasks' = Append(tasks, t)
          BY <2>4 DEF Submit
        <4> HIDE DEF t
        <4>3. tasks \in Seq(Tasks)
          BY DEF TypeOK
        <4>4. Append(tasks, t) \in Seq(Tasks)
          BY <4>1, <4>3, AppendProperties
        <4> QED BY <4>2, <4>3, <4>4
      <3> QED BY <2>4, <3>2 DEF TypeOK, Submit, InvRequest, Goto, Serving
    <2>5. CASE ReadEnds(g)
      BY <2>5 DEF TypeOK, ReadEnds, InvRequest, Goto
    <2>6. CASE ProtocolError(g)
      <3>1. CASE client = g
        BY <2>6, <3>1, TeardownType DEF TypeOK, ProtocolError, InvRequest, Goto
      <3>2. CASE client # g
        BY <2>6, <3>2 DEF TypeOK, ProtocolError, TornDown, InvRequest, Goto
      <3> QED BY <3>1, <3>2
    <2>7. CASE Leave(g)
      <3>1. CASE client = g
        BY <2>7, <3>1, TeardownType DEF TypeOK, Leave, InvRequest, Goto
      <3>2. CASE client # g
        BY <2>7, <3>2 DEF TypeOK, Leave, InvRequest, Goto
      <3> QED BY <3>1, <3>2
    <2>8. CASE DesktopDisconnected(g)
      BY <2>8, BoundsAssumption
         DEF TypeOK, DesktopDisconnected, InvRequest, Goto, MaybeGeneration, NoGeneration
    <2> QED BY <1>5, <2>1, <2>2, <2>3, <2>4, <2>5, <2>6, <2>7, <2>8 DEF ReaderStep
  <1>6. ASSUME NEW g \in Generations, Frame(g)
        PROVE  TypeInv'
    <2>1. ASSUME NEW k \in Keys, NEW p \in Prints, BeginExecute(g, k, p)
          PROVE  TypeInv'
      <3> DEFINE entry == [state |-> "running", print |-> p, gen |-> g, waiters |-> 0]
      <3>1. PICK old \in Displaced : Enter(k, entry, old)
        BY <2>1 DEF BeginExecute
      <3>2. entry \in Entries
        BY DEF Entries
      <3> HIDE DEF entry
      <3>3. cache' \in [Keys -> Entries \cup {Absent}]
        BY <3>1, <3>2 DEF TypeOK, Enter
      <3>4. order' \in [Keys -> SUBSET Keys] /\ applied' \subseteq Generations \X Keys
        BY <3>1 DEF TypeOK, Enter, Entered
      <3> QED BY <2>1, <3>3, <3>4
                 DEF TypeOK, BeginExecute, InvRequest, Goto, Asks, Requests, Serving
    <2>2. ASSUME NEW k \in Keys, NEW p \in Prints, BeginInFlight(g, k, p)
          PROVE  TypeInv'
      <3>1. cache' \in [Keys -> Entries \cup {Absent}]
        <4> DEFINE e == [cache[k] EXCEPT !.waiters = cache[k].waiters + 1]
        <4>1. cache[k] \in Entries /\ cache[k].waiters \in Nat
          BY <2>2, EntryType DEF BeginInFlight, Known
        <4>2. e \in Entries
          BY <4>1 DEF Entries
        <4>3. cache' = [cache EXCEPT ![k] = e]
          BY <2>2 DEF BeginInFlight, TypeOK
        <4> QED BY <4>2, <4>3 DEF TypeOK
      <3>2. asked' \in [Generations \X Keys -> Nat]
        BY <2>2 DEF TypeOK, BeginInFlight, Asks
      <3>3. UNCHANGED <<stopVars, admitVars, socketVars, reader, request, writer, order, tasks,
                        worker, owner, answered, applied>>
        BY <2>2 DEF BeginInFlight
      <3> QED BY <3>1, <3>2, <3>3 DEF TypeOK, InvRequest
    <2>3. ASSUME NEW k \in Keys, NEW p \in Prints, BeginReplay(g, k, p)
          PROVE  TypeInv'
      <3>1. Answer(g, k) /\ Goto(g, IF Accepts(g) THEN "reading" ELSE "failing") /\ Asks(g, k)
        BY <2>3 DEF BeginReplay
      <3>2. /\ outbound' \in Seq(Generations)
            /\ link' \in [Generations -> {"none", "up", "lost", "closed"}]
            /\ client' = client
            /\ answered' \in [Generations \X Keys -> Nat]
        BY <3>1, AnswerType
      <3>3. UNCHANGED <<stopVars, admitVars, request, writer, cacheVars, tasks, worker, owner,
                        applied>>
        BY <2>3 DEF BeginReplay
      <3>4. asked' \in [Generations \X Keys -> Nat]
        BY <3>1 DEF TypeOK, Asks
      <3>5. reader' = [reader EXCEPT ![g] = "reading"] \/ reader' = [reader EXCEPT ![g] = "failing"]
        BY <3>1 DEF Goto
      <3> QED BY <3>2, <3>3, <3>4, <3>5 DEF TypeOK, InvRequest, Serving
    <2>4. ASSUME NEW k \in Keys, NEW p \in Prints, BeginRefused(g, k, p)
          PROVE  TypeInv'
      BY <2>4 DEF TypeOK, BeginRefused, InvRequest, Goto, Serving
    <2>5. CASE Query(g)
      BY <2>5, SendForType DEF TypeOK, Query, InvRequest, Goto, Serving
    <2>6. CASE BadFrame(g)
      BY <2>6 DEF TypeOK, BadFrame, InvRequest, Goto, Serving
    <2> QED BY <1>6, <2>1, <2>2, <2>3, <2>4, <2>5, <2>6 DEF Frame
  <1>7. ASSUME NEW g \in Generations, PeerLost(g) \/ Write(g) \/ WriterEnds(g)
        PROVE  TypeInv'
    <2>1. CASE PeerLost(g)
      BY <2>1 DEF TypeOK, PeerLost, InvRequest
    <2>2. CASE Write(g)
      BY <2>2, HeadTailProperties DEF TypeOK, Write, InvRequest
    <2>3. CASE WriterEnds(g)
      BY <2>3, EmptySeq DEF TypeOK, WriterEnds, InvRequest
    <2> QED BY <1>7, <2>1, <2>2, <2>3
  <1>8. CASE UNCHANGED vars
    BY <1>8 DEF TypeOK, vars, InvRequest
  <1> QED BY <1>1, <1>2, <1>3, <1>4, <1>5, <1>6, <1>7, <1>8 DEF Next

\* TypeOK holds in every reachable state: of the threads' positions, the queues, the replay
\* cache and the counters of results.
THEOREM TypeCorrect == Spec => []TypeOK
  <1>1. TypeInv => TypeOK
    BY DEF TypeInv
  <1> QED BY <1>1, TypeInvInit, TypeInvStep, PTL DEF Spec

-----------------------------------------------------------------------------
(* Connections.                                                                  *)

Connections == InvNewest /\ SlotHeld /\ QueueOwn /\ KnownDesktop

\* What is queued is for the current connection.
LEMMA SendForOwn ==
  ASSUME TypeOK, QueueOwn, NEW g, SendFor(g)
  PROVE  QueueOwn' /\ client' = client
  <1>1. CASE Accepts(g)
    <2>1. outbound \in Seq(Generations) /\ client \in Generations
      BY <1>1 DEF TypeOK, Accepts, IsCurrent, MaybeGeneration, Generations, NoGeneration
    <2>2. outbound' = Append(outbound, client) /\ client' = client
      BY <1>1 DEF SendFor
    <2> QED BY <2>1, <2>2, AppendProperties DEF QueueOwn
  <1>2. CASE ~Accepts(g)
    BY <1>2 DEF SendFor, QueueOwn
  <1> QED BY <1>1, <1>2

\* A teardown leaves no connection and nothing to send.
LEMMA TeardownOwn ==
  ASSUME NEW g, Teardown(g)
  PROVE  QueueOwn' /\ client' = NoGeneration
  BY DEF Teardown, QueueOwn

\* The server starts with the slot free.
LEMMA ConnectionsInit == Init => Connections
  BY BoundsAssumption
     DEF Init, Connections, InvNewest, SlotHeld, QueueOwn, KnownDesktop, Generations, NoGeneration, Serving

\* A step of the reader of g that stays in its part of the reader's program.
LEMMA Quiet ==
  ASSUME TypeOK, Connections, QueueOwn', UNCHANGED <<client, reader, nextGeneration, owner>>
  PROVE  Connections'
  BY DEF Connections, InvNewest, SlotHeld, KnownDesktop

\* A reader that holds the slot moves on without giving it back.
LEMMA Moves ==
  ASSUME TypeOK, Connections, NEW g \in Generations, reader[g] # "none",
         NEW at \in {"starting", "leaving"} \cup Serving, Goto(g, at),
         at \in Serving => reader[g] \in Serving,
         UNCHANGED <<client, outbound, nextGeneration, owner>>
  PROVE  Connections'
  <1>1. QueueOwn' /\ InvNewest'
    BY DEF Connections, QueueOwn, InvNewest, Goto, TypeOK
  <1>2. SlotHeld'
    BY DEF Connections, SlotHeld, Goto, TypeOK
  <1>3. KnownDesktop'
    BY DEF Connections, KnownDesktop, Goto, TypeOK
  <1> QED BY <1>1, <1>2, <1>3 DEF Connections

\* Every step keeps the slot with one reader, the queue for its desktop and the owner known.
LEMMA ConnectionsStep ==
  ASSUME TypeInv, Connections, [Next]_vars
  PROVE  Connections'
  <1> USE DEF TypeInv
  <1>0. TypeOK /\ QueueOwn
    BY DEF Connections
  <1>1. CASE Admit
    <2>1. QueueOwn'
      BY <1>1 DEF Admit, QueueOwn
    <2> QED BY <1>0, <1>1, <2>1, BoundsAssumption
            DEF Connections, InvNewest, SlotHeld, KnownDesktop, TypeOK, Admit, Goto, Generations,
                MaybeGeneration, NoGeneration, Serving
  <1>2. CASE SendEvent
    BY <1>0, <1>2, SendForOwn, Quiet DEF SendEvent
  <1>3. CASE WorkerStep
    <2>1. CASE Deliver
      BY <1>0, <2>1, SendForOwn, Quiet DEF Deliver, Answer
    <2>2. CASE TakeTask \/ Execute \/ Complete \/ Fail \/ TaskDone
      BY <1>0, <2>2, Quiet DEF TakeTask, Execute, Complete, Fail, TaskDone, QueueOwn
    <2> QED BY <1>3, <2>1, <2>2 DEF WorkerStep
  <1>4. CASE StopStep
    <2>1. CASE Stop \/ StopEnds
      BY <1>0, <2>1, Quiet DEF Stop, StopEnds, QueueOwn
    <2>2. CASE StopTearsDown
      <3>1. CASE stopTarget # NoGeneration /\ client = stopTarget
        <4>1. QueueOwn' /\ client' = NoGeneration
          BY <2>2, <3>1, TeardownOwn DEF StopTearsDown
        <4> QED BY <2>2, <4>1, BoundsAssumption
                DEF StopTearsDown, Connections, InvNewest, SlotHeld, KnownDesktop, Generations,
                    NoGeneration
      <3>2. CASE ~(stopTarget # NoGeneration /\ client = stopTarget)
        BY <1>0, <2>2, <3>2, Quiet DEF StopTearsDown, QueueOwn
      <3> QED BY <3>1, <3>2
    <2> QED BY <1>4, <2>1, <2>2 DEF StopStep
  <1>5. ASSUME NEW g \in Generations, ReaderStep(g)
        PROVE  Connections'
    <2>1. CASE Authenticate(g) \/ AuthenticationFails(g)
      BY <1>0, <2>1, Moves DEF Authenticate, AuthenticationFails, Serving
    <2>2. CASE Submit(g) \/ ReadEnds(g)
      BY <1>0, <2>2, Moves DEF Submit, ReadEnds, Serving
    <2> USE DEF Connections, InvNewest, SlotHeld, KnownDesktop, Goto, Serving
    <2>3. CASE DesktopConnected(g)
      BY <2>3 DEF TypeOK, DesktopConnected, QueueOwn, MaybeGeneration, Generations, NoGeneration
    <2>4. CASE Announce(g)
      BY <1>0, <2>4, SendForOwn DEF TypeOK, Announce
    <2>5. CASE ProtocolError(g)
      <3>1. CASE client = g
        BY <2>5, <3>1, TeardownOwn DEF TypeOK, ProtocolError, Generations, NoGeneration
      <3>2. CASE client # g
        BY <2>5, <3>2 DEF TypeOK, ProtocolError, TornDown, QueueOwn
      <3> QED BY <3>1, <3>2
    <2>6. CASE Leave(g)
      <3>1. CASE client = g
        BY <2>6, <3>1, TeardownOwn DEF TypeOK, Leave, Generations, NoGeneration
      <3>2. CASE client # g
        BY <2>6, <3>2 DEF TypeOK, Leave, QueueOwn
      <3> QED BY <3>1, <3>2
    <2>7. CASE DesktopDisconnected(g)
      BY <2>7 DEF TypeOK, DesktopDisconnected, QueueOwn, MaybeGeneration, Generations, NoGeneration
    <2> QED BY <1>5, <2>1, <2>2, <2>3, <2>4, <2>5, <2>6, <2>7 DEF ReaderStep
  <1>6. ASSUME NEW g \in Generations, Frame(g)
        PROVE  Connections'
    <2>1. ASSUME NEW k \in Keys, NEW p \in Prints,
                 BeginExecute(g, k, p) \/ BeginInFlight(g, k, p) \/ BeginRefused(g, k, p)
          PROVE  Connections'
      <3>1. CASE BeginExecute(g, k, p) \/ BeginRefused(g, k, p)
        BY <1>0, <3>1, Moves DEF BeginExecute, BeginRefused, Admissible, Serving
      <3>2. CASE BeginInFlight(g, k, p)
        BY <1>0, <3>2, Quiet DEF BeginInFlight, QueueOwn
      <3> QED BY <2>1, <3>1, <3>2
    <2> USE DEF Connections, InvNewest, SlotHeld, KnownDesktop, Goto, Serving
    <2>2. ASSUME NEW k \in Keys, NEW p \in Prints, BeginReplay(g, k, p)
          PROVE  Connections'
      BY <1>0, <2>2, SendForOwn DEF TypeOK, BeginReplay, Answer, Admissible
    <2>3. CASE Query(g)
      BY <1>0, <2>3, SendForOwn DEF TypeOK, Query
    <2>4. CASE BadFrame(g)
      BY <2>4 DEF TypeOK, BadFrame, QueueOwn
    <2> QED BY <1>6, <2>1, <2>2, <2>3, <2>4 DEF Frame
  <1>7. ASSUME NEW g \in Generations, PeerLost(g) \/ Write(g) \/ WriterEnds(g)
        PROVE  Connections'
    <2>1. CASE PeerLost(g)
      BY <1>0, <2>1, Quiet DEF PeerLost, QueueOwn
    <2>2. CASE Write(g)
      <3>1. QueueOwn'
        BY <1>0, <2>2, HeadTailProperties DEF TypeOK, Write, QueueOwn
      <3> QED BY <1>0, <2>2, <3>1, Quiet DEF Write
    <2>3. CASE WriterEnds(g)
      <3>1. QueueOwn'
        BY <1>0, <2>3 DEF WriterEnds, QueueOwn
      <3> QED BY <1>0, <2>3, <3>1, Quiet DEF WriterEnds
    <2> QED BY <1>7, <2>1, <2>2, <2>3
  <1>8. CASE UNCHANGED vars
    BY <1>8 DEF vars, Connections, InvNewest, SlotHeld, QueueOwn, KnownDesktop
  <1> QED BY <1>1, <1>2, <1>3, <1>4, <1>5, <1>6, <1>7, <1>8 DEF Next

-----------------------------------------------------------------------------
(* Connections that are still to come.                                           *)

\* The rest of the worker's queue.
LEMMA TailTasks ==
  ASSUME TypeOK, tasks # <<>>, tasks' = Tail(tasks)
  PROVE  /\ 1 \in DOMAIN tasks /\ Head(tasks) = tasks[1] /\ Head(tasks) \in Tasks
         /\ \A i \in DOMAIN tasks' : /\ i \in Nat \ {0} /\ i + 1 \in DOMAIN tasks
                                     /\ tasks'[i] = tasks[i + 1]
  <1>1. tasks \in Seq(Tasks)
    BY DEF TypeOK
  <1>2. Len(tasks) \in Nat \ {0} /\ DOMAIN tasks = 1..Len(tasks)
    BY <1>1, EmptySeq, LenProperties
  <1>3. Tail(tasks) \in Seq(Tasks) /\ Len(Tail(tasks)) = Len(tasks) - 1
    BY <1>1, HeadTailProperties
  <1>4. DOMAIN tasks' = 1..(Len(tasks) - 1)
    BY <1>3, LenProperties
  <1>5. \A i \in 1..(Len(tasks) - 1) : Tail(tasks)[i] = tasks[i + 1]
    BY <1>1, <1>3, HeadTailProperties
  <1>6. Head(tasks) = tasks[1] /\ Head(tasks) \in Tasks
    BY <1>1, HeadTailProperties
  <1> QED BY <1>2, <1>4, <1>5, <1>6

\* One task more in the worker's queue.
LEMMA AppendTasks ==
  ASSUME TypeOK, NEW t \in Tasks, tasks' = Append(tasks, t)
  PROVE  \A i \in DOMAIN tasks' :
           \/ i \in DOMAIN tasks /\ tasks'[i] = tasks[i]
           \/ i = Len(tasks) + 1 /\ tasks'[i] = t
  <1>1. tasks \in Seq(Tasks) /\ Append(tasks, t) \in Seq(Tasks)
    BY AppendProperties DEF TypeOK
  <1>2. Len(tasks) \in Nat /\ DOMAIN tasks = 1..Len(tasks)
    BY <1>1, LenProperties
  <1>3. DOMAIN tasks' = 1..(Len(tasks) + 1)
    BY <1>1, AppendProperties, LenProperties
  <1>4. \A i \in 1..Len(tasks) : Append(tasks, t)[i] = tasks[i]
    BY <1>1, AppendProperties
  <1>5. Append(tasks, t)[Len(tasks) + 1] = t
    BY <1>1, AppendProperties
  <1> QED BY <1>2, <1>3, <1>4, <1>5

\* Nothing that could belong to such a connection changes.
LEMMA UnbornFrame ==
  ASSUME TypeOK, InvUnborn, nextGeneration' \in Nat, nextGeneration' >= nextGeneration,
         UNCHANGED <<cache, tasks, worker, history>>
  PROVE  InvUnborn'
  BY DEF TypeOK, InvUnborn, MaybeGeneration, Generations

\* Entries are only removed.
LEMMA UnbornForget ==
  ASSUME TypeOK, InvUnborn, NEW old, Forget(old), nextGeneration' = nextGeneration,
         UNCHANGED <<tasks, worker, history>>
  PROVE  InvUnborn'
  <1>1. \A k \in Keys : cache'[k] = cache[k] \/ cache'[k].gen = NoGeneration
    BY DEF Forget, Absent
  <1> QED BY <1>1, BoundsAssumption DEF InvUnborn, Generations, NoGeneration

\* A result is sent for a connection that has been admitted.
LEMMA UnbornAnswer ==
  ASSUME TypeOK, Connections, InvUnborn, NEW g, NEW k \in Keys, Answer(g, k),
         NEW h \in Generations, h > nextGeneration
  PROVE  \A j \in Keys : answered'[<<h, j>>] = 0
  <1>1. CASE Accepts(g)
    <2>1. client # h
      BY <1>1 DEF Connections, InvNewest, Accepts, IsCurrent, TypeOK, MaybeGeneration, Generations
    <2> QED BY <1>1, <2>1 DEF Answer, TypeOK, InvUnborn
  <1>2. CASE ~Accepts(g)
    BY <1>2 DEF Answer, InvUnborn
  <1> QED BY <1>1, <1>2

\* Before the first connection nothing belongs to one.
LEMMA UnbornInit == Init => InvUnborn
  BY BoundsAssumption DEF Init, InvUnborn, IdleWorker, Absent, Generations, NoGeneration

\* Nothing is ever recorded for a connection that has not been admitted yet.
LEMMA UnbornStep ==
  ASSUME TypeInv, Connections, InvUnborn, [Next]_vars
  PROVE  InvUnborn'
  <1> USE DEF TypeInv
  <1>0. TypeOK /\ nextGeneration \in Nat /\ InvNewest
    BY DEF Connections, TypeOK, MaybeGeneration
  <1>1. CASE Admit
    BY <1>0, <1>1, UnbornFrame DEF Admit
  <1>2. CASE SendEvent
    BY <1>0, <1>2, UnbornFrame DEF SendEvent
  <1>3. CASE WorkerStep
    <2>1. CASE TakeTask
      <3>1. \A k \in Keys : cache'[k] = cache[k] \/ cache'[k].gen = NoGeneration
        BY <2>1 DEF TakeTask, CancelGeneration, Forget, Absent
      <3>2. 1 \in DOMAIN tasks /\ Head(tasks) = tasks[1]
        BY <2>1, TailTasks DEF TakeTask
      <3>3. \A i \in DOMAIN tasks' : i + 1 \in DOMAIN tasks /\ tasks'[i] = tasks[i + 1]
        BY <2>1, TailTasks DEF TakeTask
      <3>4. worker' = worker \/ worker'.task = Head(tasks)
        BY <2>1 DEF TakeTask
      <3> QED BY <1>0, <2>1, <3>1, <3>2, <3>3, <3>4, BoundsAssumption
              DEF TakeTask, InvUnborn, Generations, NoGeneration, IdleWorker
    <2>2. CASE Execute
      BY <1>0, <2>2, WorkerTask DEF Execute, Working, InvUnborn, TypeOK, Tasks
    <2>3. CASE Complete
      <3>1. \A k \in Keys : cache'[k].gen = cache[k].gen
        BY <2>3, MineType DEF Complete, TypeOK, Entries
      <3> QED BY <1>0, <2>3, <3>1 DEF Complete, Working, InvUnborn
    <2>4. CASE Fail
      <3>1. \A k \in Keys : cache'[k] = cache[k] \/ cache'[k].gen = NoGeneration
        BY <2>4 DEF Fail, Forget, Absent
      <3> QED BY <1>0, <2>4, <3>1, BoundsAssumption
              DEF Fail, Working, InvUnborn, Generations, NoGeneration
    <2>5. CASE Deliver
      <3>1. worker.task.key \in Keys
        BY <2>5, WorkerTask DEF Deliver, Tasks
      <3> QED BY <1>0, <2>5, <3>1, UnbornAnswer DEF Deliver, Working, InvUnborn
    <2>6. CASE TaskDone
      BY <1>0, <2>6 DEF TaskDone, InvUnborn, IdleWorker
    <2> QED BY <1>3, <2>1, <2>2, <2>3, <2>4, <2>5, <2>6 DEF WorkerStep
  <1>4. CASE StopStep
    <2>1. CASE Stop
      BY <1>0, <2>1, UnbornFrame DEF Stop
    <2>2. CASE StopTearsDown
      BY <1>0, <2>2, UnbornFrame, UnbornForget DEF StopTearsDown, Teardown, CancelGeneration
    <2>3. CASE StopEnds
      BY <1>0, <2>3 DEF StopEnds, InvUnborn
    <2> QED BY <1>4, <2>1, <2>2, <2>3 DEF StopStep
  <1>5. ASSUME NEW g \in Generations, ReaderStep(g)
        PROVE  InvUnborn'
    <2>1. CASE \/ Authenticate(g) \/ AuthenticationFails(g) \/ DesktopConnected(g)
               \/ Announce(g) \/ ReadEnds(g) \/ DesktopDisconnected(g)
      BY <1>0, <2>1, UnbornFrame
         DEF Authenticate, AuthenticationFails, DesktopConnected, Announce, ReadEnds,
             DesktopDisconnected
    <2>2. CASE Submit(g)
      <3> DEFINE t == [gen |-> g, key |-> request[g].key, print |-> request[g].print]
      <3>1. t \in Tasks /\ g <= nextGeneration
        BY <1>0, <2>2 DEF Submit, InvRequest, InvNewest, Requests, Tasks, Generations
      <3>2. \A i \in DOMAIN tasks' :
              (i \in DOMAIN tasks /\ tasks'[i] = tasks[i]) \/ tasks'[i].gen = g
        BY <2>2, <3>1, AppendTasks DEF Submit
      <3> QED BY <1>0, <2>2, <3>1, <3>2 DEF Submit, InvUnborn, Generations
    <2>3. CASE ProtocolError(g) \/ Leave(g)
      BY <1>0, <2>3, UnbornFrame, UnbornForget
         DEF ProtocolError, Leave, Teardown, TornDown, CancelGeneration
    <2> QED BY <1>5, <2>1, <2>2, <2>3 DEF ReaderStep
  <1>6. ASSUME NEW g \in Generations, Frame(g)
        PROVE  InvUnborn'
    <2>0. ASSUME reader[g] = "reading"
          PROVE  g <= nextGeneration
      BY <1>0, <2>0 DEF InvNewest, Generations
    <2>1. ASSUME NEW k \in Keys, NEW p \in Prints, BeginExecute(g, k, p)
          PROVE  InvUnborn'
      <3>1. g <= nextGeneration
        BY <2>0, <2>1 DEF BeginExecute, Admissible
      <3>2. \A j \in Keys : cache'[j] = cache[j] \/ cache'[j].gen = NoGeneration \/ cache'[j].gen = g
        BY <2>1 DEF BeginExecute, Enter, Absent
      <3>3. applied' \subseteq applied
        BY <2>1 DEF BeginExecute, Enter
      <3>4. \A h \in Generations, j \in Keys : h # g => asked'[<<h, j>>] = asked[<<h, j>>]
        BY <2>1 DEF BeginExecute, Asks, TypeOK
      <3> QED BY <1>0, <2>1, <3>1, <3>2, <3>3, <3>4, BoundsAssumption
              DEF BeginExecute, InvUnborn, Generations, NoGeneration
    <2>2. ASSUME NEW k \in Keys, NEW p \in Prints, BeginInFlight(g, k, p)
          PROVE  InvUnborn'
      <3>1. g <= nextGeneration
        BY <2>0, <2>2 DEF BeginInFlight, Admissible
      <3>2. \A j \in Keys : cache'[j].gen = cache[j].gen
        BY <2>2, EntryType DEF BeginInFlight, Known, TypeOK, Entries
      <3>3. \A h \in Generations, j \in Keys : h # g => asked'[<<h, j>>] = asked[<<h, j>>]
        BY <2>2 DEF BeginInFlight, Asks, TypeOK
      <3> QED BY <1>0, <2>2, <3>1, <3>2, <3>3 DEF BeginInFlight, InvUnborn, Generations
    <2>3. ASSUME NEW k \in Keys, NEW p \in Prints, BeginReplay(g, k, p)
          PROVE  InvUnborn'
      <3>1. g <= nextGeneration
        BY <2>0, <2>3 DEF BeginReplay, Admissible
      <3>2. \A h \in Generations, j \in Keys : h # g => asked'[<<h, j>>] = asked[<<h, j>>]
        BY <2>3 DEF BeginReplay, Asks, TypeOK
      <3>3. \A h \in Generations, j \in Keys : h > nextGeneration => answered'[<<h, j>>] = 0
        BY <1>0, <2>3, UnbornAnswer DEF BeginReplay
      <3> QED BY <1>0, <2>3, <3>1, <3>2, <3>3 DEF BeginReplay, InvUnborn, Generations
    <2>4. ASSUME NEW k \in Keys, NEW p \in Prints, BeginRefused(g, k, p)
          PROVE  InvUnborn'
      BY <1>0, <2>4, UnbornFrame DEF BeginRefused
    <2>5. CASE Query(g) \/ BadFrame(g)
      BY <1>0, <2>5, UnbornFrame DEF Query, BadFrame
    <2> QED BY <1>6, <2>1, <2>2, <2>3, <2>4, <2>5 DEF Frame
  <1>7. ASSUME NEW g \in Generations, PeerLost(g) \/ Write(g) \/ WriterEnds(g)
        PROVE  InvUnborn'
    BY <1>0, <1>7, UnbornFrame DEF PeerLost, Write, WriterEnds
  <1>8. CASE UNCHANGED vars
    BY <1>0, <1>8, UnbornFrame DEF vars
  <1> QED BY <1>1, <1>2, <1>3, <1>4, <1>5, <1>6, <1>7, <1>8 DEF Next

-----------------------------------------------------------------------------
(* Commands.                                                                     *)

Commands == InvPlace /\ InvApplied /\ Accounted /\ AnswersOwn /\ AppliedOnce

\* What is owed for a request is a number.
LEMMA OwedType ==
  ASSUME TypeOK, NEW g, NEW k \in Keys
  PROVE  Owed(g, k) \in Nat
  <1>1. cache[k].state = "running" => cache[k].waiters \in Nat
    BY EntryType
  <1>2. worker.at = "answering" => worker.deliveries \in Nat
    BY WorkerTask
  <1> QED BY <1>1, <1>2 DEF Owed

\* When the connection that was served is gone, nothing is promised to anyone.
LEMMA NobodyConnected ==
  ASSUME Commands, ~IsCurrent(client)', UNCHANGED <<worker, history>>
  PROVE  Commands'
  BY DEF Commands, InvPlace, InvApplied, Accounted, AnswersOwn, AppliedOnce

\* A step that touches no command.
LEMMA CommandsFrame ==
  ASSUME Commands, UNCHANGED <<cache, tasks, worker, history>>,
         IsCurrent(client)' => IsCurrent(client) /\ client' = client,
         \A k \in Keys : IsCurrent(client)' /\ AtReader(client, k)' =>
           AtReader(client, k) /\ request'[client] = request[client]
  PROVE  Commands'
  <1>1. InvPlace'
    BY DEF Commands, InvPlace, AtQueue, AtWorker, Known
  <1>2. InvApplied'
    BY DEF Commands, InvApplied, AtWorker
  <1>3. Accounted'
    BY DEF Commands, Accounted, Owed
  <1>4. AnswersOwn' /\ AppliedOnce'
    BY DEF Commands, AnswersOwn, AppliedOnce
  <1> QED BY <1>1, <1>2, <1>3, <1>4 DEF Commands

\* A message that is queued, or that closes the connection, makes no connection current.
LEMMA SendForCurrent ==
  ASSUME TypeOK, NEW g, SendFor(g)
  PROVE  /\ IsCurrent(client)' => IsCurrent(client) /\ client' = client
         /\ IsCurrent(g) /\ IsCurrent(client)' => Accepts(g)
         /\ Accepts(g) => IsCurrent(client)' /\ g = client
  <1>1. CASE Accepts(g)
    BY <1>1 DEF SendFor, Accepts, IsCurrent
  <1>2. CASE IsCurrent(g) /\ ~Accepts(g)
    BY <1>2 DEF SendFor, IsCurrent, TypeOK, MaybeGeneration, Generations, NoGeneration
  <1>3. CASE ~IsCurrent(g)
    BY <1>3 DEF SendFor, IsCurrent, Accepts
  <1> QED BY <1>1, <1>2, <1>3 DEF Accepts

\* At the start nothing has been asked or applied.
LEMMA CommandsInit == Init => Commands
  BY DEF Init, Commands, InvPlace, InvApplied, Accounted, AnswersOwn, AppliedOnce, IsCurrent,
         IdleWorker, NoGeneration

\* A new connection has asked for nothing.
LEMMA CommandsAdmit ==
  ASSUME TypeInv, Connections, InvUnborn, Commands, Admit
  PROVE  Commands'
  <1> DEFINE g == nextGeneration'
  <1>1. g \in Generations /\ g > nextGeneration /\ client' = g
    BY BoundsAssumption DEF TypeInv, TypeOK, Admit, MaybeGeneration, Generations
  <1>2. \A k \in Keys :
          asked[<<g, k>>] = 0 /\ answered[<<g, k>>] = 0 /\ <<g, k>> \notin applied /\ cache[k].gen # g
    BY <1>1 DEF InvUnborn
  <1>3. \A i \in DOMAIN tasks : tasks[i].gen # g
    BY <1>1 DEF InvUnborn
  <1>4. worker.at # "idle" => worker.task.gen # g
    BY <1>1 DEF InvUnborn
  <1>5. reader'[g] = "authenticating"
    BY <1>1 DEF TypeInv, TypeOK, Admit, Goto
  <1>6. UNCHANGED <<cache, tasks, worker, history>>
    BY DEF Admit
  <1> HIDE DEF g
  <1>7. InvPlace' /\ InvApplied'
    BY <1>1, <1>2, <1>3, <1>4, <1>5, <1>6 DEF InvPlace, InvApplied, AtReader, AtQueue, AtWorker
  <1>8. Accounted'
    BY <1>1, <1>2, <1>4, <1>6 DEF Accounted, Owed
  <1> QED BY <1>6, <1>7, <1>8 DEF Commands, AnswersOwn, AppliedOnce

\* The worker takes a command: the one place it is in from then on is the worker.
LEMMA CommandsTakeTask ==
  ASSUME TypeInv, Commands, TakeTask
  PROVE  Commands'
  <1> USE DEF TypeInv
  <1> DEFINE t == Head(tasks)
  <1>1. /\ 1 \in DOMAIN tasks /\ t = tasks[1] /\ t \in Tasks
        /\ \A i \in DOMAIN tasks' : /\ i \in Nat \ {0} /\ i + 1 \in DOMAIN tasks
                                    /\ tasks'[i] = tasks[i + 1]
    BY TailTasks DEF TakeTask
  <1>2. worker.at = "idle" /\ UNCHANGED <<client, link, reader, request, history>>
    BY DEF TakeTask, IdleWorker
  <1>3. AnswersOwn'
    BY <1>2 DEF Commands, AnswersOwn
  <1>4. IsCurrent(client)' <=> IsCurrent(client)
    BY <1>2 DEF IsCurrent
  <1>5. CASE IsCurrent(t.gen)
    <2>1. /\ t.gen = client /\ IsCurrent(client) /\ UNCHANGED cache
          /\ worker' = [at |-> "admitted", deliveries |-> 0, task |-> t]
      BY <1>5 DEF TakeTask, IsCurrent
    <2>2. t.key \in Keys /\ AtQueue(1, client, t.key)
      BY <1>1, <2>1 DEF AtQueue, Tasks
    <2>3. /\ Known(client, t.key, t.print, "running")
          /\ ~AtReader(client, t.key)
          /\ \A j \in DOMAIN tasks : AtQueue(j, client, t.key) => j = 1
      BY <1>1, <2>1, <2>2 DEF Commands, InvPlace
    <2> HIDE DEF t
    <2>4. \A k \in Keys : AtWorker(client, k)' => k = t.key
      BY <1>2, <2>1 DEF AtWorker
    <2>5. \A k \in Keys, i \in DOMAIN tasks' : AtQueue(i, client, k)' => AtQueue(i + 1, client, k)
      BY <1>1, <1>2 DEF AtQueue
    <2>6. InvPlace'
      <3> SUFFICES ASSUME NEW k \in Keys
                   PROVE  /\ AtReader(client, k)' =>
                               /\ Known(client, k, request[client].print, "running")'
                               /\ ~AtWorker(client, k)'
                               /\ \A i \in DOMAIN tasks' : ~AtQueue(i, client, k)'
                          /\ \A i \in DOMAIN tasks' : AtQueue(i, client, k)' =>
                               /\ Known(client, k, tasks[i].print, "running")'
                               /\ ~AtWorker(client, k)'
                               /\ \A j \in DOMAIN tasks' : AtQueue(j, client, k)' => i = j
                          /\ AtWorker(client, k)' => Known(client, k, worker.task.print, "running")'
        BY DEF InvPlace
      <3>1. ASSUME AtReader(client, k)'
            PROVE  /\ Known(client, k, request[client].print, "running")'
                   /\ ~AtWorker(client, k)'
                   /\ \A i \in DOMAIN tasks' : ~AtQueue(i, client, k)'
        <4>1. AtReader(client, k)
          BY <1>2, <3>1 DEF AtReader
        <4>2. /\ Known(client, k, request[client].print, "running")
              /\ \A i \in DOMAIN tasks : ~AtQueue(i, client, k)
          BY <2>1, <4>1 DEF Commands, InvPlace
        <4> QED BY <1>1, <1>2, <2>1, <2>3, <2>4, <2>5, <4>1, <4>2 DEF Known
      <3>2. ASSUME NEW i \in DOMAIN tasks', AtQueue(i, client, k)'
            PROVE  /\ Known(client, k, tasks[i].print, "running")'
                   /\ ~AtWorker(client, k)'
                   /\ \A j \in DOMAIN tasks' : AtQueue(j, client, k)' => i = j
        <4>1. AtQueue(i + 1, client, k) /\ i + 1 # 1 /\ i + 1 \in DOMAIN tasks
          BY <1>1, <2>5, <3>2
        <4>2. /\ Known(client, k, tasks[i + 1].print, "running")
              /\ \A j \in DOMAIN tasks : AtQueue(j, client, k) => i + 1 = j
          BY <2>1, <4>1 DEF Commands, InvPlace
        <4>3. Known(client, k, tasks[i].print, "running")'
          BY <1>1, <1>2, <2>1, <3>2, <4>2 DEF Known
        <4>4. ~AtWorker(client, k)'
          BY <2>3, <2>4, <4>1
        <4>5. \A j \in DOMAIN tasks' : AtQueue(j, client, k)' => i = j
          BY <1>1, <2>5, <3>2, <4>2
        <4> QED BY <4>3, <4>4, <4>5
      <3>3. ASSUME AtWorker(client, k)'
            PROVE  Known(client, k, worker.task.print, "running")'
        BY <1>2, <2>1, <2>3, <2>4, <3>3 DEF Known
      <3> QED BY <3>1, <3>2, <3>3
    <2>7. <<client, t.key>> \notin applied
      BY <1>2, <2>1, <2>2, <2>3 DEF Commands, InvApplied, Known
    <2>8. InvApplied' /\ AppliedOnce'
      BY <1>2, <1>4, <2>1, <2>7 DEF Commands, InvApplied, AppliedOnce
    <2>9. Accounted'
      BY <1>2, <1>4, <2>1 DEF Commands, Accounted, Owed
    <2> QED BY <1>3, <2>6, <2>8, <2>9 DEF Commands
  <1>6. CASE ~IsCurrent(t.gen)
    <2>1. worker' = worker /\ CancelGeneration(t.gen)
      BY <1>6 DEF TakeTask
    <2>2. IsCurrent(client) => t.gen # client
      BY <1>6
    <2>3. \A k \in Keys : IsCurrent(client) /\ (cache[k].gen = client \/ cache'[k].gen = client)
                          => cache'[k] = cache[k]
      BY <2>1, <2>2 DEF CancelGeneration, RunningOf, Forget, Absent, IsCurrent
    <2> HIDE DEF t
    <2>4. \A k \in Keys, i \in DOMAIN tasks' : AtQueue(i, client, k)' => AtQueue(i + 1, client, k)
      BY <1>1, <1>2 DEF AtQueue
    <2>5. \A k \in Keys : /\ AtWorker(client, k)' <=> AtWorker(client, k)
                          /\ AtReader(client, k)' <=> AtReader(client, k)
      BY <1>2, <2>1 DEF AtWorker, AtReader
    <2>6. \A k \in Keys : \A p, q :
            IsCurrent(client) /\ Known(client, k, p, q) => Known(client, k, p, q)'
      BY <1>2, <2>3 DEF Known
    <2>7. InvPlace'
      <3> SUFFICES ASSUME NEW k \in Keys, IsCurrent(client)
                   PROVE  /\ AtReader(client, k)' =>
                               /\ Known(client, k, request[client].print, "running")'
                               /\ ~AtWorker(client, k)'
                               /\ \A i \in DOMAIN tasks' : ~AtQueue(i, client, k)'
                          /\ \A i \in DOMAIN tasks' : AtQueue(i, client, k)' =>
                               /\ Known(client, k, tasks[i].print, "running")'
                               /\ ~AtWorker(client, k)'
                               /\ \A j \in DOMAIN tasks' : AtQueue(j, client, k)' => i = j
                          /\ AtWorker(client, k)' => Known(client, k, worker.task.print, "running")'
        BY <1>4 DEF InvPlace
      <3>1. ASSUME AtReader(client, k)'
            PROVE  /\ Known(client, k, request[client].print, "running")'
                   /\ ~AtWorker(client, k)'
                   /\ \A i \in DOMAIN tasks' : ~AtQueue(i, client, k)'
        BY <1>1, <1>2, <2>3, <2>4, <2>5, <3>1 DEF Commands, InvPlace, Known
      <3>2. ASSUME NEW i \in DOMAIN tasks', AtQueue(i, client, k)'
            PROVE  /\ Known(client, k, tasks[i].print, "running")'
                   /\ ~AtWorker(client, k)'
                   /\ \A j \in DOMAIN tasks' : AtQueue(j, client, k)' => i = j
        <4>1. AtQueue(i + 1, client, k) /\ i + 1 \in DOMAIN tasks /\ tasks'[i] = tasks[i + 1]
          BY <1>1, <2>4, <3>2
        <4>2. /\ Known(client, k, tasks[i + 1].print, "running") /\ ~AtWorker(client, k)
              /\ \A j \in DOMAIN tasks : AtQueue(j, client, k) => i + 1 = j
          BY <4>1 DEF Commands, InvPlace
        <4>3. Known(client, k, tasks[i].print, "running")'
          BY <1>2, <2>3, <4>1, <4>2 DEF Known
        <4>4. \A j \in DOMAIN tasks' : AtQueue(j, client, k)' => i = j
          BY <1>1, <2>4, <3>2, <4>2
        <4> QED BY <2>5, <4>2, <4>3, <4>4
      <3>3. ASSUME AtWorker(client, k)'
            PROVE  FALSE
        BY <1>2, <2>5, <3>3 DEF AtWorker
      <3> QED BY <3>1, <3>2, <3>3
    <2>8. InvApplied'
      BY <1>2, <1>4, <2>1, <2>3, <2>5 DEF Commands, InvApplied
    <2>9. Accounted' /\ AppliedOnce'
      BY <1>2, <1>4, <2>1, <2>3 DEF Commands, Accounted, AppliedOnce, Owed
    <2> QED BY <1>3, <2>7, <2>8, <2>9 DEF Commands
  <1> QED BY <1>5, <1>6

\* The worker's other steps leave the readers and the queues alone.
LEMMA CommandsExecute ==
  ASSUME TypeInv, Commands, Execute
  PROVE  Commands'
  <1> USE DEF TypeInv
  <1>1. /\ worker.at = "admitted" /\ worker'.at = "executed" /\ worker'.task = worker.task
        /\ applied' = applied \cup {<<worker.task.gen, worker.task.key>>}
        /\ UNCHANGED <<client, link, reader, request, cache, tasks, asked, answered>>
    BY DEF Execute, Working
  <1>2. \A k \in Keys : /\ AtWorker(client, k)' <=> AtWorker(client, k)
                        /\ AtReader(client, k)' <=> AtReader(client, k)
    BY <1>1 DEF AtWorker, AtReader
  <1>3. IsCurrent(client)' <=> IsCurrent(client)
    BY <1>1 DEF IsCurrent
  <1>4. InvPlace'
    BY <1>1, <1>2, <1>3 DEF Commands, InvPlace, AtQueue, Known
  <1>5. InvApplied'
    <2> SUFFICES ASSUME NEW k \in Keys, IsCurrent(client), <<client, k>> \in applied'
                 PROVE  /\ cache[k].gen = client
                        /\ cache[k].state = "complete" \/ AtWorker(client, k)
      BY <1>1, <1>2, <1>3 DEF InvApplied
    <2>1. CASE <<client, k>> \in applied
      BY <1>1, <2>1 DEF Commands, InvApplied
    <2>2. CASE client = worker.task.gen /\ k = worker.task.key
      <3>1. AtWorker(client, k)
        BY <1>1, <2>2 DEF AtWorker
      <3> QED BY <3>1 DEF Commands, InvPlace, Known
    <2> QED BY <1>1, <2>1, <2>2
  <1>6. Accounted' /\ AnswersOwn' /\ AppliedOnce'
    BY <1>1, <1>3 DEF Commands, Accounted, AnswersOwn, AppliedOnce, Owed
  <1> QED BY <1>4, <1>5, <1>6 DEF Commands

\* When the worker has a command of the current connection, the cache still has its entry.
LEMMA MineCurrent ==
  ASSUME TypeOK, Commands, worker.at \in {"admitted", "executed"}, IsCurrent(client),
         worker.task.gen = client
  PROVE  /\ Mine /\ AtWorker(client, worker.task.key) /\ worker.task.key \in Keys
         /\ ~AtReader(client, worker.task.key)
         /\ \A i \in DOMAIN tasks : ~AtQueue(i, client, worker.task.key)
         /\ cache[worker.task.key].state = "running" /\ cache[worker.task.key].gen = client
  <1>1. worker.task.key \in Keys
    BY WorkerTask DEF Tasks
  <1>2. AtWorker(client, worker.task.key)
    BY DEF AtWorker
  <1> QED BY <1>1, <1>2 DEF Commands, InvPlace, Mine, Known

\* The worker ends a command: its entry is completed or removed, and what the entry owed is
\* owed by the worker.
LEMMA CommandsEnd ==
  ASSUME TypeInv, Commands, worker.at = "executed", Working("answering", Deliveries),
         UNCHANGED <<client, link, reader, request, tasks, asked, answered>>,
         \A k \in Keys : cache'[k] = cache[k] \/ (Mine /\ k = worker.task.key),
         Mine => cache'[worker.task.key].state # "running",
         \/ Mine => cache'[worker.task.key].state = "complete" /\ cache'[worker.task.key].gen = worker.task.gen
         \/ Mine => <<worker.task.gen, worker.task.key>> \notin applied',
         applied' \subseteq applied
  PROVE  Commands'
  <1> USE DEF TypeInv
  <1>1. worker'.at = "answering" /\ worker'.task = worker.task /\ worker'.deliveries = Deliveries
    BY DEF Working
  <1>2. IsCurrent(client)' <=> IsCurrent(client)
    BY DEF IsCurrent
  <1>3. \A k \in Keys : /\ ~AtWorker(client, k)'
                        /\ AtReader(client, k)' <=> AtReader(client, k)
                        /\ \A i \in DOMAIN tasks : AtQueue(i, client, k)' <=> AtQueue(i, client, k)
    BY <1>1 DEF AtWorker, AtReader, AtQueue
  <1>4. ASSUME IsCurrent(client), worker.task.gen = client
        PROVE  /\ Mine /\ AtWorker(client, worker.task.key) /\ worker.task.key \in Keys
               /\ ~AtReader(client, worker.task.key)
               /\ \A i \in DOMAIN tasks : ~AtQueue(i, client, worker.task.key)
               /\ cache[worker.task.key].state = "running" /\ cache[worker.task.key].gen = client
    BY <1>4, MineCurrent
  <1>5. InvPlace'
    <2> SUFFICES ASSUME NEW k \in Keys, IsCurrent(client)
                 PROVE  /\ AtReader(client, k) => Known(client, k, request[client].print, "running")'
                        /\ AtReader(client, k) => \A i \in DOMAIN tasks : ~AtQueue(i, client, k)
                        /\ \A i \in DOMAIN tasks : AtQueue(i, client, k) =>
                             /\ Known(client, k, tasks[i].print, "running")'
                             /\ \A j \in DOMAIN tasks : AtQueue(j, client, k) => i = j
      BY <1>2, <1>3 DEF InvPlace
    <2>1. /\ AtReader(client, k) => Known(client, k, request[client].print, "running")
          /\ AtReader(client, k) => \A i \in DOMAIN tasks : ~AtQueue(i, client, k)
          /\ \A i \in DOMAIN tasks : AtQueue(i, client, k) =>
               /\ Known(client, k, tasks[i].print, "running")
               /\ \A j \in DOMAIN tasks : AtQueue(j, client, k) => i = j
      BY DEF Commands, InvPlace
    <2>2. CASE cache'[k] = cache[k]
      BY <2>1, <2>2 DEF Known
    <2>3. CASE Mine /\ k = worker.task.key /\ cache[k].gen = client
      <3>1. worker.task.gen = client
        BY <2>3 DEF Mine, Known
      <3> QED BY <1>4, <2>3, <3>1
    <2>4. CASE cache[k].gen # client
      BY <2>1, <2>4 DEF Known
    <2> QED BY <2>2, <2>3, <2>4
  <1>6. InvApplied'
    <2> SUFFICES ASSUME NEW k \in Keys, IsCurrent(client), <<client, k>> \in applied'
                 PROVE  cache'[k].gen = client /\ cache'[k].state = "complete"
      BY <1>2, <1>3 DEF InvApplied
    <2>1. /\ cache[k].gen = client
          /\ cache[k].state = "complete" \/ AtWorker(client, k)
      BY DEF Commands, InvApplied
    <2>2. CASE Mine /\ k = worker.task.key
      <3>1. worker.task.gen = client
        BY <2>1, <2>2 DEF Mine, Known
      <3> QED BY <2>2, <3>1
    <2>3. CASE ~(Mine /\ k = worker.task.key)
      <3>1. cache'[k] = cache[k]
        BY <2>3
      <3>2. ~AtWorker(client, k)
        BY <1>4, <2>3 DEF AtWorker
      <3> QED BY <2>1, <3>1, <3>2
    <2> QED BY <2>2, <2>3
  <1>7. Accounted'
    <2> SUFFICES ASSUME NEW k \in Keys, IsCurrent(client)
                 PROVE  Owed(client, k)' = Owed(client, k)
      BY <1>2 DEF Commands, Accounted
    <2>1. CASE worker.task.gen = client /\ k = worker.task.key
      <3>1. Mine /\ cache[k].state = "running" /\ cache[k].gen = client /\ cache'[k].state # "running"
        BY <1>4, <2>1
      <3>2. cache[k].waiters \in Nat
        BY <3>1, EntryType
      <3>3. Owed(client, k) = 1 + cache[k].waiters
        BY <3>1, <3>2 DEF Owed
      <3>4. Owed(client, k)' = Deliveries
        BY <1>1, <2>1, <3>1, DeliveriesType DEF Owed
      <3> QED BY <2>1, <3>1, <3>3, <3>4 DEF Deliveries
    <2>2. CASE k = worker.task.key /\ worker.task.gen # client
      <3>1. Mine => cache[k].gen # client
        BY <2>2 DEF Mine, Known
      <3>2. cache'[k] = cache[k] \/ cache'[k].state # "running"
        BY <2>2
      <3> QED BY <1>1, <2>2, <3>1, <3>2 DEF Owed
    <2>3. CASE k # worker.task.key
      <3>1. cache'[k] = cache[k]
        BY <2>3
      <3> QED BY <1>1, <2>3, <3>1 DEF Owed
    <2> QED BY <2>1, <2>2, <2>3
  <1>8. AnswersOwn' /\ AppliedOnce'
    BY <1>1 DEF Commands, AnswersOwn, AppliedOnce
  <1> QED BY <1>5, <1>6, <1>7, <1>8 DEF Commands

LEMMA CommandsComplete ==
  ASSUME TypeInv, Commands, Complete
  PROVE  Commands'
  <1>1. /\ worker.at = "executed" /\ Working("answering", Deliveries)
        /\ UNCHANGED <<client, link, reader, request, tasks, asked, answered, applied>>
    BY DEF Complete
  <1>2. CASE Mine
    <2>1. worker.task.key \in Keys /\ cache[worker.task.key] \in Entries
      BY <1>1, <1>2, MineType DEF TypeInv
    <2>2. cache[worker.task.key].gen = worker.task.gen
      BY <1>2 DEF Mine, Known
    <2>3. /\ \A k \in Keys : cache'[k] = cache[k] \/ k = worker.task.key
          /\ cache'[worker.task.key].state = "complete"
          /\ cache'[worker.task.key].gen = worker.task.gen
      BY <1>2, <2>1, <2>2 DEF Complete, TypeInv, TypeOK, Entries
    <2> QED BY <1>1, <1>2, <2>3, CommandsEnd
  <1>3. CASE ~Mine
    <2>1. cache' = cache
      BY <1>3 DEF Complete
    <2> QED BY <1>1, <1>3, <2>1, CommandsEnd
  <1> QED BY <1>2, <1>3

LEMMA CommandsFail ==
  ASSUME TypeInv, Commands, Fail
  PROVE  Commands'
  <1>1. /\ worker.at = "executed" /\ Working("answering", Deliveries)
        /\ UNCHANGED <<client, link, reader, request, tasks, asked, answered>>
        /\ applied' \subseteq applied
    BY DEF Fail
  <1>2. \A k \in Keys : cache'[k] = cache[k] \/ (Mine /\ k = worker.task.key)
    BY DEF Fail, Forget
  <1>3. Mine => cache'[worker.task.key].state # "running"
    BY <1>1, MineType DEF Fail, Forget, TypeInv, Absent
  <1>4. Mine => <<worker.task.gen, worker.task.key>> \notin applied'
    BY DEF Fail
  <1> QED BY <1>1, <1>2, <1>3, <1>4, CommandsEnd

\* One result less is owed, and one more was sent.
LEMMA CommandsDeliver ==
  ASSUME TypeInv, Commands, Deliver
  PROVE  Commands'
  <1> USE DEF TypeInv
  <1> DEFINE g == worker.task.gen
  <1> DEFINE k == worker.task.key
  <1>1. /\ worker.at = "answering" /\ worker'.at = "answering" /\ worker'.task = worker.task
        /\ worker'.deliveries = worker.deliveries - 1 /\ worker.deliveries \in Nat
        /\ worker.deliveries > 0 /\ k \in Keys /\ Answer(g, k)
        /\ UNCHANGED <<reader, request, cache, tasks, asked, applied>>
    BY WorkerTask DEF Deliver, Working, Tasks
  <1>2. IsCurrent(client)' => IsCurrent(client) /\ client' = client
    BY <1>1, SendForCurrent DEF Answer
  <1>3. IsCurrent(client)' /\ g = client => Accepts(g)
    BY <1>1, <1>2, SendForCurrent DEF Answer, IsCurrent
  <1>4. Accepts(g) => IsCurrent(client)' /\ g = client /\ client' = client
    BY <1>1, SendForCurrent DEF Answer
  <1>5. answered' = IF Accepts(g) THEN [answered EXCEPT ![<<client, k>>] = @ + 1] ELSE answered
    BY <1>1 DEF Answer
  <1> HIDE DEF g, k
  <1>6. InvPlace'
    BY <1>1, <1>2 DEF Commands, InvPlace, AtReader, AtQueue, AtWorker, Known
  <1>7. InvApplied' /\ AppliedOnce'
    BY <1>1, <1>2 DEF Commands, InvApplied, AppliedOnce, AtWorker
  <1>8. Accounted'
    <2> SUFFICES ASSUME NEW j \in Keys, IsCurrent(client)', IsCurrent(client), client' = client
                 PROVE  asked[<<client, j>>] = answered'[<<client, j>>] + Owed(client, j)'
      BY <1>1, <1>2 DEF Accounted
    <2>1. /\ asked[<<client, j>>] = answered[<<client, j>>] + Owed(client, j)
          /\ client \in Generations /\ answered[<<client, j>>] \in Nat
      BY DEF Commands, Accounted, IsCurrent, TypeOK, MaybeGeneration, Generations, NoGeneration
    <2>2. Owed(client, j) \in Nat
      BY OwedType
    <2>3. CASE g = client /\ j = k
      <3>1. answered'[<<client, j>>] = answered[<<client, j>>] + 1
        BY <1>1, <1>3, <1>5, <2>1, <2>3 DEF TypeOK
      <3>2. cache[j].state = "running" => cache[j].waiters \in Nat
        BY EntryType
      <3>3. Owed(client, j)' = Owed(client, j) - 1
        BY <1>1, <2>3, <3>2 DEF Owed, g, k
      <3> QED BY <2>1, <2>2, <3>1, <3>3
    <2>4. CASE ~(g = client /\ j = k)
      <3>1. answered'[<<client, j>>] = answered[<<client, j>>]
        BY <1>1, <1>4, <1>5, <2>1, <2>4 DEF TypeOK
      <3>2. Owed(client, j)' = Owed(client, j)
        BY <1>1, <2>4 DEF Owed, g, k
      <3> QED BY <2>1, <3>1, <3>2
    <2> QED BY <2>3, <2>4
  <1>9. AnswersOwn'
    <2>1. CASE Accepts(g)
      <3>1. client \in Generations /\ IsCurrent(client) /\ g = client
        BY <1>4, <2>1 DEF IsCurrent, Accepts, TypeOK, MaybeGeneration, Generations, NoGeneration
      <3>2. /\ asked[<<client, k>>] = answered[<<client, k>>] + Owed(client, k)
            /\ answered[<<client, k>>] \in Nat
        BY <1>1, <3>1 DEF Commands, Accounted, TypeOK
      <3>3. cache[k].state = "running" => cache[k].waiters \in Nat
        BY <1>1, EntryType
      <3>4. Owed(client, k) \in Nat /\ Owed(client, k) >= 1
        BY <1>1, <3>1, <3>3 DEF Owed, g, k
      <3>5. answered'[<<client, k>>] <= asked[<<client, k>>]
        BY <1>1, <1>5, <2>1, <3>1, <3>2, <3>4 DEF TypeOK
      <3>6. \A r \in Generations \X Keys : r # <<client, k>> => answered'[r] = answered[r]
        BY <1>1, <1>5, <2>1, <3>1 DEF TypeOK
      <3> QED BY <1>1, <3>5, <3>6 DEF Commands, AnswersOwn
    <2>2. CASE ~Accepts(g)
      BY <1>1, <1>5, <2>2 DEF Commands, AnswersOwn
    <2> QED BY <2>1, <2>2
  <1> QED BY <1>6, <1>7, <1>8, <1>9 DEF Commands

LEMMA CommandsTaskDone ==
  ASSUME TypeInv, Commands, TaskDone
  PROVE  Commands'
  <1>1. /\ worker.at = "answering" /\ worker.deliveries = 0 /\ worker'.at = "idle"
        /\ UNCHANGED <<client, link, reader, request, cache, tasks, history>>
    BY DEF TaskDone, IdleWorker
  <1>2. IsCurrent(client)' <=> IsCurrent(client)
    BY <1>1 DEF IsCurrent
  <1>3. InvPlace' /\ InvApplied'
    BY <1>1, <1>2 DEF Commands, InvPlace, InvApplied, AtReader, AtQueue, AtWorker, Known
  <1>4. Accounted'
    <2> SUFFICES ASSUME NEW k \in Keys
                 PROVE  Owed(client, k)' = Owed(client, k)
      BY <1>1, <1>2 DEF Commands, Accounted
    <2>1. cache[k].state = "running" => cache[k].waiters \in Nat
      BY EntryType DEF TypeInv
    <2> QED BY <1>1, <2>1 DEF Owed
  <1> QED BY <1>1, <1>3, <1>4 DEF Commands, AnswersOwn, AppliedOnce

\* A command enters the worker's queue: it leaves the reader, or is lost when the worker has
\* been shut down.
LEMMA CommandsSubmit ==
  ASSUME TypeInv, Commands, NEW g \in Generations, Submit(g)
  PROVE  Commands'
  <1> USE DEF TypeInv
  <1> DEFINE t == [gen |-> g, key |-> request[g].key, print |-> request[g].print]
  <1>1. /\ request[g] \in Requests /\ reader[g] = "submitting" /\ t \in Tasks
        /\ t.gen = g /\ t.key = request[g].key /\ t.print = request[g].print
    BY DEF Submit, InvRequest, Requests, Tasks
  <1>2. UNCHANGED <<client, link, cache, worker, history>>
    BY DEF Submit
  <1>3. /\ reader'[g] # "submitting"
        /\ \A h \in Generations : h # g => reader'[h] = reader[h] /\ request'[h] = request[h]
    BY DEF Submit, Goto, TypeOK
  <1>4. tasks' = tasks \/ tasks' = Append(tasks, t)
    BY DEF Submit
  <1> HIDE DEF t
  <1>5. \A i \in DOMAIN tasks' :
          \/ i \in DOMAIN tasks /\ tasks'[i] = tasks[i]
          \/ i = Len(tasks) + 1 /\ tasks'[i] = t
    <2>1. CASE tasks' = tasks
      BY <2>1
    <2>2. CASE tasks' = Append(tasks, t)
      BY <1>1, <2>2, AppendTasks
    <2> QED BY <1>4, <2>1, <2>2
  <1>6. IsCurrent(client)' <=> IsCurrent(client)
    BY <1>2 DEF IsCurrent
  <1>7. InvPlace'
    <2> SUFFICES ASSUME NEW k \in Keys, IsCurrent(client)
                 PROVE  /\ AtReader(client, k)' =>
                             /\ Known(client, k, request[client].print, "running")'
                             /\ ~AtWorker(client, k)
                             /\ \A i \in DOMAIN tasks' : ~AtQueue(i, client, k)'
                        /\ \A i \in DOMAIN tasks' : AtQueue(i, client, k)' =>
                             /\ Known(client, k, tasks[i].print, "running")'
                             /\ ~AtWorker(client, k)
                             /\ \A j \in DOMAIN tasks' : AtQueue(j, client, k)' => i = j
                        /\ AtWorker(client, k) => Known(client, k, worker.task.print, "running")
      BY <1>2, <1>6 DEF InvPlace, AtWorker, Known
    <2>1. client \in Generations
      BY DEF IsCurrent, TypeOK, MaybeGeneration, Generations, NoGeneration
    <2>2. /\ AtReader(client, k) =>
               /\ Known(client, k, request[client].print, "running")
               /\ ~AtWorker(client, k)
               /\ \A i \in DOMAIN tasks : ~AtQueue(i, client, k)
          /\ \A i \in DOMAIN tasks : AtQueue(i, client, k) =>
               /\ Known(client, k, tasks[i].print, "running")
               /\ ~AtWorker(client, k)
               /\ \A j \in DOMAIN tasks : AtQueue(j, client, k) => i = j
          /\ AtWorker(client, k) => Known(client, k, worker.task.print, "running")
      BY DEF Commands, InvPlace
    <2>3. ASSUME AtReader(client, k)'
          PROVE  /\ Known(client, k, request[client].print, "running")'
                 /\ ~AtWorker(client, k)
                 /\ \A i \in DOMAIN tasks' : ~AtQueue(i, client, k)'
      <3>1. client # g /\ AtReader(client, k) /\ request'[client] = request[client]
        BY <1>2, <1>3, <2>1, <2>3 DEF AtReader
      <3>2. \A i \in DOMAIN tasks' : AtQueue(i, client, k)' => i \in DOMAIN tasks /\ AtQueue(i, client, k)
        BY <1>1, <1>2, <1>5, <3>1 DEF AtQueue
      <3> QED BY <1>2, <2>2, <3>1, <3>2 DEF Known
    <2>4. ASSUME NEW i \in DOMAIN tasks', AtQueue(i, client, k)'
          PROVE  /\ Known(client, k, tasks[i].print, "running")'
                 /\ ~AtWorker(client, k)
                 /\ \A j \in DOMAIN tasks' : AtQueue(j, client, k)' => i = j
      <3>1. CASE client = g /\ k = t.key
        <4>1. AtReader(client, k)
          BY <1>1, <3>1 DEF AtReader
        <4>2. \A j \in DOMAIN tasks' : AtQueue(j, client, k)' => j = Len(tasks) + 1 /\ tasks'[j] = t
          BY <1>2, <1>5, <2>2, <4>1 DEF AtQueue
        <4>3. i = Len(tasks) + 1 /\ tasks'[i] = t
          BY <2>4, <4>2
        <4>4. Known(client, k, tasks[i].print, "running")'
          BY <1>1, <1>2, <2>2, <3>1, <4>1, <4>3 DEF Known
        <4> QED BY <2>2, <4>1, <4>2, <4>3, <4>4
      <3>2. CASE ~(client = g /\ k = t.key)
        <4>1. \A j \in DOMAIN tasks' : AtQueue(j, client, k)'
                => j \in DOMAIN tasks /\ AtQueue(j, client, k) /\ tasks'[j] = tasks[j]
          BY <1>1, <1>2, <1>5, <3>2 DEF AtQueue
        <4> QED BY <1>2, <2>2, <2>4, <4>1 DEF Known
      <3> QED BY <3>1, <3>2
    <2> QED BY <2>2, <2>3, <2>4
  <1>8. InvApplied' /\ Accounted' /\ AnswersOwn' /\ AppliedOnce'
    BY <1>2, <1>6 DEF Commands, InvApplied, Accounted, AnswersOwn, AppliedOnce, Owed, AtWorker
  <1> QED BY <1>7, <1>8 DEF Commands

\* The connection that is served is one of the generations.
LEMMA CurrentType ==
  ASSUME TypeOK, IsCurrent(client)
  PROVE  client \in Generations
  BY DEF IsCurrent, TypeOK, MaybeGeneration, Generations, NoGeneration

\* A new command: only completed entries make room for it.
LEMMA CommandsBeginExecute ==
  ASSUME TypeInv, Commands, NEW g \in Generations, NEW k \in Keys, NEW p \in Prints,
         BeginExecute(g, k, p)
  PROVE  Commands'
  <1> USE DEF TypeInv
  <1> DEFINE entry == [state |-> "running", print |-> p, gen |-> g, waiters |-> 0]
  <1>1. PICK old \in Displaced : Enter(k, entry, old)
    BY DEF BeginExecute
  <1>2. old \subseteq Completed
    BY DEF Displaced
  <1>3. /\ cache[k] = Absent /\ cache'[k] = entry
        /\ \A j \in Keys \ {k} :
             \/ j \notin old /\ cache'[j] = cache[j]
             \/ j \in old /\ cache[j].state = "complete" /\ cache'[j] = Absent
        /\ applied' = applied \ {<<cache[j].gen, j>> : j \in old}
    BY <1>1, <1>2 DEF BeginExecute, Enter, Completed
  <1>4. /\ cache[k].state = "absent" /\ cache[k].gen = NoGeneration
        /\ cache'[k].state = "running" /\ cache'[k].gen = g /\ cache'[k].print = p
        /\ cache'[k].waiters = 0
        /\ \A j \in Keys \ {k} : cache'[j] = cache[j] \/ (cache[j].state = "complete"
                                                        /\ cache'[j].state = "absent")
    BY <1>3 DEF Absent
  <1> HIDE DEF entry
  <1>5. /\ UNCHANGED <<client, link, tasks, worker, answered>> /\ reader[g] = "reading"
        /\ reader' = [reader EXCEPT ![g] = "submitting"]
        /\ request' = [request EXCEPT ![g] = [key |-> k, print |-> p]]
        /\ asked' = [asked EXCEPT ![<<g, k>>] = @ + 1]
    BY DEF BeginExecute, Admissible, Goto, Asks
  <1>6. IsCurrent(client)' <=> IsCurrent(client)
    BY <1>5 DEF IsCurrent
  <1>7. \A j \in Keys : \A q :
          Known(client, j, q, "running") => j # k /\ Known(client, j, q, "running")'
    BY <1>4, <1>5 DEF Known
  <1>8. \A j \in Keys : IsCurrent(client) /\ AtReader(client, j)' =>
          \/ client = g /\ j = k /\ request'[client].print = p
          \/ client # g /\ AtReader(client, j) /\ request'[client] = request[client]
    BY <1>5, CurrentType DEF AtReader, TypeOK
  <1>9. InvPlace'
    <2> SUFFICES ASSUME NEW j \in Keys, IsCurrent(client)
                 PROVE  /\ AtReader(client, j)' =>
                             /\ Known(client, j, request[client].print, "running")'
                             /\ ~AtWorker(client, j)
                             /\ \A i \in DOMAIN tasks : ~AtQueue(i, client, j)
                        /\ \A i \in DOMAIN tasks : AtQueue(i, client, j) =>
                             /\ Known(client, j, tasks[i].print, "running")'
                             /\ ~AtWorker(client, j)
                             /\ \A h \in DOMAIN tasks : AtQueue(h, client, j) => i = h
                        /\ AtWorker(client, j) => Known(client, j, worker.task.print, "running")'
      BY <1>5, <1>6 DEF InvPlace, AtWorker, AtQueue
    <2>1. /\ AtReader(client, j) =>
               /\ Known(client, j, request[client].print, "running")
               /\ ~AtWorker(client, j)
               /\ \A i \in DOMAIN tasks : ~AtQueue(i, client, j)
          /\ \A i \in DOMAIN tasks : AtQueue(i, client, j) =>
               /\ Known(client, j, tasks[i].print, "running")
               /\ ~AtWorker(client, j)
               /\ \A h \in DOMAIN tasks : AtQueue(h, client, j) => i = h
          /\ AtWorker(client, j) => Known(client, j, worker.task.print, "running")
      BY DEF Commands, InvPlace
    <2>2. ASSUME AtReader(client, j)'
          PROVE  /\ Known(client, j, request[client].print, "running")'
                 /\ ~AtWorker(client, j)
                 /\ \A i \in DOMAIN tasks : ~AtQueue(i, client, j)
      <3>1. CASE client = g /\ j = k /\ request'[client].print = p
        BY <1>4, <1>5, <1>7, <2>1, <3>1 DEF Known
      <3>2. CASE client # g /\ AtReader(client, j) /\ request'[client] = request[client]
        BY <1>5, <1>7, <2>1, <3>2 DEF Known
      <3> QED BY <1>8, <2>2, <3>1, <3>2
    <2>3. \A i \in DOMAIN tasks : AtQueue(i, client, j) => Known(client, j, tasks[i].print, "running")'
      BY <1>5, <1>7, <2>1 DEF Known
    <2>4. AtWorker(client, j) => Known(client, j, worker.task.print, "running")'
      BY <1>5, <1>7, <2>1 DEF Known
    <2> QED BY <2>1, <2>2, <2>3, <2>4
  <1>10. InvApplied'
    <2> SUFFICES ASSUME NEW j \in Keys, IsCurrent(client), <<client, j>> \in applied'
                 PROVE  /\ cache'[j].gen = client
                        /\ cache'[j].state = "complete" \/ (worker.at = "executed" /\ AtWorker(client, j))
      BY <1>5, <1>6 DEF InvApplied, AtWorker
    <2>1. /\ cache[j].gen = client /\ <<client, j>> \in applied
          /\ cache[j].state = "complete" \/ (worker.at = "executed" /\ AtWorker(client, j))
      BY <1>3 DEF Commands, InvApplied
    <2>2. j # k
      BY <1>4, <2>1 DEF IsCurrent
    <2>3. j \notin old
      BY <1>3, <2>1
    <2> QED BY <1>3, <2>1, <2>2, <2>3
  <1>11. Accounted'
    <2> SUFFICES ASSUME NEW j \in Keys, IsCurrent(client)
                 PROVE  asked'[<<client, j>>] = answered[<<client, j>>] + Owed(client, j)'
      BY <1>5, <1>6 DEF Accounted
    <2>1. /\ asked[<<client, j>>] = answered[<<client, j>>] + Owed(client, j)
          /\ client \in Generations /\ answered[<<client, j>>] \in Nat
          /\ asked[<<client, j>>] \in Nat
      BY CurrentType DEF Commands, Accounted, TypeOK
    <2>2. worker.at = "answering" => worker.deliveries \in Nat
      BY WorkerTask
    <2>3. CASE client = g /\ j = k
      <3>1. asked'[<<client, j>>] = asked[<<client, j>>] + 1
        BY <1>5, <2>1, <2>3 DEF TypeOK
      <3>2. Owed(client, j)' = Owed(client, j) + 1
        BY <1>4, <1>5, <2>2, <2>3 DEF Owed
      <3> QED BY <2>1, <3>1, <3>2, OwedType
    <2>4. CASE ~(client = g /\ j = k)
      <3>1. asked'[<<client, j>>] = asked[<<client, j>>]
        BY <1>5, <2>1, <2>4 DEF TypeOK
      <3>2. Owed(client, j)' = Owed(client, j)
        <4>1. CASE j = k
          BY <1>4, <1>5, <2>4, <4>1 DEF Owed
        <4>2. CASE j # k
          BY <1>4, <1>5, <4>2 DEF Owed
        <4> QED BY <4>1, <4>2
      <3> QED BY <2>1, <3>1, <3>2
    <2> QED BY <2>3, <2>4
  <1>12. AnswersOwn'
    <2>1. \A r \in Generations \X Keys : asked[r] \in Nat /\ answered[r] \in Nat
      BY DEF TypeOK
    <2>2. \A r \in Generations \X Keys : asked'[r] = IF r = <<g, k>> THEN asked[r] + 1 ELSE asked[r]
      BY <1>5 DEF TypeOK
    <2> QED BY <1>5, <2>1, <2>2 DEF Commands, AnswersOwn
  <1>13. AppliedOnce'
    BY <1>3, <1>5 DEF Commands, AppliedOnce
  <1> QED BY <1>9, <1>10, <1>11, <1>12, <1>13 DEF Commands

\* A duplicate waits with the command.
LEMMA CommandsBeginInFlight ==
  ASSUME TypeInv, Commands, NEW g \in Generations, NEW k \in Keys, NEW p \in Prints,
         BeginInFlight(g, k, p)
  PROVE  Commands'
  <1> USE DEF TypeInv
  <1>1. /\ UNCHANGED <<client, link, reader, request, tasks, worker, answered, applied>>
        /\ asked' = [asked EXCEPT ![<<g, k>>] = @ + 1]
        /\ cache[k].state = "running" /\ cache[k].gen = g
    BY DEF BeginInFlight, Asks, Known
  <1>2. cache[k].waiters \in Nat /\ cache[k] \in Entries
    BY <1>1, EntryType
  <1>3. /\ \A j \in Keys \ {k} : cache'[j] = cache[j]
        /\ cache'[k].state = "running" /\ cache'[k].gen = g /\ cache'[k].print = cache[k].print
        /\ cache'[k].waiters = cache[k].waiters + 1
    BY <1>1, <1>2 DEF BeginInFlight, TypeOK, Entries
  <1>4. IsCurrent(client)' <=> IsCurrent(client)
    BY <1>1 DEF IsCurrent
  <1>5. \A j \in Keys : /\ cache'[j].state = cache[j].state /\ cache'[j].gen = cache[j].gen
                        /\ cache'[j].print = cache[j].print
    BY <1>1, <1>3
  <1>6. InvPlace'
    BY <1>1, <1>4, <1>5 DEF Commands, InvPlace, AtReader, AtQueue, AtWorker, Known
  <1>7. InvApplied' /\ AppliedOnce'
    BY <1>1, <1>4, <1>5 DEF Commands, InvApplied, AppliedOnce, AtWorker
  <1>8. Accounted'
    <2> SUFFICES ASSUME NEW j \in Keys, IsCurrent(client)
                 PROVE  asked'[<<client, j>>] = answered[<<client, j>>] + Owed(client, j)'
      BY <1>1, <1>4 DEF Accounted
    <2>1. /\ asked[<<client, j>>] = answered[<<client, j>>] + Owed(client, j)
          /\ client \in Generations /\ answered[<<client, j>>] \in Nat
          /\ asked[<<client, j>>] \in Nat
      BY CurrentType DEF Commands, Accounted, TypeOK
    <2>2. worker.at = "answering" => worker.deliveries \in Nat
      BY WorkerTask
    <2>3. CASE client = g /\ j = k
      <3>1. asked'[<<client, j>>] = asked[<<client, j>>] + 1
        BY <1>1, <2>1, <2>3 DEF TypeOK
      <3>2. Owed(client, j)' = Owed(client, j) + 1
        BY <1>1, <1>2, <1>3, <2>2, <2>3 DEF Owed
      <3> QED BY <2>1, <3>1, <3>2, OwedType
    <2>4. CASE ~(client = g /\ j = k)
      <3>1. asked'[<<client, j>>] = asked[<<client, j>>]
        BY <1>1, <2>1, <2>4 DEF TypeOK
      <3>2. Owed(client, j)' = Owed(client, j)
        BY <1>1, <1>3, <2>4 DEF Owed
      <3> QED BY <2>1, <3>1, <3>2
    <2> QED BY <2>3, <2>4
  <1>9. AnswersOwn'
    <2>1. \A r \in Generations \X Keys : asked[r] \in Nat /\ answered[r] \in Nat
      BY DEF TypeOK
    <2>2. \A r \in Generations \X Keys : asked'[r] = IF r = <<g, k>> THEN asked[r] + 1 ELSE asked[r]
      BY <1>1 DEF TypeOK
    <2> QED BY <1>1, <2>1, <2>2 DEF Commands, AnswersOwn
  <1> QED BY <1>6, <1>7, <1>8, <1>9 DEF Commands

\* A replay is asked for and answered at once, or closes the connection.
LEMMA CommandsBeginReplay ==
  ASSUME TypeInv, Commands, NEW g \in Generations, NEW k \in Keys, NEW p \in Prints,
         BeginReplay(g, k, p)
  PROVE  Commands'
  <1> USE DEF TypeInv
  <1>1. /\ UNCHANGED <<request, cache, tasks, worker, applied>> /\ Answer(g, k)
        /\ asked' = [asked EXCEPT ![<<g, k>>] = @ + 1] /\ reader[g] = "reading"
    BY DEF BeginReplay, Asks, Admissible
  <1>2. reader' = [reader EXCEPT ![g] = "reading"] \/ reader' = [reader EXCEPT ![g] = "failing"]
    BY DEF BeginReplay, Goto
  <1>3. IsCurrent(client)' => IsCurrent(client) /\ client' = client
    BY <1>1, SendForCurrent DEF Answer
  <1>4. IsCurrent(client)' /\ g = client => Accepts(g)
    BY <1>1, <1>3, SendForCurrent DEF Answer, IsCurrent
  <1>5. Accepts(g) => IsCurrent(client)' /\ g = client /\ client' = client
    BY <1>1, SendForCurrent DEF Answer
  <1>6. answered' = IF Accepts(g) THEN [answered EXCEPT ![<<client, k>>] = @ + 1] ELSE answered
    BY <1>1 DEF Answer
  <1>7. \A j \in Keys : IsCurrent(client)' /\ AtReader(client, j)' => AtReader(client, j)
    BY <1>1, <1>2, <1>3, CurrentType DEF AtReader, TypeOK
  <1>8. InvPlace'
    BY <1>1, <1>3, <1>7 DEF Commands, InvPlace, AtQueue, AtWorker, Known
  <1>9. InvApplied' /\ AppliedOnce'
    BY <1>1, <1>3 DEF Commands, InvApplied, AppliedOnce, AtWorker
  <1>10. Accounted'
    <2> SUFFICES ASSUME NEW j \in Keys, IsCurrent(client)', IsCurrent(client), client' = client
                 PROVE  asked'[<<client, j>>] = answered'[<<client, j>>] + Owed(client, j)'
      BY <1>3 DEF Accounted
    <2>1. /\ asked[<<client, j>>] = answered[<<client, j>>] + Owed(client, j)
          /\ client \in Generations /\ answered[<<client, j>>] \in Nat
          /\ asked[<<client, j>>] \in Nat
      BY CurrentType DEF Commands, Accounted, TypeOK
    <2>2. Owed(client, j)' = Owed(client, j)
      BY <1>1 DEF Owed
    <2>3. CASE client = g /\ j = k
      <3>1. /\ asked'[<<client, j>>] = asked[<<client, j>>] + 1
            /\ answered'[<<client, j>>] = answered[<<client, j>>] + 1
        BY <1>1, <1>4, <1>6, <2>1, <2>3 DEF TypeOK
      <3> QED BY <2>1, <2>2, <3>1, OwedType
    <2>4. CASE ~(client = g /\ j = k)
      <3>1. asked'[<<client, j>>] = asked[<<client, j>>] /\ answered'[<<client, j>>] = answered[<<client, j>>]
        BY <1>1, <1>5, <1>6, <2>1, <2>4 DEF TypeOK
      <3> QED BY <2>1, <2>2, <3>1
    <2> QED BY <2>3, <2>4
  <1>11. AnswersOwn'
    <2>1. \A r \in Generations \X Keys : asked[r] \in Nat /\ answered[r] \in Nat /\ asked[r] >= answered[r]
      BY DEF TypeOK, Commands, AnswersOwn
    <2>2. <<g, k>> \in Generations \X Keys
      OBVIOUS
    <2>3. \A r \in Generations \X Keys :
            asked'[r] = IF r = <<g, k>> THEN asked[r] + 1 ELSE asked[r]
      BY <1>1 DEF TypeOK
    <2>4. \A r \in Generations \X Keys :
            answered'[r] = IF Accepts(g) /\ r = <<g, k>> THEN answered[r] + 1 ELSE answered[r]
      BY <1>5, <1>6, <2>2 DEF TypeOK
    <2> QED BY <2>1, <2>3, <2>4 DEF AnswersOwn
  <1> QED BY <1>8, <1>9, <1>10, <1>11 DEF Commands

\* A link that closes, or is lost, makes nobody current.
LEMMA CurrentLinks ==
  ASSUME TypeOK, NEW g \in Generations, UNCHANGED client,
         \/ UNCHANGED link
         \/ link' = [link EXCEPT ![g] = "closed"]
         \/ link[g] = "up" /\ link' = [link EXCEPT ![g] = "lost"]
  PROVE  IsCurrent(client)' => IsCurrent(client)
  <1> SUFFICES ASSUME client # NoGeneration, link'[client] # "closed"
               PROVE  link[client] # "closed"
    BY DEF IsCurrent
  <1>1. client \in Generations
    BY DEF TypeOK, MaybeGeneration, Generations, NoGeneration
  <1>2. link \in [Generations -> {"none", "up", "lost", "closed"}]
    BY DEF TypeOK
  <1>3. CASE UNCHANGED link
    BY <1>3
  <1>4. CASE link' = [link EXCEPT ![g] = "closed"]
    BY <1>1, <1>2, <1>4
  <1>5. CASE link[g] = "up" /\ link' = [link EXCEPT ![g] = "lost"]
    BY <1>1, <1>2, <1>5
  <1> QED BY <1>3, <1>4, <1>5

\* Every step keeps each command in one place and each request accounted for.
LEMMA CommandsStep ==
  ASSUME TypeInv, Connections, InvUnborn, Commands, [Next]_vars
  PROVE  Commands'
  <1> USE DEF TypeInv
  <1>1. CASE Admit
    BY <1>1, CommandsAdmit
  <1>2. CASE SendEvent
    BY <1>2, SendForCurrent, CommandsFrame DEF SendEvent, AtReader
  <1>3. CASE WorkerStep
    BY <1>3, CommandsTakeTask, CommandsExecute, CommandsComplete, CommandsFail, CommandsDeliver,
       CommandsTaskDone
       DEF WorkerStep
  <1>4. CASE StopStep
    <2>1. CASE Stop
      BY <2>1, CommandsFrame DEF Stop, AtReader, IsCurrent
    <2>2. CASE StopTearsDown
      <3>1. CASE stopTarget # NoGeneration /\ client = stopTarget
        <4>1. ~IsCurrent(client)'
          BY <2>2, <3>1 DEF StopTearsDown, Teardown, IsCurrent
        <4> QED BY <2>2, <4>1, NobodyConnected DEF StopTearsDown
      <3>2. CASE ~(stopTarget # NoGeneration /\ client = stopTarget)
        BY <2>2, <3>2, CommandsFrame DEF StopTearsDown, AtReader, IsCurrent
      <3> QED BY <3>1, <3>2
    <2>3. CASE StopEnds
      <3>1. UNCHANGED <<client, link, reader, request, cache, worker, history>> /\ tasks' = <<>>
        BY <2>3 DEF StopEnds
      <3>2. DOMAIN tasks' = {}
        BY <3>1
      <3>3. InvPlace'
        BY <3>1, <3>2 DEF Commands, InvPlace, AtReader, AtQueue, AtWorker, Known, IsCurrent
      <3>4. InvApplied' /\ Accounted' /\ AnswersOwn' /\ AppliedOnce'
        BY <3>1 DEF Commands, InvApplied, Accounted, AnswersOwn, AppliedOnce, Owed, AtWorker,
                    IsCurrent
      <3> QED BY <3>3, <3>4 DEF Commands
    <2> QED BY <1>4, <2>1, <2>2, <2>3 DEF StopStep
  <1>5. ASSUME NEW g \in Generations, ReaderStep(g)
        PROVE  Commands'
    <2>1. CASE \/ Authenticate(g) \/ AuthenticationFails(g) \/ DesktopConnected(g)
               \/ ReadEnds(g) \/ DesktopDisconnected(g)
      <3>1. UNCHANGED <<client, link, request, cache, tasks, worker, history>>
        BY <2>1 DEF Authenticate, AuthenticationFails, DesktopConnected, ReadEnds,
                    DesktopDisconnected
      <3>2. PICK at : Goto(g, at) /\ at # "submitting"
        BY <2>1 DEF Authenticate, AuthenticationFails, DesktopConnected, ReadEnds,
                    DesktopDisconnected
      <3>3. \A h \in Generations : reader'[h] = "submitting" => reader[h] = "submitting"
        BY <3>2 DEF Goto, TypeOK
      <3> QED BY <3>1, <3>3, CommandsFrame, CurrentType DEF AtReader, IsCurrent
    <2>2. CASE Announce(g)
      <3>1. \A h \in Generations : reader'[h] = "submitting" => reader[h] = "submitting"
        BY <2>2 DEF Announce, Goto, TypeOK
      <3>2. IsCurrent(client)' => IsCurrent(client) /\ client' = client
        BY <2>2, SendForCurrent DEF Announce
      <3> QED BY <2>2, <3>1, <3>2, CommandsFrame, CurrentType DEF Announce, AtReader
    <2>3. CASE Submit(g)
      BY <2>3, CommandsSubmit
    <2>4. CASE ProtocolError(g) \/ Leave(g)
      <3>1. CASE client = g
        <4>1. ~IsCurrent(client)'
          BY <2>4, <3>1 DEF ProtocolError, Leave, Teardown, IsCurrent
        <4> QED BY <2>4, <4>1, NobodyConnected DEF ProtocolError, Leave
      <3>2. CASE client # g
        <4>1. \A h \in Generations : reader'[h] = "submitting" => reader[h] = "submitting"
          BY <2>4, <3>2 DEF ProtocolError, Leave, Goto, TypeOK
        <4>2. /\ UNCHANGED <<client, request, cache, tasks, worker, history>>
              /\ \/ UNCHANGED link
                 \/ link' = [link EXCEPT ![g] = "closed"]
          BY <2>4, <3>2 DEF ProtocolError, Leave, TornDown
        <4>3. IsCurrent(client)' => IsCurrent(client)
          BY <4>2, CurrentLinks
        <4> QED BY <4>1, <4>2, <4>3, CommandsFrame, CurrentType DEF AtReader
      <3> QED BY <3>1, <3>2
    <2> QED BY <1>5, <2>1, <2>2, <2>3, <2>4 DEF ReaderStep
  <1>6. ASSUME NEW g \in Generations, Frame(g)
        PROVE  Commands'
    <2>1. ASSUME NEW k \in Keys, NEW p \in Prints, BeginRefused(g, k, p)
          PROVE  Commands'
      <3>1. \A h \in Generations : reader'[h] = "submitting" => reader[h] = "submitting"
        BY <2>1 DEF BeginRefused, Goto, TypeOK
      <3> QED BY <2>1, <3>1, CommandsFrame, CurrentType DEF BeginRefused, AtReader, IsCurrent
    <2>2. CASE Query(g)
      <3>1. \A h \in Generations : reader'[h] = "submitting" => reader[h] = "submitting"
        BY <2>2 DEF Query, Goto, TypeOK
      <3>2. IsCurrent(client)' => IsCurrent(client) /\ client' = client
        BY <2>2, SendForCurrent DEF Query
      <3> QED BY <2>2, <3>1, <3>2, CommandsFrame, CurrentType DEF Query, AtReader
    <2>3. CASE BadFrame(g)
      <3>1. \A h \in Generations : reader'[h] = "submitting" => reader[h] = "submitting"
        BY <2>3 DEF BadFrame, Goto, TypeOK
      <3> QED BY <2>3, <3>1, CommandsFrame, CurrentType DEF BadFrame, AtReader, IsCurrent
    <2> QED BY <1>6, <2>1, <2>2, <2>3, CommandsBeginExecute, CommandsBeginInFlight,
               CommandsBeginReplay
            DEF Frame
  <1>7. ASSUME NEW g \in Generations, PeerLost(g) \/ Write(g) \/ WriterEnds(g)
        PROVE  Commands'
    <2>1. /\ UNCHANGED <<client, reader, request, cache, tasks, worker, history>>
          /\ \/ UNCHANGED link \/ link' = [link EXCEPT ![g] = "closed"]
             \/ link[g] = "up" /\ link' = [link EXCEPT ![g] = "lost"]
      BY <1>7 DEF PeerLost, Write, WriterEnds
    <2>2. IsCurrent(client)' => IsCurrent(client)
      BY <2>1, CurrentLinks
    <2> QED BY <2>1, <2>2, CommandsFrame DEF AtReader
  <1>8. CASE UNCHANGED vars
    BY <1>8, CommandsFrame DEF vars, AtReader, IsCurrent
  <1> QED BY <1>1, <1>2, <1>3, <1>4, <1>5, <1>6, <1>7, <1>8 DEF Next

-----------------------------------------------------------------------------
(* The invariant, and what follows from it.                                      *)

\* The inductive invariant holds when the server starts.
THEOREM SafeInit == Init => IInv
  BY TypeInvInit, ConnectionsInit, UnbornInit, CommandsInit
     DEF IInv, TypeInv, Connections, Commands

\* Every step of a reader, a writer, the command worker, the service or the peer keeps it.
THEOREM SafeStep == IInv /\ [Next]_vars => IInv'
  <1> SUFFICES ASSUME IInv, [Next]_vars PROVE IInv'
    OBVIOUS
  <1>1. TypeInv /\ Connections /\ InvUnborn /\ Commands
    BY DEF IInv, TypeInv, Connections, Commands
  <1>2. TypeInv'
    BY <1>1, TypeInvStep
  <1>3. Connections' /\ InvUnborn' /\ Commands'
    BY <1>1, ConnectionsStep, UnbornStep, CommandsStep
  <1> QED BY <1>2, <1>3 DEF IInv, TypeInv, Connections, Commands

\* The inductive invariant holds in every state of the server (UsbServer, IdempotencyCache and
\* ConnectionGenerationOwner together).
THEOREM InductiveInvariant == Spec => []IInv
  BY SafeInit, SafeStep, PTL DEF Spec

\* However many connections, keys and requests there are: every request of the connected
\* desktop has been answered or is still to be, exactly once (handleFrame, IdempotencyCache).
THEOREM EveryRequestAccounted == Spec => []Accounted
  <1>1. IInv => Accounted
    BY DEF IInv
  <1> QED BY <1>1, InductiveInvariant, PTL

\* A key executes a command once per connection while the cache remembers it, also when a full
\* cache pushes entries out (IdempotencyCache.begin).
THEOREM CommandAppliedOnce == Spec => []AppliedOnce
  <1>1. IInv => AppliedOnce
    BY DEF IInv
  <1> QED BY <1>1, InductiveInvariant, PTL

\* No connection gets a result it did not ask for, and nothing waits to be written but what is
\* for the connected desktop (sendEventForGeneration, teardownConnection).
THEOREM NothingCrossesConnections == Spec => [](AnswersOwn /\ QueueOwn)
  <1>1. IInv => AnswersOwn /\ QueueOwn
    BY DEF IInv
  <1> QED BY <1>1, InductiveInvariant, PTL

\* The slot is held by a reader that will free it, and the service knows the desktop that is
\* served (admitClient, ConnectionGenerationOwner).
THEOREM SlotOwned == Spec => [](SlotHeld /\ KnownDesktop)
  <1>1. IInv => SlotHeld /\ KnownDesktop
    BY DEF IInv
  <1> QED BY <1>1, InductiveInvariant, PTL
=============================================================================
