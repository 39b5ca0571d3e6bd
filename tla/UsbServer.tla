------------------------------ MODULE UsbServer ------------------------------
(* The phone's USB server: UsbGatewayServer with its IdempotencyCache, and what *)
(* the service keeps of the connections (ConnectionGenerationOwner), in         *)
(* app/src/main/java/com/callagent/gateway/usb.                                 *)
(*                                                                              *)
(* The accept thread admits one desktop at a time and gives every connection a  *)
(* generation.  A reader and a writer thread serve a connection, one worker     *)
(* thread executes the commands that change something, the service's threads    *)
(* send events and PCM, and stop() may be called by any of them.  What a thread *)
(* does under connectionLock, or in one call of a synchronized object, is one   *)
(* action; between two of them every other thread may run.                      *)
(*                                                                              *)
(* A definition in front of another one whose name extends that name is a       *)
(* deliberately broken variant of it, which no other definition uses.           *)
EXTENDS Naturals, Sequences, FiniteSets

CONSTANTS
  Keys,             \* the idempotency keys desktops use
  Prints,           \* the request fingerprints (the same key may come with another command)
  MaxGeneration,    \* bound: the connections admitted
  MaxRequests,      \* bound: the requests with one key on one connection
  CacheCapacity,    \* IDEMPOTENCY_CACHE_CAPACITY
  OutboundCapacity, \* OUTBOUND_QUEUE_CAPACITY
  Faults            \* "bad": a frame breaks the protocol; "throw": the executor throws;
                    \* "stop": stop() is called

ASSUME BoundsAssumption ==
  /\ MaxGeneration \in Nat /\ MaxRequests \in Nat
  /\ CacheCapacity \in Nat \ {0} /\ OutboundCapacity \in Nat \ {0}
  /\ Faults \subseteq {"bad", "throw", "stop"}

Generations == 1..MaxGeneration
NoGeneration == 0
MaybeGeneration == 0..MaxGeneration

VARIABLES
  server,       \* running, or how far stop() is
  stopTarget,   \* the connection stop() is to tear down
  accepting,    \* the accept thread is in accept(), or on its way to admitClient
  nextGeneration,
  client,       \* currentGeneration (and currentClient, currentCleanupGuard)
  link,         \* the socket of every connection: none, up, lost (by the peer), closed
  reader,       \* what the reader of every connection is doing
  request,      \* the command a reader submits
  writer,       \* the writer of every connection: none, running, done
  outbound,     \* outboundQueue, by the generation a message is for
  cache,        \* IdempotencyCache.entries
  order,        \* the order of its keys: for every key, those entered before it
  tasks,        \* the queue of the mutation worker
  worker,       \* what the worker is doing
  owner,        \* the service's ConnectionGenerationOwner
  asked,        \* history: the requests admitted, by connection and key
  answered,     \* history: the results queued for the desktop, by connection and key
  applied       \* history: the commands executed and not forgotten by the cache since

socketVars == <<client, link, outbound>>
cacheVars == <<cache, order>>
stopVars == <<server, stopTarget>>
admitVars == <<accepting, nextGeneration>>
history == <<asked, answered, applied>>
vars == <<stopVars, admitVars, socketVars, reader, request, writer, cacheVars,
          tasks, worker, owner, history>>

Absent == [state |-> "absent", print |-> "none", gen |-> NoGeneration, waiters |-> 0]
Entries == [state : {"running", "complete"}, print : Prints, gen : Generations, waiters : Nat]
Requests == [key : Keys, print : Prints]
Tasks == [gen : Generations, key : Keys, print : Prints]
IdleWorker == [at |-> "idle", deliveries |-> 0]
WorkerStates ==
  {IdleWorker} \cup [at : {"admitted", "executed", "answering"}, deliveries : Nat, task : Tasks]
Serving == {"announcing", "reading", "submitting", "failing"}

TypeOK ==
  /\ server \in {"running", "stopping", "closing", "down"} /\ stopTarget \in MaybeGeneration
  /\ accepting \in BOOLEAN /\ nextGeneration \in MaybeGeneration
  /\ client \in MaybeGeneration
  /\ link \in [Generations -> {"none", "up", "lost", "closed"}]
  /\ reader \in [Generations -> {"none", "authenticating", "starting", "leaving", "reporting",
                                 "done"} \cup Serving]
  /\ request \in [Generations -> Requests \cup {<<>>}]
  /\ writer \in [Generations -> {"none", "running", "done"}]
  /\ outbound \in Seq(Generations)
  /\ cache \in [Keys -> Entries \cup {Absent}] /\ order \in [Keys -> SUBSET Keys]
  /\ tasks \in Seq(Tasks) /\ worker \in WorkerStates
  /\ owner \in MaybeGeneration
  /\ asked \in [Generations \X Keys -> Nat] /\ answered \in [Generations \X Keys -> Nat]
  /\ applied \subseteq Generations \X Keys

Init ==
  /\ server = "running" /\ stopTarget = NoGeneration
  /\ accepting = TRUE /\ nextGeneration = 0
  /\ client = NoGeneration /\ link = [g \in Generations |-> "none"] /\ outbound = <<>>
  /\ reader = [g \in Generations |-> "none"] /\ request = [g \in Generations |-> <<>>]
  /\ writer = [g \in Generations |-> "none"]
  /\ cache = [k \in Keys |-> Absent] /\ order = [k \in Keys |-> {}]
  /\ tasks = <<>> /\ worker = IdleWorker
  /\ owner = NoGeneration
  /\ asked = [r \in Generations \X Keys |-> 0] /\ answered = [r \in Generations \X Keys |-> 0]
  /\ applied = {}

-----------------------------------------------------------------------------
(* Shared parts.                                                               *)

Goto(g, at) == reader' = [reader EXCEPT ![g] = at]

\* Whatever connection there is will do.
IsCurrentUnowned(g) == client # NoGeneration /\ link[client] # "closed"

\* isCurrentGeneration: also the condition under which anything is queued for g.
IsCurrent(g) == g = client /\ g # NoGeneration /\ link[g] # "closed"

Accepts(g) == IsCurrent(g) /\ Len(outbound) < OutboundCapacity

\* sendEventForGeneration, sendOutbound: a message is for the connection that is current
\* when it is queued; a full queue closes that connection.
SendFor(g) ==
  /\ outbound' = IF Accepts(g) THEN Append(outbound, client) ELSE outbound
  /\ link' = IF IsCurrent(g) /\ ~Accepts(g) THEN [link EXCEPT ![client] = "closed"] ELSE link
  /\ UNCHANGED client

Answer(g, k) ==
  /\ SendFor(g)
  /\ answered' = IF Accepts(g) THEN [answered EXCEPT ![<<client, k>>] = @ + 1] ELSE answered

Forget(old) ==
  /\ cache' = [k \in Keys |-> IF k \in old THEN Absent ELSE cache[k]]
  /\ order' = [k \in Keys |-> IF k \in old THEN {} ELSE order[k] \ old]

RunningOf(g) == {k \in Keys : cache[k].state = "running" /\ cache[k].gen = g}

CancelGeneration(g) == Forget(RunningOf(g))

\* teardownConnection, by the thread that finds the connection still there.
Teardown(g) ==
  /\ client' = NoGeneration
  /\ link' = [link EXCEPT ![g] = "closed"]
  /\ outbound' = <<>>
  /\ CancelGeneration(g)

\* Another thread was first: the connection is not the current one any more.
TornDown(g) ==
  /\ link' = [link EXCEPT ![g] = "closed"]
  /\ UNCHANGED <<client, outbound, cacheVars>>

-----------------------------------------------------------------------------
(* Connections.                                                                *)

\* The accept thread looks at running before it accepts: a connection accepted while the
\* server stops is admitted even after it.
Admit ==
  /\ accepting /\ client = NoGeneration
  /\ nextGeneration < MaxGeneration
  /\ nextGeneration' = nextGeneration + 1
  /\ client' = nextGeneration'
  /\ link' = [link EXCEPT ![nextGeneration'] = "up"]
  /\ outbound' = <<>>
  /\ Goto(nextGeneration', "authenticating")
  /\ accepting' = (server = "running")
  /\ UNCHANGED <<stopVars, request, writer, cacheVars, tasks, worker, owner, history>>

Authenticate(g) ==
  /\ reader[g] = "authenticating" /\ link[g] # "closed"
  /\ writer' = [writer EXCEPT ![g] = "running"]
  /\ Goto(g, "starting")
  /\ UNCHANGED <<stopVars, admitVars, socketVars, request, cacheVars, tasks, worker,
                 owner, history>>

AuthenticationFails(g) ==
  /\ reader[g] = "authenticating"
  /\ Goto(g, "leaving")
  /\ UNCHANGED <<stopVars, admitVars, socketVars, request, writer, cacheVars, tasks,
                 worker, owner, history>>

\* onDesktopConnected: a connection older than the one the service knows is ignored.
DesktopConnected(g) ==
  /\ reader[g] = "starting"
  /\ Goto(g, IF owner < g THEN "announcing" ELSE "reading")
  /\ owner' = IF owner < g THEN g ELSE owner
  /\ UNCHANGED <<stopVars, admitVars, socketVars, request, writer, cacheVars, tasks,
                 worker, history>>

\* The capabilities are sent to whoever is connected by then.
Announce(g) ==
  /\ reader[g] = "announcing"
  /\ Goto(g, "reading")
  /\ SendFor(client)
  /\ UNCHANGED <<stopVars, admitVars, request, writer, cacheVars, tasks, worker, owner,
                 history>>

PeerLost(g) ==
  /\ link[g] = "up"
  /\ link' = [link EXCEPT ![g] = "lost"]
  /\ UNCHANGED <<stopVars, admitVars, client, outbound, reader, request, writer,
                 cacheVars, tasks, worker, owner, history>>

\* Only the end of the server ends the reader.
ReadEndsOnStop(g) ==
  /\ reader[g] = "reading" /\ server # "running"
  /\ Goto(g, "leaving")
  /\ UNCHANGED <<stopVars, admitVars, socketVars, request, writer, cacheVars, tasks,
                 worker, owner, history>>

\* The end of the stream, or of the server.
ReadEnds(g) ==
  /\ reader[g] = "reading" /\ (link[g] # "up" \/ server # "running")
  /\ Goto(g, "leaving")
  /\ UNCHANGED <<stopVars, admitVars, socketVars, request, writer, cacheVars, tasks,
                 worker, owner, history>>

\* protocolError: the connection is torn down here, so that the finally block,
\* which reports a disconnect only when it did the teardown, has nothing to report.
ProtocolError(g) ==
  /\ reader[g] = "failing"
  /\ IF client = g THEN Teardown(g) ELSE TornDown(g)
  /\ Goto(g, "leaving")
  /\ UNCHANGED <<stopVars, admitVars, request, writer, tasks, worker,
                 owner, history>>

\* The finally block of the reader.
Leave(g) ==
  /\ reader[g] = "leaving"
  /\ IF client = g THEN Teardown(g) ELSE UNCHANGED <<socketVars, cacheVars>>
  /\ Goto(g, IF client = g /\ writer[g] # "none" THEN "reporting" ELSE "done")
  /\ UNCHANGED <<stopVars, admitVars, request, writer, tasks, worker,
                 owner, history>>

DesktopDisconnected(g) ==
  /\ reader[g] = "reporting"
  /\ owner' = IF owner = g THEN NoGeneration ELSE owner
  /\ Goto(g, "done")
  /\ UNCHANGED <<stopVars, admitVars, socketVars, request, writer, cacheVars, tasks,
                 worker, history>>

-----------------------------------------------------------------------------
(* What the service and the writer send.                                       *)

\* sendEvent and sendPcm, called by the service's threads.
SendEvent ==
  /\ IsCurrent(client)
  /\ SendFor(client)
  /\ UNCHANGED <<stopVars, admitVars, reader, request, writer, cacheVars, tasks,
                 worker, owner, history>>

\* A message is taken from the queue and written, or dropped when it is not for g.
Write(g) ==
  /\ writer[g] = "running" /\ client = g /\ link[g] = "up" /\ server = "running"
  /\ outbound # <<>>
  /\ outbound' = Tail(outbound)
  /\ UNCHANGED <<stopVars, admitVars, client, link, reader, request, writer, cacheVars,
                 tasks, worker, owner, history>>

\* The socket is closed, a write fails, or the server stops.
WriterEnds(g) ==
  /\ writer[g] = "running"
  /\ link[g] = "closed" \/ (link[g] = "lost" /\ outbound # <<>>) \/ server # "running"
  /\ writer' = [writer EXCEPT ![g] = "done"]
  /\ link' = [link EXCEPT ![g] = "closed"]
  /\ outbound' = IF client = g THEN <<>> ELSE outbound
  /\ UNCHANGED <<stopVars, admitVars, client, reader, request, cacheVars, tasks, worker,
                 owner, history>>

-----------------------------------------------------------------------------
(* Frames.  A frame may have been received before the connection was closed.   *)

Admissible(g, k) == reader[g] = "reading" /\ asked[<<g, k>>] < MaxRequests

Asks(g, k) == asked' = [asked EXCEPT ![<<g, k>>] = @ + 1]

\* Commands that are queued or running may be pushed out too.
CompletedOrRunning == {k \in Keys : cache[k] # Absent}

Completed == {k \in Keys : cache[k].state = "complete"}

Entered == {k \in Keys : cache[k] # Absent}

\* What a new key pushes out: nothing, or the eldest of the completed entries when the
\* cache is full.
Displaced ==
  IF Cardinality(Entered) < CacheCapacity
    THEN {{}} ELSE {{k} : k \in {j \in Completed : order[j] \cap Completed = {}}}

Enter(k, entry, old) ==
  /\ cache' = [j \in Keys |-> IF j = k THEN entry ELSE IF j \in old THEN Absent ELSE cache[j]]
  /\ order' = [j \in Keys |-> IF j = k THEN Entered \ old ELSE order[j] \ old]
  /\ applied' = applied \ {<<cache[j].gen, j>> : j \in old}

\* IdempotencyCache.begin = Execute.
BeginExecute(g, k, p) ==
  /\ Admissible(g, k) /\ cache[k] = Absent
  /\ \E old \in Displaced :
       Enter(k, [state |-> "running", print |-> p, gen |-> g, waiters |-> 0], old)
  /\ Asks(g, k)
  /\ request' = [request EXCEPT ![g] = [key |-> k, print |-> p]]
  /\ Goto(g, "submitting")
  /\ UNCHANGED <<stopVars, admitVars, socketVars, writer, tasks, worker, owner,
                 answered>>

\* mutationWorker.execute: refused after shutdownNow with an exception that the reader does
\* not catch.
Submit(g) ==
  /\ reader[g] = "submitting"
  /\ IF server = "down"
       THEN Goto(g, "leaving") /\ UNCHANGED tasks
       ELSE /\ Goto(g, "reading")
            /\ tasks' = Append(tasks, [gen |-> g, key |-> request[g].key,
                                       print |-> request[g].print])
  /\ request' = [request EXCEPT ![g] = <<>>]
  /\ UNCHANGED <<stopVars, admitVars, socketVars, writer, cacheVars, worker, owner,
                 history>>

Known(g, k, p, s) == cache[k].state = s /\ cache[k].gen = g /\ cache[k].print = p

BeginInFlight(g, k, p) ==
  /\ Admissible(g, k) /\ Known(g, k, p, "running")
  /\ cache' = [cache EXCEPT ![k].waiters = @ + 1]
  /\ Asks(g, k)
  /\ UNCHANGED <<stopVars, admitVars, socketVars, reader, request, writer, order, tasks,
                 worker, owner, answered, applied>>

BeginReplay(g, k, p) ==
  /\ Admissible(g, k) /\ Known(g, k, p, "complete")
  /\ Answer(g, k)
  /\ Goto(g, IF Accepts(g) THEN "reading" ELSE "failing")
  /\ Asks(g, k)
  /\ UNCHANGED <<stopVars, admitVars, request, writer, cacheVars, tasks, worker, owner,
                 applied>>

\* Collision, GenerationMismatch, Capacity.
BeginRefused(g, k, p) ==
  /\ Admissible(g, k)
  /\ \/ cache[k] # Absent /\ (cache[k].gen # g \/ cache[k].print # p)
     \/ cache[k] = Absent /\ Displaced = {}
  /\ Goto(g, "failing")
  /\ UNCHANGED <<stopVars, admitVars, socketVars, request, writer, cacheVars, tasks,
                 worker, owner, history>>

\* status and capabilities are executed by the reader and answered at once.
Query(g) ==
  /\ reader[g] = "reading"
  /\ SendFor(g)
  /\ Goto(g, IF Accepts(g) THEN "reading" ELSE "failing")
  /\ UNCHANGED <<stopVars, admitVars, request, writer, cacheVars, tasks, worker, owner,
                 history>>

\* Malformed, of the wrong session or direction, or refused by its receiver.
BadFrame(g) ==
  /\ "bad" \in Faults
  /\ reader[g] = "reading"
  /\ Goto(g, "failing")
  /\ UNCHANGED <<stopVars, admitVars, socketVars, request, writer, cacheVars, tasks,
                 worker, owner, history>>

-----------------------------------------------------------------------------
(* The mutation worker.                                                        *)

Working(at, d) == worker' = [at |-> at, deliveries |-> d, task |-> worker.task]

\* The generation is looked at before the command runs, and not while it does.
TakeTask ==
  /\ worker = IdleWorker /\ tasks # <<>>
  /\ tasks' = Tail(tasks)
  /\ IF IsCurrent(Head(tasks).gen)
       THEN /\ worker' = [at |-> "admitted", deliveries |-> 0, task |-> Head(tasks)]
            /\ UNCHANGED cacheVars
       ELSE CancelGeneration(Head(tasks).gen) /\ UNCHANGED worker
  /\ UNCHANGED <<stopVars, admitVars, socketVars, reader, request, writer, owner,
                 history>>

Execute ==
  /\ worker.at = "admitted"
  /\ Working("executed", 0)
  /\ applied' = applied \cup {<<worker.task.gen, worker.task.key>>}
  /\ UNCHANGED <<stopVars, admitVars, socketVars, reader, request, writer, cacheVars,
                 tasks, owner, asked, answered>>

\* The entry of the command is still there: cancelled with its connection, it may have been
\* entered again by the next one.
Mine == Known(worker.task.gen, worker.task.key, worker.task.print, "running")

\* The duplicates that wait are not counted.
DeliveriesOnce == IF Mine THEN 1 ELSE 0

Deliveries == IF Mine THEN 1 + cache[worker.task.key].waiters ELSE 0

\* IdempotencyCache.complete; when it finds another entry it throws, and fail does nothing.
Complete ==
  /\ worker.at = "executed"
  /\ Working("answering", Deliveries)
  /\ cache' = IF Mine THEN [cache EXCEPT ![worker.task.key].state = "complete",
                                         ![worker.task.key].waiters = 0]
                      ELSE cache
  /\ UNCHANGED <<stopVars, admitVars, socketVars, reader, request, writer, order, tasks,
                 owner, history>>

\* No result is delivered.
FailSilently ==
  /\ "throw" \in Faults
  /\ worker.at = "executed"
  /\ Working("answering", 0)
  /\ UNCHANGED <<stopVars, admitVars, socketVars, reader, request, writer, cacheVars, tasks, owner,
                 history>>

\* The executor throws: IdempotencyCache.fail forgets the entry.
Fail ==
  /\ "throw" \in Faults
  /\ worker.at = "executed"
  /\ Working("answering", Deliveries)
  /\ Forget(IF Mine THEN {worker.task.key} ELSE {})
  /\ applied' = applied \ (IF Mine THEN {<<worker.task.gen, worker.task.key>>} ELSE {})
  /\ UNCHANGED <<stopVars, admitVars, socketVars, reader, request, writer, tasks, owner,
                 asked, answered>>

Deliver ==
  /\ worker.at = "answering" /\ worker.deliveries > 0
  /\ Answer(worker.task.gen, worker.task.key)
  /\ Working("answering", worker.deliveries - 1)
  /\ UNCHANGED <<stopVars, admitVars, reader, request, writer, cacheVars, tasks, owner,
                 asked, applied>>

TaskDone ==
  /\ worker.at = "answering" /\ worker.deliveries = 0
  /\ worker' = IdleWorker
  /\ UNCHANGED <<stopVars, admitVars, socketVars, reader, request, writer, cacheVars,
                 tasks, owner, history>>

-----------------------------------------------------------------------------
(* stop().                                                                     *)

Stop ==
  /\ "stop" \in Faults
  /\ server = "running"
  /\ server' = "stopping" /\ stopTarget' = client
  /\ UNCHANGED <<admitVars, socketVars, reader, request, writer, cacheVars, tasks,
                 worker, owner, history>>

StopTearsDown ==
  /\ server = "stopping"
  /\ server' = "closing"
  /\ IF stopTarget # NoGeneration /\ client = stopTarget
       THEN Teardown(stopTarget)
       ELSE UNCHANGED <<socketVars, cacheVars>>
  /\ UNCHANGED <<stopTarget, admitVars, reader, request, writer, tasks,
                 worker, owner, history>>

\* The listening socket is closed and the worker shut down: its queue is dropped.
StopEnds ==
  /\ server = "closing"
  /\ server' = "down" /\ tasks' = <<>>
  /\ UNCHANGED <<stopTarget, admitVars, socketVars, reader, request, writer, cacheVars,
                 worker, owner, history>>

-----------------------------------------------------------------------------
Frame(g) ==
  \/ \E k \in Keys, p \in Prints :
       BeginExecute(g, k, p) \/ BeginInFlight(g, k, p) \/ BeginReplay(g, k, p)
         \/ BeginRefused(g, k, p)
  \/ Query(g) \/ BadFrame(g)

\* What a reader does without waiting for its desktop.
ReaderStep(g) ==
  \/ Authenticate(g) \/ AuthenticationFails(g) \/ DesktopConnected(g) \/ Announce(g)
  \/ Submit(g) \/ ReadEnds(g) \/ ProtocolError(g) \/ Leave(g) \/ DesktopDisconnected(g)

WorkerStep == TakeTask \/ Execute \/ Complete \/ Fail \/ Deliver \/ TaskDone

StopStep == Stop \/ StopTearsDown \/ StopEnds

Next ==
  \/ Admit \/ SendEvent \/ WorkerStep \/ StopStep
  \/ \E g \in Generations :
       ReaderStep(g) \/ Frame(g) \/ PeerLost(g) \/ Write(g) \/ WriterEnds(g)

Spec == Init /\ [][Next]_vars

\* Every thread of the server runs: Telecom calls return and the handshake has a timeout.
\* Nothing is assumed of the desktop, of the service's threads, or of the socket's writes.
Fairness ==
  /\ WF_vars(WorkerStep)
  /\ \A g \in Generations : WF_vars(ReaderStep(g)) /\ WF_vars(WriterEnds(g))

FairSpec == Spec /\ Fairness

-----------------------------------------------------------------------------
(* Properties.                                                                 *)

Owed(g, k) ==
  (IF cache[k].state = "running" /\ cache[k].gen = g THEN 1 + cache[k].waiters ELSE 0)
  + (IF worker.at = "answering" /\ worker.task.gen = g /\ worker.task.key = k
       THEN worker.deliveries ELSE 0)

\* Every request of the connected desktop has been answered or will be, once: those that
\* came while the command was queued or running wait for its result, those that come later
\* get a replay, and none is dropped, doubled or sent to the wrong connection (handleFrame,
\* IdempotencyCache).
Accounted ==
  \A k \in Keys : IsCurrent(client) =>
    asked[<<client, k>>] = answered[<<client, k>>] + Owed(client, k)

\* No connection is sent more results than it asked for: a command of an earlier
\* connection does not answer to a later one (sendEventForGeneration).
AnswersOwn == \A r \in Generations \X Keys : answered[r] <= asked[r]

\* A command is executed once per connection and key, until the cache forgets it because
\* the executor threw or because other keys pushed it out.
AppliedOnce ==
  worker.at = "admitted" => <<worker.task.gen, worker.task.key>> \notin applied

\* What waits to be written is for the connected desktop (admitClient, teardownConnection).
QueueOwn == \A i \in DOMAIN outbound : outbound[i] = client

\* The one slot for a desktop is never taken by a connection whose reader is past its
\* cleanup: it will be freed (admitClient, the finally block, protocolError).
SlotHeld ==
  client # NoGeneration => reader[client] \in {"authenticating", "starting", "leaving"} \cup Serving

\* While a desktop is served, the service knows that one: the callbacks of an earlier
\* connection, which run outside the lock, may come late (ConnectionGenerationOwner).
KnownDesktop ==
  \A g \in Generations : client = g /\ reader[g] \in Serving => owner = g

\* A desktop that is gone, or that failed to authenticate, gives the slot back.
SlotReleased ==
  \A g \in Generations : client = g /\ link[g] # "up" ~> client # g

\* A request is answered unless the connection is closed first.
RequestsAnswered ==
  \A g \in Generations, k \in Keys :
    client = g /\ asked[<<g, k>>] > answered[<<g, k>>]
      ~> link[g] = "closed" \/ asked[<<g, k>>] = answered[<<g, k>>]

-----------------------------------------------------------------------------
(* The inductive invariant.                                                    *)

\* Who has the command of key k on connection g: the reader that is to submit it,
\* place i of the worker's queue, or the worker.
AtReader(g, k) == reader[g] = "submitting" /\ request[g].key = k
AtQueue(i, g, k) == tasks[i].gen = g /\ tasks[i].key = k
AtWorker(g, k) ==
  worker.at \in {"admitted", "executed"} /\ worker.task.gen = g /\ worker.task.key = k

\* The current connection is the newest; no thread serves one that is still to come.
InvNewest ==
  /\ client # NoGeneration => client = nextGeneration
  /\ owner <= nextGeneration
  /\ \A g \in Generations : g > nextGeneration => reader[g] = "none"

\* No command belongs to a connection that is still to come.
InvUnborn ==
  \A g \in Generations : g > nextGeneration =>
    /\ \A k \in Keys : asked[<<g, k>>] = 0 /\ answered[<<g, k>>] = 0 /\ <<g, k>> \notin applied
    /\ \A k \in Keys : cache[k].gen # g
    /\ \A i \in DOMAIN tasks : tasks[i].gen # g
    /\ worker.at # "idle" => worker.task.gen # g

\* A reader that submits has a command to submit.
InvRequest == \A g \in Generations : reader[g] = "submitting" => request[g] \in Requests

\* A command of the current connection that is on its way is in one place only, and the
\* cache says so.
InvPlace ==
  \A k \in Keys : IsCurrent(client) =>
    /\ AtReader(client, k) =>
         /\ Known(client, k, request[client].print, "running")
         /\ ~AtWorker(client, k)
         /\ \A i \in DOMAIN tasks : ~AtQueue(i, client, k)
    /\ \A i \in DOMAIN tasks : AtQueue(i, client, k) =>
         /\ Known(client, k, tasks[i].print, "running")
         /\ ~AtWorker(client, k)
         /\ \A j \in DOMAIN tasks : AtQueue(j, client, k) => i = j
    /\ AtWorker(client, k) => Known(client, k, worker.task.print, "running")

\* The cache remembers every command of the current connection that was executed.
InvApplied ==
  \A k \in Keys : IsCurrent(client) /\ <<client, k>> \in applied =>
    /\ cache[k].gen = client
    /\ cache[k].state = "complete" \/ (worker.at = "executed" /\ AtWorker(client, k))

IInv ==
  /\ TypeOK /\ InvNewest /\ InvUnborn /\ InvRequest /\ InvPlace /\ InvApplied
  /\ SlotHeld /\ QueueOwn /\ KnownDesktop /\ Accounted /\ AnswersOwn /\ AppliedOnce
=============================================================================
