---------------------------- MODULE ControlPlane ----------------------------
(***************************************************************************)
(* How a client reaches the phone: one-shot RPC connections to gatewayd    *)
(* (gateway-rpc.js, daemon-client.js), the control plane that delegates to *)
(* the gateway of the connected phone or refuses (gatewayd.js), and the    *)
(* replay cache in which that gateway remembers the commands it has been   *)
(* given (gateway.js).  And how the desktop hears of a call: the stream of *)
(* events it subscribes to and opens again when it is lost, and the        *)
(* notification of a ringing call it works out from a fresh status.        *)
(*                                                                         *)
(* A phone's connection has a gateway of its own; a restart of the daemon  *)
(* ends them all.  The two clients share only the delegation, so that one  *)
(* behaviour has one of them: "scene".                                     *)
(***************************************************************************)
EXTENDS Integers, Sequences, FiniteSets, SequencesExt

CONSTANTS
  Commands,     \* keys of commands the phone is only sent
  Evidence,     \* keys of commands whose result is awaited
  CacheSize,    \* idempotencyCacheSize
  MaxClicks,    \* bound: calls of the client
  MaxGateways,  \* bound: connections of the phone
  MaxRings,     \* bound: incoming calls
  MaxSyncs,     \* bound: syncs in progress when an event is taken
  MaxFaults     \* bound: restarts of the daemon, losses of the stream

Keys == Commands \cup Evidence

ASSUME ControlPlaneAssumption ==
  /\ Commands \cap Evidence = {} /\ Keys # {}
  /\ {CacheSize, MaxGateways} \subseteq Nat \ {0}
  /\ {MaxClicks, MaxRings, MaxFaults} \subseteq Nat
  /\ MaxSyncs \in Nat \ {0}

VARIABLES
  scene,     \* which client there is: "caller" or "desktop"
  daemon,    \* the daemon listens on its socket
  delegate,  \* the gateway the control plane delegates to, 0 when there is none
  gateways,  \* per gateway: [state, link]
  replays,   \* per gateway: what it remembers, in the order of insertion
  runs,      \* the commands being carried out
  calls,     \* per RPC call: its request, its gateway, its progress and its answer
  log,       \* history per gateway: commands begun, sent, done and failed
  phone,     \* the call of the phone: [id, ringing]
  lookups,   \* incoming calls whose caller a gateway is looking up
  current,   \* currentCall of the delegate
  stream,    \* the desktop's event stream: [at, timer, ready]
  events,    \* events on their way to the desktop
  syncs,     \* [fresh, snap]: notification syncs in progress, the latest of them fresh
  notified,  \* incomingNotificationCallId
  count      \* [rings, faults]: bounds

callerVars == <<replays, runs, calls, log>>
callVars == <<phone, lookups, current>>
deskVars == <<stream, events, syncs, notified>>
vars == <<scene, daemon, delegate, gateways, callerVars, callVars, deskVars, count>>

Gateways == 1..MaxGateways
Clicks == 1..MaxClicks
\* What validate() lets through: a key with the fields it was first sent with, or others.  The
\* key of evidence is a digest of its fields.
Requests == {r \in [key : Keys, fields : {1, 2}] : r.key \in Evidence => r.fields = 1}
Answers == {"none", "accepted", "refused", "failed"}
Quiet == [id |-> 0, ringing |-> FALSE]
CallStates == {Quiet} \cup [id : 1..MaxRings, ringing : BOOLEAN]
Unread == [id |-> -1, ringing |-> FALSE]
Idle == [request |-> [key |-> CHOOSE k \in Keys : TRUE, fields |-> 1], gateway |-> 0,
         at |-> "idle", answer |-> "none"]

\* The keys whose commands are over.
Completed(entries) == {entries[i].key : i \in {j \in DOMAIN entries : ~entries[j].pending}}

TypeOK ==
  /\ scene \in {"caller", "desktop"} /\ daemon \in BOOLEAN
  /\ delegate \in 0..MaxGateways
  /\ gateways \in [Gateways -> [state : {"new", "running", "stopped"}, link : BOOLEAN]]
  /\ replays \in [Gateways -> Seq([key : Keys, fields : {1, 2}, pending : BOOLEAN, result : Answers])]
  /\ runs \subseteq [gateway : Gateways, key : Keys, fields : {1, 2}, at : {"send", "result"}]
  /\ calls \in [Clicks -> [request : Requests, gateway : 0..MaxGateways, answer : Answers,
                           at : {"idle", "waiting", "settled"}]]
  /\ log \in [Gateways -> Seq([what : {"begun", "sent", "done", "failed"}, key : Keys, fields : {1, 2}])]
  /\ phone \in CallStates /\ current \in CallStates /\ lookups \in Seq(1..MaxRings)
  /\ stream \in [at : {"down", "opening", "acking", "up"}, timer : BOOLEAN, ready : BOOLEAN]
  /\ events \in Nat /\ notified \in 0..MaxRings
  /\ syncs \subseteq [fresh : BOOLEAN, snap : CallStates \cup {Unread}]
  /\ count \in [rings : 0..MaxRings, faults : 0..MaxFaults]
  \* what is delegated to has its phone, and no more is remembered than the cache holds
  /\ delegate # 0 => gateways[delegate] = [state |-> "running", link |-> TRUE]
  /\ \A g \in Gateways : Cardinality(Completed(replays[g])) <= CacheSize

Init ==
  /\ scene \in {"caller", "desktop"} /\ daemon = TRUE /\ delegate = 0
  /\ gateways = [g \in Gateways |-> [state |-> "new", link |-> FALSE]]
  /\ replays = [g \in Gateways |-> <<>>] /\ runs = {}
  /\ calls = [c \in Clicks |-> Idle]
  /\ log = [g \in Gateways |-> <<>>]
  /\ phone = Quiet /\ lookups = <<>> /\ current = Quiet
  /\ stream = [at |-> "down", timer |-> TRUE, ready |-> FALSE]
  /\ events = 0 /\ syncs = {} /\ notified = 0
  /\ count = [rings |-> 0, faults |-> 0]

Fault == count.faults < MaxFaults /\ count' = [count EXCEPT !.faults = @ + 1]

\* broadcastEvent: to a desktop that has subscribed.
Broadcast == events' = IF scene = "desktop" /\ stream.at \in {"acking", "up"}
                       THEN events + 1 ELSE events

-----------------------------------------------------------------------------
(* The phone comes and goes *)

\* connectPhone has started the gateway of a new connection.
Attach(g) ==
  /\ daemon /\ delegate = 0 /\ gateways[g].state = "new"
  /\ \A h \in 1..g - 1 : gateways[h].state = "stopped"
  /\ gateways' = [gateways EXCEPT ![g] = [state |-> "running", link |-> TRUE]]
  /\ delegate' = g
  /\ Broadcast
  /\ UNCHANGED <<scene, daemon, callerVars, callVars, stream, syncs, notified, count>>

\* The connection is lost: the control plane detaches at once and says so.
LinkLost ==
  /\ delegate # 0
  /\ gateways' = [gateways EXCEPT ![delegate].link = FALSE]
  /\ delegate' = 0
  /\ phone' = Quiet /\ lookups' = <<>> /\ current' = Quiet
  /\ Broadcast
  /\ UNCHANGED <<scene, daemon, callerVars, stream, syncs, notified, count>>

\* cleanupPhone: gateway.stop() comes to its end.
GatewayStops(g) ==
  /\ gateways[g].state = "running" /\ ~gateways[g].link
  /\ gateways' = [gateways EXCEPT ![g].state = "stopped"]
  /\ replays' = [replays EXCEPT ![g] = <<>>]
  /\ UNCHANGED <<scene, daemon, delegate, runs, calls, log, callVars, deskVars, count>>

\* The daemon stops: every socket is closed, every gateway stopped.
DaemonStops ==
  /\ daemon /\ Fault
  /\ daemon' = FALSE /\ delegate' = 0
  /\ gateways' = [g \in Gateways |-> IF gateways[g].state = "new" THEN gateways[g]
                                     ELSE [state |-> "stopped", link |-> FALSE]]
  /\ replays' = [g \in Gateways |-> <<>>] /\ runs' = {}
  /\ calls' = [c \in Clicks |->
                 IF calls[c].at \in {"idle", "settled"} THEN calls[c]
                 ELSE [calls[c] EXCEPT !.at = "settled", !.answer = "failed"]]
  /\ phone' = Quiet /\ lookups' = <<>> /\ current' = Quiet
  /\ stream' = [at |-> "down", timer |-> stream.timer \/ stream.at # "down", ready |-> stream.ready]
  /\ events' = 0
  /\ UNCHANGED <<scene, log, syncs, notified>>

DaemonStarts ==
  /\ ~daemon /\ daemon' = TRUE
  /\ UNCHANGED <<scene, delegate, gateways, callerVars, callVars, deskVars, count>>

-----------------------------------------------------------------------------
(* A command *)

Log(g, what, run) == [log EXCEPT ![g] = Append(@, [what |-> what, key |-> run.key, fields |-> run.fields])]

\* mutant: a command in progress is not known
RememberedDone(g, key) == {e \in ToSet(replays[g]) : e.key = key /\ ~e.pending}
Remembered(g, key) == {e \in ToSet(replays[g]) : e.key = key}
Collides(entry, request) == entry.fields # request.fields

\* #live: without a phone a command is refused.
Refused == delegate = 0

Asked(c, request, g, at, answer) ==
  calls' = [calls EXCEPT ![c] = [request |-> request, gateway |-> g, at |-> at, answer |-> answer]]

\* A call, on a connection of its own, that the daemon serves: _idempotent answers a key it
\* remembers with what its command is or will be answered with, and begins any other command.
Ask(c, request) ==
  LET g == delegate IN
  /\ scene = "caller" /\ calls[c].at = "idle"
  /\ \A d \in 1..c - 1 : calls[d].at # "idle"
  /\ \/ /\ ~daemon /\ Asked(c, request, 0, "settled", "failed")
        /\ UNCHANGED <<replays, runs, log>>
     \/ /\ daemon /\ Refused /\ Asked(c, request, 0, "settled", "refused")
        /\ UNCHANGED <<replays, runs, log>>
     \/ /\ ~Refused
        /\ \E entry \in Remembered(g, request.key) :
             IF Collides(entry, request) THEN Asked(c, request, g, "settled", "failed")
             ELSE IF entry.pending THEN Asked(c, request, g, "waiting", "none")
             ELSE Asked(c, request, g, "settled", entry.result)
        /\ UNCHANGED <<replays, runs, log>>
     \/ /\ ~Refused /\ Remembered(g, request.key) = {}
        /\ replays' = [replays EXCEPT ![g] =
             Append(@, [key |-> request.key, fields |-> request.fields,
                        pending |-> TRUE, result |-> "none"])]
        /\ runs' = runs \cup {[gateway |-> g, key |-> request.key, fields |-> request.fields,
                               at |-> "send"]}
        /\ log' = Log(g, "begun", request)
        /\ Asked(c, request, g, "waiting", "none")
  /\ UNCHANGED <<scene, daemon, delegate, gateways, callVars, deskVars, count>>

\* The calls that wait for this command, answered.
Told(run, answer) ==
  [c \in Clicks |->
     IF calls[c].at = "waiting" /\ calls[c].gateway = run.gateway /\ calls[c].request.key = run.key
     THEN [calls[c] EXCEPT !.at = "settled", !.answer = answer] ELSE calls[c]]

\* The completed commands that were inserted first are forgotten.
Evicted(entries) ==
  IF Cardinality(Completed(entries)) <= CacheSize THEN entries
  ELSE LET first == CHOOSE i \in 1..Len(entries) :
                      ~entries[i].pending /\ \A j \in 1..i - 1 : entries[j].pending
       IN RemoveAt(entries, first)

Complete(run, answer, history) ==
  LET settled == [i \in 1..Len(replays[run.gateway]) |->
                    IF replays[run.gateway][i].key = run.key
                    THEN [replays[run.gateway][i] EXCEPT !.pending = FALSE, !.result = answer]
                    ELSE replays[run.gateway][i]]
  IN /\ replays' = [replays EXCEPT ![run.gateway] = Evicted(settled)]
     /\ runs' = runs \ {run}
     /\ calls' = Told(run, answer)
     /\ log' = [log EXCEPT ![run.gateway] =
                  @ \o history \o <<[what |-> "done", key |-> run.key, fields |-> run.fields]>>]

Forgotten(entries, key) ==
  IF \E i \in DOMAIN entries : entries[i].key = key
  THEN RemoveAt(entries, CHOOSE i \in DOMAIN entries : entries[i].key = key)
  ELSE entries

\* A command that failed is forgotten, to be tried again.
Fail(run, history) ==
  /\ replays' = [replays EXCEPT ![run.gateway] = Forgotten(@, run.key)]
  /\ runs' = runs \ {run}
  /\ calls' = Told(run, "failed")
  /\ log' = [log EXCEPT ![run.gateway] =
               @ \o history \o <<[what |-> "failed", key |-> run.key, fields |-> run.fields]>>]

Sent(run) == <<[what |-> "sent", key |-> run.key, fields |-> run.fields]>>

\* The gateway refuses a command before it sends it: an answer like any other.
Refuse(run) ==
  /\ run.at = "send" /\ run.key \in Commands
  /\ Complete(run, "refused", <<>>)
  /\ UNCHANGED <<scene, daemon, delegate, gateways, callVars, deskVars, count>>

\* sendControl has written the command; evidence waits for the phone's result.
SendDone(run) ==
  /\ run.at = "send" /\ gateways[run.gateway].link
  /\ IF run.key \in Commands THEN Complete(run, "accepted", Sent(run))
     ELSE /\ runs' = (runs \ {run}) \cup {[run EXCEPT !.at = "result"]}
          /\ log' = Log(run.gateway, "sent", run)
          /\ UNCHANGED <<replays, calls>>
  /\ UNCHANGED <<scene, daemon, delegate, gateways, callVars, deskVars, count>>

\* A gateway that has stopped sends nothing; when the connection is lost before the write is
\* confirmed the phone may have the command.
SendFails(run) ==
  /\ run.at = "send" /\ ~gateways[run.gateway].link
  /\ \E history \in IF gateways[run.gateway].state = "stopped" THEN {<<>>} ELSE {<<>>, Sent(run)} :
       Fail(run, history)
  /\ UNCHANGED <<scene, daemon, delegate, gateways, callVars, deskVars, count>>

\* command_result, its timeout, or the end of the gateway.
Result(run) ==
  /\ run.at = "result"
  /\ \/ gateways[run.gateway].link /\ Complete(run, "accepted", <<>>)
     \/ Fail(run, <<>>)
  /\ UNCHANGED <<scene, daemon, delegate, gateways, callVars, deskVars, count>>

\* The client gives up; what it asked for goes on.
CallTimeout(c) ==
  /\ calls[c].at = "waiting"
  /\ calls' = [calls EXCEPT ![c].at = "settled", ![c].answer = "failed"]
  /\ UNCHANGED <<scene, daemon, delegate, gateways, replays, runs, log, callVars, deskVars, count>>

-----------------------------------------------------------------------------
(* A call and the desktop's notification *)

\* 'incoming': the caller is looked up before the call is known to the gateway.
Rings ==
  /\ scene = "desktop" /\ delegate # 0 /\ phone = Quiet /\ count.rings < MaxRings
  /\ count' = [count EXCEPT !.rings = @ + 1]
  /\ phone' = [id |-> count.rings + 1, ringing |-> TRUE]
  /\ lookups' = Append(lookups, count.rings + 1)
  /\ UNCHANGED <<scene, daemon, delegate, gateways, callerVars, current, deskVars>>

IncomingHandled ==
  /\ lookups # <<>>
  /\ current' = [id |-> Head(lookups), ringing |-> TRUE]
  /\ lookups' = Tail(lookups)
  /\ Broadcast
  /\ UNCHANGED <<scene, daemon, delegate, gateways, callerVars, phone, stream, syncs, notified, count>>

\* 'active' and 'ended' are handled at once.
PickedUp ==
  /\ phone.ringing
  /\ phone' = [phone EXCEPT !.ringing = FALSE] /\ current' = phone'
  /\ Broadcast
  /\ UNCHANGED <<scene, daemon, delegate, gateways, callerVars, lookups, stream, syncs, notified, count>>

Ends ==
  /\ phone # Quiet
  /\ phone' = Quiet
  /\ current' = IF current.id = phone.id THEN Quiet ELSE current
  /\ Broadcast
  /\ UNCHANGED <<scene, daemon, delegate, gateways, callerVars, lookups, stream, syncs, notified, count>>

\* superviseGatewayEvents: the timer fires and the stream is opened.
Connect ==
  /\ scene = "desktop" /\ daemon /\ stream.timer /\ stream.at = "down"
  /\ stream' = [stream EXCEPT !.timer = FALSE, !.at = "opening"]
  /\ UNCHANGED <<scene, daemon, delegate, gateways, callerVars, callVars, events, syncs, notified, count>>

\* The server adds the subscription, then acknowledges it.
Subscribed ==
  /\ stream.at = "opening"
  /\ stream' = [stream EXCEPT !.at = "acking"]
  /\ UNCHANGED <<scene, daemon, delegate, gateways, callerVars, callVars, events, syncs, notified, count>>

Ready ==
  /\ stream.at = "acking"
  /\ stream' = [stream EXCEPT !.at = "up", !.ready = TRUE]
  /\ UNCHANGED <<scene, daemon, delegate, gateways, callerVars, callVars, events, syncs, notified, count>>

\* mutant: a stream that could not be opened is not tried again
StreamLostUnnoticed ==
  /\ stream.at # "down" /\ Fault
  /\ stream' = [stream EXCEPT !.at = "down", !.timer = stream.at = "up"]
  /\ events' = 0
  /\ UNCHANGED <<scene, daemon, delegate, gateways, callerVars, callVars, syncs, notified>>

\* The stream closes or cannot be opened: what was on its way is lost, and it is tried again.
StreamLost ==
  /\ stream.at # "down" /\ Fault
  /\ stream' = [stream EXCEPT !.at = "down", !.timer = TRUE]
  /\ events' = 0
  /\ UNCHANGED <<scene, daemon, delegate, gateways, callerVars, callVars, syncs, notified>>

\* syncIncomingNotification: the status is asked for.
BeginSync == syncs' = {[s EXCEPT !.fresh = FALSE] : s \in syncs} \cup {[fresh |-> TRUE, snap |-> Unread]}

EventArrives ==
  /\ stream.at = "up" /\ events > 0 /\ Cardinality(syncs) < MaxSyncs
  /\ events' = events - 1
  /\ BeginSync
  /\ UNCHANGED <<scene, daemon, delegate, gateways, callerVars, callVars, stream, notified, count>>

\* What status() says of the call; nothing when the daemon cannot be asked.
Status == IF daemon /\ ~Refused THEN current ELSE Quiet

\* onReady asks for the status, and looks further only when there is a call.
ReadyRead ==
  /\ stream.ready
  /\ stream' = [stream EXCEPT !.ready = FALSE]
  /\ IF Status = Quiet THEN UNCHANGED syncs ELSE BeginSync
  /\ UNCHANGED <<scene, daemon, delegate, gateways, callerVars, callVars, events, notified, count>>

SyncRead(s) ==
  /\ s.snap = Unread
  /\ syncs' = (syncs \ {s}) \cup {[s EXCEPT !.snap = Status]}
  /\ UNCHANGED <<scene, daemon, delegate, gateways, callerVars, callVars, stream, events,
                 notified, count>>

\* mutant: the answers are taken in the order in which they come
OvertakenNever(s) == FALSE

Overtaken(s) == ~s.fresh

SyncApplied(s) ==
  /\ s.snap # Unread
  /\ syncs' = syncs \ {s}
  /\ notified' = IF Overtaken(s) THEN notified ELSE IF s.snap.ringing THEN s.snap.id ELSE 0
  /\ UNCHANGED <<scene, daemon, delegate, gateways, callerVars, callVars, stream, events, count>>

-----------------------------------------------------------------------------
Caller ==
  \/ \E c \in Clicks : \E request \in Requests : Ask(c, request)
  \/ \E c \in Clicks : CallTimeout(c)
  \/ \E run \in runs : Refuse(run) \/ SendDone(run) \/ SendFails(run) \/ Result(run)

Desktop ==
  \/ Rings \/ IncomingHandled \/ PickedUp \/ Ends
  \/ Connect \/ Subscribed \/ Ready \/ StreamLost \/ EventArrives \/ ReadyRead
  \/ \E s \in syncs : SyncRead(s) \/ SyncApplied(s)

Next ==
  \/ \E g \in Gateways : Attach(g) \/ GatewayStops(g)
  \/ LinkLost \/ DaemonStops \/ DaemonStarts
  \/ Caller \/ Desktop

\* A client's timer fires.  The daemon's sockets and the desktop's own loop make progress.
Syncing == \E s \in syncs : SyncRead(s) \/ SyncApplied(s)

Spec ==
  /\ Init /\ [][Next]_vars
  /\ \A c \in Clicks : WF_vars(CallTimeout(c))
  /\ WF_vars(Connect) /\ WF_vars(Subscribed) /\ WF_vars(Ready)
  /\ WF_vars(EventArrives) /\ WF_vars(ReadyRead) /\ WF_vars(Syncing)

-----------------------------------------------------------------------------
(* Properties *)

Between(g, i, j, what) == {e \in {log[g][n] : n \in i..j} : e.what = what}

\* However often a client tries again, a gateway begins a command a second time only if it
\* failed or CacheSize other commands have been completed since.
NeverTwice ==
  \A g \in Gateways : \A i, j \in 1..Len(log[g]) :
    i < j /\ log[g][i].what = "begun" /\ log[g][j].what = "begun" /\ log[g][i].key = log[g][j].key =>
      \/ \E e \in Between(g, i, j, "failed") : e.key = log[g][i].key
      \/ Cardinality({e.key : e \in Between(g, i, j, "done")} \ {log[g][i].key}) >= CacheSize

\* A client that is told "accepted" has had the command it asked for, with its own fields,
\* sent to the phone.
ToldTrue ==
  \A c \in Clicks : calls[c].answer = "accepted" =>
    \E e \in ToSet(log[calls[c].gateway]) :
      e.what = "sent" /\ e.key = calls[c].request.key /\ e.fields = calls[c].request.fields

\* When nothing is under way any more the notification on the screen is of the ringing call,
\* in whatever order the answers to the status requests came.
RingingShown ==
  LET settled == /\ stream.at = "up" /\ ~stream.ready /\ events = 0
                 /\ \A s \in syncs : ~s.fresh
  IN settled /\ Status.ringing => notified = Status.id

\* Every call of a client returns, though the phone never answers.
CallsReturn == \A c \in Clicks : calls[c].at = "waiting" ~> calls[c].at = "settled"

\* A call that goes on ringing is at last shown, whatever became of the stream before.
Noticed ==
  \A id \in 1..MaxRings :
    <>[](daemon /\ Status = [id |-> id, ringing |-> TRUE]) => <>[](notified = id)

\* In every state: its types, an "accepted" that is true, and a notification on the screen
\* that is of the call that rings.
ControlInv == TypeOK /\ ToldTrue /\ RingingShown

\* Every call of a client returns, and a call that goes on ringing is shown.
ControlLive == CallsReturn /\ Noticed
=============================================================================
