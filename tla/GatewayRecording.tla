--------------------------- MODULE GatewayRecording ---------------------------
(* The recording lifecycle of the desktop gateway: class Gateway of            *)
(* pc/pc-gateway/src/gateway.js.                                               *)
(*                                                                             *)
(* gateway.js is single-threaded JavaScript: code between two awaits is        *)
(* atomic, and every await is a place where another handler can run.  An       *)
(* asynchronous function is therefore a label (the await it is suspended at)   *)
(* and one action per resumption.  Four kinds of activity share the fields of  *)
(* the gateway:                                                                *)
(*   - device events, run synchronously when a frame arrives;                  *)
(*   - the operations chained on the promise recordingWork, run one at a time  *)
(*     in the order they were queued (recordingWork, chain);                   *)
(*   - the answer() calls of the RPC clients, which run beginRecording outside *)
(*     that chain (begin);                                                     *)
(*   - start() and stop() (starter, stop).                                     *)
(*                                                                             *)
(* CallRecorder objects are identified by the id of the call they record:      *)
(* RecordingManager.start creates the directory of that id and fails when it   *)
(* exists, so a call has at most one recorder.                                 *)
(*                                                                             *)
(* The life of one Gateway object is modelled as gatewayd.js runs it with a    *)
(* real phone: the object is made around a connected device, requests reach it *)
(* only while it is attached (started, connected, not being stopped), and it   *)
(* is never started twice.                                                     *)
(*                                                                             *)
(* A definition in front of another one whose name extends that name           *)
(* (DisownLeavesRecorder before Disown) is a deliberately broken variant of    *)
(* it: no other definition uses it, it serves to see that a property notices.  *)
EXTENDS Naturals, Sequences

CONSTANTS
  Calls,        \* the call ids the phone may generate
  Incoming,     \* the calls that ring
  Outgoing,     \* the calls placed by a dial command of the gateway
  Clients,      \* the concurrent answer() requests
  Chain,        \* names the begin of an outgoing call, run by the chain
  None,
  MaxQueue,     \* bound: no event or write is queued on a longer chain
  CallWaiting,  \* the phone may have a second call while one is in progress
  Transcribed,  \* the calls whose speech provider yields final transcripts
  Faults        \* the kinds of failure that may happen

FaultKinds == {"start", "realtime", "write", "audit", "finalize", "send", "backpressure"}

ASSUME CallsAssumption ==
  /\ Incoming \subseteq Calls
  /\ Outgoing \subseteq Calls
  /\ Transcribed \subseteq Calls
  /\ Incoming \cap Outgoing = {}
ASSUME NamesAssumption ==
  None \notin Calls /\ Chain \notin Clients /\ "stop" \notin Clients \cup {Chain}
ASSUME BoundsAssumption == MaxQueue \in Nat /\ Faults \subseteq FaultKinds
ASSUME PhoneAssumption == CallWaiting \in BOOLEAN

Workers == Clients \cup {Chain}
MaybeCall == Calls \cup {None}
TerminalEvents == {"ended", "media_failure"}

VARIABLES
  phone,        \* external: the telephony state of every call
  gsmCall,      \* external: the id the phone reports events with, whichever call they
                \* are of: activeCallId, the last call added, and when that one is
                \* gone the id its own status still shows
  connected,    \* device.state = 'connected'
  session,      \* external: the call whose recording_session the phone was told is
                \* active on this connection, unless its bridge failed since
  announced,    \* external: the incoming calls the clients have been told of
  state,        \* Gateway.state
  starter,      \* the await start() is suspended at
  stop,         \* the await stop() is suspended at, and what it captured
  activeRecorder, activeRecordingCallId, activeRealtime,
  teardownPending,   \* recordingTeardownPending
  recordingHealthy,  \* recordingHealth.healthy
  currentCall,       \* the id of currentCall, and whether its direction is 'incoming'
  pendingOutgoing,   \* pendingOutgoingRecording # null
  recordingWork,     \* the operations of the promise chain, the running one first
  sends,        \* who waits for a message to leave the send queue of the device client
  chain,        \* the await the running operation is suspended at
  begin,        \* the await every beginRecording is suspended at
  recorder,     \* the recorder of every call: none, open or closed (finalize called)
  complete,     \* the manifest of the call says complete
  rts           \* the realtime session of every call: none, live or closed

callVars == <<phone, gsmCall>>
phoneVars == <<callVars, connected, session>>
lifeVars == <<state, starter>>
ownerVars == <<activeRecorder, activeRecordingCallId, activeRealtime>>
statusVars == <<recordingHealthy, currentCall, pendingOutgoing>>
artifactVars == <<recorder, complete, rts>>
vars == <<phoneVars, announced, lifeVars, stop, ownerVars, teardownPending, statusVars,
          recordingWork, sends, chain, begin, artifactVars>>

PhonePhases == {"none", "ringing", "dialing", "active", "disconnected", "removed"}
Live == {"ringing", "dialing", "active"}
Over == {"disconnected", "removed"}

OpKinds == {"incoming", "begin", "append", "transcript", "lost"} \cup TerminalEvents
Operation == [kind : OpKinds, call : Calls, own : MaybeCall, id : MaybeCall, rt : MaybeCall]
Outcomes == TerminalEvents \cup {"recording_write_failed", "transport_lost"}
ChainStates == [at : {"idle", "lookup", "begin", "append", "revoke", "note", "close", "seal",
                     "sync"},
                why : Outcomes \cup {"none"}, held : MaybeCall]
BeginStates == [at : {"idle", "start", "create", "attach", "ack", "unwind", "seal", "answer"},
                call : MaybeCall]
StopStates == [at : {"idle", "drain", "revoke", "close", "seal"}, wait : Nat,
               rec : MaybeCall, rt : MaybeCall]

TypeOK ==
  /\ phone \in [Calls -> PhonePhases] /\ gsmCall \in MaybeCall
  /\ connected \in BOOLEAN /\ session \in MaybeCall
  /\ announced \subseteq Calls
  /\ state \in {"stopped", "connecting", "running"}
  /\ starter \in {"new", "idle", "preflight", "announce"}
  /\ stop \in StopStates
  /\ activeRecorder \in MaybeCall /\ activeRecordingCallId \in MaybeCall
  /\ activeRealtime \in MaybeCall
  /\ teardownPending \in BOOLEAN /\ recordingHealthy \in BOOLEAN
  /\ currentCall \in [call : MaybeCall, incoming : BOOLEAN] /\ pendingOutgoing \in BOOLEAN
  /\ recordingWork \in Seq(Operation)
  /\ sends \in Seq(Workers \cup {"stop"})
  /\ chain \in ChainStates
  /\ begin \in [Workers -> BeginStates]
  /\ recorder \in [Calls -> {"none", "open", "closed"}]
  /\ complete \in [Calls -> BOOLEAN]
  /\ rts \in [Calls -> {"none", "live", "closed"}]

IdleChain == [at |-> "idle", why |-> "none", held |-> None]
IdleBegin == [at |-> "idle", call |-> None]
NoCall == [call |-> None, incoming |-> FALSE]
IdleStop == [at |-> "idle", wait |-> 0, rec |-> None, rt |-> None]

Init ==
  /\ phone = [c \in Calls |-> "none"] /\ gsmCall = None
  /\ connected = TRUE /\ session = None
  /\ announced = {}
  /\ state = "stopped" /\ starter = "new" /\ stop = IdleStop
  /\ activeRecorder = None /\ activeRecordingCallId = None /\ activeRealtime = None
  /\ teardownPending = FALSE /\ recordingHealthy = FALSE
  /\ currentCall = NoCall /\ pendingOutgoing = FALSE
  /\ recordingWork = <<>> /\ sends = <<>> /\ chain = IdleChain
  /\ begin = [w \in Workers |-> IdleBegin]
  /\ recorder = [c \in Calls |-> "none"]
  /\ complete = [c \in Calls |-> FALSE]
  /\ rts = [c \in Calls |-> "none"]

-------------------------------------------------------------------------------
(* Helpers *)

Faulty(kind) == kind \in Faults
\* the results an operation that may fail can have
Results(kind) == IF Faulty(kind) THEN BOOLEAN ELSE {TRUE}

\* _sendControl: refused unless the gateway runs and the device is connected;
\* otherwise it fails only when the send queue of the device client overflows.
SendResults == IF state = "running" /\ connected THEN Results("send") ELSE {FALSE}

\* Messages leave the send queue in order: the sender that waited longest goes on.
NextSender(who) == sends # <<>> /\ Head(sends) = who
Queued(sent, who) == sends' = IF sent THEN Append(sends, who) ELSE sends

\* A queued operation whose turn has come, a message the link has taken down, and
\* (unless the socket pushes back) a message that was accepted, let their waiters go
\* on in the same run of the microtask queue: no event, timer or I/O completion
\* comes between.
Settled ==
  /\ chain.at = "idle" => recordingWork = <<>>
  /\ sends = <<>> \/ (Faulty("backpressure") /\ connected)

Owns(c) == activeRecorder = c /\ activeRecordingCallId = c

\* Requests reach the gateway between control.attach and control.detach.
Attached == state = "running" /\ connected /\ stop.at = "idle"
HasRoom == Len(recordingWork) < MaxQueue

\* What _queueRecording captures when an operation is queued.
Op(kind, c) ==
  LET owned == activeRecorder # None /\ activeRecordingCallId # None
  IN  [kind |-> kind, call |-> c,
       own |-> IF owned THEN activeRecorder ELSE None,
       id  |-> IF owned THEN activeRecordingCallId ELSE None,
       rt  |-> IF owned THEN activeRealtime ELSE None]

\* The recorder an operation was queued for is still the active one.
StillOwned(o) == activeRecorder = o.own /\ activeRecordingCallId = o.id

DisownLeavesRecorder ==
  UNCHANGED activeRecorder /\ activeRecordingCallId' = None /\ activeRealtime' = None
Disown == activeRecorder' = None /\ activeRecordingCallId' = None /\ activeRealtime' = None

PopForgetsWaiter ==
  recordingWork' = Tail(recordingWork) /\ chain' = IdleChain /\ UNCHANGED stop
\* The running operation has settled: the next one of the chain may run, and a
\* stop() that awaits the chain has one less to wait for.
Pop == /\ recordingWork' = Tail(recordingWork)
       /\ chain' = IdleChain
       /\ stop' = [stop EXCEPT !.wait = IF @ > 0 THEN @ - 1 ELSE 0]

\* RealtimeSession.close awaits the handling of the session's transcript events,
\* and each of those awaits the append it queued on the chain.
TranscriptQueued(c) ==
  \E i \in 1..Len(recordingWork) :
     recordingWork[i].kind = "transcript" /\ recordingWork[i].call = c
CanClose(c) == c = None \/ ~TranscriptQueued(c)
CloseRealtimeSkipped(c) == UNCHANGED rts
CloseRealtime(c) ==
  rts' = IF c = None THEN rts ELSE [rts EXCEPT ![c] = "closed"]

\* The session the phone holds after a recording_session message with active false
\* left the send queue or was lost: the phone clears whichever session it holds.
RevokedUnsent(sent) == session
Revoked(sent) == IF sent THEN None ELSE session

\* COMPLETE_OUTCOMES of recording.js
CompleteAnyOutcome(why) == TRUE
CompleteOutcome(why) == why = "ended"

HandleDeviceDisconnectDeaf ==
  /\ connected' = FALSE /\ session' = None
  /\ pendingOutgoing' = FALSE /\ currentCall' = NoCall
  /\ UNCHANGED <<teardownPending, recordingWork>>
\* The reaction to device.state leaving 'connected' (the state listener of
\* _bindDeviceEvents and _handleDeviceDisconnect); the phone drops the session.
HandleDeviceDisconnect ==
  /\ connected' = FALSE
  /\ session' = None
  /\ pendingOutgoing' = FALSE
  /\ currentCall' = NoCall
  /\ IF activeRecorder = None \/ activeRecordingCallId = None \/ teardownPending
     THEN UNCHANGED <<teardownPending, recordingWork>>
     ELSE /\ teardownPending' = TRUE
          /\ recordingWork' = Append(recordingWork, Op("lost", activeRecordingCallId))

-------------------------------------------------------------------------------
(* Device events.  The phone (external) moves its calls through the Telecom     *)
(* states; while the link is up each move is reported by an event, handled      *)
(* synchronously.                                                               *)

EventArrives == connected /\ Settled /\ HasRoom

\* GsmCallManager has a call to report about: activeCallId # null.
Tracked == gsmCall # None /\ phone[gsmCall] \in Live

\* A call is added: it rings, or it is placed (not while another one rings).
Arrive(c, to) ==
  /\ phone[c] = "none"
  /\ CallWaiting \/ \A d \in Calls : phone[d] \in {"none", "removed"}
  /\ IF to = "ringing" THEN c \in Incoming
     ELSE c \notin Incoming /\ \A d \in Calls : phone[d] # "ringing"
  /\ phone' = [phone EXCEPT ![c] = to]
  /\ gsmCall' = c

Move(c, from, to) ==
  phone[c] \in from /\ phone' = [phone EXCEPT ![c] = to] /\ UNCHANGED gsmCall
Connect(c) == Move(c, {"ringing", "dialing"}, "active")
\* Telecom disconnects a call, and later removes it.
Drop(c) == Move(c, Live, "disconnected") \/ Move(c, {"disconnected"}, "removed")

\* 'incoming': only queued; currentCall is set when the chain reaches it.
RingEvent(c) ==
  /\ EventArrives
  /\ Arrive(c, "ringing")
  /\ recordingWork' = Append(recordingWork, Op("incoming", c))
  /\ UNCHANGED <<announced, sends, connected, session, lifeVars, stop, ownerVars,
                 teardownPending, statusVars, chain, begin, artifactVars>>

\* 'dialing', 'active' and 'ending': the first of these of an outgoing call, but
\* for 'ending', takes the pending dial and queues beginRecording; an event of the
\* recorded call is appended to its ledger.  The direction is the one of the call
\* that changed, the id is not.
ProgressEvent(c) ==
  /\ EventArrives
  /\ \/ Arrive(c, "dialing")
     \/ Tracked /\ Connect(c)
     \/ Tracked /\ phone[c] \in Live /\ UNCHANGED callVars
  /\ currentCall' = [call |-> gsmCall',
                     incoming |-> /\ currentCall.call = gsmCall' /\ currentCall.incoming
                                  /\ c \notin Outgoing]
  /\ LET takes == c \in Outgoing /\ pendingOutgoing /\ phone' # phone
         noted == activeRecorder # None /\ activeRecordingCallId = gsmCall'
         begins == [kind |-> "begin", call |-> gsmCall', own |-> None, id |-> None,
                    rt |-> None]
     IN  /\ pendingOutgoing' = (pendingOutgoing /\ ~takes)
         /\ recordingWork' = recordingWork
                               \o (IF takes THEN <<begins>> ELSE <<>>)
                               \o (IF noted THEN <<Op("append", gsmCall')>> ELSE <<>>)
  /\ UNCHANGED <<announced, sends, connected, session, lifeVars, stop, ownerVars,
                 teardownPending, recordingHealthy, chain, begin, artifactVars>>

\* The part of _handleDeviceEventValue that follows a terminal event.
HandleTerminal(kind, c) ==
  /\ currentCall' = IF currentCall.call = c THEN NoCall ELSE currentCall
  /\ recordingWork' = IF activeRecorder # None /\ activeRecordingCallId = c
                      THEN Append(recordingWork, Op(kind, c)) ELSE recordingWork

\* 'ended', reported when Telecom disconnects the call and again when it removes
\* it.  (A second report by the same callback is left out: its operation would find
\* the recorder disowned.)
EndedEvent(c) ==
  /\ EventArrives
  /\ Drop(c)
  /\ HandleTerminal("ended", gsmCall)
  /\ UNCHANGED <<announced, sends, connected, session, lifeVars, stop, ownerVars,
                 teardownPending, recordingHealthy, pendingOutgoing, chain, begin,
                 artifactVars>>

\* 'media_failure' of a call whose audio the phone bridges (with a second call,
\* under either id): the phone has dropped its session.  The event is ignored
\* unless the call is the recorded one.
MediaFailureEvent(c) ==
  /\ EventArrives
  /\ session = c /\ (phone[c] = "active" \/ CallWaiting)
  /\ session' = None
  /\ IF activeRecorder # None /\ activeRecordingCallId = c
     THEN HandleTerminal("media_failure", c) ELSE UNCHANGED <<currentCall, recordingWork>>
  /\ UNCHANGED <<announced, sends, callVars, connected, lifeVars, stop, ownerVars,
                 teardownPending, recordingHealthy, pendingOutgoing, chain, begin,
                 artifactVars>>

\* The phone goes on without the desktop, or without a call to report about.
UnseenPhoneStep(c) ==
  /\ \/ /\ ~connected
        /\ Arrive(c, "ringing") \/ Arrive(c, "dialing") \/ Connect(c) \/ Drop(c)
     \/ connected /\ ~Tracked /\ Connect(c)
  /\ UNCHANGED <<announced, sends, connected, session, lifeVars, stop, ownerVars,
                 teardownPending, statusVars, recordingWork, chain, begin,
                 artifactVars>>

\* The USB link or the phone's service goes away.
LinkLost ==
  /\ Settled /\ connected
  /\ HandleDeviceDisconnect
  /\ UNCHANGED <<announced, sends, callVars, lifeVars, stop, ownerVars,
                 recordingHealthy, chain, begin, artifactVars>>

-------------------------------------------------------------------------------
(* What clients and the media path queue *)

\* A PCM frame, an agent frame or a transcript of speak(): one write to the recorder.
QueueWrite ==
  /\ Settled /\ HasRoom /\ activeRecorder # None
  /\ recordingWork' = Append(recordingWork, Op("append", activeRecorder))
  /\ UNCHANGED <<announced, sends, phoneVars, lifeVars, stop, ownerVars,
                 teardownPending, statusVars, chain, begin, artifactVars>>

\* The speech provider delivers a final transcript: the session's event handler
\* calls appendTranscript and waits for the append; it handles one at a time.
QueueTranscript(c) ==
  /\ Settled /\ HasRoom
  /\ c \in Transcribed /\ rts[c] = "live" /\ ~TranscriptQueued(c)
  /\ activeRecorder # None
  /\ recordingWork' = Append(recordingWork, Op("transcript", c))
  /\ UNCHANGED <<announced, sends, phoneVars, lifeVars, stop, ownerVars,
                 teardownPending, statusVars, chain, begin, artifactVars>>

\* dial(), as far as recording is concerned: the pending dial is reserved only
\* while the dial command can be sent.
Dial ==
  /\ Settled /\ Attached
  /\ recordingHealthy /\ ~pendingOutgoing /\ activeRecorder = None /\ ~teardownPending
  /\ pendingOutgoing' = TRUE
  /\ UNCHANGED <<announced, sends, phoneVars, lifeVars, stop, ownerVars,
                 teardownPending, recordingHealthy, currentCall, recordingWork, chain,
                 begin, artifactVars>>

\* The dial timer: Android never reported a matching call.
DialTimeout ==
  /\ Settled /\ pendingOutgoing
  /\ pendingOutgoing' = FALSE
  /\ UNCHANGED <<announced, sends, phoneVars, lifeVars, stop, ownerVars,
                 teardownPending, recordingHealthy, currentCall, recordingWork, chain,
                 begin, artifactVars>>

-------------------------------------------------------------------------------
(* beginRecording, run by an answer() request or by the chain *)

CanReserveUnreserved == activeRecorder = None /\ ~teardownPending
CanReserve == activeRecorder = None /\ activeRecordingCallId = None /\ ~teardownPending

\* The end of a beginRecording.  A failure denies the answer, or hangs up the
\* outgoing call and lets the chain go on; a success lets answer() send its command.
EndBegin(w, success) ==
  IF w = Chain
  THEN Pop /\ begin' = [begin EXCEPT ![w] = IdleBegin]
  ELSE /\ \E sent \in (IF success THEN SendResults ELSE {FALSE}) :
            begin' = [begin EXCEPT ![w] = IF sent THEN [@ EXCEPT !.at = "answer"]
                                                  ELSE IdleBegin]
       /\ UNCHANGED <<recordingWork, chain, stop>>

Goto(w, label) == begin' = [begin EXCEPT ![w].at = label]
StayInChain == UNCHANGED <<recordingWork, chain, stop>>

\* answer(): with an incoming current call and no recorder it records first;
\* it is denied when another call is recorded, and else sends the command.
Answer(w, c) ==
  /\ Settled /\ Attached
  /\ c \in announced \/ currentCall = [call |-> c, incoming |-> TRUE]
  /\ w # Chain /\ begin[w].at = "idle" /\ recordingHealthy
  /\ IF currentCall = [call |-> c, incoming |-> TRUE] /\ activeRecorder = None
     THEN /\ CanReserve
          /\ activeRecordingCallId' = c
          /\ begin' = [begin EXCEPT ![w] = [at |-> "start", call |-> c]]
          /\ UNCHANGED sends
     ELSE /\ activeRecorder # None => activeRecordingCallId = c
          /\ begin' = [begin EXCEPT ![w] = [at |-> "answer", call |-> c]]
          /\ Queued(TRUE, w)
          /\ UNCHANGED activeRecordingCallId
  /\ UNCHANGED <<announced, phoneVars, lifeVars, stop, activeRecorder, activeRealtime,
                 teardownPending, statusVars, recordingWork, chain, artifactVars>>

\* recording.start settles.
RecorderStarted(w) ==
  LET c == begin[w].call IN
  /\ begin[w].at = "start"
  /\ \/ /\ recorder[c] = "none"
        /\ recorder' = [recorder EXCEPT ![c] = "open"]
        /\ activeRecorder' = c
        /\ Goto(w, "create")
        /\ StayInChain
        /\ UNCHANGED activeRecordingCallId
     \/ /\ recorder[c] # "none" \/ Faulty("start")
        /\ activeRecordingCallId' =
              IF activeRecorder = None /\ activeRecordingCallId = c
              THEN None ELSE activeRecordingCallId
        /\ EndBegin(w, FALSE)
        /\ UNCHANGED <<recorder, activeRecorder>>
  /\ UNCHANGED <<announced, sends, phoneVars, lifeVars, activeRealtime, teardownPending,
                 statusVars, complete, rts>>

\* The catch clause around the realtime session: the owner disowns its recorder
\* and finalizes it as realtime_start_failed.
AbandonRecorder(w, c) ==
  /\ Disown
  /\ recorder' = [recorder EXCEPT ![c] = "closed"]
  /\ Goto(w, "seal")
  /\ StayInChain

\* createRealtimeSession settles.
RealtimeCreated(w) ==
  LET c == begin[w].call IN
  /\ begin[w].at = "create"
  /\ \/ ~Owns(c) /\ EndBegin(w, FALSE) /\ UNCHANGED <<ownerVars, recorder>>
     \/ /\ Owns(c) /\ activeRealtime = None
        /\ Goto(w, "attach") /\ StayInChain /\ UNCHANGED <<ownerVars, recorder>>
     \/ /\ Owns(c) /\ (Faulty("realtime") \/ activeRealtime # None)
        /\ AbandonRecorder(w, c)
  /\ UNCHANGED <<announced, sends, phoneVars, lifeVars, teardownPending, statusVars,
                 complete, rts>>

\* session.start settles.  attachRealtime closes the session when the recorder is
\* gone; otherwise the session becomes the active one and, in the same run of
\* microtasks, recording_session is sent to the phone.
RealtimeStarted(w) ==
  LET c == begin[w].call IN
  /\ begin[w].at = "attach"
  /\ \/ /\ Faulty("realtime")
        /\ IF Owns(c) THEN AbandonRecorder(w, c)
           ELSE EndBegin(w, FALSE) /\ UNCHANGED <<ownerVars, recorder>>
        /\ UNCHANGED <<sends, rts>>
     \/ /\ activeRecorder = None \/ activeRecordingCallId # c
        /\ rts' = [rts EXCEPT ![c] = "closed"]
        /\ EndBegin(w, FALSE)
        /\ UNCHANGED <<sends, ownerVars, recorder>>
     \/ /\ activeRecorder # None /\ activeRecordingCallId = c
        /\ rts' = [rts EXCEPT ![c] = "live"]
        /\ \E sent \in SendResults :
              /\ Queued(sent, w)
              /\ IF sent
                 THEN /\ activeRealtime' = c
                      /\ Goto(w, "ack")
                      /\ UNCHANGED <<activeRecorder, activeRecordingCallId>>
                 ELSE Disown /\ Goto(w, "unwind")
        /\ StayInChain /\ UNCHANGED recorder
  /\ UNCHANGED <<announced, phoneVars, lifeVars, teardownPending, statusVars,
                 complete>>

\* The recording_session message left the send queue, or the link took it down.
SessionAcknowledged(w) ==
  LET c == begin[w].call IN
  /\ begin[w].at = "ack" /\ NextSender(w)
  /\ session' = IF connected THEN c ELSE session
  /\ \/ ~Owns(c) /\ EndBegin(w, FALSE) /\ UNCHANGED ownerVars
     \/ Owns(c) /\ connected /\ EndBegin(w, TRUE) /\ UNCHANGED ownerVars
     \/ Owns(c) /\ ~connected /\ Disown /\ Goto(w, "unwind") /\ StayInChain
  /\ sends' = Tail(sends) \o (IF begin'[w].at = "answer" THEN <<w>> ELSE <<>>)
  /\ UNCHANGED <<announced, callVars, connected, lifeVars, teardownPending,
                 statusVars, artifactVars>>

\* realtime.close returned: finalize as session_ack_failed.
BeginUnwound(w) ==
  LET c == begin[w].call IN
  /\ begin[w].at = "unwind" /\ CanClose(c)
  /\ CloseRealtime(c)
  /\ recorder' = [recorder EXCEPT ![c] = "closed"]
  /\ Goto(w, "seal")
  /\ StayInChain
  /\ UNCHANGED <<announced, sends, phoneVars, lifeVars, ownerVars, teardownPending,
                 statusVars, complete>>

\* finalize returned: the error that ended beginRecording is rethrown.
BeginSealed(w) ==
  /\ begin[w].at = "seal"
  /\ EndBegin(w, FALSE)
  /\ UNCHANGED <<announced, sends, phoneVars, lifeVars, ownerVars, teardownPending,
                 statusVars, artifactVars>>

\* The answer command left the send queue, or was refused with the link.
AnswerSent(w) ==
  /\ begin[w].at = "answer" /\ NextSender(w)
  /\ sends' = Tail(sends)
  /\ begin' = [begin EXCEPT ![w] = IdleBegin]
  /\ StayInChain
  /\ UNCHANGED <<announced, phoneVars, lifeVars, ownerVars, teardownPending, statusVars,
                 artifactVars>>

BeginStep(w) ==
  /\ begin[w].at \in {"ack", "answer"} \/ Settled
  /\ \/ RecorderStarted(w) \/ RealtimeCreated(w) \/ RealtimeStarted(w)
     \/ SessionAcknowledged(w) \/ BeginUnwound(w) \/ BeginSealed(w) \/ AnswerSent(w)

-------------------------------------------------------------------------------
(* The promise chain recordingWork *)

Running == Head(recordingWork)
Await(label) == chain' = [chain EXCEPT !.at = label]

\* The wrapper of _queueRecording: an operation whose recorder is no longer the
\* active one is skipped.  The operation of a lost device disowns at once.
StartOperation ==
  /\ chain.at = "idle" /\ recordingWork # <<>>
  /\ LET o == Running IN
     \/ /\ o.own # None /\ ~StillOwned(o)
        /\ Pop /\ UNCHANGED ownerVars
     \/ /\ o.own = None \/ StillOwned(o)
        /\ IF o.kind = "lost"
           THEN /\ Disown
                /\ chain' = [at |-> "note", why |-> "transport_lost",
                             held |-> IF o.rt = o.id THEN o.rt ELSE None]
           ELSE /\ UNCHANGED ownerVars
                /\ Await(IF o.kind \in {"incoming", "begin"} THEN "lookup" ELSE "append")
        /\ UNCHANGED <<recordingWork, stop>>
  /\ UNCHANGED <<announced, sends, phoneVars, lifeVars, teardownPending, statusVars,
                 begin, artifactVars>>

\* The caller and contact lookups of _handleIncoming settle.
IncomingResolved ==
  /\ chain.at = "lookup" /\ Running.kind = "incoming"
  /\ currentCall' = [call |-> Running.call, incoming |-> TRUE]
  /\ announced' = IF Attached THEN announced \cup {Running.call} ELSE announced
  /\ IF activeRecorder # None /\ activeRecordingCallId = Running.call
     THEN Await("append") /\ UNCHANGED <<recordingWork, stop>> ELSE Pop
  /\ UNCHANGED <<phoneVars, sends, lifeVars, ownerVars, teardownPending, recordingHealthy,
                 pendingOutgoing, begin, artifactVars>>

\* The contact lookup of an outgoing call settles: beginRecording reserves the
\* call, or throws and the call is hung up.
OutgoingResolved ==
  /\ chain.at = "lookup" /\ Running.kind = "begin"
  /\ IF CanReserve
     THEN /\ activeRecordingCallId' = Running.call
          /\ begin' = [begin EXCEPT ![Chain] = [at |-> "start", call |-> Running.call]]
          /\ Await("begin")
          /\ UNCHANGED <<recordingWork, stop>>
     ELSE Pop /\ UNCHANGED <<activeRecordingCallId, begin>>
  /\ UNCHANGED <<announced, sends, phoneVars, lifeVars, activeRecorder, activeRealtime,
                 teardownPending, statusVars, artifactVars>>

\* _failActiveRecording: the owner is torn down, the phone is told, and the
\* device is disconnected when it cannot be told.
FailActiveRecording(o) ==
  /\ recordingHealthy' = FALSE
  /\ IF o.own = None \/ ~StillOwned(o)
     THEN /\ Pop
          /\ UNCHANGED <<connected, session, ownerVars, teardownPending, currentCall,
                         pendingOutgoing, sends>>
     ELSE /\ teardownPending' = TRUE
          /\ Disown
          /\ \E told \in SendResults :
               /\ Queued(told, Chain)
               /\ chain' = [at |-> IF told THEN "revoke" ELSE "close",
                            why |-> "recording_write_failed",
                            held |-> IF o.id \in {activeRealtime, o.rt} THEN o.id ELSE None]
               /\ IF told \/ ~connected
                  THEN UNCHANGED <<connected, session, currentCall, pendingOutgoing>>
                  ELSE /\ connected' = FALSE /\ session' = None
                       /\ currentCall' = NoCall /\ pendingOutgoing' = FALSE
          /\ UNCHANGED <<recordingWork, stop>>

\* The write of the running operation settles.  A terminal event then disowns the
\* recorder and revokes the session of the phone.
AppendSettled ==
  /\ chain.at = "append"
  /\ LET o == Running IN
     \/ Faulty("write") /\ FailActiveRecording(o)
     \/ /\ o.kind \notin TerminalEvents
        /\ Pop
        /\ UNCHANGED <<connected, session, ownerVars, teardownPending, statusVars,
                       sends>>
     \/ /\ o.kind \in TerminalEvents
        /\ Disown
        /\ \E sent \in SendResults :
             /\ Queued(sent, Chain)
             /\ chain' = [at |-> IF sent THEN "revoke" ELSE "close", why |-> o.kind,
                          held |-> IF activeRealtime = o.call THEN o.call ELSE None]
             /\ recordingHealthy' = (recordingHealthy /\ sent)
        /\ UNCHANGED <<connected, session, teardownPending, currentCall,
                       pendingOutgoing, recordingWork, stop>>
  /\ UNCHANGED <<announced, callVars, lifeVars, begin, artifactVars>>

\* The revocation left the send queue, or the link took it down.
RevocationSettled ==
  /\ chain.at = "revoke" /\ NextSender(Chain)
  /\ sends' = Tail(sends)
  /\ session' = Revoked(connected)
  /\ recordingHealthy' = (recordingHealthy /\ connected)
  /\ Await("close")
  /\ UNCHANGED <<announced, callVars, connected, lifeVars, stop, ownerVars,
                 teardownPending, currentCall, pendingOutgoing, recordingWork, begin,
                 artifactVars>>

\* The audit write of a lost device settles; an error there skips the rest.
LossNoted ==
  /\ chain.at = "note"
  /\ \/ Await("close") /\ UNCHANGED <<teardownPending, recordingHealthy, recordingWork, stop>>
     \/ /\ Faulty("audit")
        /\ teardownPending' = FALSE /\ recordingHealthy' = FALSE
        /\ Pop
  /\ UNCHANGED <<announced, sends, phoneVars, lifeVars, ownerVars, currentCall,
                 pendingOutgoing, begin, artifactVars>>

\* The realtime session is closed and finalize is called; a second finalize throws.
RecorderClosed ==
  /\ chain.at = "close" /\ CanClose(chain.held)
  /\ CloseRealtime(chain.held)
  /\ LET c == Running.own IN
     IF recorder[c] = "open"
     THEN /\ recorder' = [recorder EXCEPT ![c] = "closed"]
          /\ Await("seal")
          /\ UNCHANGED <<teardownPending, recordingHealthy, recordingWork, stop>>
     ELSE /\ teardownPending' = (teardownPending /\ chain.why \in TerminalEvents)
          /\ recordingHealthy' = FALSE
          /\ Pop
          /\ UNCHANGED recorder
  /\ UNCHANGED <<announced, sends, phoneVars, lifeVars, ownerVars, currentCall,
                 pendingOutgoing, begin, complete>>

\* finalize settles.  Only the outcome ended can make a complete recording (both
\* tracks must have frames and the review files must render), and a complete
\* recording is then copied to the phone.
RecorderSealed ==
  /\ chain.at = "seal"
  /\ teardownPending' = (teardownPending /\ chain.why \in TerminalEvents)
  /\ \E sealed \in Results("finalize"), whole \in BOOLEAN :
       /\ whole => sealed /\ CompleteOutcome(chain.why)
       /\ complete' = [complete EXCEPT ![Running.own] = whole]
       /\ recordingHealthy' = (recordingHealthy /\ sealed)
       /\ IF whole THEN Await("sync") /\ UNCHANGED <<recordingWork, stop>> ELSE Pop
  /\ UNCHANGED <<announced, sends, phoneVars, lifeVars, ownerVars, currentCall,
                 pendingOutgoing, begin, recorder, rts>>

\* The copy to the phone succeeded, failed or timed out.
CopySettled ==
  /\ chain.at = "sync"
  /\ Pop
  /\ UNCHANGED <<announced, sends, phoneVars, lifeVars, ownerVars, teardownPending,
                 statusVars, begin, artifactVars>>

ChainStep ==
  \/ StartOperation \/ RevocationSettled
  \/ /\ Settled
     /\ \/ IncomingResolved \/ OutgoingResolved \/ AppendSettled \/ LossNoted
        \/ RecorderClosed \/ RecorderSealed \/ CopySettled

-------------------------------------------------------------------------------
(* start() and stop() *)

Start ==
  /\ Settled /\ starter = "new"
  /\ state' = "connecting" /\ starter' = "preflight"
  /\ UNCHANGED <<announced, sends, phoneVars, stop, ownerVars, teardownPending,
                 statusVars, recordingWork, chain, begin, artifactVars>>

\* The health probe of the recording store answers; a device that was lost
\* meanwhile is connected again.
StartConnected ==
  /\ Settled /\ starter = "preflight"
  /\ connected' = TRUE /\ starter' = "announce"
  /\ recordingHealthy' \in BOOLEAN
  /\ UNCHANGED <<announced, sends, callVars, session, state, stop, ownerVars,
                 teardownPending, currentCall, pendingOutgoing, recordingWork, chain,
                 begin, artifactVars>>

\* The capabilities request and the recording health are sent.
StartFinished ==
  /\ Settled /\ starter = "announce" /\ connected
  /\ state' = "running" /\ starter' = "idle"
  /\ UNCHANGED <<announced, sends, phoneVars, stop, ownerVars, teardownPending,
                 statusVars, recordingWork, chain, begin, artifactVars>>

StartFailed ==
  /\ Settled /\ starter \in {"preflight", "announce"}
  /\ state' = "stopped" /\ starter' = "idle"
  /\ IF connected THEN HandleDeviceDisconnect
     ELSE UNCHANGED <<connected, session, pendingOutgoing, currentCall, teardownPending,
                      recordingWork>>
  /\ UNCHANGED <<announced, sends, callVars, stop, ownerVars, recordingHealthy, chain,
                 begin, artifactVars>>

\* stop() first awaits the chain as it is now.
StopCalled ==
  /\ Settled /\ state # "stopped" /\ stop.at = "idle"
  /\ stop' = [IdleStop EXCEPT !.at = "drain", !.wait = Len(recordingWork)]
  /\ UNCHANGED <<announced, sends, phoneVars, lifeVars, ownerVars, teardownPending,
                 statusVars, recordingWork, chain, begin, artifactVars>>

\* The end of stop(): the gateway is stopped and the device disconnected.
FinishStop ==
  /\ state' = "stopped" /\ stop' = IdleStop
  /\ IF connected THEN HandleDeviceDisconnect
     ELSE /\ pendingOutgoing' = FALSE /\ currentCall' = NoCall
          /\ UNCHANGED <<connected, session, teardownPending, recordingWork>>

\* The chain is drained: an active recorder is captured and its session revoked.
StopDrained ==
  /\ stop.at = "drain" /\ stop.wait = 0
  /\ IF activeRecorder = None
     THEN FinishStop /\ UNCHANGED <<ownerVars, sends>>
     ELSE /\ pendingOutgoing' = FALSE /\ currentCall' = NoCall
          /\ \E sent \in SendResults :
               /\ Queued(sent, "stop")
               /\ stop' = [at |-> IF sent THEN "revoke" ELSE "close", wait |-> 0,
                           rec |-> activeRecorder, rt |-> activeRealtime]
               /\ IF sent THEN UNCHANGED ownerVars ELSE Disown
          /\ UNCHANGED <<state, connected, session, teardownPending, recordingWork>>
  /\ UNCHANGED <<announced, callVars, starter, recordingHealthy, chain, begin,
                 artifactVars>>

\* The revocation left the send queue (or was lost): whatever is active is disowned.
StopRevoked ==
  /\ stop.at = "revoke" /\ NextSender("stop")
  /\ sends' = Tail(sends)
  /\ session' = Revoked(connected)
  /\ Disown
  /\ stop' = [stop EXCEPT !.at = "close"]
  /\ UNCHANGED <<announced, callVars, connected, lifeVars, teardownPending, statusVars,
                 recordingWork, chain, begin, artifactVars>>

\* The audit event is written, the realtime session closed and finalize called.
StopClosed ==
  /\ stop.at = "close" /\ CanClose(stop.rt)
  /\ CloseRealtime(stop.rt)
  /\ recorder' = [recorder EXCEPT ![stop.rec] = "closed"]
  /\ \E audited \in Results("audit") :
       recordingHealthy' = (recordingHealthy /\ audited /\ recorder[stop.rec] = "open")
  /\ stop' = [stop EXCEPT !.at = "seal"]
  /\ UNCHANGED <<announced, sends, phoneVars, lifeVars, ownerVars, teardownPending,
                 currentCall, pendingOutgoing, recordingWork, chain, begin, complete>>

StopFinished ==
  /\ stop.at = "seal"
  /\ FinishStop
  /\ UNCHANGED <<announced, sends, callVars, starter, ownerVars, recordingHealthy,
                 chain, begin, artifactVars>>

StopStep ==
  \/ StopRevoked
  \/ Settled /\ (StopDrained \/ StopClosed \/ StopFinished)

-------------------------------------------------------------------------------
DeviceStep ==
  \/ \E c \in Calls : \/ RingEvent(c) \/ ProgressEvent(c) \/ EndedEvent(c)
                      \/ MediaFailureEvent(c) \/ UnseenPhoneStep(c)
  \/ LinkLost

RequestStep ==
  \/ QueueWrite \/ (\E c \in Calls : QueueTranscript(c))
  \/ Dial \/ DialTimeout
  \/ (\E w \in Clients, c \in Incoming : Answer(w, c))

StartStep == StartConnected \/ StartFinished \/ StartFailed

Next ==
  \/ DeviceStep \/ RequestStep
  \/ ChainStep
  \/ \E w \in Workers : BeginStep(w)
  \/ Start \/ StartStep \/ StopCalled \/ StopStep

\* Every await settles (writes, provider calls, lookups and sends return or fail)
\* and the event loop resumes it at a later turn.  The fairness is strong because
\* the turns are short breaks in which Settled is false.  Nothing is assumed of the
\* phone, of the clients or of stop() being called.
Fairness ==
  /\ SF_vars(ChainStep)
  /\ \A w \in Workers : SF_vars(BeginStep(w))
  /\ SF_vars(StartStep) /\ SF_vars(StopStep)

Spec == Init /\ [][Next]_vars
FairSpec == Spec /\ Fairness

-------------------------------------------------------------------------------
(* Properties *)

\* The active recorder is open, and the reservation activeRecordingCallId that
\* guards against a second one names its call: beginRecording, the terminal event,
\* the failure path and stop() all move the two fields at different awaits.
OwnerReserved ==
  activeRecorder # None =>
     activeRecordingCallId = activeRecorder /\ recorder[activeRecorder] = "open"

\* The speech session that hears and speaks belongs to the recorded call and has
\* not been closed: no await lets a teardown leave one behind for the next call.
RealtimeOwned ==
  activeRealtime # None => activeRealtime = activeRecorder /\ rts[activeRealtime] = "live"

\* An operation in progress is about to finalize the recorder of c.
TearingDown(c) ==
  \/ chain.at \in {"revoke", "note", "close"} /\ Running.own = c
  \/ stop.at = "close" /\ stop.rec = c
  \/ \E w \in Workers : begin[w].at = "unwind" /\ begin[w].call = c

\* A recorder with open files is the active one or some teardown is on its way to
\* finalize it: none of the paths that disown a recorder forgets it.
NoOrphan == \A c \in Calls : recorder[c] = "open" => activeRecorder = c \/ TearingDown(c)

\* Likewise a started speech session is the active one or about to be closed.
RealtimeReleased ==
  \A c \in Calls : rts[c] = "live" =>
     \/ activeRealtime = c
     \/ chain.at \in {"revoke", "note", "close"} /\ chain.held = c
     \/ stop.at = "close" /\ stop.rt = c
     \/ \E w \in Workers : begin[w].at = "unwind" /\ begin[w].call = c

\* While the phone is connected and believes a recording session active (it then
\* bridges the call's audio), the recorder of that call is open, unless the
\* gateway knows itself unhealthy or is being stopped.
SessionBacked ==
  \A c \in Calls : connected /\ session = c /\ recordingHealthy /\ stop.at = "idle"
                     => recorder[c] = "open"

\* A recording marked complete is one of a call that is over: operations that
\* captured their call and recorder at different times never mix two calls up.
CompleteEnded == \A c \in Calls : complete[c] => phone[c] \in Over

\* The recorder of c has lost its device, or its call has ended and said so.
Doomed(c) ==
  /\ recorder[c] = "open"
  /\ \/ ~connected
     \/ \E i \in 1..Len(recordingWork) :
          recordingWork[i].kind \in TerminalEvents /\ recordingWork[i].own = c

\* A recorder whose call has ended or whose device is lost is finalized in the end,
\* whatever fails on the way.
TeardownCompletes == \A c \in Calls : Doomed(c) ~> recorder[c] = "closed"

\* stop() returns: gatewayd awaits it before it connects to the phone again.
StopCompletes == stop.at # "idle" ~> stop.at = "idle"

\* The gateway implements the abstract ledger of recordings.
Ledger == INSTANCE RecordingLedger
            WITH owner <- activeRecorder, file <- recorder, granted <- session
LedgerSpec == Ledger!Spec
===============================================================================
