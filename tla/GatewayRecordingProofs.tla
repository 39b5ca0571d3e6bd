------------------------ MODULE GatewayRecordingProofs ------------------------
(* The proofs about GatewayRecording, for every instance.                         *)
(*                                                                               *)
(* 1. Type correctness.  TypeOK is not inductive: an action that takes the head of *)
(*    the chain needs the chain not to be empty, one that reads the call of a     *)
(*    begin needs that begin to have one.  Busy adds that.                        *)
(* 2. Safety: IInv is inductive while the socket takes what is sent.  Actions      *)
(*    alike are treated by one lemma each, and every action is then shown to meet  *)
(*    its hypotheses:                                                            *)
(*    - EventInv (GrowInv, SameInv): steps that only queue operations;            *)
(*    - PopInv, AwaitInv, TeardownInv: steps of the promise chain;                *)
(*    - GotoInv, EndBeginInv: resumptions of a beginRecording;                    *)
(*    - DisconnectInv, StopDisownInv, StopRevokingInv: the loss of the device and *)
(*      stop().                                                                   *)
(*    The hard part is that a terminal operation disowns the active recorder after *)
(*    its write without looking again: InvTerminal and InvRing say why that        *)
(*    recorder is still the one it was queued for.  What the speech sessions and   *)
(*    the session of the phone rest on besides is kept by invariants of their own. *)
(* 3. The implementation of RecordingLedger.                                      *)
EXTENDS GatewayRecordingInductive, SequenceTheorems, TLAPS

USE DEF callVars, phoneVars, lifeVars, ownerVars, statusVars, artifactVars

\* Whoever is busy has something to be busy with.
Busy ==
  /\ chain.at # "idle" => recordingWork # <<>>
  /\ begin[Chain].at # "idle" => chain.at = "begin"
  /\ \A w \in Workers : begin[w].at # "idle" => begin[w].call \in Calls
  /\ \A c \in Calls : phone[c] # "none" => gsmCall \in Calls

TypeInv == TypeOK /\ Busy

Senders == Workers \cup {"stop"}

\* What _queueRecording captures is an operation.
LEMMA OpType ==
  ASSUME TypeOK, NEW kind \in OpKinds, NEW c \in Calls
  PROVE  Op(kind, c) \in Operation
  BY DEF TypeOK, Op, Operation, MaybeCall

\* Queueing an operation keeps the type of the chain.
LEMMA QueueOp ==
  ASSUME TypeOK, NEW o \in Operation
  PROVE  /\ Append(recordingWork, o) \in Seq(Operation)
         /\ Append(recordingWork, o) # <<>>
  BY AppendProperties DEF TypeOK

\* The end of an operation keeps the type of the chain, and of the counter of stop().
LEMMA PopType ==
  ASSUME TypeOK, recordingWork # <<>>, Pop
  PROVE  recordingWork' \in Seq(Operation) /\ chain' \in ChainStates /\ stop' \in StopStates
  <1>1. recordingWork' \in Seq(Operation)
    BY HeadTailProperties DEF TypeOK, Pop
  <1>2. chain' \in ChainStates
    BY DEF TypeOK, Pop, IdleChain, ChainStates, MaybeCall
  <1>3. stop' \in StopStates
    <2>1. stop.wait \in Nat
      BY DEF TypeOK, StopStates
    <2>2. (IF stop.wait > 0 THEN stop.wait - 1 ELSE 0) \in Nat
      BY <2>1
    <2> QED BY <2>2 DEF TypeOK, Pop, StopStates
  <1> QED BY <1>1, <1>2, <1>3

\* The running operation is an operation.
LEMMA RunningType ==
  ASSUME TypeOK, recordingWork # <<>>
  PROVE  Running \in Operation
  BY HeadTailProperties DEF TypeOK, Running

\* A sender that may enter the send queue keeps its type.
LEMMA QueuedType ==
  ASSUME TypeOK, NEW who \in Senders, NEW sent \in BOOLEAN, Queued(sent, who)
  PROVE  sends' \in Seq(Senders)
  BY AppendProperties DEF TypeOK, Queued, Senders

\* The first sender may leave the send queue.
LEMMA DequeuedType ==
  ASSUME TypeOK, NEW who, NextSender(who)
  PROVE  Tail(sends) \in Seq(Senders)
  BY HeadTailProperties DEF TypeOK, NextSender, Senders

\* A send succeeds or fails.
LEMMA SendResultsType == SendResults \subseteq BOOLEAN
  BY DEF SendResults, Results

\* The constructor establishes the types.
LEMMA InitType == Init => TypeInv
  <1> SUFFICES ASSUME Init PROVE TypeInv
    OBVIOUS
  <1>1. recordingWork \in Seq(Operation)
    BY DEF Init
  <1>2. chain \in ChainStates /\ stop \in StopStates /\ currentCall \in [call : MaybeCall, incoming : BOOLEAN]
    BY DEF Init, IdleChain, ChainStates, IdleStop, StopStates, NoCall, MaybeCall
  <1>3. begin \in [Workers -> BeginStates]
    BY DEF Init, IdleBegin, BeginStates, MaybeCall
  <1>4. TypeOK
    <2>1. sends \in Seq(Workers \cup {"stop"})
      BY DEF Init
    <2> QED BY <1>1, <1>2, <1>3, <2>1 DEF Init, TypeOK, MaybeCall, PhonePhases
  <1>5. Busy
    BY NamesAssumption DEF Init, Busy, IdleBegin, IdleChain, Workers
  <1> QED BY <1>4, <1>5 DEF TypeInv

\* A new call keeps the types of the phone.
LEMMA ArriveType ==
  ASSUME TypeOK, NEW c \in Calls, NEW to \in {"ringing", "dialing"}, Arrive(c, to)
  PROVE  phone' \in [Calls -> PhonePhases] /\ gsmCall' \in MaybeCall
  BY DEF TypeOK, Arrive, PhonePhases, MaybeCall

\* A call that moves keeps the types of the phone.
LEMMA MoveType ==
  ASSUME TypeOK, NEW c \in Calls, Connect(c) \/ Drop(c)
  PROVE  phone' \in [Calls -> PhonePhases] /\ gsmCall' \in MaybeCall
  BY DEF TypeOK, Connect, Drop, Move, PhonePhases, MaybeCall

\* The phone reports events under the id of a call.
LEMMA TrackedType == ASSUME TypeOK, Tracked PROVE gsmCall \in Calls
  BY DEF TypeOK, Tracked, MaybeCall

\* The reaction to a terminal event keeps the types.
LEMMA TerminalType ==
  ASSUME TypeOK, NEW kind \in TerminalEvents, NEW c \in Calls, HandleTerminal(kind, c)
  PROVE  /\ currentCall' \in [call : MaybeCall, incoming : BOOLEAN]
         /\ recordingWork' \in Seq(Operation)
         /\ recordingWork # <<>> => recordingWork' # <<>>
  <1>1. currentCall' \in [call : MaybeCall, incoming : BOOLEAN]
    BY DEF TypeOK, HandleTerminal, NoCall, MaybeCall
  <1>2. CASE activeRecorder # None /\ activeRecordingCallId = c
    <2>1. Op(kind, c) \in Operation
      BY OpType DEF OpKinds
    <2> QED BY <1>1, <1>2, <2>1, QueueOp DEF HandleTerminal
  <1>3. CASE ~(activeRecorder # None /\ activeRecordingCallId = c)
    BY <1>1, <1>3 DEF TypeOK, HandleTerminal
  <1> QED BY <1>2, <1>3

\* So does the reaction to a lost device.
LEMMA DisconnectType ==
  ASSUME TypeOK, HandleDeviceDisconnect
  PROVE  /\ connected' \in BOOLEAN /\ session' \in MaybeCall
         /\ pendingOutgoing' \in BOOLEAN /\ teardownPending' \in BOOLEAN
         /\ currentCall' \in [call : MaybeCall, incoming : BOOLEAN]
         /\ recordingWork' \in Seq(Operation)
         /\ recordingWork # <<>> => recordingWork' # <<>>
  <1>1. /\ connected' \in BOOLEAN /\ session' \in MaybeCall
        /\ pendingOutgoing' \in BOOLEAN /\ teardownPending' \in BOOLEAN
        /\ currentCall' \in [call : MaybeCall, incoming : BOOLEAN]
    BY DEF TypeOK, HandleDeviceDisconnect, NoCall, MaybeCall
  <1>2. CASE activeRecorder = None \/ activeRecordingCallId = None \/ teardownPending
    BY <1>1, <1>2 DEF TypeOK, HandleDeviceDisconnect
  <1>3. CASE ~(activeRecorder = None \/ activeRecordingCallId = None \/ teardownPending)
    <2>1. Op("lost", activeRecordingCallId) \in Operation
      BY <1>3, OpType DEF OpKinds, TypeOK, MaybeCall
    <2> QED BY <1>1, <1>3, <2>1, QueueOp DEF HandleDeviceDisconnect
  <1> QED BY <1>2, <1>3

\* Types after each event of the phone.
LEMMA DeviceType ==
  ASSUME TypeInv, NEW c \in Calls,
         RingEvent(c) \/ ProgressEvent(c) \/ EndedEvent(c) \/ MediaFailureEvent(c)
           \/ UnseenPhoneStep(c)
  PROVE  TypeInv'
  <1>1. CASE RingEvent(c)
    <2>1. phone' \in [Calls -> PhonePhases] /\ gsmCall' \in MaybeCall
      BY <1>1, ArriveType DEF TypeInv, RingEvent
    <2>2. Op("incoming", c) \in Operation
      BY OpType DEF TypeInv, OpKinds
    <2>3. recordingWork' \in Seq(Operation) /\ recordingWork' # <<>>
      BY <1>1, <2>2, QueueOp DEF TypeInv, RingEvent
    <2> QED BY <1>1, <2>1, <2>3 DEF TypeInv, TypeOK, Busy, RingEvent, Arrive
  <1>2. CASE ProgressEvent(c)
    <2>1. phone' \in [Calls -> PhonePhases] /\ gsmCall' \in Calls
      BY <1>2, ArriveType, MoveType, TrackedType
      DEF TypeInv, TypeOK, ProgressEvent, Arrive, Connect, Move
    <2>2. currentCall' \in [call : MaybeCall, incoming : BOOLEAN]
      BY <1>2, <2>1 DEF TypeInv, TypeOK, ProgressEvent, MaybeCall
    <2>3. recordingWork' \in Seq(Operation) /\ (recordingWork # <<>> => recordingWork' # <<>>)
      <3>1. Op("append", gsmCall') \in Operation
        BY <2>1, OpType DEF TypeInv, OpKinds
      <3>2. [kind |-> "begin", call |-> gsmCall', own |-> None, id |-> None, rt |-> None]
              \in Operation
        BY <2>1 DEF Operation, OpKinds, MaybeCall
      <3> DEFINE takes == c \in Outgoing /\ pendingOutgoing /\ phone' # phone
                 noted == activeRecorder # None /\ activeRecordingCallId = gsmCall'
                 s == IF takes THEN <<[kind |-> "begin", call |-> gsmCall', own |-> None,
                                       id |-> None, rt |-> None]>> ELSE <<>>
                 t == IF noted THEN <<Op("append", gsmCall')>> ELSE <<>>
      <3>3. s \in Seq(Operation) /\ t \in Seq(Operation)
        BY <3>1, <3>2
      <3>4. recordingWork' = (recordingWork \o s) \o t
        BY <1>2 DEF ProgressEvent
      <3> HIDE DEF s, t
      <3>5. recordingWork \in Seq(Operation)
        BY DEF TypeInv, TypeOK
      <3> QED BY <3>3, <3>4, <3>5, ConcatProperties, ConcatEqualIffEmpty
    <2> QED BY <1>2, <2>1, <2>2, <2>3 DEF TypeInv, TypeOK, Busy, ProgressEvent, MaybeCall
  <1>3. CASE EndedEvent(c)
    <2>1. phone' \in [Calls -> PhonePhases] /\ gsmCall' \in MaybeCall
      BY <1>3, MoveType DEF TypeInv, EndedEvent
    <2>2. gsmCall \in Calls /\ gsmCall' = gsmCall
      BY <1>3 DEF TypeInv, TypeOK, Busy, EndedEvent, Drop, Move, Live
    <2>3. /\ currentCall' \in [call : MaybeCall, incoming : BOOLEAN]
          /\ recordingWork' \in Seq(Operation)
          /\ recordingWork # <<>> => recordingWork' # <<>>
      BY <1>3, <2>2, TerminalType DEF TypeInv, EndedEvent, TerminalEvents
    <2> QED BY <1>3, <2>1, <2>2, <2>3 DEF TypeInv, TypeOK, Busy, EndedEvent
  <1>4. CASE MediaFailureEvent(c)
    <2>1. /\ currentCall' \in [call : MaybeCall, incoming : BOOLEAN]
          /\ recordingWork' \in Seq(Operation)
          /\ recordingWork # <<>> => recordingWork' # <<>>
      BY <1>4, TerminalType DEF TypeInv, TypeOK, MediaFailureEvent, TerminalEvents
    <2> QED BY <1>4, <2>1 DEF TypeInv, TypeOK, Busy, MediaFailureEvent, MaybeCall
  <1>5. CASE UnseenPhoneStep(c)
    <2>1. phone' \in [Calls -> PhonePhases] /\ gsmCall' \in MaybeCall
      BY <1>5, ArriveType, MoveType DEF TypeInv, UnseenPhoneStep
    <2>2. \A d \in Calls : phone'[d] # "none" => gsmCall' \in Calls
      BY <1>5 DEF TypeInv, TypeOK, Busy, UnseenPhoneStep, Arrive, Connect, Drop, Move, Live
    <2> QED BY <1>5, <2>1, <2>2 DEF TypeInv, TypeOK, Busy, UnseenPhoneStep
  <1> QED BY <1>1, <1>2, <1>3, <1>4, <1>5

\* The requests of the clients and the media path keep the types.
LEMMA RequestType == TypeInv /\ RequestStep => TypeInv'
  <1> SUFFICES ASSUME TypeInv, RequestStep PROVE TypeInv'
    OBVIOUS
  <1>1. CASE QueueWrite
    <2>1. Op("append", activeRecorder) \in Operation
      BY <1>1, OpType DEF TypeInv, TypeOK, QueueWrite, OpKinds, MaybeCall
    <2>2. recordingWork' \in Seq(Operation) /\ recordingWork' # <<>>
      BY <1>1, <2>1, QueueOp DEF TypeInv, QueueWrite
    <2> QED BY <1>1, <2>2 DEF TypeInv, TypeOK, Busy, QueueWrite
  <1>2. ASSUME NEW c \in Calls, QueueTranscript(c) PROVE TypeInv'
    <2>1. Op("transcript", c) \in Operation
      BY OpType DEF TypeInv, OpKinds
    <2>2. recordingWork' \in Seq(Operation) /\ recordingWork' # <<>>
      BY <1>2, <2>1, QueueOp DEF TypeInv, QueueTranscript
    <2> QED BY <1>2, <2>2 DEF TypeInv, TypeOK, Busy, QueueTranscript
  <1>3. CASE Dial
    BY <1>3 DEF TypeInv, TypeOK, Busy, Dial
  <1>4. CASE DialTimeout
    BY <1>4 DEF TypeInv, TypeOK, Busy, DialTimeout
  <1>5. ASSUME NEW w \in Clients, NEW c \in Incoming, Answer(w, c) PROVE TypeInv'
    <2>1. c \in Calls /\ w \in Workers /\ w # Chain
      BY CallsAssumption, NamesAssumption DEF Workers
    <2>2. activeRecordingCallId' \in MaybeCall
      BY <1>5, <2>1 DEF TypeInv, TypeOK, Answer, MaybeCall
    <2>3. \E at \in {"start", "answer"} : begin' = [begin EXCEPT ![w] = [at |-> at, call |-> c]]
      BY <1>5 DEF Answer
    <2>4. begin' \in [Workers -> BeginStates]
      BY <2>1, <2>3 DEF TypeInv, TypeOK, BeginStates, MaybeCall
    <2>5. Busy'
      BY <1>5, <2>1, <2>3 DEF TypeInv, TypeOK, Busy, Answer
    <2>6. sends' \in Seq(Workers \cup {"stop"})
      <3>1. UNCHANGED sends \/ Queued(TRUE, w)
        BY <1>5 DEF Answer
      <3> QED BY <2>1, <3>1, QueuedType DEF TypeInv, TypeOK, Senders
    <2> QED BY <1>5, <2>2, <2>4, <2>5, <2>6 DEF TypeInv, TypeOK, Answer
  <1> QED BY <1>1, <1>2, <1>3, <1>4, <1>5 DEF RequestStep

\* How beginRecording goes on: to its next await, or back to its caller.
LEMMA GotoType ==
  ASSUME TypeInv, NEW w \in Workers, begin[w].at # "idle",
         NEW label \in {"create", "attach", "ack", "unwind", "seal"},
         Goto(w, label), StayInChain, UNCHANGED callVars
  PROVE  /\ begin' \in [Workers -> BeginStates] /\ Busy'
         /\ recordingWork' \in Seq(Operation) /\ chain' \in ChainStates /\ stop' \in StopStates
  <1>1. begin[w] \in BeginStates
    BY DEF TypeInv, TypeOK
  <1>2. [begin[w] EXCEPT !.at = label] \in BeginStates
    BY <1>1 DEF BeginStates
  <1>3. begin' = [begin EXCEPT ![w] = [begin[w] EXCEPT !.at = label]]
    BY DEF Goto
  <1>4. begin' \in [Workers -> BeginStates]
    BY <1>2, <1>3 DEF TypeInv, TypeOK
  <1>5. \A v \in Workers : begin'[v].call = begin[v].call
                           /\ (begin'[v].at # "idle" => begin[v].at # "idle")
    BY <1>1, <1>3 DEF TypeInv, TypeOK, BeginStates
  <1>6. Busy'
    BY <1>5 DEF TypeInv, Busy, StayInChain, Workers
  <1> QED BY <1>4, <1>6 DEF TypeInv, TypeOK, StayInChain

\* The end of a beginRecording keeps the types.
LEMMA EndBeginType ==
  ASSUME TypeInv, NEW w \in Workers, begin[w].at # "idle", NEW success \in BOOLEAN,
         EndBegin(w, success), UNCHANGED callVars
  PROVE  /\ begin' \in [Workers -> BeginStates] /\ Busy'
         /\ recordingWork' \in Seq(Operation) /\ chain' \in ChainStates /\ stop' \in StopStates
  <1>1. begin[w] \in BeginStates /\ IdleBegin \in BeginStates
    BY DEF TypeInv, TypeOK, BeginStates, IdleBegin, MaybeCall
  <1>2. CASE w = Chain
    <2>1. begin' = [begin EXCEPT ![w] = IdleBegin] /\ Pop
      BY <1>2 DEF EndBegin
    <2>2. recordingWork # <<>>
      BY <1>2 DEF TypeInv, Busy
    <2>3. recordingWork' \in Seq(Operation) /\ chain' \in ChainStates /\ stop' \in StopStates
      BY <2>1, <2>2, PopType DEF TypeInv
    <2>4. begin' \in [Workers -> BeginStates]
      BY <1>1, <2>1 DEF TypeInv, TypeOK
    <2>5. Busy'
      BY <1>2, <2>1 DEF TypeInv, TypeOK, Busy, Pop, IdleChain, IdleBegin
    <2> QED BY <2>3, <2>4, <2>5
  <1>3. CASE w # Chain
    <2>1. PICK b \in {[begin[w] EXCEPT !.at = "answer"], IdleBegin} :
              begin' = [begin EXCEPT ![w] = b]
      BY <1>3 DEF EndBegin
    <2>2. b \in BeginStates /\ (b.at # "idle" => b.call = begin[w].call)
      BY <1>1, <2>1 DEF BeginStates, IdleBegin
    <2>3. begin' \in [Workers -> BeginStates]
      BY <2>1, <2>2 DEF TypeInv, TypeOK
    <2>4. UNCHANGED <<recordingWork, chain, stop>>
      BY <1>3 DEF EndBegin
    <2>5. Busy'
      BY <1>3, <2>1, <2>2, <2>4 DEF TypeInv, TypeOK, Busy
    <2> QED BY <2>3, <2>4, <2>5 DEF TypeInv, TypeOK
  <1> QED BY <1>2, <1>3

\* Every resumption of a beginRecording keeps the types.
LEMMA BeginType ==
  ASSUME TypeInv, NEW w \in Workers, BeginStep(w)
  PROVE  TypeInv'
  <1> DEFINE c == begin[w].call
  <1>1. begin[w].at # "idle" /\ c \in Calls
    BY DEF TypeInv, Busy, BeginStep, RecorderStarted, RealtimeCreated, RealtimeStarted,
           SessionAcknowledged, BeginUnwound, BeginSealed, AnswerSent
  <1> DEFINE Rest == /\ begin' \in [Workers -> BeginStates] /\ Busy'
                     /\ recordingWork' \in Seq(Operation) /\ chain' \in ChainStates
                     /\ stop' \in StopStates
  <1>2. ASSUME NEW success \in BOOLEAN, EndBegin(w, success), UNCHANGED callVars PROVE Rest
    BY <1>1, <1>2, EndBeginType
  <1>3. ASSUME NEW label \in {"create", "attach", "ack", "unwind", "seal"},
               Goto(w, label), StayInChain, UNCHANGED callVars
        PROVE  Rest
    BY <1>1, <1>3, GotoType
  <1>4. CASE RecorderStarted(w)
    <2>1. Rest
      BY <1>2, <1>3, <1>4 DEF RecorderStarted
    <2>2. /\ recorder' \in [Calls -> {"none", "open", "closed"}]
          /\ activeRecorder' \in MaybeCall /\ activeRecordingCallId' \in MaybeCall
      BY <1>1, <1>4 DEF TypeInv, TypeOK, RecorderStarted, MaybeCall
    <2> HIDE DEF Rest
    <2> QED BY <1>4, <2>1, <2>2 DEF TypeInv, TypeOK, RecorderStarted, Rest
  <1>5. CASE RealtimeCreated(w)
    <2>1. Rest
      BY <1>2, <1>3, <1>5 DEF RealtimeCreated, AbandonRecorder
    <2>2. /\ recorder' \in [Calls -> {"none", "open", "closed"}]
          /\ activeRecorder' \in MaybeCall /\ activeRecordingCallId' \in MaybeCall
          /\ activeRealtime' \in MaybeCall
      BY <1>1, <1>5 DEF TypeInv, TypeOK, RealtimeCreated, AbandonRecorder, Disown, MaybeCall
    <2> HIDE DEF Rest
    <2> QED BY <1>5, <2>1, <2>2 DEF TypeInv, TypeOK, RealtimeCreated, Rest
  <1>6. CASE RealtimeStarted(w)
    <2>1. Rest
      BY <1>2, <1>3, <1>6 DEF RealtimeStarted, AbandonRecorder
    <2>2. /\ recorder' \in [Calls -> {"none", "open", "closed"}]
          /\ rts' \in [Calls -> {"none", "live", "closed"}]
          /\ activeRecorder' \in MaybeCall /\ activeRecordingCallId' \in MaybeCall
          /\ activeRealtime' \in MaybeCall
      BY <1>1, <1>6 DEF TypeInv, TypeOK, RealtimeStarted, AbandonRecorder, Disown, MaybeCall
    <2>3. sends' \in Seq(Workers \cup {"stop"})
      <3>1. UNCHANGED sends \/ \E sent \in SendResults : Queued(sent, w)
        BY <1>6 DEF RealtimeStarted
      <3> QED BY <3>1, QueuedType, SendResultsType DEF TypeInv, TypeOK, Senders
    <2> HIDE DEF Rest
    <2> QED BY <1>6, <2>1, <2>2, <2>3 DEF TypeInv, TypeOK, RealtimeStarted, Rest
  <1>7. CASE SessionAcknowledged(w)
    <2>1. Rest
      BY <1>2, <1>3, <1>7 DEF SessionAcknowledged
    <2>2. /\ activeRecorder' \in MaybeCall /\ activeRecordingCallId' \in MaybeCall
          /\ activeRealtime' \in MaybeCall /\ session' \in MaybeCall
      BY <1>1, <1>7 DEF TypeInv, TypeOK, SessionAcknowledged, Disown, MaybeCall
    <2>3. sends' \in Seq(Workers \cup {"stop"})
      <3> DEFINE tail == IF begin'[w].at = "answer" THEN <<w>> ELSE <<>>
      <3>1. Tail(sends) \in Seq(Senders)
        BY <1>7, DequeuedType DEF TypeInv, SessionAcknowledged
      <3>3. tail \in Seq(Senders)
        <4>1. <<w>> \in Seq(Senders) /\ <<>> \in Seq(Senders)
          BY DEF Senders
        <4>2. tail = <<w>> \/ tail = <<>>
          OBVIOUS
        <4> QED BY <4>1, <4>2
      <3>2. sends' = Tail(sends) \o tail
        BY <1>7 DEF SessionAcknowledged
      <3> HIDE DEF tail
      <3> QED BY <3>1, <3>2, <3>3, ConcatProperties DEF Senders
    <2> HIDE DEF Rest
    <2> QED BY <1>7, <2>1, <2>2, <2>3 DEF TypeInv, TypeOK, SessionAcknowledged, Rest
  <1>8. CASE BeginUnwound(w)
    <2>1. Rest
      BY <1>3, <1>8 DEF BeginUnwound
    <2>2. /\ recorder' \in [Calls -> {"none", "open", "closed"}]
          /\ rts' \in [Calls -> {"none", "live", "closed"}]
      BY <1>8 DEF TypeInv, TypeOK, BeginUnwound, CloseRealtime
    <2> HIDE DEF Rest
    <2> QED BY <1>8, <2>1, <2>2 DEF TypeInv, TypeOK, BeginUnwound, Rest
  <1>9. CASE BeginSealed(w)
    <2>1. Rest
      BY <1>2, <1>9 DEF BeginSealed
    <2> HIDE DEF Rest
    <2> QED BY <1>9, <2>1 DEF TypeInv, TypeOK, BeginSealed, Rest
  <1>10. CASE AnswerSent(w)
    <2>1. IdleBegin \in BeginStates /\ IdleBegin.at = "idle"
      BY DEF BeginStates, IdleBegin, MaybeCall
    <2>2. begin' \in [Workers -> BeginStates] /\ Busy'
      BY <1>10, <2>1 DEF TypeInv, TypeOK, Busy, AnswerSent, StayInChain, Workers
    <2>3. sends' \in Seq(Workers \cup {"stop"})
      BY <1>10, DequeuedType DEF TypeInv, AnswerSent, Senders
    <2> QED BY <1>10, <2>2, <2>3 DEF TypeInv, TypeOK, AnswerSent, StayInChain
  <1> QED BY <1>4, <1>5, <1>6, <1>7, <1>8, <1>9, <1>10 DEF BeginStep

\* The running operation that goes on to another await keeps the types.
LEMMA AwaitType ==
  ASSUME TypeOK,
         NEW label \in {"lookup", "begin", "append", "revoke", "note", "close", "seal", "sync"},
         Await(label)
  PROVE  chain' \in ChainStates /\ chain'.at = label
  <1>1. chain \in ChainStates
    BY DEF TypeOK
  <1>2. [chain EXCEPT !.at = label] \in ChainStates /\ [chain EXCEPT !.at = label].at = label
    BY <1>1 DEF ChainStates
  <1> QED BY <1>2 DEF Await

\* The chain goes on to its next await, or to its next operation.
LEMMA ChainGoes ==
  ASSUME TypeInv, recordingWork # <<>>, chain.at # "begin",
         UNCHANGED <<callVars, begin>>,
         \/ Pop
         \/ /\ \E label \in {"lookup", "append", "revoke", "note", "close", "seal", "sync"} :
                 Await(label)
            /\ UNCHANGED <<recordingWork, stop>>
  PROVE  /\ recordingWork' \in Seq(Operation) /\ chain' \in ChainStates
         /\ stop' \in StopStates /\ Busy'
  <1>1. CASE Pop
    <2>1. recordingWork' \in Seq(Operation) /\ chain' \in ChainStates /\ stop' \in StopStates
      BY <1>1, PopType DEF TypeInv
    <2>2. chain'.at = "idle"
      BY <1>1 DEF Pop, IdleChain
    <2> QED BY <2>1, <2>2 DEF TypeInv, Busy
  <1>2. CASE /\ \E label \in {"lookup", "append", "revoke", "note", "close", "seal", "sync"} :
                  Await(label)
             /\ UNCHANGED <<recordingWork, stop>>
    <2>1. chain' \in ChainStates
      BY <1>2, AwaitType DEF TypeInv
    <2> QED BY <1>2, <2>1 DEF TypeInv, TypeOK, Busy
  <1> QED BY <1>1, <1>2

\* The settled write keeps the types, whether it failed or not.
LEMMA AppendSettledType ==
  ASSUME TypeInv, AppendSettled
  PROVE  /\ connected' \in BOOLEAN /\ session' \in MaybeCall
         /\ activeRecorder' \in MaybeCall /\ activeRecordingCallId' \in MaybeCall
         /\ activeRealtime' \in MaybeCall
         /\ teardownPending' \in BOOLEAN /\ recordingHealthy' \in BOOLEAN
         /\ currentCall' \in [call : MaybeCall, incoming : BOOLEAN]
         /\ pendingOutgoing' \in BOOLEAN
         /\ sends' \in Seq(Workers \cup {"stop"})
  <1> DEFINE o == Running
  <1> Chain \in Senders
    BY DEF Senders, Workers
  <1>1. ASSUME NEW sent \in SendResults, Queued(sent, Chain)
        PROVE  sends' \in Seq(Workers \cup {"stop"})
    BY <1>1, QueuedType, SendResultsType DEF TypeInv, Senders
  <1>2. CASE FailActiveRecording(o)
    <2>1. CASE o.own = None \/ ~StillOwned(o)
      BY <1>2, <2>1 DEF TypeInv, TypeOK, FailActiveRecording
    <2>2. CASE ~(o.own = None \/ ~StillOwned(o))
      <3>1. NoCall \in [call : MaybeCall, incoming : BOOLEAN]
        BY DEF NoCall, MaybeCall
      <3>2. Disown /\ teardownPending' = TRUE /\ recordingHealthy' = FALSE
        BY <1>2, <2>2 DEF FailActiveRecording
      <3>3. \/ UNCHANGED <<connected, session, currentCall, pendingOutgoing>>
            \/ /\ connected' = FALSE /\ session' = None
               /\ currentCall' = NoCall /\ pendingOutgoing' = FALSE
        BY <1>2, <2>2 DEF FailActiveRecording
      <3>4. sends' \in Seq(Workers \cup {"stop"})
        BY <1>1, <1>2, <2>2 DEF FailActiveRecording
      <3> QED BY <3>1, <3>2, <3>3, <3>4 DEF TypeInv, TypeOK, Disown, MaybeCall
    <2> QED BY <2>1, <2>2
  <1>3. CASE UNCHANGED <<connected, session, ownerVars, teardownPending, statusVars, sends>>
    BY <1>3 DEF TypeInv, TypeOK
  <1>4. CASE /\ Disown
             /\ \E sent \in SendResults :
                  Queued(sent, Chain) /\ recordingHealthy' = (recordingHealthy /\ sent)
             /\ UNCHANGED <<connected, session, teardownPending, currentCall,
                            pendingOutgoing>>
    <2>1. sends' \in Seq(Workers \cup {"stop"})
      BY <1>1, <1>4
    <2>2. recordingHealthy' \in BOOLEAN
      BY <1>4, SendResultsType DEF TypeInv, TypeOK
    <2> QED BY <1>4, <2>1, <2>2 DEF TypeInv, TypeOK, Disown, MaybeCall
  <1> QED BY <1>2, <1>3, <1>4 DEF AppendSettled

\* Every step of the chain keeps the types.
LEMMA ChainType == ASSUME TypeInv, ChainStep PROVE TypeInv'
  <1> DEFINE Rest == /\ recordingWork' \in Seq(Operation) /\ chain' \in ChainStates
                     /\ stop' \in StopStates /\ Busy'
  <1>1. recordingWork # <<>>
    BY DEF TypeInv, Busy, ChainStep, StartOperation, RevocationSettled, IncomingResolved, OutgoingResolved,
           AppendSettled, LossNoted, RecorderClosed, RecorderSealed, CopySettled
  <1>2. Running \in Operation
    BY <1>1, RunningType DEF TypeInv
  <1>3. CASE StartOperation
    <2>1. CASE Pop
      <3>1. UNCHANGED ownerVars
        BY <1>3, <2>1 DEF StartOperation, Pop, TypeInv, TypeOK, Await, IdleChain, ChainStates
      <3>2. Rest
        BY <1>1, <1>3, <2>1, ChainGoes DEF StartOperation
      <3> HIDE DEF Rest
      <3> QED BY <1>3, <3>1, <3>2 DEF TypeInv, TypeOK, StartOperation, Rest
    <2>2. CASE ~Pop /\ Running.kind = "lost"
      <3>1. chain' \in ChainStates /\ chain'.at = "note"
        <4>1. chain' = [at |-> "note", why |-> "transport_lost",
                        held |-> IF Running.rt = Running.id THEN Running.rt ELSE None]
          BY <1>3, <2>2 DEF StartOperation
        <4>2. (IF Running.rt = Running.id THEN Running.rt ELSE None) \in MaybeCall
          BY <1>2 DEF Operation, MaybeCall
        <4> QED BY <4>1, <4>2 DEF ChainStates, Outcomes
      <3>2. Disown /\ UNCHANGED <<recordingWork, stop, begin, callVars>> /\ chain.at = "idle"
        BY <1>3, <2>2 DEF StartOperation
      <3>3. Busy'
        BY <1>1, <3>1, <3>2 DEF TypeInv, Busy
      <3> QED BY <1>3, <3>1, <3>2, <3>3 DEF TypeInv, TypeOK, StartOperation, Disown, MaybeCall
    <2>3. CASE ~Pop /\ Running.kind # "lost"
      <3>1. Rest
        BY <1>1, <1>3, <2>3, ChainGoes DEF StartOperation
      <3> HIDE DEF Rest
      <3> QED BY <1>3, <2>3, <3>1 DEF TypeInv, TypeOK, StartOperation, Rest
    <2> QED BY <2>1, <2>2, <2>3
  <1>4. CASE IncomingResolved
    <2>1. Rest
      BY <1>1, <1>4, ChainGoes DEF IncomingResolved
    <2>2. /\ currentCall' \in [call : MaybeCall, incoming : BOOLEAN]
          /\ announced' \subseteq Calls
      BY <1>2, <1>4 DEF TypeInv, TypeOK, IncomingResolved, Operation, MaybeCall
    <2> HIDE DEF Rest
    <2> QED BY <1>4, <2>1, <2>2 DEF TypeInv, TypeOK, IncomingResolved, Rest
  <1>5. CASE OutgoingResolved
    <2>1. Running.call \in Calls
      BY <1>2 DEF Operation
    <2>2. CASE CanReserve
      <3>1. [at |-> "start", call |-> Running.call] \in BeginStates
        BY <2>1 DEF BeginStates, MaybeCall
      <3>2. begin' \in [Workers -> BeginStates] /\ Chain \in Workers
        BY <1>5, <2>2, <3>1 DEF TypeInv, TypeOK, OutgoingResolved, Workers
      <3>3. chain' \in ChainStates /\ chain'.at = "begin"
        BY <1>5, <2>2, AwaitType DEF TypeInv, OutgoingResolved
      <3>4. Busy'
        BY <1>1, <1>5, <2>1, <2>2, <3>2, <3>3 DEF TypeInv, TypeOK, Busy, OutgoingResolved
      <3> QED BY <1>5, <2>1, <2>2, <3>2, <3>3, <3>4
              DEF TypeInv, TypeOK, OutgoingResolved, MaybeCall
    <2>3. CASE ~CanReserve
      <3>1. Rest
        BY <1>1, <1>5, <2>3, ChainGoes DEF OutgoingResolved
      <3> HIDE DEF Rest
      <3> QED BY <1>5, <2>3, <3>1 DEF TypeInv, TypeOK, OutgoingResolved, Rest
    <2> QED BY <2>2, <2>3
  <1>6. CASE AppendSettled
    <2>1. CASE Pop
      <3>1. Rest
        BY <1>1, <1>6, <2>1, ChainGoes DEF AppendSettled
      <3>2. /\ connected' \in BOOLEAN /\ session' \in MaybeCall
            /\ activeRecorder' \in MaybeCall /\ activeRecordingCallId' \in MaybeCall
            /\ activeRealtime' \in MaybeCall
            /\ teardownPending' \in BOOLEAN /\ recordingHealthy' \in BOOLEAN
            /\ currentCall' \in [call : MaybeCall, incoming : BOOLEAN]
            /\ pendingOutgoing' \in BOOLEAN
            /\ sends' \in Seq(Workers \cup {"stop"})
        BY <1>6, AppendSettledType
      <3> HIDE DEF Rest
      <3> QED BY <1>6, <3>1, <3>2 DEF TypeInv, TypeOK, AppendSettled, Rest
    <2>2. CASE ~Pop
      <3>1. /\ chain' \in ChainStates /\ chain'.at \in {"revoke", "close"}
            /\ UNCHANGED <<recordingWork, stop>>
        BY <1>2, <1>6, <2>2 DEF AppendSettled, FailActiveRecording, ChainStates, Outcomes,
           Operation, MaybeCall, StillOwned, TerminalEvents
      <3>2. Busy'
        BY <1>1, <1>6, <3>1 DEF TypeInv, Busy, AppendSettled
      <3>3. /\ connected' \in BOOLEAN /\ session' \in MaybeCall
            /\ activeRecorder' \in MaybeCall /\ activeRecordingCallId' \in MaybeCall
            /\ activeRealtime' \in MaybeCall
            /\ teardownPending' \in BOOLEAN /\ recordingHealthy' \in BOOLEAN
            /\ currentCall' \in [call : MaybeCall, incoming : BOOLEAN]
            /\ pendingOutgoing' \in BOOLEAN
            /\ sends' \in Seq(Workers \cup {"stop"})
        BY <1>6, AppendSettledType
      <3> QED BY <1>6, <3>1, <3>2, <3>3 DEF TypeInv, TypeOK, AppendSettled
    <2> QED BY <2>1, <2>2
  <1>7. CASE LossNoted
    <2>1. Rest
      BY <1>1, <1>7, ChainGoes DEF LossNoted
    <2> HIDE DEF Rest
    <2> QED BY <1>7, <2>1 DEF TypeInv, TypeOK, LossNoted, Rest
  <1>8. CASE RecorderClosed
    <2>1. Rest
      BY <1>1, <1>8, ChainGoes DEF RecorderClosed
    <2>2. /\ recorder' \in [Calls -> {"none", "open", "closed"}]
          /\ rts' \in [Calls -> {"none", "live", "closed"}]
      BY <1>8 DEF TypeInv, TypeOK, RecorderClosed, CloseRealtime
    <2> HIDE DEF Rest
    <2> QED BY <1>8, <2>1, <2>2 DEF TypeInv, TypeOK, RecorderClosed, Rest
  <1>9. CASE RecorderSealed
    <2>1. Rest
      BY <1>1, <1>9, ChainGoes DEF RecorderSealed
    <2>2. complete' \in [Calls -> BOOLEAN] /\ recordingHealthy' \in BOOLEAN
      BY <1>9 DEF TypeInv, TypeOK, RecorderSealed, Results
    <2> HIDE DEF Rest
    <2> QED BY <1>9, <2>1, <2>2 DEF TypeInv, TypeOK, RecorderSealed, Rest
  <1>10. CASE CopySettled
    <2>1. Rest
      BY <1>1, <1>10, ChainGoes DEF CopySettled
    <2> HIDE DEF Rest
    <2> QED BY <1>10, <2>1 DEF TypeInv, TypeOK, CopySettled, Rest
  <1>11. CASE RevocationSettled
    <2>1. Rest
      BY <1>1, <1>11, ChainGoes DEF RevocationSettled
    <2>2. sends' \in Seq(Workers \cup {"stop"})
      BY <1>11, DequeuedType DEF TypeInv, RevocationSettled, Senders
    <2>3. session' \in MaybeCall /\ recordingHealthy' \in BOOLEAN
      BY <1>11 DEF TypeInv, TypeOK, RevocationSettled, Revoked, MaybeCall
    <2> HIDE DEF Rest
    <2> QED BY <1>11, <2>1, <2>2, <2>3 DEF TypeInv, TypeOK, RevocationSettled, Rest
  <1> QED BY <1>3, <1>4, <1>5, <1>6, <1>7, <1>8, <1>9, <1>10, <1>11 DEF ChainStep

\* The end of stop() keeps the types.
LEMMA FinishStopType ==
  ASSUME TypeInv, FinishStop
  PROVE  /\ state' = "stopped" /\ stop' \in StopStates
         /\ connected' \in BOOLEAN /\ session' \in MaybeCall
         /\ pendingOutgoing' \in BOOLEAN /\ teardownPending' \in BOOLEAN
         /\ currentCall' \in [call : MaybeCall, incoming : BOOLEAN]
         /\ recordingWork' \in Seq(Operation)
         /\ recordingWork # <<>> => recordingWork' # <<>>
  <1>1. state' = "stopped" /\ stop' \in StopStates
    BY DEF FinishStop, IdleStop, StopStates, MaybeCall
  <1>2. CASE connected
    BY <1>1, <1>2, DisconnectType DEF TypeInv, FinishStop
  <1>3. CASE ~connected
    <2>1. NoCall \in [call : MaybeCall, incoming : BOOLEAN]
      BY DEF NoCall, MaybeCall
    <2> QED BY <1>1, <1>3, <2>1 DEF TypeInv, TypeOK, FinishStop
  <1> QED BY <1>2, <1>3 DEF TypeInv, TypeOK

\* The steps of start() and stop() keep the types.
LEMMA StartStopType ==
  ASSUME TypeInv, Start \/ StartStep \/ StopCalled \/ StopStep
  PROVE  TypeInv'
  <1>1. CASE Start
    BY <1>1 DEF TypeInv, TypeOK, Busy, Start
  <1>2. CASE StartConnected
    BY <1>2 DEF TypeInv, TypeOK, Busy, StartConnected
  <1>3. CASE StartFinished
    BY <1>3 DEF TypeInv, TypeOK, Busy, StartFinished
  <1>4. CASE StartFailed
    <2>1. CASE connected
      BY <1>4, <2>1, DisconnectType DEF TypeInv, TypeOK, Busy, StartFailed
    <2>2. CASE ~connected
      BY <1>4, <2>2 DEF TypeInv, TypeOK, Busy, StartFailed
    <2> QED BY <2>1, <2>2
  <1>5. CASE StopCalled
    <2>1. Len(recordingWork) \in Nat
      BY LenProperties DEF TypeInv, TypeOK
    <2>2. stop' = [at |-> "drain", wait |-> Len(recordingWork), rec |-> None, rt |-> None]
      BY <1>5 DEF StopCalled, IdleStop
    <2>3. stop' \in StopStates
      BY <2>1, <2>2 DEF StopStates, MaybeCall
    <2> QED BY <1>5, <2>3 DEF TypeInv, TypeOK, Busy, StopCalled
  <1>6. CASE StopDrained
    <2>1. CASE activeRecorder = None
      BY <1>6, <2>1, FinishStopType DEF TypeInv, TypeOK, Busy, StopDrained
    <2>2. CASE activeRecorder # None
      <3>1. PICK sent \in SendResults :
               /\ Queued(sent, "stop")
               /\ stop' = [at |-> IF sent THEN "revoke" ELSE "close", wait |-> 0,
                           rec |-> activeRecorder, rt |-> activeRealtime]
               /\ IF sent THEN UNCHANGED ownerVars ELSE Disown
        BY <1>6, <2>2 DEF StopDrained
      <3>2. stop' \in StopStates
        BY <3>1 DEF TypeInv, TypeOK, StopStates, MaybeCall
      <3>5. sends' \in Seq(Workers \cup {"stop"})
        BY <3>1, QueuedType, SendResultsType DEF TypeInv, Senders
      <3>3. activeRecorder' \in MaybeCall /\ activeRecordingCallId' \in MaybeCall
            /\ activeRealtime' \in MaybeCall
        BY <3>1 DEF TypeInv, TypeOK, Disown, MaybeCall
      <3>4. NoCall \in [call : MaybeCall, incoming : BOOLEAN]
        BY DEF NoCall, MaybeCall
      <3> QED BY <1>6, <2>2, <3>2, <3>3, <3>4, <3>5 DEF TypeInv, TypeOK, Busy, StopDrained
    <2> QED BY <2>1, <2>2
  <1>7. CASE StopRevoked
    <2>1. sends' \in Seq(Workers \cup {"stop"})
      BY <1>7, DequeuedType DEF TypeInv, StopRevoked, Senders
    <2>2. session' \in MaybeCall
      BY <1>7 DEF TypeInv, TypeOK, StopRevoked, Revoked, MaybeCall
    <2>3. stop' \in StopStates
      BY <1>7 DEF TypeInv, TypeOK, StopRevoked, StopStates
    <2> QED BY <1>7, <2>1, <2>2, <2>3 DEF TypeInv, TypeOK, Busy, StopRevoked, Disown, MaybeCall
  <1>8. CASE StopClosed
    <2>1. recordingHealthy' \in BOOLEAN
      BY <1>8 DEF TypeInv, TypeOK, StopClosed, Results
    <2>2. stop' \in StopStates
      BY <1>8 DEF TypeInv, TypeOK, StopClosed, StopStates
    <2>3. /\ recorder' \in [Calls -> {"none", "open", "closed"}]
          /\ rts' \in [Calls -> {"none", "live", "closed"}]
      BY <1>8 DEF TypeInv, TypeOK, StopClosed, CloseRealtime
    <2> QED BY <1>8, <2>1, <2>2, <2>3 DEF TypeInv, TypeOK, Busy, StopClosed
  <1>9. CASE StopFinished
    BY <1>9, FinishStopType DEF TypeInv, TypeOK, Busy, StopFinished
  <1> QED BY <1>1, <1>2, <1>3, <1>4, <1>5, <1>6, <1>7, <1>8, <1>9 DEF StartStep, StopStep

\* So every step does.
LEMMA StepType == TypeInv /\ [Next]_vars => TypeInv'
  <1> SUFFICES ASSUME TypeInv, [Next]_vars PROVE TypeInv'
    OBVIOUS
  <1>1. CASE DeviceStep
    <2>1. ASSUME LinkLost PROVE TypeInv'
      BY <2>1, DisconnectType DEF TypeInv, TypeOK, Busy, LinkLost
    <2> QED BY <1>1, <2>1, DeviceType DEF DeviceStep
  <1>2. CASE RequestStep
    BY <1>2, RequestType
  <1>3. CASE ChainStep
    BY <1>3, ChainType
  <1>4. ASSUME NEW w \in Workers, BeginStep(w) PROVE TypeInv'
    BY <1>4, BeginType
  <1>5. CASE Start \/ StartStep \/ StopCalled \/ StopStep
    BY <1>5, StartStopType
  <1>6. CASE UNCHANGED vars
    BY <1>6 DEF TypeInv, TypeOK, Busy, vars
  <1> QED BY <1>1, <1>2, <1>3, <1>4, <1>5, <1>6 DEF Next

\* Every variable keeps its type, whatever fails and however the awaits interleave.
THEOREM TypeCorrect == Spec => []TypeOK
  <1>1. TypeInv => TypeOK
    BY DEF TypeInv
  <1> QED BY InitType, StepType, <1>1, PTL DEF Spec

-------------------------------------------------------------------------------
(* The safety properties *)

Inv == NoBackpressure /\ TypeInv /\ IInv

\* Between two turns of the event loop nobody waits for a message to leave.
LEMMA SettledSends ==
  ASSUME Inv, Settled
  PROVE  /\ sends = <<>>
         /\ stop.at # "revoke" /\ chain.at # "revoke"
         /\ \A w \in Workers : begin[w].at \notin {"ack", "answer"}
         /\ chain.at = "idle" => recordingWork = <<>>
  BY DEF Inv, IInv, Settled, InvSends, NoBackpressure

\* An awaiting chain has an operation that awaits.
LEMMA BusyChain == ASSUME Inv, chain.at # "idle" PROVE recordingWork # <<>>
  BY DEF Inv, TypeInv, Busy

\* The queue grows by the operations of t.
LEMMA ConcatQueue ==
  ASSUME Inv, NEW t \in Seq(Operation), recordingWork' = recordingWork \o t
  PROVE  /\ \A i \in Places : i \in Nat /\ i \in Places' /\ recordingWork'[i] = recordingWork[i]
         /\ \A i \in Places' : i \in Nat
         /\ \A i \in Places' \ Places :
              /\ \E k \in 1..Len(t) : recordingWork'[i] = t[k]
              /\ \A j \in Places : j < i
              /\ Len(t) <= 1 => \A j \in Places' : j <= i
         /\ recordingWork # <<>> => Running' = Running
         /\ recordingWork' = <<>> <=> recordingWork = <<>> /\ t = <<>>
  <1>1. recordingWork \in Seq(Operation)
    BY DEF Inv, TypeInv, TypeOK
  <1>2. /\ recordingWork' \in Seq(Operation)
        /\ Len(recordingWork) \in Nat /\ Len(t) \in Nat
        /\ Len(recordingWork') = Len(recordingWork) + Len(t)
        /\ \A i \in 1..Len(recordingWork) : recordingWork'[i] = recordingWork[i]
        /\ \A k \in 1..Len(t) : recordingWork'[Len(recordingWork) + k] = t[k]
    BY <1>1
  <1>3. \A i \in Places : i \in Nat /\ i \in Places' /\ recordingWork'[i] = recordingWork[i]
    BY <1>2 DEF Places
  <1>4. ASSUME NEW i \in Places' \ Places
        PROVE  /\ \E k \in 1..Len(t) : recordingWork'[i] = t[k]
               /\ \A j \in Places : j < i
               /\ Len(t) <= 1 => \A j \in Places' : j <= i
    <2>1. i - Len(recordingWork) \in 1..Len(t)
      BY <1>2 DEF Places
    <2>2. recordingWork'[i] = t[i - Len(recordingWork)]
      BY <1>2, <2>1 DEF Places
    <2> QED BY <1>2, <2>1, <2>2 DEF Places
  <1>5. recordingWork # <<>> => Running' = Running
    BY <1>1, <1>2, HeadTailProperties, EmptySeq DEF Running
  <1>6. recordingWork' = <<>> <=> recordingWork = <<>> /\ t = <<>>
    BY <1>1, ConcatEqualIffEmpty, ConcatProperties
  <1> QED BY <1>2, <1>3, <1>4, <1>5, <1>6 DEF Places

\* The running operation leaves the queue.
LEMMA TailQueue ==
  ASSUME Inv, recordingWork # <<>>, recordingWork' = Tail(recordingWork)
  PROVE  /\ 1 \in Places /\ recordingWork[1] = Running
         /\ \A i \in Places' : /\ i \in Nat /\ i >= 1 /\ i + 1 \in Places
                              /\ recordingWork'[i] = recordingWork[i + 1]
  <1>1. recordingWork \in Seq(Operation) /\ Len(recordingWork) \in Nat
    BY DEF Inv, TypeInv, TypeOK
  <1>2. Len(recordingWork) >= 1
    BY <1>1, EmptySeq, HeadTailProperties
  <1>3. /\ Len(recordingWork') = Len(recordingWork) - 1
        /\ \A i \in 1..Len(recordingWork') : recordingWork'[i] = recordingWork[i + 1]
    BY <1>1, HeadTailProperties
  <1> QED BY <1>1, <1>2, <1>3, HeadTailProperties DEF Places, Running

\* The running operation is the one at the first place.
LEMMA FirstPlace ==
  ASSUME Inv, recordingWork # <<>>
  PROVE  1 \in Places /\ recordingWork[1] = Running /\ Running \in Operation
  <1>1. recordingWork \in Seq(Operation) /\ Len(recordingWork) \in Nat
    BY DEF Inv, TypeInv, TypeOK
  <1>2. Len(recordingWork) >= 1
    BY <1>1, EmptySeq, HeadTailProperties
  <1> QED BY <1>1, <1>2, HeadTailProperties, RunningType DEF Places, Running, Inv, TypeInv

\* What is at a place of the queue is an operation.
LEMMA PlaceType ==
  ASSUME Inv, NEW i \in Places
  PROVE  /\ recordingWork[i] \in Operation
         /\ recordingWork[i].call \in Calls /\ recordingWork[i].own \in MaybeCall
  <1>1. recordingWork[i] \in Operation
    BY DEF Inv, TypeInv, TypeOK, Places
  <1> QED BY <1>1 DEF Operation

\* A step that only queues operations, moves calls of the phone, gives up the
\* session or the current call, disconnects or finishes start() and stop().
LEMMA EventInv ==
  ASSUME Inv, NEW t \in Seq(Operation), recordingWork' = recordingWork \o t,
         UNCHANGED <<sends, ownerVars, chain, begin, artifactVars>>,
         stop.at # "revoke" \/ t = <<>>,
         \/ UNCHANGED stop
         \/ stop.at \notin {"revoke", "close"} /\ stop'.at \in {"idle", "drain"},
         \A c \in Calls : phone[c] # "none" => phone'[c] # "none",
         \A c \in Calls : phone[c] \in Over => phone'[c] \in Over,
         \/ gsmCall' = gsmCall /\ \A k \in 1..Len(t) : t[k].kind # "incoming"
         \/ /\ gsmCall' \in Calls /\ phone[gsmCall'] = "none"
            /\ Len(t) <= 1 \/ \A k \in 1..Len(t) : t[k].kind # "incoming",
         announced' = announced,
         Started => Started', state' = "running" => Started', Gone => Gone',
         session' \in {session, None},
         pendingOutgoing' => pendingOutgoing \/ Started',
         currentCall'.call # None => phone'[currentCall'.call] # "none",
         gsmCall' # None => phone'[gsmCall'] # "none",
         currentCall'.incoming => currentCall' = currentCall,
         \A k \in 1..Len(t) : OpInv(t[k])',
         \A k \in 1..Len(t) : t[k].kind \in TerminalEvents =>
            \/ ~currentCall'.incoming /\ \A j \in Places : ~Unresolved(j)
            \/ \A w \in Clients : Opening(w) => begin[w].call # t[k].own,
         \A k \in 1..Len(t) : t[k].kind \in TerminalEvents => Len(t) = 1,
         CallWaiting \/
           /\ \A c \in Calls : phone'[c] \notin {"none", "removed"} => gsmCall' = c
           /\ \A k \in 1..Len(t) : t[k].kind = "ended" => phone'[t[k].call] \in Over
  PROVE  IInv'
  <1>a. \A i \in Places : i \in Nat /\ i \in Places' /\ recordingWork'[i] = recordingWork[i]
    BY ConcatQueue
  <1>b. \A i \in Places' : i \in Nat
    BY ConcatQueue
  <1>c. \A i \in Places' \ Places : \E k \in 1..Len(t) : recordingWork'[i] = t[k]
    BY ConcatQueue
  <1>d. \A i \in Places' \ Places : /\ \A j \in Places : j < i
                                    /\ Len(t) <= 1 => \A j \in Places' : j <= i
    BY ConcatQueue
  <1>e. /\ recordingWork # <<>> => Running' = Running
        /\ recordingWork' = <<>> <=> recordingWork = <<>> /\ t = <<>>
    BY ConcatQueue
  <1>f. chain.at # "idle" => /\ recordingWork # <<>> /\ recordingWork[1] = Running /\ 1 \in Places
                             /\ Running \in Operation /\ Running' = Running
    BY <1>e, BusyChain, FirstPlace
  <1>g. \A i \in Places : recordingWork[i].call \in Calls /\ recordingWork[i].own \in MaybeCall
    BY PlaceType
  <1>3. OwnerReserved' /\ RealtimeOwned' /\ InvReservation'
    BY DEF Inv, IInv, OwnerReserved, RealtimeOwned, InvReservation, AtStart
  <1>4. InvSends'
    BY DEF Inv, IInv, InvSends
  <1>5. InvBegin'
    BY NamesAssumption DEF Inv, IInv, InvBegin, Holding, Opening
  <1>6. InvKnown'
    BY DEF Inv, IInv, InvKnown
  <1>7. InvQueue'
    <2>1. ASSUME NEW i \in Places PROVE OpInv(recordingWork[i])'
      <3>1. OpInv(recordingWork[i])
        BY DEF Inv, IInv, InvQueue
      <3>2. recordingWork'[i] = recordingWork[i] /\ recordingWork[i].call \in Calls
        BY <1>a, <1>g
      <3> QED BY <3>1, <3>2 DEF OpInv
    <2>2. ASSUME NEW i \in Places' \ Places PROVE OpInv(recordingWork[i])'
      <3>1. PICK k \in 1..Len(t) : recordingWork'[i] = t[k]
        BY <1>c
      <3> QED BY <3>1 DEF OpInv
    <2> QED BY <2>1, <2>2 DEF InvQueue
  <1>8. InvLastRing'
    <2>1. CASE gsmCall' = gsmCall /\ \A k \in 1..Len(t) : t[k].kind # "incoming"
      <3>1. ASSUME NEW i \in Places', recordingWork'[i].kind = "incoming" PROVE i \in Places
        <4> SUFFICES ASSUME i \notin Places PROVE FALSE
          OBVIOUS
        <4>1. PICK k \in 1..Len(t) : recordingWork'[i] = t[k]
          BY <1>c
        <4> QED BY <2>1, <3>1, <4>1
      <3>2. ASSUME NEW i \in Places', NEW j \in Places', recordingWork'[i].kind = "incoming",
                   recordingWork'[i].call = gsmCall', recordingWork'[j].kind = "incoming"
            PROVE  j <= i
        BY <1>a, <2>1, <3>1, <3>2 DEF Inv, IInv, InvLastRing
      <3> QED BY <3>2 DEF InvLastRing
    <2>2. CASE gsmCall' \in Calls /\ phone[gsmCall'] = "none"
               /\ (Len(t) <= 1 \/ \A k \in 1..Len(t) : t[k].kind # "incoming")
      <3>1. \A i \in Places : recordingWork[i].call # gsmCall'
        BY <2>2 DEF Inv, IInv, InvQueue, OpInv
      <3>2. ASSUME NEW i \in Places', NEW j \in Places', recordingWork'[i].kind = "incoming",
                   recordingWork'[i].call = gsmCall', recordingWork'[j].kind = "incoming"
            PROVE  j <= i
        <4>1. i \in Places' \ Places
          BY <1>a, <3>1, <3>2
        <4>2. PICK k \in 1..Len(t) : recordingWork'[i] = t[k]
          BY <1>c, <4>1
        <4> QED BY <1>d, <2>2, <3>2, <4>1, <4>2
      <3> QED BY <3>2 DEF InvLastRing
    <2> QED BY <2>1, <2>2
  <1>9. InvRing'
    <2>1. CASE gsmCall' = gsmCall /\ \A k \in 1..Len(t) : t[k].kind # "incoming"
      <3> SUFFICES ASSUME \/ currentCall'.incoming /\ currentCall'.call = gsmCall'
                          \/ \E w \in Clients : /\ AtStart(w)' \/ Opening(w)'
                                                /\ begin'[w].call = gsmCall'
                   PROVE  /\ \A i \in Places' : ~Unresolved(i)'
                          /\ currentCall'.incoming => currentCall'.call = gsmCall'
        BY DEF InvRing
      <3>1. /\ \A i \in Places : ~Unresolved(i)
            /\ currentCall.incoming => currentCall.call = gsmCall
        BY <2>1 DEF Inv, IInv, InvRing, AtStart, Opening
      <3>2. ASSUME NEW i \in Places' PROVE ~Unresolved(i)'
        <4>1. CASE i \in Places
          BY <1>a, <3>1, <4>1 DEF Unresolved
        <4>2. CASE i \notin Places
          <5>1. PICK k \in 1..Len(t) : recordingWork'[i] = t[k]
            BY <1>c, <4>2
          <5> QED BY <2>1, <5>1 DEF Unresolved
        <4> QED BY <4>1, <4>2
      <3> QED BY <2>1, <3>1, <3>2
    <2>2. CASE gsmCall' \in Calls /\ phone[gsmCall'] = "none"
      <3>1. currentCall'.incoming => currentCall'.call # gsmCall'
        BY <2>2, NamesAssumption DEF Inv, IInv, InvKnown
      <3>2. \A w \in Clients : AtStart(w) \/ Opening(w) => begin[w].call # gsmCall'
        BY <2>2 DEF Inv, IInv, InvBegin, AtStart, Opening, Workers
      <3> QED BY <3>1, <3>2 DEF InvRing, AtStart, Opening
    <2> QED BY <2>1, <2>2
  <1>10. InvTerminal'
    <2>1. ASSUME NEW i \in Places PROVE Unhurt(i)'
      <3>1. Unhurt(i)
        BY DEF Inv, IInv, InvTerminal
      <3>2. ASSUME Quiet(i) PROVE Quiet(i)'
        <4>1. ~currentCall'.incoming
          BY <3>2 DEF Quiet
        <4>2. ASSUME NEW j \in Places', j < i PROVE ~Unresolved(j)'
          <5>1. j \in Places
            BY <1>a, <1>b, <1>d, <4>2
          <5> QED BY <1>a, <3>2, <4>2, <5>1 DEF Quiet, Unresolved
        <4> QED BY <4>1, <4>2 DEF Quiet
      <3> QED BY <1>a, <3>1, <3>2 DEF Unhurt, Opening
    <2>2. ASSUME NEW i \in Places' \ Places PROVE Unhurt(i)'
      <3>1. PICK k \in 1..Len(t) : recordingWork'[i] = t[k]
        BY <1>c
      <3>2. CASE t[k].kind \notin TerminalEvents
        BY <3>1, <3>2 DEF Unhurt
      <3>3. CASE /\ t[k].kind \in TerminalEvents
                 /\ ~currentCall'.incoming /\ \A j \in Places : ~Unresolved(j)
        <4>1. ASSUME NEW j \in Places', j < i PROVE ~Unresolved(j)'
          <5>1. j \in Places
            BY <1>b, <1>d, <3>3, <4>1
          <5> QED BY <1>a, <3>3, <5>1 DEF Unresolved
        <4> QED BY <3>3, <4>1 DEF Unhurt, Quiet
      <3>4. CASE \A w \in Clients : Opening(w) => begin[w].call # t[k].own
        BY <3>1, <3>4 DEF Unhurt, Opening
      <3> QED BY <3>2, <3>3, <3>4
    <2> QED BY <2>1, <2>2 DEF InvTerminal
  <1>11. InvChain'
    BY <1>f DEF Inv, IInv, InvChain, AtStart, StillOwned
  <1>12. InvStop'
    BY <1>e DEF Inv, IInv, InvStop
  <1>13. InvStart'
    BY DEF Inv, IInv, InvStart
  <1>14. Faulty("audit") \/ NoOrphan'
    BY <1>f DEF Inv, IInv, NoOrphan, TearingDown
  <1>15. CallWaiting \/ InvEnded'
    <2> SUFFICES ASSUME ~CallWaiting PROVE InvEnded'
      OBVIOUS
    <2>0. InvEnded
      BY DEF Inv, IInv
    <2>1. ASSUME NEW i \in Places', recordingWork'[i].kind = "ended"
          PROVE  phone'[recordingWork'[i].call] \in Over
      <3>1. CASE i \in Places
        BY <1>a, <1>g, <2>0, <2>1, <3>1 DEF InvEnded, EndedQueued
      <3>2. CASE i \notin Places
        <4>1. PICK k \in 1..Len(t) : recordingWork'[i] = t[k]
          BY <1>c, <3>2
        <4> QED BY <2>1, <4>1
      <3> QED BY <3>1, <3>2
    <2>2. chain.at \in {"revoke", "note", "close", "seal"} /\ chain.why = "ended"
            => phone'[Running'.own] \in Over
      BY <1>f, <2>0 DEF InvEnded, Inv, IInv, InvChain, Operation, MaybeCall
    <2>3. CompleteEnded'
      BY <2>0 DEF InvEnded, CompleteEnded
    <2> QED BY <2>1, <2>2, <2>3 DEF InvEnded, EndedQueued
  <1> QED BY <1>3, <1>4, <1>5, <1>6, <1>7, <1>8, <1>9, <1>10, <1>11, <1>12, <1>13,
             <1>14, <1>15 DEF IInv, Faulty

\* What the steps covered by EventInv have in common.
EventFrame ==
  /\ UNCHANGED <<sends, ownerVars, chain, begin, artifactVars, announced>>
  /\ \/ UNCHANGED stop
     \/ stop.at \notin {"revoke", "close"} /\ stop'.at \in {"idle", "drain"}
  /\ \A c \in Calls : phone[c] # "none" => phone'[c] # "none"
  /\ \A c \in Calls : phone[c] \in Over => phone'[c] \in Over
  /\ Started => Started'
  /\ state' = "running" => Started'
  /\ Gone => Gone'
  /\ session' \in {session, None}
  /\ pendingOutgoing' => pendingOutgoing \/ Started'
  /\ currentCall'.call # None => phone'[currentCall'.call] # "none"
  /\ gsmCall' # None => phone'[gsmCall'] # "none"
  /\ currentCall'.incoming => currentCall' = currentCall
  /\ CallWaiting \/ \A c \in Calls : phone'[c] \notin {"none", "removed"} => gsmCall' = c

\* EventInv for a step that queues one operation.
LEMMA GrowInv ==
  ASSUME Inv, EventFrame, NEW o \in Operation, recordingWork' = Append(recordingWork, o),
         stop.at # "revoke",
         \/ gsmCall' = gsmCall /\ o.kind # "incoming"
         \/ gsmCall' \in Calls /\ phone[gsmCall'] = "none",
         OpInv(o)',
         o.kind \in TerminalEvents =>
            \/ ~currentCall'.incoming /\ \A j \in Places : ~Unresolved(j)
            \/ \A w \in Clients : Opening(w) => begin[w].call # o.own,
         CallWaiting \/ (o.kind = "ended" => phone'[o.call] \in Over)
  PROVE  IInv'
  <1> DEFINE t == <<o>>
  <1>1. t \in Seq(Operation) /\ Len(t) = 1 /\ \A k \in 1..Len(t) : t[k] = o
    OBVIOUS
  <1>2. recordingWork' = recordingWork \o t
    BY DEF Inv, TypeInv, TypeOK
  <1> HIDE DEF t
  <1>3. \A k \in 1..Len(t) : OpInv(t[k])'
    BY <1>1 DEF OpInv
  <1>4. \/ gsmCall' = gsmCall /\ \A k \in 1..Len(t) : t[k].kind # "incoming"
        \/ /\ gsmCall' \in Calls /\ phone[gsmCall'] = "none"
           /\ Len(t) <= 1 \/ \A k \in 1..Len(t) : t[k].kind # "incoming"
    BY <1>1
  <1>5. /\ \A k \in 1..Len(t) : t[k].kind \in TerminalEvents =>
            \/ ~currentCall'.incoming /\ \A j \in Places : ~Unresolved(j)
            \/ \A w \in Clients : Opening(w) => begin[w].call # t[k].own
        /\ \A k \in 1..Len(t) : t[k].kind \in TerminalEvents => Len(t) = 1
    BY <1>1
  <1>6. CallWaiting \/
          /\ \A c \in Calls : phone'[c] \notin {"none", "removed"} => gsmCall' = c
          /\ \A k \in 1..Len(t) : t[k].kind = "ended" => phone'[t[k].call] \in Over
    BY <1>1 DEF EventFrame
  <1> QED BY <1>1, <1>2, <1>3, <1>4, <1>5, <1>6, EventInv DEF EventFrame

\* EventInv for a step that queues none.
LEMMA SameInv ==
  ASSUME Inv, EventFrame, UNCHANGED recordingWork,
         gsmCall' = gsmCall \/ (gsmCall' \in Calls /\ phone[gsmCall'] = "none")
  PROVE  IInv'
  <1> DEFINE t == <<>>
  <1>1. t \in Seq(Operation) /\ Len(t) = 0 /\ t = <<>>
    OBVIOUS
  <1>2. recordingWork' = recordingWork \o t
    BY DEF Inv, TypeInv, TypeOK
  <1> HIDE DEF t
  <1>3. \A k \in 1..Len(t) : FALSE
    BY <1>1
  <1>4. \/ gsmCall' = gsmCall /\ \A k \in 1..Len(t) : t[k].kind # "incoming"
        \/ /\ gsmCall' \in Calls /\ phone[gsmCall'] = "none"
           /\ Len(t) <= 1 \/ \A k \in 1..Len(t) : t[k].kind # "incoming"
    BY <1>3
  <1>5. \A k \in 1..Len(t) : OpInv(t[k])'
    BY <1>3
  <1>6. /\ \A k \in 1..Len(t) : t[k].kind \in TerminalEvents =>
            \/ ~currentCall'.incoming /\ \A j \in Places : ~Unresolved(j)
            \/ \A w \in Clients : Opening(w) => begin[w].call # t[k].own
        /\ \A k \in 1..Len(t) : t[k].kind \in TerminalEvents => Len(t) = 1
    BY <1>3
  <1>7. CallWaiting \/
          /\ \A c \in Calls : phone'[c] \notin {"none", "removed"} => gsmCall' = c
          /\ \A k \in 1..Len(t) : t[k].kind = "ended" => phone'[t[k].call] \in Over
    BY <1>3 DEF EventFrame
  <1> QED BY <1>1, <1>2, <1>4, <1>5, <1>6, <1>7, EventInv DEF EventFrame

\* What _queueRecording captures satisfies OpInv.
LEMMA CapturedOp ==
  ASSUME Inv, NEW kind \in OpKinds, NEW c \in Calls, NEW o, o = Op(kind, c)
  PROVE  /\ o \in Operation /\ o.kind = kind /\ o.call = c
         /\ o.own # None => /\ o.own = activeRecorder /\ o.id = o.own
                            /\ recorder[o.own] = "open"
         /\ o.own = None => activeRecorder = None \/ activeRecordingCallId = None
         /\ o.rt # None => o.rt = o.own
  BY OpType DEF Op, Inv, TypeInv, TypeOK, MaybeCall, IInv, OwnerReserved, RealtimeOwned

\* A frame or transcript that is queued.
LEMMA QueueWriteInv == ASSUME Inv, QueueWrite PROVE IInv'
  <1>1. PICK o : o = Op("append", activeRecorder)
    OBVIOUS
  <1>2. activeRecorder \in Calls /\ "append" \in OpKinds /\ stop.at # "revoke"
    BY SettledSends DEF Inv, TypeInv, TypeOK, QueueWrite, MaybeCall, OpKinds
  <1>3. /\ o \in Operation /\ o.kind = "append" /\ o.call = activeRecorder
        /\ o.own # None => o.id = o.own /\ recorder[o.own] = "open"
        /\ o.rt # None => o.rt = o.own
    BY <1>1, <1>2, CapturedOp
  <1>4. EventFrame
    BY DEF QueueWrite, EventFrame, Started, Gone, Attached, Inv, IInv, InvStart, InvKnown, InvEnded
  <1>5. OpInv(o)'
    BY <1>2, <1>3 DEF QueueWrite, OpInv, Inv, IInv, OwnerReserved, InvKnown, TerminalEvents
  <1>6. recordingWork' = Append(recordingWork, o) /\ gsmCall' = gsmCall
    BY <1>1 DEF QueueWrite
  <1> QED BY <1>2, <1>3, <1>4, <1>5, <1>6, GrowInv DEF TerminalEvents

\* A final transcript of the speech provider.
LEMMA QueueTranscriptInv == ASSUME Inv, NEW c \in Calls, QueueTranscript(c) PROVE IInv'
  <1>1. PICK o : o = Op("transcript", c)
    OBVIOUS
  <1>2. "transcript" \in OpKinds /\ stop.at # "revoke" /\ phone[c] # "none"
    BY SettledSends DEF QueueTranscript, OpKinds, Inv, IInv, InvKnown
  <1>3. /\ o \in Operation /\ o.kind = "transcript" /\ o.call = c
        /\ o.own # None => o.id = o.own /\ recorder[o.own] = "open"
        /\ o.rt # None => o.rt = o.own
    BY <1>1, <1>2, CapturedOp
  <1>4. EventFrame
    BY DEF QueueTranscript, EventFrame, Started, Gone, Attached, Inv, IInv, InvStart, InvKnown, InvEnded
  <1>5. OpInv(o)'
    BY <1>2, <1>3 DEF QueueTranscript, OpInv, Inv, IInv, OwnerReserved, InvKnown, TerminalEvents
  <1>6. recordingWork' = Append(recordingWork, o) /\ gsmCall' = gsmCall
    BY <1>1 DEF QueueTranscript
  <1> QED BY <1>2, <1>3, <1>4, <1>5, <1>6, GrowInv DEF TerminalEvents

\* A dial, and its timer.
LEMMA DialInv == ASSUME Inv, Dial \/ DialTimeout PROVE IInv'
  <1>1. EventFrame
    BY DEF Dial, DialTimeout, EventFrame, Started, Gone, Attached, Inv, IInv, InvStart, InvKnown, InvEnded
  <1> QED BY <1>1, SameInv DEF Dial, DialTimeout

\* The event 'incoming'.
LEMMA RingInv == ASSUME Inv, NEW c \in Calls, RingEvent(c) PROVE IInv'
  <1>1. PICK o : o = Op("incoming", c)
    OBVIOUS
  <1>2. "incoming" \in OpKinds /\ stop.at # "revoke"
    BY SettledSends DEF RingEvent, EventArrives, OpKinds
  <1>3. /\ o \in Operation /\ o.kind = "incoming" /\ o.call = c
        /\ o.own # None => o.id = o.own /\ recorder[o.own] = "open"
        /\ o.rt # None => o.rt = o.own
    BY <1>1, <1>2, CapturedOp
  <1>4. /\ phone[c] = "none" /\ phone' = [phone EXCEPT ![c] = "ringing"] /\ gsmCall' = c
        /\ CallWaiting \/ \A d \in Calls : phone[d] \in {"none", "removed"}
    BY DEF RingEvent, Arrive
  <1>5. \A d \in Calls : phone'[d] = IF d = c THEN "ringing" ELSE phone[d]
    BY <1>4 DEF Inv, TypeInv, TypeOK
  <1>6. /\ currentCall' = currentCall /\ session' = session
        /\ currentCall.call \in MaybeCall
    BY DEF RingEvent, Inv, TypeInv, TypeOK
  <1>7. EventFrame
    BY <1>4, <1>5, <1>6 DEF RingEvent, EventFrame, Started, Gone, Attached, Inv, IInv, InvStart, InvKnown,
       MaybeCall, Over
  <1>8. OpInv(o)'
    BY <1>3, <1>5 DEF RingEvent, OpInv, TerminalEvents
  <1>9. recordingWork' = Append(recordingWork, o)
    BY <1>1 DEF RingEvent
  <1> QED BY <1>2, <1>3, <1>4, <1>7, <1>8, <1>9, GrowInv DEF TerminalEvents

\* The calls of a phone that moves.
LEMMA MoveFacts ==
  ASSUME Inv, NEW c \in Calls, Connect(c) \/ Drop(c)
  PROVE  /\ \A d \in Calls : phone[d] # "none" => phone'[d] # "none"
         /\ \A d \in Calls : phone[d] \in Over => phone'[d] \in Over
         /\ \A d \in Calls \ {c} : phone'[d] = phone[d]
         /\ phone[c] \notin {"none", "removed"}
         /\ Drop(c) => phone'[c] \in Over
         /\ gsmCall' = gsmCall
  BY DEF Connect, Drop, Move, Inv, TypeInv, TypeOK, Over, Live

\* The event 'ended': its operation is harmless because no answer() can have begun a
\* recording the phone would name by the id that has just ended.
LEMMA EndedInv == ASSUME Inv, NEW c \in Calls, EndedEvent(c) PROVE IInv'
  <1>1. PICK o : o = Op("ended", gsmCall)
    OBVIOUS
  <1>2. /\ "ended" \in OpKinds /\ stop.at # "revoke" /\ gsmCall \in Calls
        /\ phone[gsmCall] # "none" /\ (CallWaiting \/ gsmCall = c)
    <2>3. phone[c] \notin {"none", "removed"}
      BY MoveFacts DEF EndedEvent
    <2>1. gsmCall \in Calls
      BY <2>3 DEF Inv, TypeInv, Busy
    <2>2. "ended" \in OpKinds /\ stop.at # "revoke"
      BY SettledSends DEF EndedEvent, EventArrives, OpKinds, TerminalEvents
    <2> QED BY <2>1, <2>2, <2>3, NamesAssumption DEF Inv, IInv, InvKnown, InvEnded
  <1>3. /\ o \in Operation /\ o.kind = "ended" /\ o.call = gsmCall
        /\ o.own # None => o.id = o.own /\ recorder[o.own] = "open" /\ o.own = activeRecorder
        /\ o.rt # None => o.rt = o.own
        /\ o.own = None => activeRecorder = None \/ activeRecordingCallId = None
    BY <1>1, <1>2, CapturedOp
  <1>4. /\ \A d \in Calls : phone[d] # "none" => phone'[d] # "none"
        /\ \A d \in Calls : phone[d] \in Over => phone'[d] \in Over
        /\ \A d \in Calls \ {c} : phone'[d] = phone[d]
        /\ phone[c] \notin {"none", "removed"} /\ phone'[c] \in Over
        /\ gsmCall' = gsmCall
    BY MoveFacts DEF EndedEvent
  <1>5. currentCall' = IF currentCall.call = gsmCall THEN NoCall ELSE currentCall
    BY DEF EndedEvent, HandleTerminal
  <1>6. currentCall'.incoming => currentCall' = currentCall /\ currentCall.call # gsmCall
    BY <1>5 DEF NoCall
  <1>7. EventFrame
    BY <1>2, <1>4, <1>5 DEF EndedEvent, EventFrame, Started, Gone, Attached, Inv, TypeInv, TypeOK, IInv, InvStart,
       InvKnown, InvEnded, MaybeCall, NoCall
  <1>8. CASE activeRecorder # None /\ activeRecordingCallId = gsmCall
    <2>1. recordingWork' = Append(recordingWork, o)
      BY <1>1, <1>8 DEF EndedEvent, HandleTerminal
    <2>2. o.own = gsmCall /\ activeRecorder = gsmCall
      BY <1>2, <1>3, <1>8, NamesAssumption DEF Inv, IInv, OwnerReserved
    <2>3. OpInv(o)'
      BY <1>2, <1>3, <1>4, <2>2 DEF EndedEvent, OpInv, TerminalEvents
    <2>4. \/ ~currentCall'.incoming /\ \A j \in Places : ~Unresolved(j)
          \/ \A w \in Clients : Opening(w) => begin[w].call # o.own
      BY <1>6, <2>2 DEF Inv, IInv, InvRing
    <2> QED BY <1>2, <1>3, <1>4, <1>7, <2>1, <2>2, <2>3, <2>4, GrowInv DEF TerminalEvents
  <1>9. CASE ~(activeRecorder # None /\ activeRecordingCallId = gsmCall)
    BY <1>4, <1>7, <1>9, SameInv DEF EndedEvent, HandleTerminal
  <1> QED BY <1>8, <1>9

\* The event 'media_failure'.
LEMMA MediaFailureInv == ASSUME Inv, NEW c \in Calls, MediaFailureEvent(c) PROVE IInv'
  <1>1. PICK o : o = Op("media_failure", c)
    OBVIOUS
  <1>2. /\ "media_failure" \in OpKinds /\ stop.at # "revoke" /\ session = c
        /\ phone[c] # "none"
    <2>1. stop.at # "revoke" /\ session = c
      BY SettledSends DEF MediaFailureEvent, EventArrives
    <2>2. phone[c] # "none"
      BY <2>1, NamesAssumption DEF Inv, IInv, InvStart, InvKnown
    <2> QED BY <2>1, <2>2 DEF OpKinds, TerminalEvents
  <1>3. /\ o \in Operation /\ o.kind = "media_failure" /\ o.call = c
        /\ o.own # None => o.id = o.own /\ recorder[o.own] = "open" /\ o.own = activeRecorder
        /\ o.rt # None => o.rt = o.own
        /\ o.own = None => activeRecorder = None \/ activeRecordingCallId = None
    BY <1>1, <1>2, CapturedOp
  <1>4. phone' = phone /\ gsmCall' = gsmCall /\ session' = None
    BY DEF MediaFailureEvent
  <1>5. currentCall' \in {NoCall, currentCall}
    BY DEF MediaFailureEvent, HandleTerminal
  <1>7. EventFrame
    BY <1>2, <1>4, <1>5 DEF MediaFailureEvent, EventFrame, Started, Gone, Attached, Inv, IInv, InvStart,
       InvKnown, InvEnded, NoCall
  <1>8. CASE activeRecorder # None /\ activeRecordingCallId = c
    <2>1. recordingWork' = Append(recordingWork, o)
      BY <1>1, <1>8 DEF MediaFailureEvent, HandleTerminal
    <2>2. o.own = c
      BY <1>2, <1>3, <1>8, NamesAssumption DEF Inv, IInv, OwnerReserved
    <2>3. OpInv(o)'
      BY <1>2, <1>3, <1>4, <2>2 DEF MediaFailureEvent, OpInv, TerminalEvents
    <2>4. \A w \in Clients : Opening(w) => begin[w].call # o.own
      BY <1>2, <2>2 DEF Inv, IInv, InvBegin, Workers
    <2> QED BY <1>2, <1>3, <1>4, <1>7, <2>1, <2>2, <2>3, <2>4, GrowInv DEF TerminalEvents
  <1>9. CASE ~(activeRecorder # None /\ activeRecordingCallId = c)
    BY <1>4, <1>7, <1>9, SameInv DEF MediaFailureEvent
  <1> QED BY <1>8, <1>9

\* A move of the phone that nobody reports.
LEMMA UnseenInv == ASSUME Inv, NEW c \in Calls, UnseenPhoneStep(c) PROVE IInv'
  <1>1. CASE Connect(c) \/ Drop(c)
    <2>1. /\ \A d \in Calls : phone[d] # "none" => phone'[d] # "none"
          /\ \A d \in Calls : phone[d] \in Over => phone'[d] \in Over
          /\ \A d \in Calls \ {c} : phone'[d] = phone[d]
          /\ phone[c] \notin {"none", "removed"}
          /\ gsmCall' = gsmCall
      BY <1>1, MoveFacts
    <2>2. EventFrame
      BY <2>1 DEF UnseenPhoneStep, EventFrame, Started, Gone, Attached, Inv, TypeInv, TypeOK, IInv, InvStart,
         InvKnown, InvEnded, MaybeCall
    <2> QED BY <2>1, <2>2, SameInv DEF UnseenPhoneStep
  <1>2. ASSUME NEW to \in {"ringing", "dialing"}, Arrive(c, to) PROVE IInv'
    <2>1. /\ phone[c] = "none" /\ gsmCall' = c
          /\ CallWaiting \/ \A d \in Calls : phone[d] \in {"none", "removed"}
          /\ phone' = [phone EXCEPT ![c] = to]
      BY <1>2 DEF Arrive
    <2>2. \A d \in Calls : phone'[d] = IF d = c THEN to ELSE phone[d]
      BY <2>1 DEF Inv, TypeInv, TypeOK
    <2>3. EventFrame
      BY <2>1, <2>2 DEF UnseenPhoneStep, EventFrame, Started, Gone, Attached, Inv, TypeInv, TypeOK, IInv, InvStart,
         InvKnown, MaybeCall, Over
    <2> QED BY <2>1, <2>3, SameInv DEF UnseenPhoneStep
  <1> QED BY <1>1, <1>2 DEF UnseenPhoneStep

\* The events 'dialing', 'active' and 'ending', which may queue a begin and an append.
LEMMA ProgressInv == ASSUME Inv, TypeInv', NEW c \in Calls, ProgressEvent(c) PROVE IInv'
  <1>1. PICK g \in Calls : g = gsmCall'
    BY TrackedType DEF ProgressEvent, Arrive, Connect, Move, Inv, TypeInv
  <1>2. PICK a : a = Op("append", g)
    OBVIOUS
  <1>3. "append" \in OpKinds /\ "begin" \in OpKinds /\ stop.at # "revoke"
    BY SettledSends DEF ProgressEvent, EventArrives, OpKinds
  <1>4. /\ a \in Operation /\ a.kind = "append" /\ a.call = g
        /\ a.own # None => a.id = a.own /\ recorder[a.own] = "open"
        /\ a.rt # None => a.rt = a.own
    BY <1>2, <1>3, CapturedOp
  <1>5. PICK b : b = [kind |-> "begin", call |-> g, own |-> None, id |-> None, rt |-> None]
    OBVIOUS
  <1>6. b \in Operation /\ b.kind = "begin" /\ b.call = g /\ b.own = None /\ b.rt = None
    BY <1>3, <1>5 DEF Operation, MaybeCall
  <1>7. PICK s, r :
          /\ recordingWork' = recordingWork \o s \o r
          /\ s = <<>> \/ (s = <<b>> /\ pendingOutgoing)
          /\ r = <<>> \/ r = <<a>>
    <2> DEFINE takes == c \in Outgoing /\ pendingOutgoing /\ phone' # phone
               noted == activeRecorder # None /\ activeRecordingCallId = gsmCall'
               s0 == IF takes THEN <<[kind |-> "begin", call |-> gsmCall', own |-> None,
                                      id |-> None, rt |-> None]>> ELSE <<>>
               r0 == IF noted THEN <<Op("append", gsmCall')>> ELSE <<>>
    <2>1. recordingWork' = recordingWork \o s0 \o r0
      BY DEF ProgressEvent
    <2>2. s0 = <<>> \/ (s0 = <<b>> /\ pendingOutgoing)
      BY <1>1, <1>5
    <2>3. r0 = <<>> \/ r0 = <<a>>
      BY <1>1, <1>2
    <2> HIDE DEF s0, r0
    <2> QED BY <2>1, <2>2, <2>3
  <1>8. s \in Seq(Operation) /\ r \in Seq(Operation)
    <2>1. <<a>> \in Seq(Operation) /\ <<b>> \in Seq(Operation) /\ <<>> \in Seq(Operation)
      BY <1>4, <1>6
    <2> QED BY <1>7, <2>1
  <1> DEFINE t == s \o r
  <1>9. /\ t \in Seq(Operation)
        /\ \A k \in 1..Len(t) : t[k] = a \/ (t[k] = b /\ pendingOutgoing)
    BY <1>7, <1>8
  <1>10. recordingWork' = recordingWork \o t
    BY <1>7, <1>8, SMTT(30) DEF Inv, TypeInv, TypeOK
  <1> HIDE DEF t
  <1>11. /\ \A d \in Calls : phone[d] # "none" => phone'[d] # "none"
         /\ \A d \in Calls : phone[d] \in Over => phone'[d] \in Over
         /\ phone'[g] # "none"
         /\ CallWaiting \/ \A d \in Calls : phone'[d] \notin {"none", "removed"} => g = d
         /\ g = gsmCall \/ phone[g] = "none"
    <2>1. CASE Arrive(c, "dialing")
      <3>1. /\ phone[c] = "none" /\ g = c
            /\ CallWaiting \/ \A d \in Calls : phone[d] \in {"none", "removed"}
            /\ phone' = [phone EXCEPT ![c] = "dialing"]
        BY <1>1, <2>1 DEF Arrive
      <3>2. \A d \in Calls : phone'[d] = IF d = c THEN "dialing" ELSE phone[d]
        BY <3>1 DEF Inv, TypeInv, TypeOK
      <3> QED BY <3>1, <3>2 DEF Over
    <2>2. CASE Connect(c) /\ Tracked
      <3>1. /\ \A d \in Calls : phone[d] # "none" => phone'[d] # "none"
            /\ \A d \in Calls : phone[d] \in Over => phone'[d] \in Over
            /\ \A d \in Calls \ {c} : phone'[d] = phone[d]
            /\ phone[c] \notin {"none", "removed"}
            /\ g = gsmCall
        BY <1>1, <2>2, MoveFacts
      <3>2. phone[g] # "none"
        BY <2>2, <3>1 DEF Tracked, Live
      <3> QED BY <3>1, <3>2 DEF Inv, IInv, InvEnded
    <2>3. CASE Tracked /\ UNCHANGED callVars
      BY <1>1, <2>3 DEF Tracked, Live, Inv, IInv, InvEnded
    <2> QED BY <2>1, <2>2, <2>3 DEF ProgressEvent
  <1>12. /\ currentCall'.call = g
         /\ currentCall'.incoming => currentCall' = currentCall
    <2>1. currentCall' = [call |-> g,
                          incoming |-> currentCall.call = g /\ currentCall.incoming /\ c \notin Outgoing]
      BY <1>1 DEF ProgressEvent
    <2>2. currentCall \in [call : MaybeCall, incoming : BOOLEAN]
      BY DEF Inv, TypeInv, TypeOK
    <2> QED BY <2>1, <2>2
  <1>13. EventFrame
    BY <1>1, <1>11, <1>12 DEF ProgressEvent, EventFrame, Started, Gone, Attached, Inv, IInv, InvStart
  <1>14. \A k \in 1..Len(t) : OpInv(t[k])'
    <2>1. OpInv(a)'
      BY <1>4, <1>11 DEF ProgressEvent, OpInv, TerminalEvents
    <2>2. pendingOutgoing => OpInv(b)'
      BY <1>6, <1>11 DEF ProgressEvent, OpInv, TerminalEvents, Inv, IInv, InvStart, Started
    <2> QED BY <1>9, <2>1, <2>2
  <1>15. \A k \in 1..Len(t) : t[k].kind \notin TerminalEvents \cup {"incoming"}
    BY <1>4, <1>6, <1>9 DEF TerminalEvents
  <1>16. gsmCall' = gsmCall \/ (gsmCall' \in Calls /\ phone[gsmCall'] = "none")
    BY <1>1, <1>11
  <1>17. /\ UNCHANGED <<sends, ownerVars, chain, begin, artifactVars>>
         /\ UNCHANGED stop /\ announced' = announced
    BY DEF ProgressEvent
  <1> HIDE DEF EventFrame
  <1>18. CallWaiting \/
          /\ \A d \in Calls : phone'[d] \notin {"none", "removed"} => gsmCall' = d
          /\ \A k \in 1..Len(t) : t[k].kind = "ended" => phone'[t[k].call] \in Over
    BY <1>1, <1>11, <1>15 DEF TerminalEvents
  <1>19. \/ gsmCall' = gsmCall /\ \A k \in 1..Len(t) : t[k].kind # "incoming"
         \/ /\ gsmCall' \in Calls /\ phone[gsmCall'] = "none"
            /\ Len(t) <= 1 \/ \A k \in 1..Len(t) : t[k].kind # "incoming"
    BY <1>15, <1>16
  <1> QED BY <1>3, <1>9, <1>10, <1>13, <1>14, <1>15, <1>17, <1>18, <1>19, EventInv DEF EventFrame

\* The teardown of a lost device, whatever brings it about.
LEMMA DisconnectInv ==
  ASSUME Inv, HandleDeviceDisconnect, stop.at # "revoke",
         UNCHANGED <<callVars, announced, sends, ownerVars, chain, begin, artifactVars>>,
         \/ UNCHANGED stop
         \/ stop.at \notin {"revoke", "close"} /\ stop'.at \in {"idle", "drain"},
         Started => Started', state' = "running" => Started'
  PROVE  IInv'
  <1>1. EventFrame
    BY DEF HandleDeviceDisconnect, EventFrame, Started, Gone, Attached, Inv, IInv, InvStart, InvKnown,
           InvEnded, NoCall
  <1>2. CASE activeRecorder = None \/ activeRecordingCallId = None \/ teardownPending
    BY <1>1, <1>2, SameInv DEF HandleDeviceDisconnect
  <1>3. CASE ~(activeRecorder = None \/ activeRecordingCallId = None \/ teardownPending)
    <2>1. PICK c : c = activeRecordingCallId
      OBVIOUS
    <2>2. PICK o : o = Op("lost", c)
      OBVIOUS
    <2>3. c \in Calls /\ "lost" \in OpKinds /\ c = activeRecorder
      BY <1>3, <2>1 DEF Inv, TypeInv, TypeOK, MaybeCall, OpKinds, IInv, OwnerReserved
    <2>4. /\ o \in Operation /\ o.kind = "lost" /\ o.call = c
          /\ o.own # None => o.id = o.own /\ recorder[o.own] = "open"
          /\ o.own = None => activeRecorder = None \/ activeRecordingCallId = None
          /\ o.rt # None => o.rt = o.own
      BY <2>2, <2>3, CapturedOp
    <2>5. phone[c] # "none"
      BY <1>3, <2>3 DEF Inv, IInv, OwnerReserved, InvKnown
    <2>6. OpInv(o)'
      BY <1>3, <2>4, <2>5 DEF HandleDeviceDisconnect, OpInv, TerminalEvents
    <2>7. recordingWork' = Append(recordingWork, o)
      BY <1>3, <2>1, <2>2 DEF HandleDeviceDisconnect
    <2> QED BY <1>1, <2>4, <2>6, <2>7, GrowInv DEF TerminalEvents
  <1> QED BY <1>2, <1>3

\* The loss of the link.
LEMMA LinkLostInv == ASSUME Inv, LinkLost PROVE IInv'
  BY SettledSends, DisconnectInv DEF LinkLost, Inv, IInv, InvStart, Started

\* The steps of start(), and the call of stop().
LEMMA StartInv == ASSUME Inv, Start \/ StartStep \/ StopCalled PROVE IInv'
  <1>1. CASE Start
    <2>1. EventFrame
      BY <1>1 DEF Start, EventFrame, Started, Gone, Attached, Inv, IInv, InvStart, InvKnown, InvEnded
    <2> QED BY <1>1, <2>1, SameInv DEF Start
  <1>2. CASE StartConnected
    <2>1. EventFrame
      BY <1>2 DEF StartConnected, EventFrame, Started, Gone, Attached, Inv, IInv, InvStart, InvKnown, InvEnded
    <2> QED BY <1>2, <2>1, SameInv DEF StartConnected
  <1>3. CASE StartFinished
    <2>1. EventFrame
      BY <1>3 DEF StartFinished, EventFrame, Started, Gone, Attached, Inv, IInv, InvStart, InvKnown, InvEnded
    <2> QED BY <1>3, <2>1, SameInv DEF StartFinished
  <1>4. CASE StartFailed
    <2>1. CASE connected
      BY <1>4, <2>1, SettledSends, DisconnectInv DEF StartFailed, Started
    <2>2. CASE ~connected
      <3>1. EventFrame
        BY <1>4, <2>2 DEF StartFailed, EventFrame, Started, Gone, Attached, Inv, IInv, InvStart, InvKnown, InvEnded
      <3> QED BY <1>4, <2>2, <3>1, SameInv DEF StartFailed
    <2> QED BY <2>1, <2>2
  <1>5. CASE StopCalled
    <2>1. stop.at = "idle" /\ stop'.at = "drain"
      BY <1>5 DEF StopCalled, IdleStop
    <2>2. EventFrame
      BY <1>5, <2>1 DEF StopCalled, EventFrame, Started, Gone, Attached, Inv, IInv, InvStart, InvKnown, InvEnded
    <2> QED BY <1>5, <2>2, SameInv DEF StopCalled
  <1> QED BY <1>1, <1>2, <1>3, <1>4, <1>5 DEF StartStep

\* What the steps of the chain, of a begin and of stop() have in common, as far as
\* the queue is concerned.
QueueFrame ==
  /\ UNCHANGED <<callVars, starter>>
  /\ \A c \in Calls : recorder[c] # "none" => recorder'[c] # "none"
  /\ currentCall'.incoming => currentCall' = currentCall
  /\ \A w \in Clients : Opening(w)' =>
       begin'[w].call = begin[w].call /\ (Opening(w) \/ recorder[begin[w].call] = "none")
  /\ \A w \in Clients : AtStart(w)' \/ Opening(w)' =>
       \/ (AtStart(w) \/ Opening(w)) /\ begin'[w].call = begin[w].call
       \/ currentCall.incoming /\ currentCall.call = begin'[w].call

QueueParts ==
  InvQueue /\ InvLastRing /\ InvRing /\ InvTerminal /\ (CallWaiting \/ EndedQueued)

\* The facts about the queue hold when it stays as it is.
LEMMA StayQueue ==
  ASSUME Inv, QueueFrame, UNCHANGED recordingWork,
         chain'.at \in {"idle", "lookup"} => chain.at \in {"idle", "lookup"}
  PROVE  QueueParts'
  <1>1. Places' = Places
    BY DEF Places
  <1>2. ASSUME NEW i \in Places PROVE Unresolved(i)' => Unresolved(i)
    BY <1>2 DEF Unresolved
  <1>3. InvQueue'
    <2>1. ASSUME NEW i \in Places PROVE OpInv(recordingWork[i])'
      <3>1. OpInv(recordingWork[i])
        BY DEF Inv, IInv, InvQueue
      <3>2. recordingWork[i].own # None => recordingWork[i].own \in Calls
        BY PlaceType DEF MaybeCall
      <3> QED BY <3>1, <3>2 DEF QueueFrame, OpInv, Started
    <2> QED BY <1>1, <2>1 DEF InvQueue
  <1>4. InvLastRing'
    BY <1>1 DEF QueueFrame, Inv, IInv, InvLastRing
  <1>5. InvRing'
    <2> SUFFICES ASSUME \/ currentCall'.incoming /\ currentCall'.call = gsmCall'
                        \/ \E w \in Clients : /\ AtStart(w)' \/ Opening(w)'
                                              /\ begin'[w].call = gsmCall'
                 PROVE  /\ \A i \in Places' : ~Unresolved(i)'
                        /\ currentCall'.incoming => currentCall'.call = gsmCall'
      BY DEF InvRing
    <2>1. /\ \A i \in Places : ~Unresolved(i)
          /\ currentCall.incoming => currentCall.call = gsmCall
      BY DEF QueueFrame, Inv, IInv, InvRing
    <2> QED BY <1>1, <1>2, <2>1 DEF QueueFrame
  <1>6. InvTerminal'
    <2>1. ASSUME NEW i \in Places PROVE Unhurt(i)'
      <3>1. Unhurt(i) /\ OpInv(recordingWork[i])
        BY DEF Inv, IInv, InvTerminal, InvQueue
      <3>2. Quiet(i) => Quiet(i)'
        BY <1>1, <1>2 DEF QueueFrame, Quiet
      <3>3. ASSUME recordingWork[i].kind \in TerminalEvents,
                   \A w \in Clients : Opening(w) => begin[w].call # recordingWork[i].own
            PROVE  \A w \in Clients : Opening(w)' => begin'[w].call # recordingWork[i].own
        <4>1. recorder[recordingWork[i].own] # "none"
          BY <3>1, <3>3, PlaceType, NamesAssumption DEF OpInv
        <4> QED BY <3>3, <4>1 DEF QueueFrame
      <3> QED BY <3>1, <3>2, <3>3 DEF Unhurt
    <2> QED BY <1>1, <2>1 DEF InvTerminal
  <1>7. CallWaiting \/ EndedQueued'
    BY <1>1 DEF QueueFrame, Inv, IInv, InvEnded, EndedQueued
  <1> QED BY <1>3, <1>4, <1>5, <1>6, <1>7 DEF QueueParts

\* They hold when the running operation leaves it.
LEMMA PopQueue ==
  ASSUME Inv, QueueFrame, recordingWork # <<>>, Pop
  PROVE  QueueParts'
  <1>1. /\ 1 \in Places
        /\ \A i \in Places' : /\ i \in Nat /\ i >= 1 /\ i + 1 \in Places
                              /\ recordingWork'[i] = recordingWork[i + 1]
    BY TailQueue DEF Pop
  <1>2. chain'.at = "idle"
    BY DEF Pop, IdleChain
  <1>3. ASSUME NEW i \in Places' PROVE Unresolved(i)' => Unresolved(i + 1)
    <2>1. i + 1 # 1
      BY <1>1
    <2> QED BY <1>1, <1>2, <2>1 DEF Unresolved
  <1>4. InvQueue'
    <2>1. ASSUME NEW i \in Places' PROVE OpInv(recordingWork[i])'
      <3>1. OpInv(recordingWork[i + 1])
        BY <1>1 DEF Inv, IInv, InvQueue
      <3>2. recordingWork[i + 1].own # None => recordingWork[i + 1].own \in Calls
        BY <1>1, PlaceType DEF MaybeCall
      <3> QED BY <1>1, <3>1, <3>2 DEF QueueFrame, OpInv, Started
    <2> QED BY <2>1 DEF InvQueue
  <1>5. InvLastRing'
    BY <1>1 DEF QueueFrame, Inv, IInv, InvLastRing
  <1>6. InvRing'
    <2> SUFFICES ASSUME \/ currentCall'.incoming /\ currentCall'.call = gsmCall'
                        \/ \E w \in Clients : /\ AtStart(w)' \/ Opening(w)'
                                              /\ begin'[w].call = gsmCall'
                 PROVE  /\ \A i \in Places' : ~Unresolved(i)'
                        /\ currentCall'.incoming => currentCall'.call = gsmCall'
      BY DEF InvRing
    <2>1. /\ \A i \in Places : ~Unresolved(i)
          /\ currentCall.incoming => currentCall.call = gsmCall
      BY DEF QueueFrame, Inv, IInv, InvRing
    <2> QED BY <1>1, <1>3, <2>1 DEF QueueFrame
  <1>7. InvTerminal'
    <2>1. ASSUME NEW i \in Places' PROVE Unhurt(i)'
      <3> DEFINE o == recordingWork[i + 1]
      <3>1. Unhurt(i + 1) /\ OpInv(o)
        BY <1>1 DEF Inv, IInv, InvTerminal, InvQueue
      <3>2. ASSUME Quiet(i + 1) PROVE Quiet(i)'
        <4>1. ~currentCall'.incoming
          BY <3>2 DEF Quiet, QueueFrame
        <4>2. ASSUME NEW j \in Places', j < i PROVE ~Unresolved(j)'
          <5>1. ~Unresolved(j + 1)
            BY <1>1, <3>2, <4>2 DEF Quiet
          <5> QED BY <1>3, <5>1
        <4> QED BY <4>1, <4>2 DEF Quiet
      <3>3. ASSUME o.kind \in TerminalEvents,
                   \A w \in Clients : Opening(w) => begin[w].call # o.own
            PROVE  \A w \in Clients : Opening(w)' => begin'[w].call # o.own
        <4>1. recorder[o.own] # "none"
          BY <1>1, <3>1, <3>3, PlaceType, NamesAssumption DEF OpInv
        <4> QED BY <3>3, <4>1 DEF QueueFrame
      <3> QED BY <1>1, <3>1, <3>2, <3>3 DEF Unhurt
    <2> QED BY <2>1 DEF InvTerminal
  <1>8. CallWaiting \/ EndedQueued'
    BY <1>1 DEF QueueFrame, Inv, IInv, InvEnded, EndedQueued
  <1> QED BY <1>4, <1>5, <1>6, <1>7, <1>8 DEF QueueParts

\* What is known of the running operation.
LEMMA RunningInv ==
  ASSUME Inv, recordingWork # <<>>
  PROVE  /\ Running \in Operation /\ OpInv(Running) /\ Unhurt(1)
         /\ 1 \in Places /\ recordingWork[1] = Running
         /\ Running.call \in Calls /\ Running.own \in MaybeCall
         /\ Running.kind \in TerminalEvents \cup {"lost"} => Running.own \in Calls
         /\ Running.own # None => Running.own \in Calls
  <1>1. Running \in Operation /\ OpInv(Running) /\ Unhurt(1) /\ 1 \in Places /\ recordingWork[1] = Running
    BY FirstPlace DEF Inv, IInv, InvQueue, InvTerminal
  <1>2. Running.call \in Calls /\ Running.own \in MaybeCall
    BY <1>1 DEF Operation
  <1> QED BY <1>1, <1>2 DEF OpInv, MaybeCall

\* An operation whose turn has come.
LEMMA StartOperationInv == ASSUME Inv, StartOperation PROVE IInv'
  <1>1. recordingWork # <<>> /\ chain.at = "idle" /\ stop.at # "revoke"
    BY DEF StartOperation, Inv, IInv, InvStop
  <1>2. /\ Running \in Operation /\ OpInv(Running)
        /\ Running.kind \in TerminalEvents \cup {"lost"} => Running.own \in Calls
    BY <1>1, RunningInv
  <1>3. QueueFrame
    BY DEF StartOperation, QueueFrame, AtStart, Opening
  <1>4. /\ UNCHANGED <<announced, sends, phoneVars, lifeVars, teardownPending, statusVars, begin, artifactVars>>
    BY DEF StartOperation
  <1>5. begin[Chain].at = "idle"
    BY <1>1 DEF Inv, IInv, InvBegin
  <1>6. CASE Pop /\ UNCHANGED ownerVars
    <2>1. QueueParts'
      BY <1>1, <1>3, <1>6, PopQueue
    <2>2. chain'.at = "idle" /\ stop'.at = stop.at /\ stop'.rec = stop.rec /\ stop'.rt = stop.rt
      BY <1>6 DEF Pop, IdleChain, Inv, TypeInv, TypeOK, StopStates
    <2>3. OwnerReserved' /\ RealtimeOwned' /\ InvReservation' /\ InvKnown' /\ InvStart'
      BY <1>4, <1>6 DEF Inv, IInv, OwnerReserved, RealtimeOwned, InvReservation, InvKnown, InvStart, AtStart, Started
    <2>4. InvSends' /\ InvBegin'
      BY <1>1, <1>4, <1>5, <1>6, <2>2 DEF Inv, IInv, InvSends, InvBegin, Holding, Opening, Started
    <2>5. InvChain' /\ InvStop'
      BY <1>1, <1>4, <1>6, <2>2 DEF Inv, IInv, InvChain, InvStop, Started
    <2>6. Faulty("audit") \/ NoOrphan'
      BY <1>1, <1>4, <1>6, <2>2 DEF Inv, IInv, NoOrphan, TearingDown
    <2>7. CallWaiting \/ InvEnded'
      BY <1>4, <2>1, <2>2 DEF Inv, IInv, InvEnded, CompleteEnded, QueueParts
    <2> QED BY <2>1, <2>3, <2>4, <2>5, <2>6, <2>7 DEF IInv, QueueParts, Faulty
  <1>7. CASE /\ Running.kind = "lost" /\ StillOwned(Running) /\ Disown /\ UNCHANGED <<recordingWork, stop>>
             /\ chain' = [at |-> "note", why |-> "transport_lost",
                             held |-> IF Running.rt = Running.id THEN Running.rt ELSE None]
    <2>1. QueueParts'
      BY <1>1, <1>3, <1>7, StayQueue
    <2>2. Running' = Running /\ Running.own \in Calls /\ Running.own # None
      BY <1>2, <1>7, NamesAssumption DEF Running
    <2>3. OwnerReserved' /\ RealtimeOwned' /\ InvKnown' /\ InvStart'
      BY <1>4, <1>7 DEF Inv, IInv, OwnerReserved, RealtimeOwned, Disown, InvKnown, InvStart, Started
    <2>4. InvReservation'
      BY <1>4, <1>7, <2>2 DEF Inv, IInv, InvReservation, AtStart, StillOwned
    <2>5. InvSends' /\ InvBegin'
      BY <1>1, <1>4, <1>5, <1>7, NamesAssumption DEF Inv, IInv, InvSends, InvBegin, Holding, Opening, Started, Disown
    <2>6. InvChain' /\ InvStop'
      BY <1>1, <1>2, <1>4, <1>7, <2>2, NamesAssumption
      DEF Inv, IInv, InvChain, InvStop, Started, Disown, OpInv, TerminalEvents
    <2>7. Faulty("audit") \/ NoOrphan'
      BY <1>1, <1>2, <1>4, <1>7, <2>2 DEF Inv, IInv, NoOrphan, TearingDown, StillOwned, Disown
    <2>8. CallWaiting \/ InvEnded'
      BY <1>4, <1>7, <2>1 DEF Inv, IInv, InvEnded, CompleteEnded, QueueParts
    <2> QED BY <2>1, <2>3, <2>4, <2>5, <2>6, <2>7, <2>8 DEF IInv, QueueParts, Faulty
  <1>8. CASE /\ Running.kind # "lost" /\ UNCHANGED <<ownerVars, recordingWork, stop>>
             /\ Running.own = None \/ StillOwned(Running)
             /\ Await(IF Running.kind \in {"incoming", "begin"} THEN "lookup" ELSE "append")
    <2>1. QueueParts'
      BY <1>1, <1>3, <1>8, StayQueue
    <2>2. Running' = Running
      BY <1>8 DEF Running
    <2>3. /\ chain'.at = IF Running.kind \in {"incoming", "begin"} THEN "lookup" ELSE "append"
      BY <1>8 DEF Await, Inv, TypeInv, TypeOK, ChainStates
    <2>4. OwnerReserved' /\ RealtimeOwned' /\ InvReservation' /\ InvKnown' /\ InvStart'
      BY <1>4, <1>8 DEF Inv, IInv, OwnerReserved, RealtimeOwned, InvReservation, InvKnown, InvStart, AtStart, Started
    <2>5. InvSends' /\ InvBegin'
      BY <1>1, <1>4, <1>5, <1>8, <2>3 DEF Inv, IInv, InvSends, InvBegin, Holding, Opening, Started
    <2>6. InvChain' /\ InvStop'
      BY <1>1, <1>2, <1>4, <1>8, <2>2, <2>3, NamesAssumption
      DEF Inv, IInv, InvChain, InvStop, Started, InvReservation, AtStart, StillOwned, TerminalEvents
    <2>7. Faulty("audit") \/ NoOrphan'
      BY <1>1, <1>4, <1>8, <2>3 DEF Inv, IInv, NoOrphan, TearingDown
    <2>8. CallWaiting \/ InvEnded'
      BY <1>4, <1>8, <2>1, <2>3 DEF Inv, IInv, InvEnded, CompleteEnded, QueueParts
    <2> QED BY <2>1, <2>4, <2>5, <2>6, <2>7, <2>8 DEF IInv, QueueParts, Faulty
  <1>9. \/ Pop /\ UNCHANGED ownerVars
        \/ /\ Running.kind = "lost" /\ StillOwned(Running) /\ Disown /\ UNCHANGED <<recordingWork, stop>>
           /\ chain' = [at |-> "note", why |-> "transport_lost",
                             held |-> IF Running.rt = Running.id THEN Running.rt ELSE None]
        \/ /\ Running.kind # "lost" /\ UNCHANGED <<ownerVars, recordingWork, stop>>
           /\ Running.own = None \/ StillOwned(Running)
           /\ Await(IF Running.kind \in {"incoming", "begin"} THEN "lookup" ELSE "append")
    BY <1>2 DEF StartOperation, OpInv
  <1> QED BY <1>6, <1>7, <1>8, <1>9

\* The running operation ends and leaves the queue; nothing else of note changes.
LEMMA PopInv ==
  ASSUME Inv, recordingWork # <<>>, chain.at # "begin", stop.at # "revoke", Pop,
         UNCHANGED <<callVars, announced, sends, connected, session, lifeVars, ownerVars,
                     currentCall, pendingOutgoing, begin, recorder>>,
         \/ Faulty("audit")
         \/ chain.at \notin {"revoke", "note", "close"}
         \/ recorder[Running.own] # "open",
         \A c \in Calls : rts'[c] # "none" => rts[c] # "none" \/ phone[c] # "none",
         activeRealtime # None => rts'[activeRealtime] = "live",
         CallWaiting \/ CompleteEnded'
  PROVE  IInv'
  <1>1. QueueFrame
    BY DEF QueueFrame, AtStart, Opening
  <1>2. QueueParts'
    BY <1>1, PopQueue
  <1>3. /\ chain'.at = "idle"
        /\ stop'.at = stop.at /\ stop'.rec = stop.rec /\ stop'.rt = stop.rt
    BY DEF Pop, IdleChain, Inv, TypeInv, TypeOK, StopStates
  <1>4. begin[Chain].at = "idle"
    BY DEF Inv, IInv, InvBegin
  <1>5. OwnerReserved' /\ RealtimeOwned' /\ InvReservation' /\ InvKnown' /\ InvStart'
    BY DEF Inv, IInv, OwnerReserved, RealtimeOwned, InvReservation, InvKnown, InvStart,
           AtStart, Started
  <1>6. InvSends' /\ InvBegin'
    BY <1>3, <1>4 DEF Inv, IInv, InvSends, InvBegin, Holding, Opening, Started
  <1>7. InvChain' /\ InvStop'
    BY <1>3 DEF Inv, IInv, InvChain, InvStop, Started
  <1>8. Faulty("audit") \/ NoOrphan'
    BY <1>3 DEF Inv, IInv, NoOrphan, TearingDown
  <1>9. CallWaiting \/ InvEnded'
    BY <1>2, <1>3 DEF Inv, IInv, InvEnded, QueueParts
  <1> QED BY <1>2, <1>5, <1>6, <1>7, <1>8, <1>9 DEF IInv, QueueParts, Faulty

\* The teardown of the running operation goes on to its next await.
LEMMA AwaitInv ==
  ASSUME Inv, chain.at \in {"revoke", "note", "close", "seal"},
         NEW label \in {"close", "seal", "sync"}, Await(label),
         UNCHANGED <<callVars, announced, connected, lifeVars, stop, ownerVars, currentCall,
                     pendingOutgoing, recordingWork, begin>>,
         session' \in {session, None},
         sends' = sends \/ (chain.at = "revoke" /\ sends' = Tail(sends)),
         \/ label = "close" /\ recorder' = recorder
         \/ label = "seal" /\ recorder' = [recorder EXCEPT ![Running.own] = "closed"]
         \/ label = "sync" /\ chain.at = "seal" /\ recorder' = recorder,
         \A c \in Calls : rts'[c] # "none" => rts[c] # "none" \/ phone[c] # "none",
         activeRealtime # None => rts'[activeRealtime] = "live",
         CallWaiting \/ CompleteEnded'
  PROVE  IInv'
  <1>1. /\ Running' = Running /\ Running.own \in Calls /\ recordingWork # <<>>
        /\ activeRecorder # Running.own /\ recorder[Running.own] # "none"
    BY BusyChain, RunningInv DEF Running, Inv, IInv, InvChain, OpInv
  <1>2. chain' = [chain EXCEPT !.at = label] /\ chain'.at = label /\ chain'.why = chain.why
          /\ chain'.held = chain.held
    BY DEF Await, Inv, TypeInv, TypeOK, ChainStates
  <1>3. \A c \in Calls : /\ recorder'[c] # recorder[c] => c = Running.own /\ label = "seal"
                         /\ recorder'[c] = "none" <=> recorder[c] = "none"
                         /\ label = "seal" => recorder'[Running.own] = "closed"
    BY <1>1 DEF Inv, TypeInv, TypeOK
  <1>4. QueueParts'
    <2>1. QueueFrame
      BY <1>3 DEF QueueFrame, AtStart, Opening
    <2> QED BY <1>2, <2>1, StayQueue
  <1>5. OwnerReserved' /\ RealtimeOwned' /\ InvReservation'
    BY <1>1, <1>3 DEF Inv, IInv, TypeInv, TypeOK, MaybeCall, OwnerReserved, RealtimeOwned,
                      InvReservation, AtStart
  <1>6. InvSends'
    <2>1. CASE sends' = sends
      BY <1>2, <2>1 DEF Inv, IInv, InvSends
    <2>2. CASE chain.at = "revoke"
      <3>1. sends = <<Chain>> /\ begin[Chain].at = "idle"
        BY <2>2 DEF Inv, IInv, InvSends, InvBegin
      <3>2. stop.at # "revoke" /\ \A w \in Workers : begin[w].at \notin {"ack", "answer"}
        BY <3>1, NamesAssumption DEF Inv, IInv, InvSends
      <3> QED BY <1>2, <3>2 DEF InvSends
    <2> QED BY <2>1, <2>2
  <1>7. InvBegin'
    BY <1>2, <1>3, NamesAssumption
    DEF Inv, IInv, TypeInv, TypeOK, InvBegin, Holding, Opening, Started, BeginStates
  <1>8. InvKnown' /\ InvStart'
    BY <1>1, <1>3 DEF Inv, IInv, InvKnown, InvStart, Started
  <1>9. InvChain' /\ InvStop'
    BY <1>1, <1>2, <1>3 DEF Inv, IInv, InvChain, InvStop, Started
  <1>10. Faulty("audit") \/ NoOrphan'
    BY <1>1, <1>2, <1>3 DEF Inv, IInv, NoOrphan, TearingDown
  <1>11. CallWaiting \/ InvEnded'
    BY <1>1, <1>2, <1>4 DEF Inv, IInv, InvEnded, QueueParts
  <1> QED BY <1>4, <1>5, <1>6, <1>7, <1>8, <1>9, <1>10, <1>11 DEF IInv, QueueParts, Faulty

\* The revocation of a terminal operation has left.
LEMMA RevocationSettledInv == ASSUME Inv, RevocationSettled PROVE IInv'
  <1>1. session' \in {session, None} /\ Await("close") /\ chain.at = "revoke"
    BY DEF RevocationSettled, Revoked
  <1>2. activeRealtime # None => rts'[activeRealtime] = "live"
    BY DEF RevocationSettled, Inv, IInv, RealtimeOwned
  <1>3. CallWaiting \/ CompleteEnded'
    BY DEF RevocationSettled, Inv, IInv, InvEnded, CompleteEnded
  <1> QED BY <1>1, <1>2, <1>3, AwaitInv DEF RevocationSettled

\* The audit write of a lost device has settled.
LEMMA LossNotedInv == ASSUME Inv, Settled, LossNoted PROVE IInv'
  <1>1. activeRealtime # None => rts'[activeRealtime] = "live"
    BY DEF LossNoted, Inv, IInv, RealtimeOwned
  <1>2. CallWaiting \/ CompleteEnded'
    BY DEF LossNoted, Inv, IInv, InvEnded, CompleteEnded
  <1>3. CASE Await("close") /\ UNCHANGED <<recordingWork, stop>>
    BY <1>1, <1>2, <1>3, AwaitInv DEF LossNoted
  <1>4. CASE Faulty("audit") /\ Pop
    <2>1. recordingWork # <<>> /\ stop.at # "revoke" /\ chain.at # "begin"
      BY BusyChain, SettledSends DEF LossNoted
    <2> QED BY <1>1, <1>2, <1>4, <2>1, PopInv DEF LossNoted
  <1> QED BY <1>3, <1>4 DEF LossNoted

\* The session is closed and finalize called.
LEMMA RecorderClosedInv == ASSUME Inv, Settled, RecorderClosed PROVE IInv'
  <1>1. /\ recordingWork # <<>> /\ stop.at # "revoke" /\ chain.at = "close"
        /\ Running.own \in Calls /\ activeRecorder # Running.own
        /\ chain.held \in {None, Running.own}
    BY BusyChain, SettledSends, RunningInv DEF RecorderClosed, Inv, IInv, InvChain, MaybeCall
  <1>2. /\ \A c \in Calls : rts'[c] # "none" => rts[c] # "none" \/ phone[c] # "none"
        /\ activeRealtime # None => rts'[activeRealtime] = "live"
    <2>1. phone[Running.own] # "none"
      BY <1>1, RunningInv, NamesAssumption DEF OpInv, Inv, IInv, InvKnown
    <2> QED BY <1>1, <2>1 DEF RecorderClosed, CloseRealtime, Inv, IInv, RealtimeOwned,
                              InvKnown, TypeInv, TypeOK, MaybeCall
  <1>3. CallWaiting \/ CompleteEnded'
    BY DEF RecorderClosed, Inv, IInv, InvEnded, CompleteEnded
  <1>4. CASE recorder[Running.own] = "open"
    BY <1>1, <1>2, <1>3, <1>4, AwaitInv DEF RecorderClosed
  <1>5. CASE recorder[Running.own] # "open"
    BY <1>1, <1>2, <1>3, <1>5, PopInv DEF RecorderClosed
  <1> QED BY <1>4, <1>5

\* finalize has settled.
LEMMA RecorderSealedInv == ASSUME Inv, Settled, RecorderSealed PROVE IInv'
  <1>1. recordingWork # <<>> /\ stop.at # "revoke" /\ chain.at = "seal" /\ Running.own \in Calls
    BY BusyChain, SettledSends, RunningInv DEF RecorderSealed, Inv, IInv, InvChain, MaybeCall
  <1>2. activeRealtime # None => rts'[activeRealtime] = "live"
    BY DEF RecorderSealed, Inv, IInv, RealtimeOwned
  <1>3. PICK whole \in BOOLEAN :
          /\ whole => CompleteOutcome(chain.why)
          /\ complete' = [complete EXCEPT ![Running.own] = whole]
          /\ IF whole THEN Await("sync") /\ UNCHANGED <<recordingWork, stop>> ELSE Pop
    BY DEF RecorderSealed
  <1>4. CallWaiting \/ CompleteEnded'
    <2>1. complete \in [Calls -> BOOLEAN]
      BY DEF Inv, TypeInv, TypeOK
    <2>2. \A c \in Calls : complete'[c] => complete[c] \/ (c = Running.own /\ whole)
      BY <1>3, <2>1
    <2>3. phone' = phone
      BY DEF RecorderSealed
    <2> QED BY <1>1, <1>3, <2>2, <2>3 DEF Inv, IInv, InvEnded, CompleteEnded, CompleteOutcome
  <1>5. CASE whole
    BY <1>1, <1>2, <1>3, <1>4, <1>5, AwaitInv DEF RecorderSealed
  <1>6. CASE ~whole
    BY <1>1, <1>2, <1>3, <1>4, <1>6, PopInv DEF RecorderSealed
  <1> QED BY <1>5, <1>6

\* The copy to the phone has settled.
LEMMA CopySettledInv == ASSUME Inv, Settled, CopySettled PROVE IInv'
  <1>1. recordingWork # <<>> /\ stop.at # "revoke" /\ chain.at = "sync"
    BY BusyChain, SettledSends DEF CopySettled
  <1>2. activeRealtime # None => rts'[activeRealtime] = "live"
    BY DEF CopySettled, Inv, IInv, RealtimeOwned
  <1>3. CallWaiting \/ CompleteEnded'
    BY DEF CopySettled, Inv, IInv, InvEnded, CompleteEnded
  <1> QED BY <1>1, <1>2, <1>3, PopInv DEF CopySettled

\* The lookup before the begin of an outgoing call has settled.
LEMMA OutgoingResolvedInv == ASSUME Inv, Settled, OutgoingResolved PROVE IInv'
  <1>1. /\ recordingWork # <<>> /\ stop.at # "revoke" /\ chain.at = "lookup"
        /\ Running.kind = "begin" /\ Running \in Operation /\ OpInv(Running)
        /\ Running.call \in Calls
    BY BusyChain, SettledSends, RunningInv DEF OutgoingResolved
  <1>2. CASE CanReserve
    <2>1. /\ activeRecordingCallId' = Running.call
          /\ begin' = [begin EXCEPT ![Chain] = [at |-> "start", call |-> Running.call]]
          /\ Await("begin") /\ UNCHANGED <<recordingWork, stop>>
          /\ activeRecorder = None /\ activeRecordingCallId = None
      BY <1>2 DEF OutgoingResolved, CanReserve
    <2>2. UNCHANGED <<announced, sends, phoneVars, lifeVars, activeRecorder, activeRealtime,
                      teardownPending, statusVars, artifactVars>>
      BY DEF OutgoingResolved
    <2>3. chain'.at = "begin" /\ Running' = Running
      BY <2>1 DEF Await, Running, Inv, TypeInv, TypeOK, ChainStates
    <2>4. begin[Chain].at = "idle"
      BY <1>1 DEF Inv, IInv, InvBegin
    <2>5. \A w \in Workers : ~AtStart(w)
      BY <2>1, NamesAssumption DEF Inv, IInv, InvReservation, InvBegin, AtStart
    <2>6. /\ begin'[Chain].at = "start" /\ begin'[Chain].call = Running.call
          /\ \A w \in Workers \ {Chain} : begin'[w] = begin[w]
          /\ Chain \notin Clients /\ Chain \in Workers
      BY <2>1, NamesAssumption DEF Inv, TypeInv, TypeOK, Workers
    <2>7. QueueParts'
      <3>1. QueueFrame
        BY <2>2, <2>6 DEF QueueFrame, AtStart, Opening, Workers
      <3> QED BY <2>1, <2>3, <3>1, StayQueue
    <2>8. OwnerReserved' /\ RealtimeOwned'
      BY <2>1, <2>2 DEF Inv, IInv, OwnerReserved, RealtimeOwned
    <2>9. InvReservation'
      BY <2>1, <2>2, <2>5, <2>6 DEF InvReservation, AtStart
    <2>10. InvSends'
      BY <2>1, <2>2, <2>3, <2>6 DEF Inv, IInv, InvSends
    <2>11. InvBegin'
      BY <1>1, <2>1, <2>2, <2>3, <2>4, <2>6
      DEF Inv, IInv, InvBegin, Holding, Opening, OpInv, Started
    <2>12. InvKnown' /\ InvStart'
      BY <2>2 DEF Inv, IInv, InvKnown, InvStart, Started
    <2>13. InvChain' /\ InvStop'
      BY <1>1, <2>1, <2>2, <2>3 DEF Inv, IInv, InvChain, InvStop, Started
    <2>14. Faulty("audit") \/ NoOrphan'
      BY <1>1, <2>1, <2>2, <2>3, <2>4, <2>6 DEF Inv, IInv, NoOrphan, TearingDown
    <2>15. CallWaiting \/ InvEnded'
      BY <2>2, <2>3, <2>7 DEF Inv, IInv, InvEnded, CompleteEnded, QueueParts
    <2> QED BY <2>7, <2>8, <2>9, <2>10, <2>11, <2>12, <2>13, <2>14, <2>15
            DEF IInv, QueueParts, Faulty
  <1>3. CASE ~CanReserve
    <2>1. activeRealtime # None => rts'[activeRealtime] = "live"
      BY DEF OutgoingResolved, Inv, IInv, RealtimeOwned
    <2>2. CallWaiting \/ CompleteEnded'
      BY DEF OutgoingResolved, Inv, IInv, InvEnded, CompleteEnded
    <2> QED BY <1>1, <1>3, <2>1, <2>2, PopInv DEF OutgoingResolved
  <1> QED BY <1>2, <1>3

\* The running operation disowns its recorder and turns to its teardown.
LEMMA TeardownInv ==
  ASSUME Inv, Settled, chain.at = "append", Running.own \in Calls, Disown,
         StillOwned(Running) \/ Running.kind \in TerminalEvents,
         NEW sent \in BOOLEAN, Queued(sent, Chain),
         NEW why, NEW held \in {None, Running.own},
         chain' = [at |-> IF sent THEN "revoke" ELSE "close", why |-> why, held |-> held],
         why = "ended" => Running.kind = "ended",
         session' \in {session, None}, currentCall' \in {currentCall, NoCall},
         pendingOutgoing' => pendingOutgoing, connected' => connected,
         UNCHANGED <<recordingWork, stop, callVars, announced, lifeVars, begin, artifactVars>>
  PROVE  IInv'
  <1>1. /\ Running' = Running /\ OpInv(Running) /\ recordingWork[1] = Running /\ 1 \in Places
        /\ recordingWork # <<>>
    BY BusyChain, RunningInv DEF Running
  <1>2. /\ sends = <<>> /\ stop.at # "revoke"
        /\ \A w \in Workers : begin[w].at \notin {"ack", "answer"}
    BY SettledSends
  <1>3. begin[Chain].at = "idle"
    BY DEF Inv, IInv, InvBegin
  <1>4. chain'.at = (IF sent THEN "revoke" ELSE "close") /\ chain'.why = why /\ chain'.held = held
    OBVIOUS
  <1>5. activeRecorder \in {None, Running.own}
    BY DEF Inv, IInv, InvChain, StillOwned
  <1>6. \A w \in Workers : ~AtStart(w)
    BY NamesAssumption DEF Inv, IInv, InvChain, InvReservation, StillOwned
  <1>7. QueueParts'
    <2>1. QueueFrame
      BY DEF QueueFrame, AtStart, Opening, NoCall
    <2> QED BY <1>4, <2>1, StayQueue
  <1>8. OwnerReserved' /\ RealtimeOwned' /\ InvReservation'
    BY <1>6 DEF Disown, OwnerReserved, RealtimeOwned, InvReservation, AtStart
  <1>9. InvSends'
    BY <1>2, <1>4 DEF Queued, InvSends
  <1>10. InvBegin'
    BY <1>3, NamesAssumption
    DEF Inv, IInv, InvBegin, Holding, Opening, Started, Disown, InvStart
  <1>11. InvKnown' /\ InvStart'
    BY DEF Inv, IInv, InvKnown, InvStart, Started, Disown, NoCall
  <1>12. InvChain'
    BY <1>1, <1>4, NamesAssumption DEF InvChain, Disown
  <1>13. InvStop'
    BY <1>2, NamesAssumption DEF Inv, IInv, InvStop, Started, Disown
  <1>14. Faulty("audit") \/ NoOrphan'
    BY <1>1, <1>4, <1>5 DEF Inv, IInv, NoOrphan, TearingDown, Disown
  <1>15. CallWaiting \/ InvEnded'
    <2>1. ASSUME ~CallWaiting, why = "ended" PROVE phone[Running.own] \in Over
      BY <1>1, <2>1 DEF Inv, IInv, InvEnded, EndedQueued, OpInv, TerminalEvents
    <2> QED BY <1>1, <1>4, <1>7, <2>1 DEF Inv, IInv, InvEnded, CompleteEnded, QueueParts
  <1> QED BY <1>7, <1>8, <1>9, <1>10, <1>11, <1>12, <1>13, <1>14, <1>15
          DEF IInv, QueueParts, Faulty

\* The write of the running operation has settled.
LEMMA AppendSettledInv == ASSUME Inv, Settled, AppendSettled PROVE IInv'
  <1>1. /\ recordingWork # <<>> /\ stop.at # "revoke" /\ chain.at = "append"
        /\ OpInv(Running) /\ Running.own \in MaybeCall
        /\ Running.kind \in TerminalEvents \cup {"lost"} => Running.own \in Calls
        /\ Running.own # None => Running.own \in Calls
    BY BusyChain, SettledSends, RunningInv DEF AppendSettled
  <1>2. UNCHANGED <<announced, callVars, lifeVars, begin, artifactVars>>
    BY DEF AppendSettled
  <1>3. CASE /\ Pop
             /\ UNCHANGED <<connected, session, ownerVars, currentCall, pendingOutgoing, sends>>
    <2>1. activeRealtime # None => rts'[activeRealtime] = "live"
      BY <1>2 DEF Inv, IInv, RealtimeOwned
    <2>2. CallWaiting \/ CompleteEnded'
      BY <1>2 DEF Inv, IInv, InvEnded, CompleteEnded
    <2> QED BY <1>1, <1>2, <1>3, <2>1, <2>2, PopInv
  <1>4. ASSUME FailActiveRecording(Running), Running.own # None, StillOwned(Running)
        PROVE  IInv'
    <2>1. PICK told \in SendResults :
             /\ Queued(told, Chain)
             /\ chain' = [at |-> IF told THEN "revoke" ELSE "close",
                          why |-> "recording_write_failed",
                          held |-> IF Running.id \in {activeRealtime, Running.rt}
                                   THEN Running.id ELSE None]
             /\ IF told \/ ~connected
                THEN UNCHANGED <<connected, session, currentCall, pendingOutgoing>>
                ELSE /\ connected' = FALSE /\ session' = None
                     /\ currentCall' = NoCall /\ pendingOutgoing' = FALSE
      BY <1>4 DEF FailActiveRecording
    <2>2. PICK held : held = IF Running.id \in {activeRealtime, Running.rt}
                             THEN Running.id ELSE None
      OBVIOUS
    <2>3. Running.own \in Calls /\ held \in {None, Running.own} /\ told \in BOOLEAN
      BY <1>1, <1>4, <2>2, SendResultsType DEF OpInv
    <2>4. Disown /\ UNCHANGED <<recordingWork, stop>>
      BY <1>4 DEF FailActiveRecording
    <2>5. /\ session' \in {session, None} /\ currentCall' \in {currentCall, NoCall}
          /\ pendingOutgoing' => pendingOutgoing
          /\ connected' => connected
      BY <2>1
    <2>6. PICK why : why = "recording_write_failed"
      OBVIOUS
    <2>7. /\ chain' = [at |-> IF told THEN "revoke" ELSE "close", why |-> why, held |-> held]
          /\ why = "ended" => Running.kind = "ended"
          /\ chain.at = "append" /\ Queued(told, Chain)
      BY <1>1, <2>1, <2>2, <2>6
    <2>8. StillOwned(Running) \/ Running.kind \in TerminalEvents
      BY <1>4
    <2> HIDE <1>4, <2>1, <2>6
    <2> QED BY <1>2, <2>3, <2>4, <2>5, <2>7, <2>8, TeardownInv
  <1>5. ASSUME /\ Running.kind \in TerminalEvents /\ Disown
               /\ \E sent \in SendResults :
                    /\ Queued(sent, Chain)
                    /\ chain' = [at |-> IF sent THEN "revoke" ELSE "close", why |-> Running.kind,
                                 held |-> IF activeRealtime = Running.call
                                          THEN Running.call ELSE None]
               /\ UNCHANGED <<connected, session, currentCall, pendingOutgoing,
                              recordingWork, stop>>
        PROVE  IInv'
    <2>1. PICK sent \in SendResults :
             /\ Queued(sent, Chain)
             /\ chain' = [at |-> IF sent THEN "revoke" ELSE "close", why |-> Running.kind,
                          held |-> IF activeRealtime = Running.call THEN Running.call ELSE None]
      BY <1>5
    <2>2. PICK held : held = IF activeRealtime = Running.call THEN Running.call ELSE None
      OBVIOUS
    <2>3. Running.own \in Calls /\ held \in {None, Running.own} /\ sent \in BOOLEAN
      BY <1>1, <1>5, <2>2, SendResultsType DEF OpInv
    <2>4. PICK why : why = Running.kind
      OBVIOUS
    <2>5. chain' = [at |-> IF sent THEN "revoke" ELSE "close", why |-> why, held |-> held]
      BY <2>1, <2>2, <2>4
    <2>6. /\ session' \in {session, None} /\ currentCall' \in {currentCall, NoCall}
          /\ pendingOutgoing' => pendingOutgoing
          /\ connected' => connected
      BY <1>5
    <2> QED BY <1>1, <1>2, <1>5, <2>1, <2>3, <2>4, <2>5, <2>6, TeardownInv
  <1>6. CASE FailActiveRecording(Running) /\ (Running.own = None \/ ~StillOwned(Running))
    BY <1>3, <1>6 DEF FailActiveRecording
  <1> QED BY <1>3, <1>4, <1>5, <1>6 DEF AppendSettled

\* The lookups of 'incoming' have settled: the new current call is the one that rang last.
LEMMA IncomingResolvedInv == ASSUME Inv, Settled, IncomingResolved PROVE IInv'
  <1>1. /\ recordingWork # <<>> /\ stop.at # "revoke" /\ chain.at = "lookup"
        /\ Running.kind = "incoming" /\ OpInv(Running) /\ Running.call \in Calls
        /\ recordingWork[1] = Running /\ 1 \in Places
    BY BusyChain, SettledSends, RunningInv DEF IncomingResolved
  <1>2. /\ currentCall'.call = Running.call /\ currentCall'.incoming
        /\ announced' \subseteq announced \cup {Running.call}
        /\ UNCHANGED <<phoneVars, sends, lifeVars, ownerVars, pendingOutgoing, begin, artifactVars>>
    BY DEF IncomingResolved
  <1>3. \/ Await("append") /\ UNCHANGED <<recordingWork, stop>>
        \/ Pop
    BY DEF IncomingResolved
  <1>4. /\ stop'.at = stop.at /\ stop'.rec = stop.rec /\ stop'.rt = stop.rt
        /\ chain'.at \in {"append", "idle"}
        /\ chain'.at = "append" => UNCHANGED recordingWork
    BY <1>3 DEF Await, Pop, IdleChain, Inv, TypeInv, TypeOK, StopStates, ChainStates
  <1>5. PICK d \in {0, 1} :
          \A i \in Places' : /\ i \in Nat /\ i + d \in Places
                             /\ recordingWork'[i] = recordingWork[i + d]
                             /\ i + d = 1 => chain'.at = "append"
    <2>1. CASE Await("append") /\ UNCHANGED <<recordingWork, stop>>
      <3>1. \A i \in Places' : /\ i \in Nat /\ i + 0 \in Places
                               /\ recordingWork'[i] = recordingWork[i + 0]
                               /\ i + 0 = 1 => chain'.at = "append"
        BY <2>1 DEF Places, Await, Inv, TypeInv, TypeOK, ChainStates
      <3> QED BY <3>1
    <2>2. CASE Pop
      <3>1. \A i \in Places' : /\ i \in Nat /\ i >= 1 /\ i + 1 \in Places
                               /\ recordingWork'[i] = recordingWork[i + 1]
        BY <1>1, <2>2, TailQueue DEF Pop
      <3> QED BY <3>1
    <2> QED BY <1>3, <2>1, <2>2
  <1>6. begin[Chain].at = "idle"
    BY <1>1 DEF Inv, IInv, InvBegin
  <1>7. Unresolved(1)
    BY <1>1 DEF Unresolved
  <1>8. InvQueue'
    <2>1. ASSUME NEW i \in Places' PROVE OpInv(recordingWork[i])'
      <3>1. OpInv(recordingWork[i + d]) /\ recordingWork'[i] = recordingWork[i + d]
        BY <1>5 DEF Inv, IInv, InvQueue
      <3> QED BY <1>2, <3>1 DEF OpInv, Started
    <2> QED BY <2>1 DEF InvQueue
  <1>9. InvLastRing'
    BY <1>2, <1>5 DEF Inv, IInv, InvLastRing
  <1>10. InvRing'
    <2>1. \A w \in Clients : AtStart(w) \/ Opening(w) => begin[w].call # gsmCall
      BY <1>1, <1>7 DEF Inv, IInv, InvRing
    <2>2. ASSUME Running.call = gsmCall, NEW i \in Places' PROVE ~Unresolved(i)'
      <3>1. ASSUME recordingWork[i + d].kind = "incoming" PROVE i + d <= 1
        BY <1>1, <1>5, <2>2, <3>1 DEF Inv, IInv, InvLastRing
      <3> QED BY <1>4, <1>5, <3>1 DEF Unresolved, Places
    <2> QED BY <1>2, <2>1, <2>2 DEF InvRing, AtStart, Opening
  <1>11. InvTerminal'
    <2>1. ASSUME NEW i \in Places' PROVE Unhurt(i)'
      <3>1. Unhurt(i + d) /\ recordingWork'[i] = recordingWork[i + d] /\ i + d \in Nat
        BY <1>5 DEF Inv, IInv, InvTerminal
      <3>2. CASE i + d = 1
        BY <1>1, <3>1, <3>2 DEF Unhurt, TerminalEvents
      <3>3. CASE i + d # 1
        <4>1. i + d > 1
          BY <1>5, <3>3 DEF Places
        <4>2. ~Quiet(i + d)
          BY <1>1, <1>7, <4>1 DEF Quiet
        <4> QED BY <1>2, <3>1, <4>2 DEF Unhurt, Opening
      <3> QED BY <3>2, <3>3
    <2> QED BY <2>1 DEF InvTerminal
  <1>12. CallWaiting \/ EndedQueued'
    BY <1>2, <1>5 DEF Inv, IInv, InvEnded, EndedQueued
  <1>13. OwnerReserved' /\ RealtimeOwned' /\ InvReservation' /\ InvStart'
    BY <1>2 DEF Inv, IInv, OwnerReserved, RealtimeOwned, InvReservation, InvStart,
                AtStart, Started
  <1>14. InvKnown'
    BY <1>1, <1>2 DEF Inv, IInv, InvKnown, OpInv
  <1>15. InvSends' /\ InvBegin'
    BY <1>1, <1>2, <1>4, <1>6 DEF Inv, IInv, InvSends, InvBegin, Holding, Opening, Started
  <1>16. InvChain'
    <2>1. chain'.at = "append" => Running' = Running /\ recordingWork' # <<>>
      BY <1>1, <1>4 DEF Running
    <2> QED BY <1>1, <1>4, <2>1 DEF InvChain, TerminalEvents
  <1>17. InvStop'
    BY <1>1, <1>2, <1>4 DEF Inv, IInv, InvStop, Started
  <1>18. Faulty("audit") \/ NoOrphan'
    BY <1>1, <1>2, <1>4 DEF Inv, IInv, NoOrphan, TearingDown
  <1>19. CallWaiting \/ InvEnded'
    BY <1>2, <1>4, <1>12 DEF Inv, IInv, InvEnded, CompleteEnded
  <1> QED BY <1>8, <1>9, <1>10, <1>11, <1>13, <1>14, <1>15, <1>16, <1>17, <1>18, <1>19
          DEF IInv, Faulty

\* An answer(), which may reserve a recording.
LEMMA AnswerInv == ASSUME Inv, NEW w \in Clients, NEW c \in Calls, Answer(w, c) PROVE IInv'
  <1>1. /\ sends = <<>> /\ stop.at # "revoke" /\ chain.at # "revoke"
        /\ \A v \in Workers : begin[v].at \notin {"ack", "answer"}
    BY SettledSends DEF Answer
  <1>2. w \in Workers /\ w # Chain /\ begin[w].at = "idle"
    BY DEF Answer, Workers
  <1>3. Attached /\ Started /\ ~Gone
    BY DEF Answer, Attached, Inv, IInv, InvStart, Gone
  <1>4. UNCHANGED <<announced, phoneVars, lifeVars, stop, activeRecorder, activeRealtime,
                    teardownPending, statusVars, recordingWork, chain, artifactVars>>
    BY DEF Answer
  <1>5. phone[c] # "none"
    BY NamesAssumption DEF Answer, Inv, IInv, InvKnown
  <1>6. PICK label \in {"start", "answer"} :
          /\ begin' = [begin EXCEPT ![w] = [at |-> label, call |-> c]]
          /\ label = "start" =>
               /\ currentCall = [call |-> c, incoming |-> TRUE]
               /\ activeRecorder = None /\ activeRecordingCallId = None
               /\ activeRecordingCallId' = c /\ UNCHANGED sends
          /\ label = "answer" => UNCHANGED activeRecordingCallId /\ Queued(TRUE, w)
    BY DEF Answer, CanReserve
  <1>7. /\ begin'[w].at = label /\ begin'[w].call = c
        /\ \A v \in Workers \ {w} : begin'[v] = begin[v]
    BY <1>2, <1>6 DEF Inv, TypeInv, TypeOK
  <1>8. label = "start" => \A v \in Workers : ~AtStart(v)
    BY <1>6, NamesAssumption DEF Inv, IInv, InvReservation, InvBegin, AtStart
  <1>9. QueueParts'
    <2>1. QueueFrame
      BY <1>2, <1>4, <1>6, <1>7 DEF QueueFrame, AtStart, Opening, Workers
    <2> QED BY <1>4, <2>1, StayQueue
  <1>10. OwnerReserved' /\ RealtimeOwned' /\ InvKnown' /\ InvStart'
    BY <1>4, <1>6 DEF Inv, IInv, OwnerReserved, RealtimeOwned, InvKnown, InvStart, Started
  <1>11. InvReservation'
    BY <1>4, <1>6, <1>7, <1>8 DEF Inv, IInv, InvReservation, AtStart
  <1>12. InvSends'
    <2>1. label = "answer" => sends' = <<w>>
      BY <1>1, <1>6 DEF Queued
    <2> QED BY <1>1, <1>4, <1>7, <2>1 DEF InvSends
  <1>13. InvBegin'
    <2>1. Chain \in Workers
      BY DEF Workers
    <2> QED BY <1>2, <1>3, <1>4, <1>5, <1>7, <2>1
            DEF Inv, IInv, InvBegin, Holding, Opening, Started
  <1>14. InvChain'
    <2>1. chain.at = "append" /\ Running.kind \in TerminalEvents => label # "start"
      <3>1. chain.at = "append" /\ Running.kind \in TerminalEvents => Running.own # None
        BY BusyChain, RunningInv, NamesAssumption
      <3> QED BY <1>3, <1>6, <3>1 DEF Inv, IInv, InvChain, StillOwned
    <2> QED BY <1>4, <1>6, <1>7, <2>1
            DEF Inv, IInv, InvChain, AtStart, StillOwned, Running, Gone, Started, Attached
  <1>15. InvStop'
    BY <1>1, <1>4 DEF Inv, IInv, InvStop, Started
  <1>16. Faulty("audit") \/ NoOrphan'
    BY <1>2, <1>4, <1>6, <1>7 DEF Inv, IInv, NoOrphan, TearingDown, Running
  <1>17. CallWaiting \/ InvEnded'
    BY <1>4, <1>9 DEF Inv, IInv, InvEnded, CompleteEnded, QueueParts, Running
  <1> QED BY <1>9, <1>10, <1>11, <1>12, <1>13, <1>14, <1>15, <1>16, <1>17
          DEF IInv, QueueParts, Faulty

\* What the steps of a begin may rely on.
LEMMA BeginFacts ==
  ASSUME Inv, NEW w \in Workers, begin[w].at # "idle", begin[w].at \in {"ack", "answer"} \/ Settled,
         begin[w].at \in {"ack", "answer"} => NextSender(w)
  PROVE  /\ begin[w].call \in Calls /\ phone[begin[w].call] # "none" /\ Started
         /\ stop.at # "revoke" /\ chain.at # "revoke"
         /\ \A v \in Workers : v # w => begin[v].at \notin {"ack", "answer"}
         /\ begin[w].at \in {"ack", "answer"} => sends = <<w>>
         /\ begin[w].at \notin {"ack", "answer"} => sends = <<>>
         /\ w = Chain => chain.at = "begin" /\ recordingWork # <<>>
         /\ w # Chain => w \in Clients
  <1>1. /\ begin[w].call \in Calls /\ phone[begin[w].call] # "none" /\ Started
        /\ w = Chain => chain.at = "begin"
    BY DEF Inv, IInv, InvBegin
  <1>2. w = Chain => recordingWork # <<>>
    BY <1>1, BusyChain
  <1>3. CASE begin[w].at \in {"ack", "answer"}
    <2>1. sends = <<w>>
      BY <1>3 DEF Inv, IInv, InvSends
    <2> QED BY <1>1, <1>2, <1>3, <2>1, NamesAssumption DEF Inv, IInv, InvSends, Workers
  <1>4. CASE begin[w].at \notin {"ack", "answer"}
    BY <1>1, <1>2, <1>4, SettledSends DEF Workers
  <1> QED BY <1>3, <1>4

\* A begin goes on to its next await, perhaps taking or giving up the ownership.
LEMMA GotoInv ==
  ASSUME Inv, NEW w \in Workers, NEW c \in Calls, c = begin[w].call,
         begin[w].at \in {"start", "create", "attach", "ack", "unwind"},
         NEW label \in {"create", "attach", "ack", "unwind", "seal"}, Goto(w, label), StayInChain,
         begin[w].at \in {"ack", "answer"} \/ Settled,
         begin[w].at \in {"ack", "answer"} => NextSender(w),
         UNCHANGED <<phoneVars, announced, lifeVars, currentCall, pendingOutgoing, complete>>,
         label = "ack" => sends' = <<w>>,
         AtStart(w) => recorder[c] = "none" /\ label = "create",
         label \in {"create", "attach"} => AtStart(w) \/ Opening(w),
         begin[w].at = "unwind" => label = "seal",
         \A d \in Calls \ {c} : recorder'[d] = recorder[d] /\ rts'[d] = rts[d],
         recorder'[c] # "none",
         \/ /\ UNCHANGED <<activeRecorder, activeRecordingCallId>>
            /\ label \in {"unwind", "seal"} => begin[w].at = "unwind"
            /\ label \notin {"unwind", "seal"} => recorder' = recorder
         \/ AtStart(w) /\ activeRecorder' = c
         \/ Disown /\ Owns(c) /\ (Opening(w) \/ ~connected) /\ label \in {"unwind", "seal"},
         activeRealtime' \in {activeRealtime, None} \/ (label = "ack" /\ activeRealtime' = c),
         label = "seal" => recorder'[c] = "closed",
         OwnerReserved', RealtimeOwned'
  PROVE  IInv'
  <1>1. /\ phone[c] # "none" /\ Started
        /\ stop.at # "revoke" /\ chain.at # "revoke"
        /\ \A v \in Workers : v # w => begin[v].at \notin {"ack", "answer"}
        /\ w = Chain => chain.at = "begin"
        /\ w # Chain => w \in Clients
        /\ Chain \in Workers
    BY BeginFacts DEF Workers
  <1>2. /\ begin'[w].at = label /\ begin'[w].call = c
        /\ \A v \in Workers \ {w} : begin'[v] = begin[v]
    BY DEF Goto, Inv, TypeInv, TypeOK, BeginStates
  <1>3. UNCHANGED <<recordingWork, chain, stop>> /\ Running' = Running
    BY DEF StayInChain, Running
  <1>4. \A d \in Calls : recorder[d] # "none" => recorder'[d] # "none"
    OBVIOUS
  <1>5. \A v \in Workers : v # w /\ Holding(v) => begin[v].call # c
    <2>1. CASE AtStart(w)
      BY <2>1 DEF Inv, IInv, InvBegin
    <2>2. CASE ~AtStart(w)
      BY <2>2 DEF Inv, IInv, InvBegin, Holding, AtStart
    <2> QED BY <2>1, <2>2
  <1>6. activeRecorder' \in {activeRecorder, None} \/ (AtStart(w) /\ activeRecorder' = c)
    BY DEF Disown
  <1>7. QueueParts'
    <2>1. QueueFrame
      BY <1>2, <1>4 DEF QueueFrame, AtStart, Opening, Workers
    <2> QED BY <1>3, <2>1, StayQueue
  <1>8. InvReservation'
    BY <1>2, NamesAssumption DEF Inv, IInv, InvReservation, AtStart, Owns
  <1>9. InvSends'
    BY <1>1, <1>2, <1>3 DEF InvSends
  <1>10. InvBegin'
    <2>1. \A v \in Workers : begin'[v].at # "idle" =>
            Started' /\ begin'[v].call \in Calls /\ phone'[begin'[v].call] # "none"
      BY <1>1, <1>2 DEF Inv, IInv, InvBegin, Started
    <2>2. \A v \in Workers : Holding(v)' => recorder'[begin'[v].call] # "none"
      BY <1>2, <1>4 DEF Inv, IInv, InvBegin, Holding
    <2>3. \A u, v \in Workers :
            Holding(u)' /\ Holding(v)' /\ begin'[u].call = begin'[v].call => u = v
      BY <1>2, <1>5 DEF Inv, IInv, InvBegin, Holding
    <2>4. \A v \in Workers : Opening(v)' =>
            activeRealtime' # begin'[v].call /\ session' # begin'[v].call
      <3>1. AtStart(w) => activeRealtime # c /\ session # c
        BY NamesAssumption
        DEF Inv, IInv, RealtimeOwned, InvReservation, InvStart, TypeInv, TypeOK, MaybeCall
      <3> QED BY <1>1, <1>2, <1>5, <3>1, NamesAssumption
              DEF Inv, IInv, InvBegin, Opening, Holding
    <2>5. \A v \in Workers : begin'[v].at \in {"unwind", "seal"} =>
            activeRecorder' # begin'[v].call
      <3>1. ASSUME NEW v \in Workers, v # w, begin[v].at \in {"unwind", "seal"}
            PROVE  activeRecorder' # begin[v].call
        <4>1. begin[v].call # c /\ begin[v].call \in Calls /\ activeRecorder # begin[v].call
          BY <1>5, <3>1 DEF Inv, IInv, InvBegin, Holding
        <4> QED BY <1>6, <4>1, NamesAssumption
      <3>2. label \in {"unwind", "seal"} => activeRecorder' # c
        BY NamesAssumption DEF Inv, IInv, InvBegin, Disown
      <3> QED BY <1>2, <3>1, <3>2
    <2>6. begin'[Chain].at # "idle" => chain'.at = "begin" /\ begin'[Chain].at # "answer"
      BY <1>1, <1>2, <1>3 DEF Inv, IInv, InvBegin
    <2> QED BY <2>1, <2>2, <2>3, <2>4, <2>5, <2>6 DEF InvBegin
  <1>11. InvKnown'
    BY <1>1 DEF Inv, IInv, InvKnown
  <1>12. InvStart'
    BY <1>1, <1>4 DEF Inv, IInv, InvStart, Started
  <1>13. InvStop'
    BY <1>1, <1>3, <1>4, <1>6, NamesAssumption DEF Inv, IInv, InvStop, Started
  <1>14. InvChain'
    <2>1. chain.at \in {"revoke", "note", "close", "seal"} =>
            /\ Running.own # None /\ activeRecorder' # Running.own
            /\ chain.held \in {None, Running.own}
      <3>1. chain.at \in {"revoke", "note", "close", "seal"} =>
              Running.own \in Calls /\ recorder[Running.own] # "none"
        BY BusyChain, RunningInv DEF Inv, IInv, InvChain, OpInv
      <3> QED BY <1>6, <3>1, NamesAssumption DEF Inv, IInv, InvChain
    <2>2. ASSUME chain.at = "append", Running.kind \in TerminalEvents
          PROVE  /\ \A v \in Workers : ~AtStart(v)'
                 /\ \/ StillOwned(Running)'
                    \/ activeRecorder' = None /\ (Gone' \/ ~currentCall'.incoming)
      <3>1. /\ \A v \in Workers : ~AtStart(v)
            /\ StillOwned(Running) \/ (activeRecorder = None /\ (Gone \/ ~currentCall.incoming))
        BY <2>2 DEF Inv, IInv, InvChain
      <3>2. \A v \in Workers : ~AtStart(v)'
        BY <1>2, <3>1 DEF AtStart
      <3>3. w # Chain /\ w \in Clients
        BY <1>1, <2>2
      <3>4. Gone => Gone'
        BY <1>3 DEF Gone, Started, Attached
      <3>5. CASE UNCHANGED <<activeRecorder, activeRecordingCallId>>
        BY <1>3, <3>1, <3>2, <3>4, <3>5 DEF StillOwned
      <3>6. CASE Disown /\ Owns(c) /\ Opening(w)
        <4>1. Running.own = c \/ ~currentCall.incoming \/ Gone
          BY <3>1, <3>6 DEF StillOwned, Owns
        <4>2. Running.own = c => Quiet(1)
          BY <2>2, <3>3, <3>6, BusyChain, RunningInv DEF Unhurt
        <4> QED BY <3>2, <3>4, <3>6, <4>1, <4>2 DEF Quiet, Disown
      <3>7. CASE Disown /\ ~connected
        BY <1>1, <3>2, <3>7 DEF Disown, Gone, Started, Attached
      <3> QED BY <3>1, <3>5, <3>6, <3>7
    <2> QED BY <1>3, <2>1, <2>2 DEF Inv, IInv, InvChain
  <1>15. Faulty("audit") \/ NoOrphan'
    <2>1. ASSUME ~Faulty("audit"), NEW d \in Calls, recorder'[d] = "open"
          PROVE  activeRecorder' = d \/ TearingDown(d)'
      <3>0. recorder[d] = "open" => activeRecorder = d \/ TearingDown(d)
        BY <2>1 DEF Inv, IInv, NoOrphan
      <3>1. CASE d # c
        <4>1. TearingDown(d) => TearingDown(d)'
          BY <1>2, <1>3, <3>1 DEF TearingDown
        <4> QED BY <2>1, <3>0, <3>1, <4>1, NamesAssumption
                DEF Inv, IInv, InvReservation, Owns
      <3>2. CASE d = c
        <4>1. label = "unwind" => TearingDown(d)'
          BY <1>2, <3>2 DEF TearingDown
        <4>2. label \notin {"unwind", "seal"} /\ TearingDown(d) => TearingDown(d)'
          BY <1>2, <1>3, <3>2 DEF TearingDown
        <4> QED BY <2>1, <3>0, <3>2, <4>1, <4>2
      <3> QED BY <3>1, <3>2
    <2> QED BY <2>1 DEF NoOrphan
  <1>16. CallWaiting \/ InvEnded'
    BY <1>3, <1>7 DEF Inv, IInv, InvEnded, CompleteEnded, QueueParts
  <1> QED BY <1>7, <1>8, <1>9, <1>10, <1>11, <1>12, <1>13, <1>14, <1>15, <1>16
          DEF IInv, QueueParts, Faulty

\* A begin ends: the chain goes on, or an answer() sends its command or is denied.
LEMMA EndBeginInv ==
  ASSUME Inv, NEW w \in Workers, begin[w].at \in {"start", "create", "attach", "ack", "seal", "answer"},
         begin[w].at \in {"ack", "answer"} \/ Settled,
         begin[w].at \in {"ack", "answer"} => NextSender(w),
         NEW success \in BOOLEAN, EndBegin(w, success),
         begin'[w].at = "answer" => sends' = <<w>>,
         session' = session \/ (begin[w].at = "ack" /\ session' = begin[w].call),
         UNCHANGED <<callVars, announced, connected, lifeVars, activeRecorder, activeRealtime,
                     currentCall, pendingOutgoing, recorder, complete>>,
         \/ UNCHANGED activeRecordingCallId
         \/ AtStart(w) /\ activeRecordingCallId' = None,
         \A c \in Calls : rts'[c] # "none" => rts[c] # "none" \/ phone[c] # "none",
         activeRealtime # None => rts'[activeRealtime] = "live"
  PROVE  IInv'
  <1>1. /\ begin[w].call \in Calls /\ phone[begin[w].call] # "none" /\ Started
        /\ stop.at # "revoke" /\ chain.at # "revoke"
        /\ \A v \in Workers : v # w => begin[v].at \notin {"ack", "answer"}
        /\ w = Chain => chain.at = "begin" /\ recordingWork # <<>>
        /\ w # Chain => w \in Clients
        /\ Chain \in Workers
    BY BeginFacts DEF Workers
  <1>2. /\ begin'[w].at \in {"idle", "answer"}
        /\ begin'[w].at = "answer" => w # Chain /\ begin'[w].call = begin[w].call
        /\ \A v \in Workers \ {w} : begin'[v] = begin[v]
    <2>1. CASE w = Chain
      <3>1. begin' = [begin EXCEPT ![w] = IdleBegin]
        BY <2>1 DEF EndBegin
      <3> QED BY <3>1 DEF IdleBegin, Inv, TypeInv, TypeOK
    <2>2. CASE w # Chain
      <3>1. PICK b : b \in {IdleBegin, [begin[w] EXCEPT !.at = "answer"]}
                     /\ begin' = [begin EXCEPT ![w] = b]
        BY <2>2 DEF EndBegin, Inv, TypeInv, TypeOK
      <3>2. begin \in [Workers -> BeginStates] /\ begin[w] \in BeginStates
        BY DEF Inv, TypeInv, TypeOK
      <3>3. [begin[w] EXCEPT !.at = "answer"].at = "answer"
            /\ [begin[w] EXCEPT !.at = "answer"].call = begin[w].call
        BY <3>2 DEF BeginStates
      <3>4. begin'[w] = b /\ \A v \in Workers \ {w} : begin'[v] = begin[v]
        BY <3>1, <3>2
      <3>5. b.at \in {"idle", "answer"} /\ (b.at = "answer" => b.call = begin[w].call)
        <4>1. CASE b = IdleBegin
          BY <4>1 DEF IdleBegin
        <4>2. CASE b # IdleBegin
          BY <3>1, <3>3, <4>2
        <4> QED BY <4>1, <4>2
      <3> QED BY <2>2, <3>4, <3>5
    <2> QED BY <2>1, <2>2
  <1>3. /\ stop'.at = stop.at /\ stop'.rec = stop.rec /\ stop'.rt = stop.rt
        /\ w = Chain => chain'.at = "idle" /\ Pop
        /\ w # Chain => UNCHANGED <<recordingWork, chain, stop>> /\ Running' = Running
    <2>1. CASE w = Chain
      <3>1. Pop
        BY <2>1 DEF EndBegin
      <3> QED BY <2>1, <3>1 DEF Pop, IdleChain, Inv, TypeInv, TypeOK, StopStates
    <2>2. CASE w # Chain
      BY <2>2 DEF EndBegin, Running
    <2> QED BY <2>1, <2>2
  <1>4. QueueParts'
    <2>1. QueueFrame
      BY <1>2 DEF QueueFrame, AtStart, Opening, Workers
    <2> QED BY <1>1, <1>3, <2>1, StayQueue, PopQueue
  <1>5. OwnerReserved' /\ RealtimeOwned'
    BY DEF Inv, IInv, OwnerReserved, RealtimeOwned, InvReservation
  <1>6. InvReservation'
    BY <1>2 DEF Inv, IInv, InvReservation, AtStart
  <1>7. InvSends'
    BY <1>1, <1>2, <1>3 DEF InvSends
  <1>8. InvBegin'
    <2>1. \A v \in Workers : v # w /\ Opening(v) => session' # begin[v].call
      BY DEF Inv, IInv, InvBegin, Opening, Holding
    <2>2. \A v \in Workers : Holding(v)' => Holding(v) /\ v # w /\ begin'[v] = begin[v]
      BY <1>2 DEF Holding
    <2>3. begin'[Chain].at # "idle" => chain'.at = "begin" /\ begin'[Chain].at # "answer"
      BY <1>1, <1>2, <1>3 DEF Inv, IInv, InvBegin
    <2>4. \A v \in Workers : begin'[v].at # "idle" =>
            Started' /\ begin'[v].call \in Calls /\ phone'[begin'[v].call] # "none"
      BY <1>1, <1>2 DEF Inv, IInv, InvBegin, Started
    <2>5. \A v \in Workers : Holding(v)' => recorder'[begin'[v].call] # "none"
      BY <2>2 DEF Inv, IInv, InvBegin
    <2>6. \A u, v \in Workers :
            Holding(u)' /\ Holding(v)' /\ begin'[u].call = begin'[v].call => u = v
      BY <2>2 DEF Inv, IInv, InvBegin
    <2>7. \A v \in Workers : Opening(v)' =>
            activeRealtime' # begin'[v].call /\ session' # begin'[v].call
      BY <2>1, <1>2 DEF Inv, IInv, InvBegin, Opening
    <2>8. \A v \in Workers : begin'[v].at \in {"unwind", "seal"} =>
            activeRecorder' # begin'[v].call
      BY <1>2 DEF Inv, IInv, InvBegin
    <2> QED BY <2>3, <2>4, <2>5, <2>6, <2>7, <2>8 DEF InvBegin
  <1>9. InvKnown'
    BY DEF Inv, IInv, InvKnown
  <1>10. InvStart'
    <2>1. begin[w].at = "ack" => recorder[begin[w].call] # "none"
      BY DEF Inv, IInv, InvBegin, Holding
    <2> QED BY <1>1, <2>1 DEF Inv, IInv, InvStart, Started
  <1>11. InvChain'
    <2>1. CASE w = Chain
      BY <1>3, <2>1 DEF InvChain
    <2>2. CASE w # Chain
      <3>1. \A v \in Workers : AtStart(v)' => AtStart(v)
        BY <1>2 DEF AtStart
      <3>2. Gone => Gone'
        BY <1>3, <2>2 DEF Gone, Started, Attached
      <3>3. chain.at = "append" /\ Running.kind \in TerminalEvents
              => UNCHANGED activeRecordingCallId
        BY DEF Inv, IInv, InvChain
      <3> QED BY <1>3, <2>2, <3>1, <3>2, <3>3 DEF Inv, IInv, InvChain, StillOwned
    <2> QED BY <2>1, <2>2
  <1>12. InvStop'
    BY <1>1, <1>3 DEF Inv, IInv, InvStop, Started
  <1>13. Faulty("audit") \/ NoOrphan'
    BY <1>1, <1>2, <1>3 DEF Inv, IInv, NoOrphan, TearingDown
  <1>14. CallWaiting \/ InvEnded'
    BY <1>3, <1>4 DEF Inv, IInv, InvEnded, CompleteEnded, QueueParts
  <1> QED BY <1>4, <1>5, <1>6, <1>7, <1>8, <1>9, <1>10, <1>11, <1>12, <1>13, <1>14
          DEF IInv, QueueParts, Faulty

\* A begin that fails is over.
LEMMA EndBeginIdle ==
  ASSUME Inv, NEW w \in Workers, EndBegin(w, FALSE)
  PROVE  begin'[w].at = "idle"
  <1>1. begin' = [begin EXCEPT ![w] = IdleBegin]
    BY DEF EndBegin
  <1> QED BY <1>1 DEF IdleBegin, Inv, TypeInv, TypeOK

\* recording.start has settled.
LEMMA RecorderStartedInv ==
  ASSUME Inv, Settled, NEW w \in Workers, RecorderStarted(w) PROVE IInv'
  <1>1. PICK c : c = begin[w].call
    OBVIOUS
  <1>2. /\ begin[w].at = "start" /\ c \in Calls
        /\ activeRecorder = None /\ activeRecordingCallId = c /\ activeRealtime = None
    BY <1>1, NamesAssumption
    DEF RecorderStarted, AtStart, Inv, IInv, InvBegin, InvReservation, RealtimeOwned
  <1>3. UNCHANGED <<announced, sends, phoneVars, lifeVars, activeRealtime, teardownPending,
                    statusVars, complete, rts>>
    BY DEF RecorderStarted
  <1>4. CASE /\ recorder[c] = "none"
             /\ recorder' = [recorder EXCEPT ![c] = "open"] /\ activeRecorder' = c
             /\ Goto(w, "create") /\ StayInChain /\ UNCHANGED activeRecordingCallId
    <2>1. \A d \in Calls : recorder'[d] = IF d = c THEN "open" ELSE recorder[d]
      BY <1>2, <1>4 DEF Inv, TypeInv, TypeOK
    <2>2. OwnerReserved' /\ RealtimeOwned'
      BY <1>2, <1>3, <1>4, <2>1 DEF OwnerReserved, RealtimeOwned
    <2> QED BY <1>1, <1>2, <1>3, <1>4, <2>1, <2>2, GotoInv DEF AtStart
  <1>5. CASE /\ activeRecordingCallId' = None /\ EndBegin(w, FALSE)
             /\ UNCHANGED <<recorder, activeRecorder>>
    <2>1. begin'[w].at = "idle"
      BY <1>5, EndBeginIdle
    <2> QED BY <1>2, <1>3, <1>5, <2>1, EndBeginInv DEF AtStart
  <1> QED BY <1>1, <1>2, <1>4, <1>5 DEF RecorderStarted

\* An owner that gives up before its session is the active one.
LEMMA AbandonRecorderInv ==
  ASSUME Inv, Settled, NEW w \in Workers, NEW c \in Calls, c = begin[w].call,
         Opening(w), Owns(c), AbandonRecorder(w, c),
         UNCHANGED <<announced, sends, phoneVars, lifeVars, teardownPending, statusVars,
                     complete, rts>>
  PROVE  IInv'
  <1>1. /\ Disown /\ recorder' = [recorder EXCEPT ![c] = "closed"]
        /\ Goto(w, "seal") /\ StayInChain
    BY DEF AbandonRecorder
  <1>2. \A d \in Calls : recorder'[d] = IF d = c THEN "closed" ELSE recorder[d]
    BY <1>1 DEF Inv, TypeInv, TypeOK
  <1>3. OwnerReserved' /\ RealtimeOwned' /\ activeRealtime' = None
    BY <1>1 DEF Disown, OwnerReserved, RealtimeOwned
  <1> QED BY <1>1, <1>2, <1>3, GotoInv DEF Opening, AtStart

\* createRealtimeSession has settled.
LEMMA RealtimeCreatedInv ==
  ASSUME Inv, Settled, NEW w \in Workers, RealtimeCreated(w) PROVE IInv'
  <1>1. PICK c : c = begin[w].call
    OBVIOUS
  <1>2. begin[w].at = "create" /\ c \in Calls /\ Opening(w) /\ recorder[c] # "none"
    BY <1>1 DEF RealtimeCreated, Inv, IInv, InvBegin, Opening, Holding
  <1>3. UNCHANGED <<announced, sends, phoneVars, lifeVars, teardownPending, statusVars,
                    complete, rts>>
    BY DEF RealtimeCreated
  <1>4. CASE EndBegin(w, FALSE) /\ UNCHANGED <<ownerVars, recorder>>
    <2>1. begin'[w].at = "idle"
      BY <1>4, EndBeginIdle
    <2>2. activeRealtime # None => rts'[activeRealtime] = "live"
      BY <1>3 DEF Inv, IInv, RealtimeOwned
    <2> QED BY <1>2, <1>3, <1>4, <2>1, <2>2, EndBeginInv
  <1>5. CASE Goto(w, "attach") /\ StayInChain /\ UNCHANGED <<ownerVars, recorder>>
    <2>1. OwnerReserved' /\ RealtimeOwned'
      BY <1>3, <1>5 DEF Inv, IInv, OwnerReserved, RealtimeOwned
    <2> QED BY <1>1, <1>2, <1>3, <1>5, <2>1, GotoInv DEF AtStart
  <1>6. CASE Owns(c) /\ AbandonRecorder(w, c)
    BY <1>1, <1>2, <1>3, <1>6, AbandonRecorderInv
  <1> QED BY <1>1, <1>4, <1>5, <1>6 DEF RealtimeCreated

\* session.start has settled.
LEMMA RealtimeStartedInv ==
  ASSUME Inv, Settled, NEW w \in Workers, RealtimeStarted(w) PROVE IInv'
  <1>1. PICK c : c = begin[w].call
    OBVIOUS
  <1>2. /\ begin[w].at = "attach" /\ c \in Calls /\ Opening(w) /\ recorder[c] # "none"
        /\ phone[c] # "none" /\ activeRealtime # c
    BY <1>1 DEF RealtimeStarted, Inv, IInv, InvBegin, Opening, Holding
  <1>3. UNCHANGED <<announced, phoneVars, lifeVars, teardownPending, statusVars, complete>>
    BY DEF RealtimeStarted
  <1>4. ASSUME EndBegin(w, FALSE), UNCHANGED <<sends, ownerVars, recorder>>,
               rts' = rts \/ rts' = [rts EXCEPT ![c] = "closed"]
        PROVE  IInv'
    <2>1. begin'[w].at = "idle"
      BY <1>4, EndBeginIdle
    <2>2. \A d \in Calls \ {c} : rts'[d] = rts[d]
      BY <1>4 DEF Inv, TypeInv, TypeOK
    <2>3. /\ activeRealtime # None => rts'[activeRealtime] = "live"
          /\ \A d \in Calls : rts'[d] # "none" => rts[d] # "none" \/ phone[d] # "none"
      BY <1>2, <2>2 DEF Inv, IInv, RealtimeOwned, TypeInv, TypeOK, MaybeCall
    <2> QED BY <1>2, <1>3, <1>4, <2>1, <2>3, EndBeginInv
  <1>5. CASE Owns(c) /\ AbandonRecorder(w, c) /\ UNCHANGED <<sends, rts>>
    BY <1>1, <1>2, <1>3, <1>5, AbandonRecorderInv
  <1>6. ASSUME /\ activeRecorder # None /\ activeRecordingCallId = c
               /\ rts' = [rts EXCEPT ![c] = "live"]
               /\ \E sent \in SendResults :
                    /\ Queued(sent, w)
                    /\ IF sent
                       THEN /\ activeRealtime' = c /\ Goto(w, "ack")
                            /\ UNCHANGED <<activeRecorder, activeRecordingCallId>>
                       ELSE Disown /\ Goto(w, "unwind")
               /\ StayInChain /\ UNCHANGED recorder
        PROVE  IInv'
    <2>1. Owns(c) /\ activeRecorder = c /\ recorder[c] = "open"
      BY <1>6 DEF Owns, Inv, IInv, OwnerReserved
    <2>2. \A d \in Calls : rts'[d] = IF d = c THEN "live" ELSE rts[d]
      BY <1>6 DEF Inv, TypeInv, TypeOK
    <2>3. CASE Disown /\ Goto(w, "unwind")
      <3>1. OwnerReserved' /\ RealtimeOwned' /\ activeRealtime' = None
        BY <2>3 DEF Disown, OwnerReserved, RealtimeOwned
      <3> QED BY <1>1, <1>2, <1>3, <1>6, <2>1, <2>2, <2>3, <3>1, GotoInv DEF AtStart
    <2>4. CASE /\ Queued(TRUE, w) /\ activeRealtime' = c /\ Goto(w, "ack")
               /\ UNCHANGED <<activeRecorder, activeRecordingCallId>>
      <3>1. OwnerReserved' /\ RealtimeOwned'
        BY <1>2, <1>6, <2>1, <2>2, <2>4 DEF OwnerReserved, RealtimeOwned
      <3>2. sends' = <<w>>
        BY <2>4, SettledSends DEF Queued
      <3> QED BY <1>1, <1>2, <1>3, <1>6, <2>1, <2>2, <2>4, <3>1, <3>2, GotoInv DEF AtStart
    <2> QED BY <1>6, <2>3, <2>4, SendResultsType
  <1> QED BY <1>1, <1>4, <1>5, <1>6 DEF RealtimeStarted

\* The recording_session message has left.
LEMMA SessionAcknowledgedInv ==
  ASSUME Inv, NEW w \in Workers, SessionAcknowledged(w) PROVE IInv'
  <1>1. PICK c : c = begin[w].call
    OBVIOUS
  <1>2. /\ begin[w].at = "ack" /\ NextSender(w) /\ c \in Calls /\ recorder[c] # "none"
        /\ sends = <<w>>
    BY <1>1, BeginFacts DEF SessionAcknowledged, Inv, IInv, InvBegin, Holding
  <1>3. UNCHANGED <<announced, callVars, connected, lifeVars, teardownPending,
                    statusVars, artifactVars>>
    BY DEF SessionAcknowledged
  <1>4. /\ session' = IF connected THEN c ELSE session
        /\ sends' = Tail(sends) \o (IF begin'[w].at = "answer" THEN <<w>> ELSE <<>>)
    BY <1>1 DEF SessionAcknowledged
  <1>5. begin'[w].at = "answer" => sends' = <<w>>
    BY <1>2, <1>4
  <1>6. ASSUME NEW success \in BOOLEAN, EndBegin(w, success), UNCHANGED ownerVars
        PROVE  IInv'
    <2>1. /\ activeRealtime # None => rts'[activeRealtime] = "live"
          /\ session' = session \/ session' = begin[w].call
      BY <1>1, <1>3, <1>4 DEF Inv, IInv, RealtimeOwned
    <2> QED BY <1>2, <1>3, <1>5, <1>6, <2>1, EndBeginInv
  <1>7. CASE Owns(c) /\ ~connected /\ Disown /\ Goto(w, "unwind") /\ StayInChain
    <2>1. OwnerReserved' /\ RealtimeOwned' /\ activeRealtime' = None
      BY <1>7 DEF Disown, OwnerReserved, RealtimeOwned
    <2>2. session' = session
      BY <1>4, <1>7
    <2> QED BY <1>1, <1>2, <1>3, <1>7, <2>1, <2>2, GotoInv DEF AtStart
  <1> QED BY <1>1, <1>6, <1>7 DEF SessionAcknowledged

\* The session of a begin that failed is closed.
LEMMA BeginUnwoundInv ==
  ASSUME Inv, Settled, NEW w \in Workers, BeginUnwound(w) PROVE IInv'
  <1>1. PICK c : c = begin[w].call
    OBVIOUS
  <1>2. begin[w].at = "unwind" /\ c \in Calls /\ activeRecorder # c
    BY <1>1 DEF BeginUnwound, Inv, IInv, InvBegin
  <1>3. /\ CloseRealtime(c) /\ recorder' = [recorder EXCEPT ![c] = "closed"]
        /\ Goto(w, "seal") /\ StayInChain
        /\ UNCHANGED <<announced, sends, phoneVars, lifeVars, ownerVars, teardownPending,
                       statusVars, complete>>
    BY <1>1 DEF BeginUnwound
  <1>4. \A d \in Calls : /\ recorder'[d] = IF d = c THEN "closed" ELSE recorder[d]
                         /\ d # c => rts'[d] = rts[d]
    BY <1>2, <1>3 DEF CloseRealtime, Inv, TypeInv, TypeOK
  <1>5. OwnerReserved' /\ RealtimeOwned'
    BY <1>2, <1>3, <1>4
    DEF Inv, IInv, OwnerReserved, RealtimeOwned, TypeInv, TypeOK, MaybeCall
  <1> QED BY <1>1, <1>2, <1>3, <1>4, <1>5, GotoInv DEF AtStart

\* So every resumption of a begin keeps the invariant.
LEMMA BeginStepInv == ASSUME Inv, NEW w \in Workers, BeginStep(w) PROVE IInv'
  <1>1. CASE RecorderStarted(w) \/ RealtimeCreated(w) \/ RealtimeStarted(w) \/ BeginUnwound(w)
    <2>1. Settled
      BY <1>1 DEF BeginStep, RecorderStarted, RealtimeCreated, RealtimeStarted, BeginUnwound
    <2> QED BY <1>1, <2>1, RecorderStartedInv, RealtimeCreatedInv, RealtimeStartedInv,
               BeginUnwoundInv
  <1>2. CASE SessionAcknowledged(w)
    BY <1>2, SessionAcknowledgedInv
  <1>3. activeRealtime # None => rts[activeRealtime] = "live"
    BY DEF Inv, IInv, RealtimeOwned
  <1>4. CASE BeginSealed(w)
    <2>1. begin[w].at = "seal" /\ EndBegin(w, FALSE) /\ Settled
      BY <1>4 DEF BeginStep, BeginSealed
    <2>2. begin'[w].at = "idle"
      BY <2>1, EndBeginIdle
    <2> QED BY <1>3, <1>4, <2>1, <2>2, EndBeginInv DEF BeginSealed
  <1>5. CASE AnswerSent(w)
    <2>1. w # Chain
      BY <1>5, NamesAssumption DEF AnswerSent, Inv, IInv, InvBegin, Workers
    <2>2. begin[w].at = "answer" /\ NextSender(w) /\ EndBegin(w, FALSE)
      BY <1>5, <2>1 DEF AnswerSent, EndBegin, StayInChain
    <2>3. begin'[w].at = "idle"
      BY <2>2, EndBeginIdle
    <2> QED BY <1>3, <1>5, <2>2, <2>3, EndBeginInv DEF AnswerSent
  <1> QED BY <1>1, <1>2, <1>4, <1>5 DEF BeginStep

\* The end of stop(), with or without an active recorder before.
LEMMA FinishStopInv ==
  ASSUME Inv, stop.at \in {"drain", "seal"}, FinishStop,
         UNCHANGED <<callVars, announced, sends, starter, ownerVars, chain, begin, artifactVars>>
  PROVE  IInv'
  <1>1. state' = "stopped" /\ stop' = IdleStop /\ stop'.at = "idle" /\ Started' = Started
    BY DEF FinishStop, IdleStop, Started
  <1>2. CASE connected
    BY <1>1, <1>2, DisconnectInv DEF FinishStop
  <1>3. CASE ~connected
    <2>1. EventFrame
      BY <1>1, <1>3 DEF FinishStop, EventFrame, Started, Gone, Attached, Inv, IInv, InvStart,
                        InvKnown, InvEnded, NoCall
    <2> QED BY <1>3, <2>1, SameInv DEF FinishStop
  <1> QED BY <1>2, <1>3

\* stop() disowns the recorder it has captured.
LEMMA StopDisownInv ==
  ASSUME Inv, stop.at \in {"drain", "revoke"}, activeRecorder \in Calls, Disown,
         chain.at # "revoke", \A w \in Workers : begin[w].at \notin {"ack", "answer"},
         stop'.at = "close", stop'.rec = activeRecorder, stop'.rt \in {None, activeRecorder},
         session' \in {session, None}, currentCall' \in {currentCall, NoCall},
         pendingOutgoing' => pendingOutgoing,
         UNCHANGED <<callVars, announced, connected, lifeVars, recordingWork, chain, begin,
                     artifactVars>>
  PROVE  IInv'
  <1>1. Gone' /\ Started /\ Started' /\ activeRecorder # None /\ Running' = Running
    BY NamesAssumption DEF Gone, Started, Attached, Inv, IInv, InvStart, Running
  <1>2. \A w \in Workers : ~AtStart(w)
    BY <1>1 DEF Inv, IInv, InvReservation
  <1>3. QueueParts'
    <2>1. QueueFrame
      BY DEF QueueFrame, AtStart, Opening, NoCall
    <2> QED BY <2>1, StayQueue
  <1>4. OwnerReserved' /\ RealtimeOwned' /\ InvReservation'
    BY <1>2 DEF Disown, OwnerReserved, RealtimeOwned, InvReservation, AtStart
  <1>5. InvSends'
    BY DEF InvSends
  <1>6. InvBegin'
    BY <1>1, NamesAssumption DEF Inv, IInv, InvBegin, Holding, Opening, Disown, InvStart
  <1>7. InvKnown' /\ InvStart'
    BY <1>1 DEF Inv, IInv, InvKnown, InvStart, Disown, NoCall
  <1>8. InvChain'
    BY <1>1, <1>2 DEF Inv, IInv, InvChain, AtStart, Disown
  <1>9. InvStop'
    BY <1>1 DEF Inv, IInv, InvStop, Disown, OwnerReserved
  <1>10. Faulty("audit") \/ NoOrphan'
    BY <1>1 DEF Inv, IInv, NoOrphan, TearingDown, Disown
  <1>11. CallWaiting \/ InvEnded'
    BY <1>1, <1>3 DEF Inv, IInv, InvEnded, CompleteEnded, QueueParts
  <1> QED BY <1>3, <1>4, <1>5, <1>6, <1>7, <1>8, <1>9, <1>10, <1>11
          DEF IInv, QueueParts, Faulty

\* stop() waits for its revocation to leave.
LEMMA StopRevokingInv ==
  ASSUME Inv, Settled, stop.at = "drain", activeRecorder \in Calls,
         stop'.at = "revoke", stop'.rec = activeRecorder, stop'.rt = activeRealtime,
         Queued(TRUE, "stop"), currentCall' = NoCall, pendingOutgoing' = FALSE,
         UNCHANGED <<phoneVars, announced, lifeVars, ownerVars, recordingWork, chain, begin,
                     artifactVars>>
  PROVE  IInv'
  <1>1. /\ sends = <<>> /\ sends' = <<"stop">> /\ chain.at # "revoke"
        /\ \A w \in Workers : begin[w].at \notin {"ack", "answer"}
        /\ chain.at = "idle" => recordingWork = <<>>
    BY SettledSends DEF Queued
  <1>2. /\ Started /\ Started' /\ activeRecorder # None /\ Running' = Running
        /\ Gone => Gone'
    BY NamesAssumption DEF Gone, Started, Attached, Inv, IInv, InvStart, Running
  <1>3. QueueParts'
    <2>1. QueueFrame
      BY DEF QueueFrame, AtStart, Opening, NoCall
    <2> QED BY <2>1, StayQueue
  <1>4. OwnerReserved' /\ RealtimeOwned' /\ InvReservation'
    BY DEF Inv, IInv, OwnerReserved, RealtimeOwned, InvReservation, AtStart
  <1>5. InvSends'
    BY <1>1 DEF InvSends
  <1>6. InvBegin' /\ InvKnown' /\ InvStart'
    BY <1>2 DEF Inv, IInv, InvBegin, Holding, Opening, InvKnown, InvStart, NoCall
  <1>7. InvChain'
    BY <1>2 DEF Inv, IInv, InvChain, AtStart, StillOwned, NoCall
  <1>8. InvStop'
    BY <1>1, <1>2 DEF Inv, IInv, InvStop, OwnerReserved, RealtimeOwned
  <1>9. Faulty("audit") \/ NoOrphan'
    BY <1>2 DEF Inv, IInv, NoOrphan, TearingDown
  <1>10. CallWaiting \/ InvEnded'
    BY <1>2, <1>3 DEF Inv, IInv, InvEnded, CompleteEnded, QueueParts
  <1> QED BY <1>3, <1>4, <1>5, <1>6, <1>7, <1>8, <1>9, <1>10 DEF IInv, QueueParts, Faulty

\* The chain stop() awaited is drained.
LEMMA StopDrainedInv == ASSUME Inv, Settled, StopDrained PROVE IInv'
  <1>1. CASE activeRecorder = None
    BY <1>1, FinishStopInv DEF StopDrained
  <1>2. CASE activeRecorder # None
    <2>1. PICK sent \in SendResults :
             /\ Queued(sent, "stop")
             /\ stop' = [at |-> IF sent THEN "revoke" ELSE "close", wait |-> 0,
                         rec |-> activeRecorder, rt |-> activeRealtime]
             /\ IF sent THEN UNCHANGED ownerVars ELSE Disown
      BY <1>2 DEF StopDrained
    <2>2. /\ activeRecorder \in Calls /\ activeRealtime \in {None, activeRecorder}
          /\ stop.at = "drain" /\ sent \in BOOLEAN
      BY <1>2, SendResultsType
      DEF StopDrained, Inv, IInv, TypeInv, TypeOK, MaybeCall, RealtimeOwned
    <2>3. /\ stop'.at = (IF sent THEN "revoke" ELSE "close")
          /\ stop'.rec = activeRecorder /\ stop'.rt = activeRealtime
      BY <2>1
    <2>4. /\ currentCall' = NoCall /\ pendingOutgoing' = FALSE
          /\ UNCHANGED <<phoneVars, announced, lifeVars, recordingWork, chain, begin,
                         artifactVars>>
      BY <1>2 DEF StopDrained
    <2>5. CASE sent
      BY <2>1, <2>2, <2>3, <2>4, <2>5, StopRevokingInv
    <2>6. CASE ~sent
      <3>1. chain.at # "revoke" /\ \A w \in Workers : begin[w].at \notin {"ack", "answer"}
        BY SettledSends
      <3> QED BY <2>1, <2>2, <2>3, <2>4, <2>6, <3>1, StopDisownInv
    <2> QED BY <2>2, <2>5, <2>6
  <1> QED BY <1>1, <1>2

\* The revocation of stop() has left.
LEMMA StopRevokedInv == ASSUME Inv, StopRevoked PROVE IInv'
  <1>1. /\ sends = <<"stop">> /\ stop.at = "revoke" /\ activeRecorder = stop.rec
        /\ activeRecorder \in Calls /\ stop.rt \in {None, activeRecorder}
    BY DEF StopRevoked, Inv, IInv, InvSends, InvStop
  <1>2. chain.at # "revoke" /\ \A w \in Workers : begin[w].at \notin {"ack", "answer"}
    BY <1>1, NamesAssumption DEF Inv, IInv, InvSends, Workers
  <1>3. stop'.at = "close" /\ stop'.rec = activeRecorder /\ stop'.rt \in {None, activeRecorder}
    BY <1>1 DEF StopRevoked, Inv, TypeInv, TypeOK, StopStates
  <1>4. session' \in {session, None}
    BY DEF StopRevoked, Revoked
  <1> QED BY <1>1, <1>2, <1>3, <1>4, StopDisownInv DEF StopRevoked

\* stop() closes the session and calls finalize.
LEMMA StopClosedInv == ASSUME Inv, Settled, StopClosed PROVE IInv'
  <1>1. /\ stop.at = "close" /\ Started /\ stop.rec \in Calls /\ stop.rt \in {None, stop.rec}
        /\ recorder[stop.rec] # "none" /\ activeRecorder # stop.rec
    BY DEF StopClosed, Inv, IInv, InvStop
  <1>2. /\ CloseRealtime(stop.rt) /\ recorder' = [recorder EXCEPT ![stop.rec] = "closed"]
        /\ stop' = [stop EXCEPT !.at = "seal"]
        /\ UNCHANGED <<announced, sends, phoneVars, lifeVars, ownerVars, teardownPending,
                       currentCall, pendingOutgoing, recordingWork, chain, begin, complete>>
    BY DEF StopClosed
  <1>3. \A d \in Calls : /\ recorder'[d] = IF d = stop.rec THEN "closed" ELSE recorder[d]
                         /\ d # stop.rec => rts'[d] = rts[d]
    BY <1>1, <1>2 DEF CloseRealtime, Inv, TypeInv, TypeOK
  <1>4. stop'.at = "seal" /\ stop'.rec = stop.rec /\ stop'.rt = stop.rt
    BY <1>2 DEF Inv, TypeInv, TypeOK, StopStates
  <1>5. Running' = Running /\ Started' /\ (Gone => Gone')
    BY <1>1, <1>2, <1>4 DEF Running, Started, Gone, Attached
  <1>6. QueueParts'
    <2>1. QueueFrame
      BY <1>2, <1>3 DEF QueueFrame, AtStart, Opening
    <2> QED BY <1>2, <2>1, StayQueue
  <1>7. OwnerReserved' /\ RealtimeOwned' /\ InvReservation'
    BY <1>1, <1>2, <1>3
    DEF Inv, IInv, OwnerReserved, RealtimeOwned, InvReservation, AtStart, TypeInv, TypeOK, MaybeCall
  <1>8. InvSends'
    BY <1>2, <1>4 DEF Inv, IInv, InvSends
  <1>9. InvBegin'
    BY <1>2, <1>3, <1>5 DEF Inv, IInv, InvBegin, Holding, Opening
  <1>10. InvKnown' /\ InvStart'
    BY <1>1, <1>2, <1>3, <1>5 DEF Inv, IInv, InvKnown, InvStart
  <1>11. InvChain' /\ InvStop'
    BY <1>1, <1>2, <1>3, <1>4, <1>5 DEF Inv, IInv, InvChain, InvStop, AtStart, StillOwned
  <1>12. Faulty("audit") \/ NoOrphan'
    BY <1>1, <1>2, <1>3, <1>5 DEF Inv, IInv, NoOrphan, TearingDown
  <1>13. CallWaiting \/ InvEnded'
    BY <1>2, <1>5, <1>6 DEF Inv, IInv, InvEnded, CompleteEnded, QueueParts
  <1> QED BY <1>6, <1>7, <1>8, <1>9, <1>10, <1>11, <1>12, <1>13 DEF IInv, QueueParts, Faulty

\* So every step of stop() keeps the invariant,
LEMMA StopStepInv == ASSUME Inv, StopStep PROVE IInv'
  <1>1. CASE StopFinished
    BY <1>1, FinishStopInv DEF StopFinished
  <1> QED BY <1>1, StopRevokedInv, StopDrainedInv, StopClosedInv DEF StopStep

-------------------------------------------------------------------------------
\* every step of the chain,
LEMMA ChainStepInv == ASSUME Inv, ChainStep PROVE IInv'
  BY StartOperationInv, RevocationSettledInv, IncomingResolvedInv, OutgoingResolvedInv,
     AppendSettledInv, LossNotedInv, RecorderClosedInv, RecorderSealedInv, CopySettledInv
  DEF ChainStep

\* every request,
LEMMA RequestStepInv == ASSUME Inv, RequestStep PROVE IInv'
  BY QueueWriteInv, QueueTranscriptInv, DialInv, AnswerInv, CallsAssumption DEF RequestStep

\* and every device event.
LEMMA DeviceStepInv == ASSUME Inv, TypeInv', DeviceStep PROVE IInv'
  BY RingInv, ProgressInv, EndedInv, MediaFailureInv, UnseenInv, LinkLostInv DEF DeviceStep

\* The constructor establishes the invariant.
LEMMA InitInv == Init => IInv
  <1> SUFFICES ASSUME Init PROVE IInv
    OBVIOUS
  <1>1. /\ recordingWork = <<>> /\ Places = {} /\ sends = <<>> /\ chain.at = "idle"
        /\ stop.at = "idle" /\ \A w \in Workers : begin[w].at = "idle"
        /\ Chain \in Workers
        /\ currentCall.call = None /\ ~currentCall.incoming
        /\ \A c \in Calls : phone[c] = "none" /\ recorder[c] = "none" /\ rts[c] = "none" /\ ~complete[c]
    BY DEF Init, Places, IdleChain, IdleStop, IdleBegin, NoCall, Workers
  <1>2. OwnerReserved /\ RealtimeOwned
    BY DEF Init, OwnerReserved, RealtimeOwned
  <1>3. InvSends /\ InvReservation /\ InvBegin
    BY <1>1 DEF InvSends, InvReservation, InvBegin, AtStart, Holding, Opening
  <1>4. InvKnown /\ InvQueue /\ InvLastRing /\ InvTerminal
    BY <1>1 DEF Init, InvKnown, InvQueue, InvLastRing, InvTerminal
  <1>5. InvRing
    BY <1>1 DEF InvRing, AtStart, Opening, Workers
  <1>6. InvChain /\ InvStop /\ InvStart
    BY <1>1 DEF Init, InvChain, InvStop, InvStart
  <1>7. NoOrphan /\ InvEnded
    BY <1>1 DEF NoOrphan, InvEnded, EndedQueued, CompleteEnded
  <1> QED BY <1>2, <1>3, <1>4, <1>5, <1>6, <1>7 DEF IInv

\* Every step keeps it.
LEMMA StepInv == Inv /\ [Next]_vars => Inv'
  <1> SUFFICES ASSUME Inv, [Next]_vars PROVE Inv'
    OBVIOUS
  <1>1. NoBackpressure' /\ TypeInv'
    BY StepType DEF Inv, NoBackpressure, Faulty
  <1>2. CASE Next
    BY <1>1, <1>2, DeviceStepInv, RequestStepInv, ChainStepInv, BeginStepInv, StartInv,
       StopStepInv DEF Next, Inv
  <1>3. CASE UNCHANGED vars
    <2>1. EventFrame /\ UNCHANGED <<recordingWork, gsmCall>>
      BY <1>3 DEF vars, EventFrame, Started, Gone, Attached, Inv, IInv, InvStart, InvKnown, InvEnded
    <2> QED BY <1>1, <2>1, SameInv DEF Inv
  <1> QED BY <1>1, <1>2, <1>3 DEF Inv

-------------------------------------------------------------------------------
\* The inductive invariant holds while the socket takes what is sent.
LEMMA Invariance == NoBackpressure => (Spec => []Inv)
  <1>1. NoBackpressure /\ Init => Inv
    BY InitType, InitInv DEF Inv
  <1> QED BY <1>1, StepInv, PTL DEF Spec

\* The active recorder is always open and reserved under its own id, so no second
\* recorder can be reserved next to it, however answer(), the chain, the phone, a
\* lost link and stop() interleave.
THEOREM OwnerAlwaysReserved == NoBackpressure => (Spec => []OwnerReserved)
  <1>1. Inv => OwnerReserved
    BY DEF Inv, IInv
  <1> QED BY <1>1, Invariance, PTL

\* The speech session in use is a live one of the recorded call: no teardown leaves
\* one behind that would hear the next call.
THEOREM RealtimeAlwaysOwned == NoBackpressure => (Spec => []RealtimeOwned)
  <1>1. Inv => RealtimeOwned
    BY DEF Inv, IInv
  <1> QED BY <1>1, Invariance, PTL

\* Every open recorder is the active one or on its way to finalize, unless the audit
\* log fails.
THEOREM NoRecorderForgotten ==
  NoBackpressure /\ ~Faulty("audit") => (Spec => []NoOrphan)
  <1> SUFFICES ASSUME NoBackpressure, ~Faulty("audit") PROVE Spec => []NoOrphan
    OBVIOUS
  <1>1. Inv => NoOrphan
    BY DEF Inv, IInv
  <1> QED BY <1>1, Invariance, PTL

\* With one call at a time, a recording marked complete is one of a call that is over.
THEOREM CompleteIsOver ==
  NoBackpressure /\ ~CallWaiting => (Spec => []CompleteEnded)
  <1> SUFFICES ASSUME NoBackpressure, ~CallWaiting PROVE Spec => []CompleteEnded
    OBVIOUS
  <1>1. Inv => CompleteEnded
    BY DEF Inv, IInv, InvEnded
  <1> QED BY <1>1, Invariance, PTL

-------------------------------------------------------------------------------
(* The operations of a lost device *)

\* What a step that queues no such operation keeps.
LostFrame ==
  /\ \A i \in Places' :
       recordingWork'[i].kind = "lost" => \E j \in Places : recordingWork'[i] = recordingWork[j]
  /\ Started /\ ~connected => Started' /\ ~connected'
  /\ \/ activeRecorder' = activeRecorder /\ activeRealtime' = activeRealtime
     \/ activeRealtime' = None
     \/ connected

\* Such a step keeps InvLost.
LEMMA LostKept == ASSUME InvLost, LostFrame PROVE InvLost'
  <1> SUFFICES ASSUME NEW i \in Places', recordingWork'[i].kind = "lost"
               PROVE  /\ Started' /\ ~connected'
                      /\ activeRealtime' # None /\ activeRecorder' = recordingWork'[i].own
                           => recordingWork'[i].rt = activeRealtime'
    BY DEF InvLost
  <1>1. PICK j \in Places : recordingWork'[i] = recordingWork[j]
    BY DEF LostFrame
  <1>2. /\ Started /\ ~connected
        /\ activeRealtime # None /\ activeRecorder = recordingWork[j].own
             => recordingWork[j].rt = activeRealtime
    BY <1>1 DEF InvLost
  <1> QED BY <1>1, <1>2 DEF LostFrame

\* What the queue loses or gains is not such an operation.
LEMMA OldPlaces ==
  ASSUME Inv,
         \/ recordingWork' = recordingWork
         \/ recordingWork # <<>> /\ recordingWork' = Tail(recordingWork)
         \/ \E t \in Seq(Operation) : /\ recordingWork' = recordingWork \o t
                                      /\ \A k \in 1..Len(t) : t[k].kind # "lost"
  PROVE  \A i \in Places' :
           recordingWork'[i].kind = "lost" => \E j \in Places : recordingWork'[i] = recordingWork[j]
  <1>1. CASE recordingWork' = recordingWork
    BY <1>1 DEF Places
  <1>2. CASE recordingWork # <<>> /\ recordingWork' = Tail(recordingWork)
    BY <1>2, TailQueue
  <1>3. ASSUME NEW t \in Seq(Operation), recordingWork' = recordingWork \o t,
               \A k \in 1..Len(t) : t[k].kind # "lost"
        PROVE  \A i \in Places' :
                 recordingWork'[i].kind = "lost" =>
                   \E j \in Places : recordingWork'[i] = recordingWork[j]
    <2>1. /\ \A i \in Places : recordingWork'[i] = recordingWork[i]
          /\ \A i \in Places' \ Places : \E k \in 1..Len(t) : recordingWork'[i] = t[k]
      BY <1>3, ConcatQueue
    <2> QED BY <1>3, <2>1
  <1> QED BY <1>1, <1>2, <1>3

\* The same, for a step that queues one operation of another kind.
LEMMA OldPlacesGrow ==
  ASSUME Inv, NEW kind \in OpKinds, kind # "lost", NEW c \in Calls,
         recordingWork' = Append(recordingWork, Op(kind, c))
  PROVE  \A i \in Places' :
           recordingWork'[i].kind = "lost" => \E j \in Places : recordingWork'[i] = recordingWork[j]
  <1>1. PICK o : o = Op(kind, c)
    OBVIOUS
  <1>2. o \in Operation /\ o.kind = kind
    BY <1>1, CapturedOp
  <1>3. PICK t : t = <<o>>
    OBVIOUS
  <1>4. t \in Seq(Operation) /\ \A k \in 1..Len(t) : t[k].kind # "lost"
    BY <1>2, <1>3
  <1>5. recordingWork' = recordingWork \o t
    BY <1>1, <1>3 DEF Inv, TypeInv, TypeOK
  <1> QED BY <1>4, <1>5, OldPlaces

\* A device that is lost captures the speech session in use.
LEMMA DisconnectLost ==
  ASSUME Inv, InvLost, HandleDeviceDisconnect, UNCHANGED ownerVars, Started => Started',
         activeRecorder # None => Started
  PROVE  InvLost'
  <1>1. CASE recordingWork' = recordingWork
    <2>1. LostFrame
      BY <1>1, OldPlaces DEF LostFrame, HandleDeviceDisconnect
    <2> QED BY <2>1, LostKept
  <1>2. CASE ~(activeRecorder = None \/ activeRecordingCallId = None \/ teardownPending)
    <2>1. PICK o : o = Op("lost", activeRecordingCallId)
      OBVIOUS
    <2>2. o \in Operation /\ o.rt = activeRealtime
      <3>1. "lost" \in OpKinds /\ activeRecordingCallId \in Calls
        BY <1>2 DEF OpKinds, Inv, TypeInv, TypeOK, MaybeCall
      <3> QED BY <1>2, <2>1, <3>1, CapturedOp DEF Op
    <2>3. PICK t : t = <<o>>
      OBVIOUS
    <2>4. t \in Seq(Operation) /\ Len(t) = 1 /\ \A k \in 1..Len(t) : t[k] = o
      BY <2>2, <2>3
    <2>5. recordingWork' = recordingWork \o t
      <3>1. recordingWork' = Append(recordingWork, o)
        BY <1>2, <2>1 DEF HandleDeviceDisconnect
      <3> QED BY <2>3, <3>1 DEF Inv, TypeInv, TypeOK
    <2>6. /\ \A i \in Places : recordingWork'[i] = recordingWork[i]
          /\ \A i \in Places' \ Places : \E k \in 1..Len(t) : recordingWork'[i] = t[k]
      BY <2>4, <2>5, ConcatQueue
    <2>7. Started' /\ ~connected' /\ activeRealtime' = activeRealtime
          /\ activeRecorder' = activeRecorder
      BY <1>2 DEF HandleDeviceDisconnect
    <2>8. ASSUME NEW i \in Places', recordingWork'[i].kind = "lost"
          PROVE  activeRealtime' # None /\ activeRecorder' = recordingWork'[i].own
                   => recordingWork'[i].rt = activeRealtime'
      <3>1. CASE i \in Places
        BY <2>6, <2>7, <2>8, <3>1 DEF InvLost
      <3>2. CASE i \notin Places
        BY <2>2, <2>4, <2>6, <2>7, <3>2
      <3> QED BY <3>1, <3>2
    <2> QED BY <2>7, <2>8 DEF InvLost
  <1> QED BY <1>1, <1>2 DEF HandleDeviceDisconnect

\* No device event queues one, but the loss of the link.
LEMMA DeviceLost == ASSUME Inv, InvLost, DeviceStep PROVE InvLost'
  <1>1. /\ Started => Started'
        /\ UNCHANGED <<activeRecorder, activeRealtime>>
        /\ activeRecorder # None => Started
    BY DEF DeviceStep, RingEvent, ProgressEvent, EndedEvent, MediaFailureEvent, UnseenPhoneStep,
           LinkLost, Started, Inv, IInv, InvStart
  <1>2. CASE LinkLost
    BY <1>1, <1>2, DisconnectLost DEF LinkLost
  <1>3. ASSUME UNCHANGED connected,
               \A i \in Places' : recordingWork'[i].kind = "lost" =>
                 \E j \in Places : recordingWork'[i] = recordingWork[j]
        PROVE  InvLost'
    BY <1>1, <1>3, LostKept DEF LostFrame
  <1>4. ASSUME NEW c \in Calls, RingEvent(c) PROVE InvLost'
    <2>1. "incoming" \in OpKinds
      BY DEF OpKinds
    <2> QED BY <1>3, <1>4, <2>1, OldPlacesGrow DEF RingEvent
  <1>5. ASSUME NEW c \in Calls, ProgressEvent(c) PROVE InvLost'
    <2>1. PICK begins, noted : /\ begins = [kind |-> "begin", call |-> gsmCall', own |-> None,
                                            id |-> None, rt |-> None]
                               /\ noted = Op("append", gsmCall')
      OBVIOUS
    <2>2. gsmCall' \in Calls
      BY <1>5, TrackedType DEF ProgressEvent, Arrive, Connect, Move, Inv, TypeInv
    <2>3. begins \in Operation /\ begins.kind # "lost"
      BY <2>1, <2>2 DEF Operation, OpKinds, MaybeCall
    <2>4. noted \in Operation /\ noted.kind # "lost"
      <3>1. "append" \in OpKinds
        BY DEF OpKinds
      <3> QED BY <2>1, <2>2, <3>1, CapturedOp
    <2>5. PICK s, r : /\ recordingWork' = recordingWork \o s \o r
                      /\ s \in {<<>>, <<begins>>} /\ r \in {<<>>, <<noted>>}
      BY <1>5, <2>1 DEF ProgressEvent
    <2>6. PICK t : t = s \o r
      OBVIOUS
    <2>7. /\ <<begins>> \in Seq(Operation) /\ <<noted>> \in Seq(Operation)
          /\ <<>> \in Seq(Operation)
      BY <2>3, <2>4
    <2>8. s \in Seq(Operation) /\ r \in Seq(Operation)
      BY <2>5, <2>7
    <2>9. t \in Seq(Operation) /\ \A k \in 1..Len(t) : t[k].kind # "lost"
      <3>1. \A k \in 1..Len(s) : s[k].kind # "lost"
        BY <2>3, <2>5
      <3>2. \A k \in 1..Len(r) : r[k].kind # "lost"
        BY <2>4, <2>5
      <3> QED BY <2>6, <2>8, <3>1, <3>2
    <2>10. recordingWork' = recordingWork \o t
      <3>1. s \in Seq(Operation) /\ r \in Seq(Operation) /\ recordingWork \in Seq(Operation)
        BY <2>8 DEF Inv, TypeInv, TypeOK
      <3>2. (recordingWork \o s) \o r = recordingWork \o (s \o r)
        BY <3>1
      <3> QED BY <2>5, <2>6, <3>2
    <2> QED BY <1>3, <1>5, <2>9, <2>10, OldPlaces DEF ProgressEvent
  <1>6. ASSUME NEW c \in Calls, NEW kind \in TerminalEvents, HandleTerminal(kind, c),
               UNCHANGED connected
        PROVE  InvLost'
    <2>1. kind \in OpKinds /\ kind # "lost"
      BY DEF OpKinds, TerminalEvents
    <2> QED BY <1>3, <1>6, <2>1, OldPlaces, OldPlacesGrow DEF HandleTerminal
  <1>7. ASSUME NEW c \in Calls, EndedEvent(c) PROVE InvLost'
    <2>1. CASE gsmCall \in Calls
      BY <1>6, <1>7, <2>1 DEF EndedEvent, TerminalEvents
    <2>2. CASE gsmCall \notin Calls
      <3>1. recordingWork' = recordingWork
        BY <1>7, <2>2 DEF EndedEvent, HandleTerminal, Inv, TypeInv, TypeOK, MaybeCall, IInv, OwnerReserved
      <3> QED BY <1>3, <1>7, <3>1, OldPlaces DEF EndedEvent
    <2> QED BY <2>1, <2>2
  <1>8. ASSUME NEW c \in Calls, MediaFailureEvent(c) PROVE InvLost'
    <2>1. CASE recordingWork' = recordingWork
      BY <1>3, <1>8, <2>1, OldPlaces DEF MediaFailureEvent
    <2>2. CASE HandleTerminal("media_failure", c)
      BY <1>6, <1>8, <2>2 DEF MediaFailureEvent, TerminalEvents
    <2> QED BY <1>8, <2>1, <2>2 DEF MediaFailureEvent
  <1>9. ASSUME NEW c \in Calls, UnseenPhoneStep(c) PROVE InvLost'
    BY <1>3, <1>9, OldPlaces DEF UnseenPhoneStep
  <1> QED BY <1>2, <1>4, <1>5, <1>7, <1>8, <1>9 DEF DeviceStep

\* Nor does a request,
LEMMA RequestLost == ASSUME Inv, InvLost, RequestStep PROVE InvLost'
  <1>1. UNCHANGED <<activeRecorder, activeRealtime, starter, connected>>
    BY DEF RequestStep, QueueWrite, QueueTranscript, Dial, DialTimeout, Answer
  <1>2. \A i \in Places' : recordingWork'[i].kind = "lost" =>
          \E j \in Places : recordingWork'[i] = recordingWork[j]
    <2>1. {"append", "transcript"} \subseteq OpKinds
      BY DEF OpKinds
    <2>2. CASE QueueWrite
      <3>1. activeRecorder \in Calls
        BY <2>2 DEF QueueWrite, Inv, TypeInv, TypeOK, MaybeCall
      <3> QED BY <2>1, <2>2, <3>1, OldPlacesGrow DEF QueueWrite
    <2>3. ASSUME NEW c \in Calls, QueueTranscript(c)
          PROVE  \A i \in Places' : recordingWork'[i].kind = "lost" =>
                   \E j \in Places : recordingWork'[i] = recordingWork[j]
      BY <2>1, <2>3, OldPlacesGrow DEF QueueTranscript
    <2>4. CASE recordingWork' = recordingWork
      BY <2>4, OldPlaces
    <2> QED BY <2>2, <2>3, <2>4 DEF RequestStep, Dial, DialTimeout, Answer
  <1> QED BY <1>1, <1>2, LostKept DEF LostFrame, Started

\* an operation of the chain,
LEMMA ChainLost == ASSUME Inv, InvLost, ChainStep PROVE InvLost'
  <1>1. /\ UNCHANGED starter
        /\ connected' => connected
        /\ UNCHANGED <<activeRecorder, activeRealtime>> \/ activeRealtime' = None
    BY DEF ChainStep, StartOperation, RevocationSettled, IncomingResolved, OutgoingResolved,
           AppendSettled, FailActiveRecording, LossNoted, RecorderClosed, RecorderSealed, CopySettled,
           Disown
  <1>2. chain.at # "idle" \/ StartOperation => recordingWork # <<>>
    BY BusyChain DEF StartOperation
  <1>3. recordingWork' = recordingWork \/ recordingWork' = Tail(recordingWork)
    BY DEF ChainStep, StartOperation, RevocationSettled, IncomingResolved, OutgoingResolved,
           AppendSettled, FailActiveRecording, LossNoted, RecorderClosed, RecorderSealed, CopySettled,
           Pop
  <1>4. recordingWork # <<>>
    BY <1>2 DEF ChainStep, RevocationSettled, IncomingResolved, OutgoingResolved, AppendSettled,
       LossNoted, RecorderClosed, RecorderSealed, CopySettled
  <1>5. \A i \in Places' : recordingWork'[i].kind = "lost" =>
          \E j \in Places : recordingWork'[i] = recordingWork[j]
    BY <1>3, <1>4, OldPlaces
  <1> QED BY <1>1, <1>5, LostKept DEF LostFrame, Started

\* a begin (which attaches a speech session only while the phone is there),
LEMMA BeginLost == ASSUME Inv, InvLost, NEW w \in Workers, BeginStep(w) PROVE InvLost'
  <1>1. UNCHANGED starter /\ UNCHANGED connected
    BY DEF BeginStep, RecorderStarted, RealtimeCreated, RealtimeStarted, SessionAcknowledged,
           BeginUnwound, BeginSealed, AnswerSent
  <1>2. \A i \in Places' : recordingWork'[i].kind = "lost" =>
          \E j \in Places : recordingWork'[i] = recordingWork[j]
    <2>1. begin[w].at # "idle"
      BY DEF BeginStep, RecorderStarted, RealtimeCreated, RealtimeStarted, SessionAcknowledged,
             BeginUnwound, BeginSealed, AnswerSent
    <2>2. \/ recordingWork' = recordingWork
          \/ w = Chain /\ recordingWork' = Tail(recordingWork)
      BY DEF BeginStep, RecorderStarted, RealtimeCreated, RealtimeStarted, SessionAcknowledged,
             BeginUnwound, BeginSealed, AnswerSent, EndBegin, Pop, StayInChain, AbandonRecorder
    <2>3. w = Chain => recordingWork # <<>>
      BY <2>1, BusyChain DEF Inv, IInv, InvBegin
    <2> QED BY <2>2, <2>3, OldPlaces
  <1>3. \/ activeRecorder' = activeRecorder /\ activeRealtime' = activeRealtime
        \/ activeRealtime' = None
        \/ connected
    <2>1. CASE RecorderStarted(w)
      <3>1. activeRecorder = None
        BY <2>1 DEF RecorderStarted, Inv, IInv, InvReservation, AtStart
      <3>2. activeRealtime = None
        BY <3>1, NamesAssumption DEF Inv, TypeInv, TypeOK, IInv, RealtimeOwned, MaybeCall
      <3> QED BY <2>1, <3>2 DEF RecorderStarted
    <2>2. CASE RealtimeStarted(w)
      BY <2>2 DEF RealtimeStarted, SendResults, Disown, AbandonRecorder
    <2> QED BY <2>1, <2>2 DEF BeginStep, RealtimeCreated, SessionAcknowledged, BeginUnwound,
               BeginSealed, AnswerSent, Disown, AbandonRecorder
  <1> QED BY <1>1, <1>2, <1>3, LostKept DEF LostFrame, Started

\* nor start() and stop(), but for the device they disconnect.
LEMMA LifeLost == ASSUME Inv, InvLost, Start \/ StartStep \/ StopCalled \/ StopStep PROVE InvLost'
  <1>1. ASSUME UNCHANGED recordingWork, Started /\ ~connected => Started' /\ ~connected',
               UNCHANGED <<activeRecorder, activeRealtime>> \/ activeRealtime' = None
        PROVE  InvLost'
    BY <1>1, OldPlaces, LostKept DEF LostFrame
  <1>2. CASE Start \/ StopCalled \/ StartConnected \/ StartFinished
    BY <1>1, <1>2 DEF Start, StopCalled, StartConnected, StartFinished, Started
  <1>3. activeRecorder # None => Started
    BY DEF Inv, IInv, InvStart
  <1>4. CASE StartFailed
    BY <1>1, <1>3, <1>4, DisconnectLost DEF StartFailed, Started
  <1>5. ASSUME FinishStop, UNCHANGED <<ownerVars, starter>> PROVE InvLost'
    BY <1>1, <1>3, <1>5, DisconnectLost DEF FinishStop, Started
  <1>6. CASE StopDrained
    BY <1>1, <1>5, <1>6 DEF StopDrained, Disown, Started
  <1>7. CASE StopFinished
    BY <1>5, <1>7 DEF StopFinished
  <1>8. CASE StopRevoked \/ StopClosed
    BY <1>1, <1>8 DEF StopRevoked, StopClosed, Disown, Started
  <1> QED BY <1>2, <1>4, <1>6, <1>7, <1>8 DEF StartStep, StopStep
-------------------------------------------------------------------------------
(* The revocation of stop() *)

\* While stop() revokes, no begin and no operation of the chain goes on.
LEMMA RevokingAlone ==
  ASSUME Inv, Next, stop.at = "revoke"
  PROVE  StopRevoked \/ UNCHANGED <<ownerVars, stop, chain, begin, recordingWork, session, artifactVars>>
  <1>1. sends = <<"stop">> /\ ~Settled
    <2>1. sends = <<"stop">>
      BY DEF Inv, IInv, InvSends
    <2> QED BY <2>1, SettledSends
  <1>2. \A w \in Workers : begin[w].at \notin {"ack", "answer"}
    BY <1>1, NamesAssumption DEF Inv, IInv, InvSends, Workers
  <1>3. chain.at # "revoke" /\ (chain.at = "idle" => recordingWork = <<>>)
    BY <1>1, NamesAssumption DEF Inv, IInv, InvSends, InvStop
  <1>4. ~ChainStep
    BY <1>1, <1>3 DEF ChainStep, StartOperation, RevocationSettled
  <1>5. \A w \in Workers : ~BeginStep(w)
    BY <1>1, <1>2 DEF BeginStep
  <1>6. ~RequestStep /\ ~Start /\ ~StartStep /\ ~StopCalled
    BY <1>1 DEF RequestStep, QueueWrite, QueueTranscript, Dial, DialTimeout, Answer, Start, StartStep,
       StartConnected, StartFinished, StartFailed, StopCalled
  <1>7. StopStep => StopRevoked
    BY <1>1 DEF StopStep
  <1>8. DeviceStep =>
          UNCHANGED <<ownerVars, stop, chain, begin, recordingWork, session, artifactVars>>
    BY <1>1 DEF DeviceStep, RingEvent, ProgressEvent, EndedEvent, MediaFailureEvent, EventArrives,
       UnseenPhoneStep, LinkLost
  <1> QED BY <1>4, <1>5, <1>6, <1>7, <1>8 DEF Next

\* stop() begins to revoke with what it captured.
LEMMA RevokingEntered ==
  ASSUME Inv, Next, stop.at # "revoke", stop'.at = "revoke"
  PROVE  stop'.rt = activeRealtime'
  <1>1. stop \in StopStates
    BY DEF Inv, TypeInv, TypeOK
  <1>2. stop' # stop
    OBVIOUS
  <1>3. ~Pop
    BY <1>1 DEF Pop, StopStates
  <1>4. ~DeviceStep /\ ~RequestStep /\ ~Start /\ ~StartStep
    BY <1>2 DEF DeviceStep, RingEvent, ProgressEvent, EndedEvent, MediaFailureEvent, UnseenPhoneStep,
       LinkLost, RequestStep, QueueWrite, QueueTranscript, Dial, DialTimeout, Answer, Start,
       StartStep, StartConnected, StartFinished, StartFailed
  <1>5. ~ChainStep
    BY <1>2, <1>3 DEF ChainStep, StartOperation, RevocationSettled, IncomingResolved,
       OutgoingResolved, AppendSettled, FailActiveRecording, LossNoted, RecorderClosed,
       RecorderSealed, CopySettled
  <1>6. ASSUME NEW w \in Workers PROVE ~BeginStep(w)
    BY <1>2, <1>3 DEF BeginStep, RecorderStarted, RealtimeCreated, RealtimeStarted,
       SessionAcknowledged, BeginUnwound, BeginSealed, AnswerSent, EndBegin, StayInChain,
       AbandonRecorder
  <1>7. ~StopCalled
    <2> SUFFICES ASSUME StopCalled PROVE FALSE
      OBVIOUS
    <2>1. stop' = [IdleStop EXCEPT !.at = "drain", !.wait = Len(recordingWork)]
      BY DEF StopCalled
    <2>2. stop'.at = "drain"
      BY <2>1 DEF IdleStop
    <2> QED BY <2>2
  <1>8. ~FinishStop
    BY DEF FinishStop, IdleStop
  <1>9. ~StopRevoked /\ ~StopClosed /\ ~StopFinished
    BY <1>1, <1>8 DEF StopRevoked, StopClosed, StopFinished, StopStates
  <1>10. StopDrained
    BY <1>4, <1>5, <1>6, <1>7, <1>9 DEF Next, StopStep
  <1>11. PICK sent \in BOOLEAN :
           /\ stop' = [at |-> IF sent THEN "revoke" ELSE "close", wait |-> 0,
                       rec |-> activeRecorder, rt |-> activeRealtime]
           /\ IF sent THEN UNCHANGED ownerVars ELSE Disown
    BY <1>8, <1>10, SendResultsType DEF StopDrained
  <1> QED BY <1>11

\* So the speech session in use is the one that stop() will close.
LEMMA StepRevoking == ASSUME Inv, InvRevoking, [Next]_vars PROVE InvRevoking'
  <1> SUFFICES ASSUME stop'.at = "revoke" PROVE stop'.rt = activeRealtime'
    BY DEF InvRevoking
  <1>1. CASE UNCHANGED vars
    BY <1>1 DEF vars, InvRevoking
  <1>2. CASE Next /\ stop.at # "revoke"
    BY <1>2, RevokingEntered
  <1>3. CASE Next /\ stop.at = "revoke"
    <2>1. ~StopRevoked
      <3> SUFFICES ASSUME StopRevoked PROVE FALSE
        OBVIOUS
      <3>1. stop' = [stop EXCEPT !.at = "close"]
        BY DEF StopRevoked
      <3> QED BY <3>1 DEF Inv, TypeInv, TypeOK, StopStates
    <2> QED BY <1>3, <2>1, RevokingAlone DEF InvRevoking
  <1> QED BY <1>1, <1>2, <1>3
-------------------------------------------------------------------------------
(* Who closes a speech session *)

Holds(c) == chain.at \in {"revoke", "note", "close"} /\ chain.held = c
Closes(c) == stop.at = "close" /\ stop.rt = c
Unwinds(c) == \E w \in Workers : begin[w].at = "unwind" /\ begin[w].call = c
Keeper(c) == activeRealtime = c \/ Holds(c) \/ Closes(c) \/ Unwinds(c)

\* Every live speech session has a keeper.
LEMMA KeptIsReleased == RealtimeReleased <=> \A c \in Calls : rts[c] = "live" => Keeper(c)
  BY DEF RealtimeReleased, Keeper, Holds, Closes, Unwinds

\* A step that starts no session and hands over what it gives up.
LEMMA ReleasedKept ==
  ASSUME RealtimeReleased,
         \A c \in Calls : rts'[c] = "live" /\ rts[c] # "live" => Keeper(c)',
         \A c \in Calls : activeRealtime = c /\ rts'[c] = "live" => Keeper(c)',
         \A c \in Calls : Holds(c) /\ rts'[c] = "live" => Keeper(c)',
         \A c \in Calls : Closes(c) /\ rts'[c] = "live" => Keeper(c)',
         \A c \in Calls : Unwinds(c) /\ rts'[c] = "live" => Keeper(c)'
  PROVE  RealtimeReleased'
  <1>1. \A c \in Calls : rts[c] = "live" => Keeper(c)
    BY KeptIsReleased
  <1>2. \A c \in Calls : rts'[c] = "live" => Keeper(c)'
    BY <1>1 DEF Keeper
  <1> QED BY <1>2 DEF RealtimeReleased, Keeper, Holds, Closes, Unwinds

\* A step that leaves all four alone.
LEMMA ReleasedFrame ==
  ASSUME RealtimeReleased, rts' = rts, activeRealtime' = activeRealtime,
         chain' = chain \/ chain.at \notin {"revoke", "note", "close"},
         \/ UNCHANGED <<stop>>
         \/ stop.at # "close",
         \A w \in Workers : begin[w].at = "unwind" => begin'[w] = begin[w]
  PROVE  RealtimeReleased'
  <1>1. \A c \in Calls : Holds(c) => Holds(c)'
    BY DEF Holds
  <1>2. \A c \in Calls : Closes(c) => Closes(c)'
    BY DEF Closes
  <1>3. \A c \in Calls : Unwinds(c) => Unwinds(c)'
    BY DEF Unwinds
  <1> QED BY <1>1, <1>2, <1>3, ReleasedKept DEF Keeper

\* The end of an operation takes nothing from stop().
LEMMA PopStop == ASSUME Inv, Pop PROVE stop'.at = stop.at /\ stop'.rt = stop.rt
  BY DEF Pop, Inv, TypeInv, TypeOK, StopStates

\* The same, for a step after which stop() is where it was.
LEMMA ReleasedChain ==
  ASSUME Inv, RealtimeReleased, UNCHANGED stop \/ Pop, UNCHANGED begin,
         \A c \in Calls : rts'[c] = "live" => rts[c] = "live",
         \A c \in Calls : activeRealtime = c /\ rts'[c] = "live" => Keeper(c)',
         \A c \in Calls : Holds(c) /\ rts'[c] = "live" => Keeper(c)'
  PROVE  RealtimeReleased'
  <1>1. \A c \in Calls : Closes(c) => Closes(c)'
    BY PopStop DEF Closes
  <1>2. \A c \in Calls : Unwinds(c) => Unwinds(c)'
    BY DEF Unwinds
  <1> QED BY <1>1, <1>2, ReleasedKept DEF Keeper

\* The operations of the chain: a teardown closes the session that its owner had.
LEMMA ChainReleased ==
  ASSUME Inv, InvLost, RealtimeReleased, ~Faulty("audit"), ChainStep
  PROVE  RealtimeReleased'
  <1>1. ASSUME UNCHANGED <<rts, activeRealtime, begin>>, UNCHANGED stop \/ Pop,
               chain.at \notin {"revoke", "note", "close"}
        PROVE  RealtimeReleased'
    BY <1>1, ReleasedChain DEF Holds, Keeper
  <1>2. ASSUME UNCHANGED <<rts, activeRealtime, begin, stop>>, Await("close"),
               chain.at \in {"revoke", "note"}
        PROVE  RealtimeReleased'
    <2>1. chain'.at = "close" /\ chain'.held = chain.held
      BY <1>2 DEF Await, Inv, TypeInv, TypeOK, ChainStates
    <2> QED BY <1>2, <2>1, ReleasedChain DEF Holds, Keeper
  <1>3. CASE StartOperation
    <2>1. recordingWork # <<>> /\ chain.at = "idle"
      BY <1>3 DEF StartOperation
    <2>2. CASE UNCHANGED ownerVars
      BY <1>1, <1>3, <2>1, <2>2 DEF StartOperation
    <2>3. ASSUME Running.own = None \/ StillOwned(Running), Running.kind = "lost",
                 chain' = [at |-> "note", why |-> "transport_lost",
                           held |-> IF Running.rt = Running.id THEN Running.rt ELSE None],
                 UNCHANGED <<stop, begin, rts>>
          PROVE  RealtimeReleased'
      <3>1. /\ Running.own # None /\ Running.id = Running.own
            /\ activeRealtime # None /\ activeRecorder = Running.own =>
                 Running.rt = activeRealtime
        BY <2>1, <2>3, RunningInv DEF OpInv, InvLost
      <3>2. activeRealtime # None => activeRealtime = Running.own /\ Running.rt = Running.id
        BY <2>3, <3>1 DEF StillOwned, Inv, IInv, RealtimeOwned
      <3>3. \A c \in Calls : activeRealtime = c => Holds(c)'
        BY <2>3, <3>1, <3>2, NamesAssumption DEF Holds
      <3> QED BY <2>1, <2>3, <3>3, ReleasedChain DEF Keeper, Holds
    <2> QED BY <1>3, <2>2, <2>3 DEF StartOperation
  <1>4. CASE IncomingResolved \/ CopySettled \/ RecorderSealed
    BY <1>1, <1>4 DEF IncomingResolved, CopySettled, RecorderSealed
  <1>5. CASE OutgoingResolved
    <2>1. begin[Chain].at = "idle"
      BY <1>5 DEF OutgoingResolved, Inv, IInv, InvBegin
    <2>2. \A w \in Workers : begin[w].at = "unwind" => begin'[w] = begin[w]
      BY <1>5, <2>1 DEF OutgoingResolved, Inv, TypeInv, TypeOK
    <2>3. \A c \in Calls : Unwinds(c) => Unwinds(c)'
      BY <2>2 DEF Unwinds
    <2>4. \A c \in Calls : Closes(c) => Closes(c)'
      BY <1>5, PopStop DEF OutgoingResolved, Closes
    <2> QED BY <1>5, <2>3, <2>4, ReleasedKept DEF OutgoingResolved, Holds, Keeper
  <1>6. CASE AppendSettled
    <2>1. /\ recordingWork # <<>> /\ chain.at = "append" /\ UNCHANGED <<rts, begin>>
          /\ OpInv(Running)
      BY <1>6, BusyChain, RunningInv DEF AppendSettled
    <2>2. ASSUME NEW held, NEW at \in {"revoke", "close"}, NEW why,
                 chain' = [at |-> at, why |-> why, held |-> held],
                 UNCHANGED stop, activeRealtime \in {None, held}
          PROVE  RealtimeReleased'
      <3>1. \A c \in Calls : activeRealtime = c => Holds(c)'
        BY <2>2, NamesAssumption DEF Holds
      <3> QED BY <2>1, <2>2, <3>1, ReleasedChain DEF Keeper, Holds
    <2>3. ASSUME FailActiveRecording(Running), Running.own # None, StillOwned(Running)
          PROVE  RealtimeReleased'
      <3>1. activeRealtime \in {None, Running.id}
        BY <2>1, <2>3 DEF OpInv, StillOwned, Inv, IInv, RealtimeOwned
      <3>2. activeRealtime \in
              {None, IF Running.id \in {activeRealtime, Running.rt} THEN Running.id ELSE None}
        BY <3>1
      <3> QED BY <2>2, <2>3, <3>2 DEF FailActiveRecording
    <2>4. ASSUME Running.kind \in TerminalEvents,
                 \E sent \in SendResults :
                   chain' = [at |-> IF sent THEN "revoke" ELSE "close", why |-> Running.kind,
                             held |-> IF activeRealtime = Running.call
                                      THEN Running.call ELSE None],
                 UNCHANGED stop
          PROVE  RealtimeReleased'
      <3>1. activeRealtime \in {None, Running.call}
        <4>1. Running.own = Running.call
          BY <2>1, <2>4 DEF OpInv
        <4>2. activeRecorder \in {None, Running.own}
          BY <2>1, <2>4 DEF Inv, IInv, InvChain, StillOwned
        <4> QED BY <4>1, <4>2, NamesAssumption DEF Inv, IInv, RealtimeOwned, TypeInv, TypeOK, MaybeCall
      <3>2. activeRealtime \in
              {None, IF activeRealtime = Running.call THEN Running.call ELSE None}
        BY <3>1
      <3> QED BY <2>2, <2>4, <3>2
    <2>5. CASE UNCHANGED activeRealtime /\ Pop
      BY <1>1, <2>1, <2>5
    <2>6. CASE FailActiveRecording(Running)
      BY <2>3, <2>5, <2>6 DEF FailActiveRecording
    <2> QED BY <1>6, <2>4, <2>5, <2>6 DEF AppendSettled
  <1>7. CASE RevocationSettled
    BY <1>2, <1>7 DEF RevocationSettled
  <1>8. CASE LossNoted
    BY <1>2, <1>8 DEF LossNoted
  <1>9. CASE RecorderClosed
    <2>1. \A c \in Calls : /\ rts'[c] = "live" => rts[c] = "live"
                           /\ chain.held = c => rts'[c] # "live"
      BY <1>9, NamesAssumption DEF RecorderClosed, CloseRealtime, Inv, TypeInv, TypeOK
    <2>2. UNCHANGED <<begin, activeRealtime>> /\ (UNCHANGED stop \/ Pop)
      BY <1>9 DEF RecorderClosed
    <2> QED BY <2>1, <2>2, ReleasedChain DEF Keeper, Holds
  <1> QED BY <1>3, <1>4, <1>5, <1>6, <1>7, <1>8, <1>9 DEF ChainStep

\* A step of one begin: the others unwind as before.
LEMMA ReleasedBegin ==
  ASSUME Inv, RealtimeReleased, NEW w \in Workers, NEW c \in Calls, c = begin[w].call,
         UNCHANGED stop \/ Pop,
         \/ UNCHANGED chain
         \/ w = Chain /\ Pop /\ begin[w].at # "idle",
         \A v \in Workers : v # w => begin'[v] = begin[v],
         \A d \in Calls : d # c => rts'[d] = rts[d],
         \A d \in Calls : activeRealtime = d => activeRealtime' = d,
         rts'[c] = "live" => Keeper(c)'
  PROVE  RealtimeReleased'
  <1>1. \A d \in Calls : Closes(d) => Closes(d)'
    BY PopStop DEF Closes
  <1>2. \A d \in Calls : d # c /\ Unwinds(d) => Unwinds(d)'
    BY DEF Unwinds
  <1>3. \A d \in Calls : Holds(d) => Holds(d)'
    BY DEF Holds, Inv, IInv, InvBegin
  <1>4. \A d \in Calls : d # c /\ rts'[d] = "live" => Keeper(d)'
    BY <1>1, <1>2, <1>3, KeptIsReleased DEF Keeper
  <1> QED BY <1>4 DEF RealtimeReleased, Keeper, Holds, Closes, Unwinds

\* How the end of a begin changes the rest.
LEMMA EndBeginFrame ==
  ASSUME Inv, NEW w \in Workers, NEW success \in BOOLEAN, EndBegin(w, success)
  PROVE  /\ \A v \in Workers : v # w => begin'[v] = begin[v]
         /\ UNCHANGED stop \/ Pop
         /\ UNCHANGED chain \/ (w = Chain /\ Pop)
  BY DEF EndBegin, Inv, TypeInv, TypeOK

\* How a begin goes on to its next await.
LEMMA GotoFrame ==
  ASSUME Inv, NEW w \in Workers, NEW label, Goto(w, label)
  PROVE  /\ \A v \in Workers : v # w => begin'[v] = begin[v]
         /\ begin'[w].at = label /\ begin'[w].call = begin[w].call
  BY DEF Goto, Inv, TypeInv, TypeOK, BeginStates

\* A begin that fails closes its own session, or hands it to its own unwinding.
LEMMA BeginReleased ==
  ASSUME Inv, RealtimeReleased, NEW w \in Workers, BeginStep(w)
  PROVE  RealtimeReleased'
  <1>1. PICK c : c = begin[w].call
    OBVIOUS
  <1>2. begin[w].at # "idle" /\ c \in Calls /\ (AtStart(w) => activeRecorder = None)
    BY <1>1 DEF BeginStep, RecorderStarted, RealtimeCreated, RealtimeStarted, SessionAcknowledged,
       BeginUnwound, BeginSealed, AnswerSent, Inv, IInv, InvBegin, InvReservation
  <1>3. activeRealtime # None => activeRealtime = activeRecorder
    BY DEF Inv, IInv, RealtimeOwned
  \* the session of c stays with its keeper
  <1>4. ASSUME NEW success \in BOOLEAN, EndBegin(w, success), UNCHANGED <<rts, activeRealtime>>,
               begin[w].at # "unwind"
        PROVE  RealtimeReleased'
    <2>1. /\ \A v \in Workers : v # w => begin'[v] = begin[v]
          /\ UNCHANGED stop \/ Pop
          /\ UNCHANGED chain \/ (w = Chain /\ Pop)
      BY <1>4, EndBeginFrame
    <2>2. Closes(c) => Closes(c)'
      BY <2>1, PopStop DEF Closes
    <2>3. Unwinds(c) => Unwinds(c)'
      BY <1>4, <2>1 DEF Unwinds
    <2>4. Holds(c) => Holds(c)'
      BY <1>2, <2>1 DEF Holds, Inv, IInv, InvBegin
    <2>5. rts'[c] = "live" => Keeper(c)'
      BY <1>2, <1>4, <2>2, <2>3, <2>4, KeptIsReleased DEF Keeper
    <2> QED BY <1>1, <1>2, <1>4, <2>1, <2>5, ReleasedBegin
  <1>5. ASSUME NEW label, Goto(w, label), StayInChain, UNCHANGED <<rts, activeRealtime>>,
               begin[w].at # "unwind"
        PROVE  RealtimeReleased'
    <2>1. \A v \in Workers : v # w => begin'[v] = begin[v]
      BY <1>5, GotoFrame
    <2>2. Unwinds(c) => Unwinds(c)'
      BY <1>5, <2>1 DEF Unwinds
    <2>3. rts'[c] = "live" => Keeper(c)'
      BY <1>2, <1>5, <2>2, KeptIsReleased DEF Keeper, Holds, Closes, StayInChain
    <2> QED BY <1>1, <1>2, <1>5, <2>1, <2>3, ReleasedBegin DEF StayInChain
  \* a begin that abandons its recorder had no session in use
  <1>6. ASSUME Owns(c), Opening(w), AbandonRecorder(w, c), UNCHANGED rts
        PROVE  RealtimeReleased'
    <2>1. activeRealtime = None
      BY <1>1, <1>3, <1>6 DEF Owns, Opening, Inv, IInv, InvBegin
    <2> QED BY <1>5, <1>6, <2>1 DEF AbandonRecorder, Disown, Opening
  <1>7. CASE RecorderStarted(w)
    BY <1>4, <1>5, <1>7 DEF RecorderStarted
  <1>8. CASE RealtimeCreated(w)
    BY <1>1, <1>4, <1>5, <1>6, <1>8 DEF RealtimeCreated, Opening
  <1>9. CASE RealtimeStarted(w)
    <2>1. begin[w].at = "attach" /\ Opening(w)
      BY <1>9 DEF RealtimeStarted, Opening
    <2>2. ASSUME rts' = [rts EXCEPT ![c] = "closed"], EndBegin(w, FALSE), UNCHANGED ownerVars
          PROVE  RealtimeReleased'
      <3>1. \A d \in Calls : rts'[d] = IF d = c THEN "closed" ELSE rts[d]
        BY <2>2 DEF Inv, TypeInv, TypeOK
      <3>2. FALSE \in BOOLEAN
        OBVIOUS
      <3>3. /\ \A v \in Workers : v # w => begin'[v] = begin[v]
            /\ UNCHANGED stop \/ Pop
            /\ UNCHANGED chain \/ (w = Chain /\ Pop)
        BY <2>2, <3>2, EndBeginFrame
      <3>4. UNCHANGED activeRealtime /\ rts'[c] # "live"
        BY <1>2, <2>2, <3>1
      <3> QED BY <1>1, <1>2, <3>1, <3>3, <3>4, ReleasedBegin
    <2>3. ASSUME activeRecorder # None, activeRecordingCallId = c,
                 rts' = [rts EXCEPT ![c] = "live"], StayInChain,
                 \/ activeRealtime' = c /\ Goto(w, "ack")
                 \/ Disown /\ Goto(w, "unwind")
          PROVE  RealtimeReleased'
      <3>1. activeRealtime = None
        BY <1>1, <1>3, <2>1, <2>3 DEF Inv, IInv, OwnerReserved, InvBegin
      <3>2. \A d \in Calls : d # c => rts'[d] = rts[d]
        BY <2>3 DEF Inv, TypeInv, TypeOK
      <3>3. Keeper(c)'
        BY <1>1, <2>3, GotoFrame DEF Keeper, Unwinds
      <3>4. \A v \in Workers : v # w => begin'[v] = begin[v]
        BY <2>3, GotoFrame
      <3> QED BY <1>1, <1>2, <2>3, <3>1, <3>2, <3>3, <3>4, NamesAssumption, ReleasedBegin
          DEF StayInChain
    <2>4. CASE Owns(c) /\ AbandonRecorder(w, c) /\ UNCHANGED rts
      BY <1>6, <2>1, <2>4
    <2>5. CASE EndBegin(w, FALSE) /\ UNCHANGED <<ownerVars, rts>>
      BY <1>4, <2>1, <2>5
    <2> QED BY <1>1, <1>9, <2>2, <2>3, <2>4, <2>5 DEF RealtimeStarted
  <1>10. CASE SessionAcknowledged(w)
    <2>1. ASSUME Owns(c), Disown, Goto(w, "unwind"), StayInChain, UNCHANGED rts
          PROVE  RealtimeReleased'
      <3>1. activeRealtime \in {None, c}
        BY <1>3, <2>1 DEF Owns
      <3>2. Keeper(c)'
        BY <1>1, <2>1, GotoFrame DEF Keeper, Unwinds
      <3>3. \A v \in Workers : v # w => begin'[v] = begin[v]
        BY <2>1, GotoFrame
      <3>4. \A d \in Calls : activeRealtime = d => d = c
        BY <3>1, NamesAssumption
      <3>5. \A d \in Calls : d # c /\ Unwinds(d) => Unwinds(d)'
        BY <1>1, <3>3 DEF Unwinds
      <3>6. \A d \in Calls : rts'[d] = "live" => Keeper(d)'
        BY <2>1, <3>2, <3>4, <3>5, KeptIsReleased DEF Keeper, Holds, Closes, StayInChain
      <3> QED BY <3>6 DEF RealtimeReleased, Keeper, Holds, Closes, Unwinds
    <2>2. begin[w].at = "ack" /\ UNCHANGED rts
      BY <1>10 DEF SessionAcknowledged
    <2> QED BY <1>1, <1>4, <1>10, <2>1, <2>2 DEF SessionAcknowledged
  <1>11. CASE BeginUnwound(w)
    <2>1. /\ CloseRealtime(c) /\ Goto(w, "seal") /\ StayInChain /\ UNCHANGED activeRealtime
      BY <1>1, <1>11 DEF BeginUnwound
    <2>2. \A d \in Calls : rts'[d] = IF d = c THEN "closed" ELSE rts[d]
      BY <1>2, <2>1, NamesAssumption DEF CloseRealtime, Inv, TypeInv, TypeOK
    <2>3. \A v \in Workers : v # w => begin'[v] = begin[v]
      BY <2>1, GotoFrame
    <2> QED BY <1>1, <1>2, <2>1, <2>2, <2>3, ReleasedBegin DEF StayInChain
  <1>12. CASE BeginSealed(w)
    BY <1>4, <1>12 DEF BeginSealed
  <1>13. CASE AnswerSent(w)
    <2>1. \A v \in Workers : v # w => begin'[v] = begin[v]
      BY <1>13 DEF AnswerSent, Inv, TypeInv, TypeOK
    <2>2. \A v \in Workers : begin[v].at = "unwind" => begin'[v] = begin[v]
      BY <1>13, <2>1 DEF AnswerSent
    <2> QED BY <1>13, <2>2, ReleasedFrame DEF AnswerSent, StayInChain
  <1> QED BY <1>7, <1>8, <1>9, <1>10, <1>11, <1>12, <1>13 DEF BeginStep

\* stop() closes the session that it captured, or that is in use when it disowns.
LEMMA StopReleased ==
  ASSUME Inv, InvRevoking, RealtimeReleased, StopStep
  PROVE  RealtimeReleased'
  <1>1. ASSUME stop.at # "close", UNCHANGED <<rts, chain, begin, activeRealtime>>
        PROVE  RealtimeReleased'
    BY <1>1, ReleasedFrame
  <1>2. ASSUME stop.at # "close", stop'.at = "close", UNCHANGED <<rts, chain, begin>>,
               stop'.rt = activeRealtime
        PROVE  RealtimeReleased'
    BY <1>2, ReleasedKept DEF Keeper, Holds, Closes, Unwinds
  <1>3. CASE StopDrained
    <2>1. stop.at = "drain" /\ UNCHANGED <<rts, chain, begin>>
      BY <1>3 DEF StopDrained
    <2>2. CASE UNCHANGED activeRealtime
      BY <1>1, <2>1, <2>2
    <2>3. ASSUME NEW sent \in BOOLEAN, ~sent,
                 stop' = [at |-> IF sent THEN "revoke" ELSE "close", wait |-> 0,
                          rec |-> activeRecorder, rt |-> activeRealtime]
          PROVE  RealtimeReleased'
      BY <1>2, <2>1, <2>3
    <2> QED BY <1>3, <2>2, <2>3, SendResultsType DEF StopDrained
  <1>4. CASE StopRevoked
    <2>1. stop' = [stop EXCEPT !.at = "close"] /\ UNCHANGED <<rts, chain, begin>>
      BY <1>4 DEF StopRevoked
    <2>2. stop'.at = "close" /\ stop'.rt = stop.rt
      BY <2>1 DEF Inv, TypeInv, TypeOK, StopStates
    <2> QED BY <1>2, <1>4, <2>1, <2>2 DEF StopRevoked, InvRevoking
  <1>5. CASE StopClosed
    <2>1. \A c \in Calls : /\ rts'[c] = "live" => rts[c] = "live"
                           /\ stop.rt = c => rts'[c] # "live"
      BY <1>5, NamesAssumption DEF StopClosed, CloseRealtime, Inv, TypeInv, TypeOK
    <2>2. UNCHANGED <<chain, begin, activeRealtime>>
      BY <1>5 DEF StopClosed
    <2> QED BY <2>1, <2>2, ReleasedKept DEF Keeper, Holds, Closes, Unwinds
  <1>6. CASE StopFinished
    BY <1>1, <1>6 DEF StopFinished
  <1> QED BY <1>3, <1>4, <1>5, <1>6 DEF StopStep

\* The rest leaves the sessions alone.
LEMMA CalmReleased ==
  ASSUME Inv, RealtimeReleased, DeviceStep \/ RequestStep \/ Start \/ StartStep \/ StopCalled
  PROVE  RealtimeReleased'
  <1>1. UNCHANGED <<rts, chain, activeRealtime>> /\ (UNCHANGED stop \/ stop.at # "close")
    BY DEF DeviceStep, RingEvent, ProgressEvent, EndedEvent, MediaFailureEvent, UnseenPhoneStep,
       LinkLost, RequestStep, QueueWrite, QueueTranscript, Dial, DialTimeout, Answer, Start,
       StartStep, StartConnected, StartFinished, StartFailed, StopCalled
  <1>2. ASSUME NEW w \in Clients, NEW c \in Incoming, Answer(w, c)
        PROVE  \A v \in Workers : begin[v].at = "unwind" => begin'[v] = begin[v]
    <2>1. PICK label \in {"start", "answer"} : begin' = [begin EXCEPT ![w] = [at |-> label, call |-> c]]
      BY <1>2 DEF Answer
    <2>2. begin[w].at = "idle" /\ w \in Workers
      BY <1>2 DEF Answer, Workers
    <2> QED BY <2>1, <2>2 DEF Inv, TypeInv, TypeOK
  <1>3. \A v \in Workers : begin[v].at = "unwind" => begin'[v] = begin[v]
    BY <1>2 DEF DeviceStep, RingEvent, ProgressEvent, EndedEvent, MediaFailureEvent, UnseenPhoneStep,
       LinkLost, RequestStep, QueueWrite, QueueTranscript, Dial, DialTimeout, Start,
       StartStep, StartConnected, StartFinished, StartFailed, StopCalled
  <1> QED BY <1>1, <1>3, ReleasedFrame

\* At first nothing is held.
LEMMA InitReleasing == Init => Releasing
  <1> SUFFICES ASSUME Init PROVE Releasing
    OBVIOUS
  <1>1. Places = {} /\ stop.at = "idle" /\ \A c \in Calls : rts[c] = "none"
    BY DEF Init, Places, IdleStop
  <1> QED BY <1>1 DEF Releasing, InvLost, InvRevoking, RealtimeReleased

\* Every step keeps the three together.
LEMMA StepReleasing == ASSUME Inv, Releasing, [Next]_vars PROVE Releasing'
  <1>1. CASE UNCHANGED vars
    <2>1. UNCHANGED <<recordingWork, starter, connected, activeRealtime, activeRecorder>>
      BY <1>1 DEF vars
    <2>2. InvLost'
      BY <2>1, OldPlaces, LostKept DEF LostFrame, Started, Releasing
    <2>3. RealtimeReleased => RealtimeReleased'
      BY <1>1, ReleasedFrame DEF vars
    <2> QED BY <1>1, <2>2, <2>3, StepRevoking DEF Releasing, Faulty
  <1>2. CASE Next
    <2>1. InvLost'
      BY <1>2, DeviceLost, RequestLost, ChainLost, BeginLost, LifeLost DEF Next, Releasing
    <2>2. InvRevoking'
      BY <1>2, StepRevoking DEF Releasing
    <2>3. ~Faulty("audit") => RealtimeReleased'
      BY <1>2, ChainReleased, BeginReleased, StopReleased, CalmReleased DEF Next, Releasing
    <2> QED BY <2>1, <2>2, <2>3 DEF Releasing, Faulty
  <1> QED BY <1>1, <1>2

\* A speech session that was started is the one in use, or some teardown is about to close it,
\* unless the audit log fails: no path that gives one up forgets it (RealtimeReleased).
THEOREM RealtimeAlwaysReleased ==
  NoBackpressure /\ ~Faulty("audit") => (Spec => []RealtimeReleased)
  <1> SUFFICES ASSUME NoBackpressure, ~Faulty("audit") PROVE Spec => []RealtimeReleased
    OBVIOUS
  <1>1. Inv /\ Releasing /\ [Next]_vars => Releasing'
    BY StepReleasing
  <1>2. Releasing => RealtimeReleased
    BY DEF Releasing
  <1> QED BY Invariance, InitReleasing, <1>1, <1>2, PTL DEF Spec

-------------------------------------------------------------------------------
(* A begin that waits for its acknowledgement *)

\* A begin that waits for its recording_session message to leave still owns its
\* recorder: nothing else gets a turn before.
InvAck ==
  \A w \in Workers : begin[w].at = "ack" =>
    Owns(begin[w].call) /\ (chain.at = "idle" => recordingWork = <<>>)

AckInv == Inv /\ InvAck

\* While a begin waits for its acknowledgement, only that begin goes on in the
\* gateway.
LEMMA AckAlone ==
  ASSUME AckInv, Next, NEW w \in Workers, begin[w].at = "ack"
  PROVE  \/ SessionAcknowledged(w)
         \/ UNCHANGED <<ownerVars, chain, begin, recordingWork, session, artifactVars>>
  <1>1. /\ ~Settled
        /\ sends = <<w>>
        /\ stop.at # "revoke" /\ chain.at # "revoke"
        /\ \A v \in Workers : v # w => begin[v].at \notin {"ack", "answer"}
    <2>1. begin[w].at # "idle"
      OBVIOUS
    <2>2. sends = <<w>>
      BY DEF AckInv, Inv, IInv, InvSends
    <2>3. ~Settled
      BY SettledSends DEF AckInv
    <2>4. chain.at # "revoke"
      BY NamesAssumption DEF AckInv, Inv, IInv, InvSends, InvBegin, Workers
    <2> QED BY <2>2, <2>3, <2>4, NamesAssumption DEF AckInv, Inv, IInv, InvSends, Workers
  <1>2. ~StartOperation
    BY DEF StartOperation, AckInv, InvAck
  <1>3. ASSUME NEW c \in Calls, UnseenPhoneStep(c)
        PROVE  UNCHANGED <<ownerVars, chain, begin, recordingWork, session, artifactVars>>
    BY <1>3 DEF UnseenPhoneStep
  <1>4. (DeviceStep => \E c \in Calls : UnseenPhoneStep(c))
          /\ ~RequestStep /\ ~Start /\ ~StartStep /\ ~StopCalled
    BY <1>1 DEF DeviceStep, RingEvent, ProgressEvent, EndedEvent, MediaFailureEvent,
       LinkLost, EventArrives, RequestStep, QueueWrite, QueueTranscript,
       Dial, DialTimeout, Answer, Start, StartStep, StartConnected, StartFinished,
       StartFailed, StopCalled
  <1>5. ~ChainStep /\ ~StopStep
    BY <1>1, <1>2 DEF ChainStep, StopStep, RevocationSettled, StopRevoked
  <1>6. ASSUME NEW v \in Workers, BeginStep(v) PROVE SessionAcknowledged(w)
    <2>1. v = w
      BY <1>1, <1>6 DEF BeginStep
    <2> QED BY <1>6, <2>1 DEF BeginStep, RecorderStarted, RealtimeCreated, RealtimeStarted,
               BeginUnwound, BeginSealed, AnswerSent
  <1> QED BY <1>3, <1>4, <1>5, <1>6 DEF Next

\* No begin awaits its acknowledgement at first.
LEMMA InitAck == Init => InvAck
  BY DEF Init, InvAck, IdleBegin

\* Only session.start leads there.
LEMMA AckEntered ==
  ASSUME AckInv, Next, NEW w \in Workers, begin[w].at # "ack", begin'[w].at = "ack"
  PROVE  RealtimeStarted(w) /\ Settled
  <1>1. begin \in [Workers -> BeginStates]
    BY DEF AckInv, Inv, TypeInv, TypeOK
  <1>2. begin' # begin
    OBVIOUS
  <1>3. ~DeviceStep /\ ~Start /\ ~StartStep /\ ~StopCalled
    BY <1>2 DEF DeviceStep, RingEvent, ProgressEvent, EndedEvent, MediaFailureEvent,
       UnseenPhoneStep, LinkLost, Start, StartStep, StartConnected, StartFinished,
       StartFailed, StopCalled
  <1>4. ~StopStep
    BY <1>2 DEF StopStep, StopRevoked, StopDrained, StopClosed, StopFinished
  <1>5. ~RequestStep
    <2>1. ASSUME NEW v \in Clients, NEW c \in Incoming, Answer(v, c) PROVE FALSE
      <3>1. v \in Workers
        BY DEF Workers
      <3>2. PICK label \in {"start", "answer"} : begin' = [begin EXCEPT ![v] = [at |-> label, call |-> c]]
        BY <2>1 DEF Answer
      <3> QED BY <1>1, <3>1, <3>2
    <2> QED BY <1>2, <2>1 DEF RequestStep, QueueWrite, QueueTranscript, Dial, DialTimeout
  <1>6. ~ChainStep
    <2>1. ~OutgoingResolved
      <3>1. SUFFICES ASSUME OutgoingResolved PROVE FALSE
        OBVIOUS
      <3>2. begin' = [begin EXCEPT ![Chain] = [at |-> "start", call |-> Running.call]]
        BY <1>2, <3>1 DEF OutgoingResolved
      <3> QED BY <1>1, <3>2
    <2> QED BY <1>2, <2>1 DEF ChainStep, StartOperation, RevocationSettled, IncomingResolved,
               AppendSettled, LossNoted, RecorderClosed, RecorderSealed, CopySettled
  <1>7. PICK v \in Workers : BeginStep(v)
    BY <1>3, <1>4, <1>5, <1>6 DEF Next
  <1>8. ASSUME NEW success \in BOOLEAN, EndBegin(v, success) PROVE FALSE
    <2>1. PICK b : b \in {IdleBegin, [begin[v] EXCEPT !.at = "answer"]}
                   /\ begin' = [begin EXCEPT ![v] = b]
      BY <1>1, <1>8 DEF EndBegin
    <2>2. [begin[v] EXCEPT !.at = "answer"].at = "answer"
      BY <1>1 DEF BeginStates
    <2>3. b.at # "ack"
      <3>1. CASE b = IdleBegin
        BY <3>1 DEF IdleBegin
      <3>2. CASE b # IdleBegin
        BY <2>1, <2>2, <3>2
      <3> QED BY <3>1, <3>2
    <2> QED BY <1>1, <2>1, <2>3
  <1>9. ASSUME NEW label, label # "ack", Goto(v, label) PROVE FALSE
    BY <1>1, <1>9 DEF Goto, BeginStates
  <1>10. RealtimeStarted(v)
    <2>1. ~RecorderStarted(v) /\ ~RealtimeCreated(v) /\ ~BeginUnwound(v) /\ ~BeginSealed(v)
      BY <1>8, <1>9 DEF RecorderStarted, RealtimeCreated, BeginUnwound, BeginSealed,
                        AbandonRecorder
    <2>2. ~SessionAcknowledged(v)
      BY <1>8, <1>9 DEF SessionAcknowledged
    <2>3. ~AnswerSent(v)
      BY <1>1 DEF AnswerSent, IdleBegin
    <2> QED BY <1>7, <2>1, <2>2, <2>3 DEF BeginStep
  <1>11. v = w
    <2>1. PICK label : Goto(v, label)
      BY <1>8, <1>10 DEF RealtimeStarted, AbandonRecorder
    <2> QED BY <1>1, <2>1 DEF Goto, BeginStates
  <1> QED BY <1>7, <1>10, <1>11 DEF BeginStep, RealtimeStarted

\* Every step keeps InvAck.
LEMMA StepAck == ASSUME AckInv, [Next]_vars PROVE InvAck'
  <1> SUFFICES ASSUME NEW w \in Workers, begin'[w].at = "ack"
               PROVE  Owns(begin[w].call)' /\ (chain'.at = "idle" => recordingWork' = <<>>)
    BY DEF InvAck
  <1>1. CASE UNCHANGED vars
    BY <1>1 DEF vars, AckInv, InvAck, Owns
  <1>2. CASE Next /\ begin[w].at = "ack"
    <2>1. CASE SessionAcknowledged(w)
      <3>1. begin'[w].at # "ack"
        <4>1. CASE \E success \in BOOLEAN : EndBegin(w, success)
          <5>1. PICK b : b \in {IdleBegin, [begin[w] EXCEPT !.at = "answer"]}
                         /\ begin' = [begin EXCEPT ![w] = b]
            BY <4>1 DEF EndBegin, AckInv, Inv, TypeInv, TypeOK
          <5>2. [begin[w] EXCEPT !.at = "answer"].at = "answer" /\ IdleBegin.at = "idle"
            BY DEF AckInv, Inv, TypeInv, TypeOK, BeginStates, IdleBegin
          <5>3. begin'[w] = b
            BY <5>1 DEF AckInv, Inv, TypeInv, TypeOK
          <5>4. CASE b = IdleBegin
            BY <5>2, <5>3, <5>4
          <5>5. CASE b # IdleBegin
            BY <5>1, <5>2, <5>3, <5>5
          <5> QED BY <5>4, <5>5
        <4>2. CASE Goto(w, "unwind")
          BY <4>2 DEF Goto, AckInv, Inv, TypeInv, TypeOK, BeginStates
        <4> QED BY <2>1, <4>1, <4>2 DEF SessionAcknowledged
      <3> QED BY <3>1
    <2>2. CASE UNCHANGED <<ownerVars, chain, begin, recordingWork, session, artifactVars>>
      BY <1>2, <2>2 DEF AckInv, InvAck, Owns
    <2> QED BY <1>2, <2>1, <2>2, AckAlone
  <1>3. CASE Next /\ begin[w].at # "ack"
    <2>1. PICK c : c = begin[w].call
      OBVIOUS
    <2>2. RealtimeStarted(w) /\ Settled /\ w \in Workers
      BY <1>3, AckEntered
    <2>3. chain.at = "idle" => recordingWork = <<>>
      BY <2>2 DEF Settled
    <2>4. begin \in [Workers -> BeginStates]
      BY DEF AckInv, Inv, TypeInv, TypeOK
    <2>5. ~EndBegin(w, FALSE)
      BY EndBeginIdle DEF AckInv
    <2>6. ~Goto(w, "seal") /\ ~Goto(w, "unwind")
      BY <2>4 DEF Goto, BeginStates
    <2>7. /\ activeRecorder # None /\ activeRecordingCallId = c
          /\ Goto(w, "ack") /\ UNCHANGED <<activeRecorder, activeRecordingCallId>>
          /\ StayInChain
      BY <2>1, <2>2, <2>5, <2>6 DEF RealtimeStarted, AbandonRecorder
    <2>8. Owns(c) /\ begin'[w].call = c
      BY <2>1, <2>4, <2>7 DEF Owns, Goto, BeginStates, AckInv, Inv, IInv, OwnerReserved
    <2> QED BY <2>3, <2>7, <2>8 DEF Owns, StayInChain
  <1> QED BY <1>1, <1>2, <1>3

-------------------------------------------------------------------------------
(* The session of the phone *)

\* What most steps keep, outside of a revocation by the chain.
BackedFrame ==
  \A c \in Calls : Exposed(c)' => Exposed(c) /\ (activeRecorder = c => activeRecorder' = c)

\* Such a step keeps the session backed.
LEMMA BackedKept ==
  ASSUME InvBacked, chain.at # "revoke", BackedFrame
  PROVE  \A c \in Calls : Backed(c)'
  BY DEF InvBacked, Backed, BackedFrame

\* Steps that leave alone what Exposed depends on, or take the session away.
LEMMA ExposedSame ==
  ASSUME UNCHANGED activeRecorder,
         \/ ~connected'
         \/ session' = None
         \/ stop'.at # "idle"
         \/ ~recordingHealthy'
         \/ /\ UNCHANGED <<connected, session>> /\ stop'.at = stop.at
            /\ recordingHealthy' => recordingHealthy
  PROVE  BackedFrame
  BY NamesAssumption DEF BackedFrame, Exposed

\* No turn but the chain's own comes while it waits for a revocation to leave.
LEMMA NotRevoking ==
  ASSUME Inv
  PROVE  /\ Settled => chain.at # "revoke"
         /\ stop.at = "revoke" => chain.at # "revoke"
         /\ \A w \in Workers : begin[w].at \in {"ack", "answer"} => chain.at # "revoke"
  <1>1. Settled => chain.at # "revoke"
    BY SettledSends
  <1>2. chain.at = "revoke" => stop.at # "revoke"
    BY NamesAssumption DEF Inv, IInv, InvSends, Workers
  <1>3. ASSUME NEW w \in Workers, begin[w].at \in {"ack", "answer"}, chain.at = "revoke"
        PROVE  FALSE
    <2>1. <<w>> = <<Chain>>
      BY <1>3 DEF Inv, IInv, InvSends
    <2>2. w = Chain
      BY <2>1
    <2> QED BY <1>3, <2>2 DEF Inv, IInv, InvBegin
  <1> QED BY <1>1, <1>2, <1>3

\* No device event leaves a session without its recorder.
LEMMA DeviceBacked == ASSUME Inv, InvBacked, DeviceStep PROVE \A c \in Calls : Backed(c)'
  <1>1. UNCHANGED <<activeRecorder, stop, recordingHealthy>>
    BY DEF DeviceStep, RingEvent, ProgressEvent, EndedEvent, MediaFailureEvent, UnseenPhoneStep,
           LinkLost
  <1>2. \/ ~connected'
        \/ session' = None
        \/ UNCHANGED <<connected, session>>
    BY DEF DeviceStep, RingEvent, ProgressEvent, EndedEvent, MediaFailureEvent, UnseenPhoneStep,
           LinkLost, HandleDeviceDisconnect
  <1>3. CASE Settled
    BY <1>1, <1>2, <1>3, ExposedSame, NotRevoking, BackedKept
  <1>4. CASE ~Settled
    <2>1. UNCHANGED <<connected, session, chain, recordingWork, recorder>>
      BY <1>4 DEF DeviceStep, RingEvent, ProgressEvent, EndedEvent, MediaFailureEvent,
             UnseenPhoneStep, LinkLost, EventArrives
    <2> QED BY <1>1, <2>1 DEF InvBacked, Backed, Exposed, Running
  <1> QED BY <1>3, <1>4

\* The same for the requests, start() and the call of stop().
LEMMA CalmBacked ==
  ASSUME Inv, InvBacked, RequestStep \/ Start \/ StartStep \/ StopCalled
  PROVE  \A c \in Calls : Backed(c)'
  <1>1. UNCHANGED activeRecorder /\ chain.at # "revoke"
    BY NotRevoking DEF RequestStep, QueueWrite, QueueTranscript, Dial, DialTimeout, Answer, Start,
       StartStep, StartConnected, StartFinished, StartFailed, StopCalled
  <1>2. CASE StartConnected
    <2>1. session' = None
      BY <1>2 DEF StartConnected, Started, InvBacked
    <2> QED BY <1>1, <2>1, ExposedSame, BackedKept
  <1>3. CASE StopCalled
    <2>1. stop'.at = "drain"
      BY <1>3 DEF StopCalled, IdleStop
    <2> QED BY <1>1, <2>1, ExposedSame, BackedKept
  <1>4. CASE RequestStep \/ Start \/ StartFinished \/ StartFailed
    <2>1. ~connected' \/ UNCHANGED <<connected, session>>
      BY <1>4 DEF RequestStep, QueueWrite, QueueTranscript, Dial, DialTimeout, Answer, Start,
         StartFinished, StartFailed, HandleDeviceDisconnect
    <2>2. UNCHANGED <<stop, recordingHealthy>>
      BY <1>4 DEF RequestStep, QueueWrite, QueueTranscript, Dial, DialTimeout, Answer, Start,
         StartFinished, StartFailed
    <2> QED BY <1>1, <2>1, <2>2, ExposedSame, BackedKept
  <1> QED BY <1>2, <1>3, <1>4 DEF StartStep

\* The chain disowns a recorder whose session is in use only with its revocation on the way,
\* or with the device gone, or knowing itself unhealthy.
LEMMA ChainBacked ==
  ASSUME Inv, InvLost, InvBacked, ChainStep
  PROVE  \A c \in Calls : Backed(c)'
  <1>1. Pop => stop'.at = stop.at
    BY PopStop
  <1>2. CASE StartOperation
    <2>1. chain.at = "idle" /\ UNCHANGED <<connected, session, recordingHealthy>>
          /\ stop'.at = stop.at
      BY <1>1, <1>2 DEF StartOperation
    <2>2. CASE UNCHANGED activeRecorder
      BY <2>1, <2>2, ExposedSame, BackedKept
    <2>3. CASE ~UNCHANGED activeRecorder
      <3>1. Running.kind = "lost" /\ recordingWork # <<>>
        BY <1>2, <2>3 DEF StartOperation
      <3>2. ~connected'
        BY <2>1, <3>1, FirstPlace DEF InvLost
      <3> QED BY <3>2 DEF Backed, Exposed
    <2> QED BY <2>2, <2>3
  <1>3. CASE RevocationSettled
    <2>1. session' = None \/ ~connected'
      BY <1>3 DEF RevocationSettled, Revoked
    <2> QED BY <2>1, NamesAssumption DEF Backed, Exposed
  <1>4. CASE Settled /\ AppendSettled
    <2>1. chain.at = "append" /\ chain.at # "revoke"
      BY <1>4 DEF AppendSettled
    <2>2. CASE FailActiveRecording(Running)
      BY <2>2 DEF FailActiveRecording, Backed, Exposed
    <2>3. CASE Pop /\ UNCHANGED <<connected, session, ownerVars, teardownPending, statusVars>>
      BY <1>1, <2>1, <2>3, ExposedSame, BackedKept
    <2>4. ASSUME Running.kind \in TerminalEvents, NEW sent \in SendResults,
                 chain' = [at |-> IF sent THEN "revoke" ELSE "close", why |-> Running.kind,
                           held |-> IF activeRealtime = Running.call THEN Running.call ELSE None],
                 recordingHealthy' = (recordingHealthy /\ sent),
                 UNCHANGED <<connected, session, recordingWork, stop, recorder>>
          PROVE  \A c \in Calls : Backed(c)'
      <3> SUFFICES ASSUME NEW c \in Calls, Exposed(c)'
                   PROVE  chain'.at = "revoke" /\ Running'.own = c /\ recorder'[c] = "open"
        BY DEF Backed
      <3>1. recordingHealthy /\ sent
        BY <2>4 DEF Exposed
      <3>2. chain'.at = "revoke"
        BY <2>4, <3>1
      <3>3. Exposed(c)
        BY <2>4, <3>1 DEF Exposed
      <3>4. activeRecorder = c
        BY <2>1, <3>3 DEF InvBacked, Backed
      <3>5. Running.own = c
        BY <2>1, <2>4, <3>4, NamesAssumption DEF Inv, IInv, InvChain, StillOwned
      <3>6. recorder[c] = "open"
        BY <3>4, NamesAssumption DEF Inv, IInv, OwnerReserved
      <3> QED BY <2>4, <3>2, <3>5, <3>6 DEF Running
    <2> QED BY <1>4, <2>2, <2>3, <2>4 DEF AppendSettled
  <1>5. CASE /\ Settled
             /\ \/ IncomingResolved \/ OutgoingResolved \/ LossNoted
                \/ RecorderClosed \/ RecorderSealed \/ CopySettled
    <2>1. chain.at # "revoke"
      BY <1>5, NotRevoking
    <2>2. UNCHANGED <<activeRecorder, connected, session>>
      BY <1>5 DEF IncomingResolved, OutgoingResolved, LossNoted, RecorderClosed, RecorderSealed,
         CopySettled
    <2>3. recordingHealthy' => recordingHealthy
      BY <1>5 DEF IncomingResolved, OutgoingResolved, LossNoted, RecorderClosed, RecorderSealed,
         CopySettled
    <2>4. stop'.at = stop.at
      BY <1>1, <1>5 DEF IncomingResolved, OutgoingResolved, LossNoted, RecorderClosed,
         RecorderSealed, CopySettled
    <2> QED BY <2>1, <2>2, <2>3, <2>4, ExposedSame, BackedKept
  <1> QED BY <1>2, <1>3, <1>4, <1>5 DEF ChainStep

\* A begin gives up only a recorder whose session the phone does not hold, and has the phone hold
\* that of the recorder it owns.
LEMMA BeginBacked ==
  ASSUME AckInv, InvBacked, NEW w \in Workers, BeginStep(w)
  PROVE  (\A c \in Calls : Backed(c)') /\ (Started \/ session' = session)
  <1>1. PICK c : c = begin[w].call
    OBVIOUS
  <1>2. Inv /\ chain.at # "revoke"
    BY NotRevoking DEF AckInv, BeginStep
  <1>3. begin[w].at # "idle" /\ Started /\ c \in Calls
    BY <1>1 DEF BeginStep, RecorderStarted, RealtimeCreated, RealtimeStarted, SessionAcknowledged,
       BeginUnwound, BeginSealed, AnswerSent, AckInv, Inv, IInv, InvBegin
  <1>4. UNCHANGED <<connected, recordingHealthy>> /\ stop'.at = stop.at
    <2>1. Pop => stop'.at = stop.at
      BY <1>2, PopStop
    <2>2. ASSUME NEW success \in BOOLEAN, EndBegin(w, success) PROVE stop'.at = stop.at
      BY <1>2, <2>1, <2>2, EndBeginFrame
    <2>3. StayInChain => stop'.at = stop.at
      BY DEF StayInChain
    <2>4. stop'.at = stop.at
      BY <2>2, <2>3 DEF BeginStep, RecorderStarted, RealtimeCreated, RealtimeStarted,
         SessionAcknowledged, BeginUnwound, BeginSealed, AnswerSent, AbandonRecorder
    <2> QED BY <2>4 DEF BeginStep, RecorderStarted, RealtimeCreated, RealtimeStarted,
         SessionAcknowledged, BeginUnwound, BeginSealed, AnswerSent
  <1>5. CASE SessionAcknowledged(w)
    <2>1. Owns(c) /\ session' = IF connected THEN c ELSE session
      BY <1>1, <1>5 DEF SessionAcknowledged, AckInv, InvAck
    <2>2. connected => UNCHANGED activeRecorder
      BY <1>1, <1>5, <2>1 DEF SessionAcknowledged
    <2> QED BY <1>3, <1>4, <2>1, <2>2 DEF Backed, Exposed, Owns
  <1>6. CASE ~SessionAcknowledged(w)
    <2>1. UNCHANGED session
      BY <1>6 DEF BeginStep, RecorderStarted, RealtimeCreated, RealtimeStarted,
         BeginUnwound, BeginSealed, AnswerSent
    <2>2. \/ UNCHANGED activeRecorder
          \/ activeRecorder = None
          \/ activeRecorder = c /\ Opening(w)
      <3>1. CASE RecorderStarted(w)
        BY <1>2, <3>1 DEF RecorderStarted, AtStart, Inv, IInv, InvReservation
      <3>2. CASE RealtimeCreated(w) \/ RealtimeStarted(w)
        BY <1>1, <1>2, <3>2 DEF RealtimeCreated, RealtimeStarted, Opening, Owns, Inv, IInv,
           OwnerReserved
      <3>3. CASE BeginUnwound(w) \/ BeginSealed(w) \/ AnswerSent(w)
        BY <3>3 DEF BeginUnwound, BeginSealed, AnswerSent
      <3> QED BY <1>6, <3>1, <3>2, <3>3 DEF BeginStep
    <2>3. Opening(w) => session # c
      BY <1>1, <1>2 DEF Inv, IInv, InvBegin
    <2>4. BackedFrame
      BY <1>4, <2>1, <2>2, <2>3, NamesAssumption DEF BackedFrame, Exposed
    <2> QED BY <1>2, <1>3, <2>4, BackedKept
  <1> QED BY <1>5, <1>6

\* stop() either has begun, or has disconnected the device.
LEMMA StopBacked == ASSUME Inv, InvBacked, StopStep PROVE \A c \in Calls : Backed(c)'
  <1>1. FinishStop => ~connected'
    BY DEF FinishStop, HandleDeviceDisconnect
  <1>2. stop'.at \in {"revoke", "close", "seal"} \/ ~connected'
    <2>1. CASE StopDrained
      <3>1. ASSUME NEW sent \in SendResults,
                   stop' = [at |-> IF sent THEN "revoke" ELSE "close", wait |-> 0,
                            rec |-> activeRecorder, rt |-> activeRealtime]
            PROVE  stop'.at \in {"revoke", "close", "seal"}
        BY <3>1
      <3> QED BY <1>1, <2>1, <3>1 DEF StopDrained
    <2>2. CASE StopRevoked
      BY <2>2 DEF StopRevoked, Inv, TypeInv, TypeOK, StopStates
    <2>3. CASE StopClosed
      BY <2>3 DEF StopClosed, Inv, TypeInv, TypeOK, StopStates
    <2>4. CASE StopFinished
      BY <1>1, <2>4 DEF StopFinished
    <2> QED BY <2>1, <2>2, <2>3, <2>4 DEF StopStep
  <1> QED BY <1>2 DEF Backed, Exposed

\* Before it is started the gateway has no session on the phone.
LEMMA StartBacked ==
  ASSUME AckInv, InvBacked, Next
  PROVE  ~Started' => session' = None
  <1>1. Started => Started'
    BY DEF Next, DeviceStep, RingEvent, ProgressEvent, EndedEvent, MediaFailureEvent,
       UnseenPhoneStep, LinkLost, RequestStep, QueueWrite, QueueTranscript, Dial, DialTimeout,
       Answer, ChainStep, StartOperation, RevocationSettled, IncomingResolved, OutgoingResolved,
       AppendSettled, LossNoted, RecorderClosed, RecorderSealed, CopySettled, BeginStep,
       RecorderStarted, RealtimeCreated, RealtimeStarted, SessionAcknowledged, BeginUnwound,
       BeginSealed, AnswerSent, Start, StartStep, StartConnected, StartFinished, StartFailed,
       StopCalled, StopStep, StopRevoked, StopDrained, StopClosed, StopFinished, FinishStop, Started
  <1>2. Started \/ session' \in {session, None}
    <2>1. CASE DeviceStep
      BY <2>1 DEF DeviceStep, RingEvent, ProgressEvent, EndedEvent, MediaFailureEvent,
         UnseenPhoneStep, LinkLost, HandleDeviceDisconnect
    <2>2. CASE RequestStep \/ Start \/ StartStep \/ StopCalled
      BY <2>2 DEF RequestStep, QueueWrite, QueueTranscript, Dial, DialTimeout, Answer, Start,
         StartStep, StartConnected, StartFinished, StartFailed, StopCalled, HandleDeviceDisconnect
    <2>3. CASE ChainStep
      BY <2>3 DEF ChainStep, StartOperation, RevocationSettled, IncomingResolved, OutgoingResolved,
         AppendSettled, FailActiveRecording, LossNoted, RecorderClosed, RecorderSealed, CopySettled,
         Revoked
    <2>4. CASE \E w \in Workers : BeginStep(w)
      BY <2>4, BeginBacked
    <2>5. CASE StopStep
      BY <2>5 DEF StopStep, StopRevoked, StopDrained, StopClosed, StopFinished, FinishStop,
         HandleDeviceDisconnect, Revoked
    <2> QED BY <2>1, <2>2, <2>3, <2>4, <2>5 DEF Next
  <1> QED BY <1>1, <1>2 DEF InvBacked

\* While the phone believes a recording session active, the recorder of that call is open, unless
\* the gateway knows itself unhealthy, is being stopped or is not connected (SessionBacked).
THEOREM SessionAlwaysBacked == NoBackpressure => (Spec => []SessionBacked)
  <1> SUFFICES ASSUME NoBackpressure PROVE Spec => []SessionBacked
    OBVIOUS
  <1>1. Init => InvAck /\ Releasing /\ InvBacked
    <2>1. Init => InvBacked
      BY NamesAssumption DEF Init, InvBacked, Backed, Exposed
    <2> QED BY <2>1, InitAck, InitReleasing
  <1>2. ASSUME Inv, InvAck, Releasing, InvBacked, [Next]_vars
        PROVE  InvAck' /\ Releasing' /\ InvBacked'
    <2>1. InvAck' /\ Releasing'
      BY <1>2, StepAck, StepReleasing DEF AckInv
    <2>2. CASE UNCHANGED vars
      <3>1. \A c \in Calls : Backed(c)'
        BY <1>2, <2>2 DEF vars, InvBacked, Backed, Exposed, Running
      <3>2. ~Started' => session' = None
        BY <1>2, <2>2 DEF vars, InvBacked, Started
      <3> QED BY <2>1, <3>1, <3>2 DEF InvBacked
    <2>3. CASE Next
      <3>1. \A c \in Calls : Backed(c)'
        BY <1>2, <2>3, DeviceBacked, CalmBacked, ChainBacked, BeginBacked, StopBacked
           DEF Next, AckInv, Releasing
      <3>2. ~Started' => session' = None
        BY <1>2, <2>3, StartBacked DEF AckInv
      <3> QED BY <2>1, <3>1, <3>2 DEF InvBacked
    <2> QED BY <1>2, <2>2, <2>3
  <1>3. Inv /\ InvBacked => SessionBacked
    BY NamesAssumption DEF Inv, IInv, OwnerReserved, InvBacked, Backed, Exposed, SessionBacked
  <1> QED BY Invariance, <1>1, <1>2, <1>3, PTL DEF Spec

-------------------------------------------------------------------------------
(* The ledger of recordings *)

(* As long as the socket takes what is sent, the gateway implements the ledger:   *)
(* with activeRecorder as owner, recorder as file and session as granted, every   *)
(* step of GatewayRecording is a step of RecordingLedger or leaves the ledger     *)
(* alone.  Three facts carry the argument: whoever disowns a recorder still owns  *)
(* it (or owns nothing) and whoever finalizes one does not own it any more        *)
(* (IInv), and a begin owns the session it asked the phone for (InvAck).          *)

LedgerStep == [Ledger!Next]_(Ledger!vars)

\* A revocation of the session is a step of the ledger.
LEMMA LedgerRevoke ==
  ASSUME UNCHANGED <<activeRecorder, recorder>>, session' \in {session, None}
  PROVE  LedgerStep
  BY DEF LedgerStep, Ledger!Next, Ledger!Revoke, Ledger!vars

\* Giving up the owner is a Release.
LEMMA LedgerRelease ==
  ASSUME activeRecorder' = None, session' \in {session, None}, UNCHANGED recorder
  PROVE  LedgerStep
  <1>1. CASE activeRecorder = None
    BY <1>1, LedgerRevoke
  <1>2. CASE activeRecorder # None
    BY <1>2 DEF LedgerStep, Ledger!Next, Ledger!Release
  <1> QED BY <1>1, <1>2

\* Giving up the owner and finalizing its recorder at once is a Release.
LEMMA LedgerAbandon ==
  ASSUME activeRecorder # None, activeRecorder' = None, UNCHANGED session,
         recorder' = [recorder EXCEPT ![activeRecorder] = "closed"]
  PROVE  LedgerStep
  BY DEF LedgerStep, Ledger!Next, Ledger!Release

\* Finalizing the recorder of a call that is not the owner is a Finalize.
LEMMA LedgerFinalize ==
  ASSUME TypeInv, NEW c \in Calls, activeRecorder # c, recorder[c] # "none",
         UNCHANGED <<activeRecorder, session>>, recorder' = [recorder EXCEPT ![c] = "closed"]
  PROVE  LedgerStep
  <1>1. CASE recorder[c] = "open"
    BY <1>1 DEF LedgerStep, Ledger!Next, Ledger!Finalize
  <1>2. CASE recorder[c] = "closed"
    <2>1. recorder' = recorder
      BY <1>2 DEF TypeInv, TypeOK
    <2> QED BY <2>1, LedgerRevoke
  <1> QED BY <1>1, <1>2 DEF TypeInv, TypeOK

\* Installing a new recorder is an Acquire.
LEMMA LedgerAcquire ==
  ASSUME NEW c \in Calls, activeRecorder = None, recorder[c] = "none",
         activeRecorder' = c, recorder' = [recorder EXCEPT ![c] = "open"], UNCHANGED session
  PROVE  LedgerStep
  BY DEF LedgerStep, Ledger!Next, Ledger!Acquire

\* The phone is granted the session of the owner.
LEMMA LedgerGrant ==
  ASSUME activeRecorder # None, session' = activeRecorder, UNCHANGED <<activeRecorder, recorder>>
  PROVE  LedgerStep
  BY DEF LedgerStep, Ledger!Next, Ledger!Grant

-------------------------------------------------------------------------------
(* Every step of the gateway is one of them *)

\* Device events leave the ledger alone, or revoke the session.
LEMMA DeviceLedger ==
  ASSUME DeviceStep \/ Start \/ StartStep \/ StopCalled PROVE LedgerStep
  <1>1. UNCHANGED <<activeRecorder, recorder>> /\ session' \in {session, None}
    BY DEF DeviceStep, RingEvent, ProgressEvent, EndedEvent, MediaFailureEvent, UnseenPhoneStep,
           LinkLost, HandleDeviceDisconnect, Start, StartStep, StartConnected, StartFinished,
           StartFailed, StopCalled
  <1> QED BY <1>1, LedgerRevoke

\* Requests leave the ledger alone.
LEMMA RequestLedger == ASSUME RequestStep PROVE LedgerStep
  <1>1. UNCHANGED <<activeRecorder, recorder, session>>
    BY DEF RequestStep, QueueWrite, QueueTranscript, Dial, DialTimeout, Answer
  <1> QED BY <1>1, LedgerRevoke

\* The chain releases, revokes and finalizes.
LEMMA ChainLedger == ASSUME Inv, ChainStep PROVE LedgerStep
  <1>1. CASE StartOperation
    <2>1. UNCHANGED <<recorder, session>> /\ activeRecorder' \in {activeRecorder, None}
      BY <1>1 DEF StartOperation, Disown
    <2> QED BY <2>1, LedgerRevoke, LedgerRelease
  <1>2. CASE RevocationSettled
    BY <1>2, LedgerRevoke DEF RevocationSettled, Revoked
  <1>3. CASE AppendSettled
    <2>1. /\ UNCHANGED recorder /\ session' \in {session, None}
          /\ activeRecorder' \in {activeRecorder, None}
      BY <1>3 DEF AppendSettled, FailActiveRecording, Disown
    <2> QED BY <2>1, LedgerRevoke, LedgerRelease
  <1>4. CASE RecorderClosed
    <2>1. PICK c : c = Running.own
      OBVIOUS
    <2>2. c \in Calls /\ activeRecorder # c /\ recorder[c] # "none"
      BY <1>4, <2>1, BusyChain, RunningInv DEF RecorderClosed, Inv, IInv, InvChain, OpInv
    <2>3. /\ UNCHANGED <<activeRecorder, session>>
          /\ recorder' = recorder \/ recorder' = [recorder EXCEPT ![c] = "closed"]
      BY <1>4, <2>1 DEF RecorderClosed
    <2> QED BY <2>2, <2>3, LedgerRevoke, LedgerFinalize DEF Inv
  <1>5. CASE \/ IncomingResolved \/ OutgoingResolved \/ LossNoted \/ RecorderSealed
             \/ CopySettled
    <2>1. UNCHANGED <<activeRecorder, recorder, session>>
      BY <1>5 DEF IncomingResolved, OutgoingResolved, LossNoted, RecorderSealed, CopySettled
    <2> QED BY <2>1, LedgerRevoke
  <1> QED BY <1>1, <1>2, <1>3, <1>4, <1>5 DEF ChainStep

\* A begin acquires, grants, and on a failure releases and finalizes.
LEMMA BeginLedger == ASSUME AckInv, NEW w \in Workers, BeginStep(w) PROVE LedgerStep
  <1>1. PICK c : c = begin[w].call
    OBVIOUS
  <1>2. Inv
    BY DEF AckInv
  <1>3. CASE RecorderStarted(w)
    <2>1. c \in Calls /\ activeRecorder = None /\ UNCHANGED session
      BY <1>1, <1>2, <1>3
      DEF RecorderStarted, AtStart, Inv, IInv, InvBegin, InvReservation
    <2>2. \/ UNCHANGED <<activeRecorder, recorder>>
          \/ /\ recorder[c] = "none" /\ activeRecorder' = c
             /\ recorder' = [recorder EXCEPT ![c] = "open"]
      BY <1>1, <1>3 DEF RecorderStarted
    <2> QED BY <2>1, <2>2, LedgerRevoke, LedgerAcquire
  <1>4. ASSUME Owns(c), AbandonRecorder(w, c), UNCHANGED session, begin[w].at # "idle"
        PROVE  LedgerStep
    <2>1. activeRecorder = c /\ activeRecorder # None
      BY <1>1, <1>2, <1>4, NamesAssumption DEF Owns, Inv, IInv, InvBegin
    <2> QED BY <1>4, <2>1, LedgerAbandon DEF AbandonRecorder, Disown
  <1>5. CASE RealtimeCreated(w)
    <2>1. /\ UNCHANGED session /\ begin[w].at # "idle"
          /\ UNCHANGED <<activeRecorder, recorder>> \/ (Owns(c) /\ AbandonRecorder(w, c))
      BY <1>1, <1>5 DEF RealtimeCreated
    <2> QED BY <1>4, <2>1, LedgerRevoke
  <1>6. CASE RealtimeStarted(w)
    <2>1. /\ UNCHANGED session /\ begin[w].at # "idle"
          /\ \/ UNCHANGED <<activeRecorder, recorder>>
             \/ activeRecorder' = None /\ UNCHANGED recorder
             \/ Owns(c) /\ AbandonRecorder(w, c)
      BY <1>1, <1>6 DEF RealtimeStarted, Disown
    <2> QED BY <1>4, <2>1, LedgerRevoke, LedgerRelease
  <1>7. CASE SessionAcknowledged(w)
    <2>1. Owns(c) /\ c \in Calls
      BY <1>1, <1>2, <1>7 DEF SessionAcknowledged, AckInv, InvAck, Inv, IInv, InvBegin
    <2>2. /\ UNCHANGED recorder
          /\ \/ UNCHANGED activeRecorder /\ session' = c
             \/ activeRecorder' = None /\ session' = session
      BY <1>1, <1>7, <2>1 DEF SessionAcknowledged, Disown
    <2>3. activeRecorder = c /\ c # None
      BY <2>1, NamesAssumption DEF Owns
    <2> QED BY <2>2, <2>3, LedgerGrant, LedgerRelease
  <1>8. CASE BeginUnwound(w)
    <2>1. c \in Calls /\ activeRecorder # c /\ recorder[c] # "none"
      BY <1>1, <1>2, <1>8 DEF BeginUnwound, Inv, IInv, InvBegin, Holding
    <2>2. /\ UNCHANGED <<activeRecorder, session>>
          /\ recorder' = [recorder EXCEPT ![c] = "closed"]
      BY <1>1, <1>8 DEF BeginUnwound
    <2> QED BY <1>2, <2>1, <2>2, LedgerFinalize DEF Inv
  <1>9. CASE BeginSealed(w) \/ AnswerSent(w)
    <2>1. UNCHANGED <<activeRecorder, recorder, session>>
      BY <1>9 DEF BeginSealed, AnswerSent
    <2> QED BY <2>1, LedgerRevoke
  <1> QED BY <1>3, <1>5, <1>6, <1>7, <1>8, <1>9 DEF BeginStep

\* stop() releases, revokes and finalizes.
LEMMA StopLedger == ASSUME Inv, StopStep PROVE LedgerStep
  <1>1. CASE StopDrained \/ StopRevoked \/ StopFinished
    <2>1. /\ UNCHANGED recorder /\ session' \in {session, None}
          /\ activeRecorder' \in {activeRecorder, None}
      BY <1>1 DEF StopDrained, StopRevoked, StopFinished, FinishStop, HandleDeviceDisconnect,
                  Disown, Revoked
    <2> QED BY <2>1, LedgerRevoke, LedgerRelease
  <1>2. CASE StopClosed
    <2>1. PICK c : c = stop.rec
      OBVIOUS
    <2>2. c \in Calls /\ activeRecorder # c /\ recorder[c] # "none"
      BY <1>2, <2>1 DEF StopClosed, Inv, IInv, InvStop
    <2>3. /\ UNCHANGED <<activeRecorder, session>>
          /\ recorder' = [recorder EXCEPT ![c] = "closed"]
      BY <1>2, <2>1 DEF StopClosed
    <2> QED BY <2>2, <2>3, LedgerFinalize DEF Inv
  <1> QED BY <1>1, <1>2 DEF StopStep

\* So every step maps to a step or a stutter of the ledger.
LEMMA StepLedger == AckInv /\ [Next]_vars => LedgerStep
  <1>1. ASSUME UNCHANGED vars PROVE LedgerStep
    BY <1>1, LedgerRevoke DEF vars
  <1> QED BY <1>1, DeviceLedger, RequestLedger, ChainLedger, BeginLedger, StopLedger
          DEF Next, AckInv

\* The gateway is a correct ledger: one owner at a time, given up before it is
\* finalized or replaced, at most one recording of a call, and a media session of the
\* phone only for the owner.
THEOREM ImplementsLedger == NoBackpressure => (Spec => LedgerSpec)
  <1>1. NoBackpressure /\ Init => AckInv
    BY InitType, InitInv, InitAck DEF AckInv, Inv
  <1>2. AckInv /\ [Next]_vars => AckInv'
    BY StepInv, StepAck DEF AckInv
  <1>3. Init => Ledger!Init
    BY DEF Init, Ledger!Init
  <1>4. AckInv /\ [Next]_vars => [Ledger!Next]_(Ledger!vars)
    BY StepLedger DEF LedgerStep
  <1> QED BY <1>1, <1>2, <1>3, <1>4, PTL DEF Spec, LedgerSpec, Ledger!Spec

===============================================================================
