---------------------- MODULE GatewayRecordingInductive ----------------------
(* The inductive invariant of GatewayRecording, under the hypothesis that the   *)
(* socket takes what is sent.  (Without it OwnerReserved is false: stop() may   *)
(* wait for its revocation while another recording begins.)                     *)
EXTENDS GatewayRecording

NoBackpressure == ~Faulty("backpressure")

Started == starter = "idle"
\* The object is past its attached life: nothing reserves a recording any more,
\* but what the chain still holds.
Gone == Started /\ ~Attached

AtStart(w) == begin[w].at = "start"
Opening(w) == begin[w].at \in {"create", "attach"}
Holding(w) == begin[w].at \in {"create", "attach", "ack", "unwind", "seal"}

\* A waiting sender is the only one.
InvSends ==
  /\ stop.at = "revoke" => sends = <<"stop">>
  /\ chain.at = "revoke" => sends = <<Chain>>
  /\ \A w \in Workers : begin[w].at \in {"ack", "answer"} => sends = <<w>>

\* A begin that awaits recording.start holds the only reservation.
InvReservation ==
  /\ \A w \in Workers : AtStart(w) =>
       activeRecorder = None /\ activeRecordingCallId = begin[w].call
  /\ \A v, w \in Workers : AtStart(v) /\ AtStart(w) => v = w

\* A begin past recording.start is the only one of its call.
InvBegin ==
  /\ \A w \in Workers : begin[w].at # "idle" =>
       Started /\ begin[w].call \in Calls /\ phone[begin[w].call] # "none"
  /\ \A w \in Workers : Holding(w) => recorder[begin[w].call] # "none"
  /\ \A v, w \in Workers :
       Holding(v) /\ Holding(w) /\ begin[v].call = begin[w].call => v = w
  /\ \A w \in Workers : Opening(w) =>
       activeRealtime # begin[w].call /\ session # begin[w].call
  /\ \A w \in Workers : begin[w].at \in {"unwind", "seal"} => activeRecorder # begin[w].call
  /\ begin[Chain].at # "idle" => chain.at = "begin" /\ begin[Chain].at # "answer"

\* The gateway knows only calls the phone has reported.
InvKnown ==
  /\ \A c \in Calls :
       recorder[c] # "none" \/ rts[c] # "none" \/ c \in announced => phone[c] # "none"
  /\ currentCall.call # None => phone[currentCall.call] # "none"
  /\ gsmCall # None => phone[gsmCall] # "none"

\* What a queued operation captured.
OpInv(o) ==
  /\ phone[o.call] # "none"
  /\ o.own # None => o.id = o.own /\ recorder[o.own] # "none"
  /\ o.rt # None => o.rt = o.own
  /\ o.kind \in TerminalEvents => o.own = o.call
  /\ o.kind = "lost" => o.own # None
  /\ o.kind = "begin" => Started
Places == 1..Len(recordingWork)
InvQueue == \A i \in Places : OpInv(recordingWork[i])

\* The i-th operation is an 'incoming' that has yet to set the current call.
Unresolved(i) ==
  recordingWork[i].kind = "incoming" /\ ~(i = 1 /\ chain.at \notin {"idle", "lookup"})
\* No answer() can begin a recording before the i-th operation has had its turn.
Quiet(i) == ~currentCall.incoming /\ \A j \in Places : j < i => ~Unresolved(j)

\* The call added last rang last, if it rang.
InvLastRing ==
  \A i, j \in Places :
    /\ recordingWork[i].kind = "incoming" /\ recordingWork[i].call = gsmCall
    /\ recordingWork[j].kind = "incoming"
    => j <= i
\* When it is the current call, or the one that an answer() records, no other call
\* can become current any more without a new ring.
InvRing ==
  \/ currentCall.incoming /\ currentCall.call = gsmCall
  \/ \E w \in Clients : (AtStart(w) \/ Opening(w)) /\ begin[w].call = gsmCall
  => /\ \A i \in Places : ~Unresolved(i)
     /\ currentCall.incoming => currentCall.call = gsmCall
\* So no answer() reserves a recording that a queued terminal operation disowns.
Unhurt(i) ==
  recordingWork[i].kind \in TerminalEvents =>
    Quiet(i) \/ \A w \in Clients : Opening(w) => begin[w].call # recordingWork[i].own
InvTerminal == \A i \in Places : Unhurt(i)

\* What the running operation holds.
InvChain ==
  /\ chain.at # "idle" => recordingWork # <<>>
  /\ chain.at \in {"lookup", "begin"} => Running.kind \in {"incoming", "begin"}
  /\ chain.at \in {"revoke", "note", "close", "seal"} =>
       /\ Running.own # None /\ activeRecorder # Running.own
       /\ chain.held \in {None, Running.own}
  /\ chain.at = "append" /\ Running.kind \in TerminalEvents =>
       /\ \A w \in Workers : ~AtStart(w)
       /\ \/ StillOwned(Running)
          \/ activeRecorder = None /\ (Gone \/ ~currentCall.incoming)

InvStop ==
  /\ stop.at \in {"revoke", "close", "seal"} =>
       /\ Started /\ stop.rec \in Calls /\ stop.rt \in {None, stop.rec}
       /\ recorder[stop.rec] # "none"
  /\ stop.at = "revoke" =>
       activeRecorder = stop.rec /\ (chain.at = "idle" => recordingWork = <<>>)
  /\ stop.at \in {"close", "seal"} => activeRecorder # stop.rec

InvStart ==
  /\ state = "running" => Started
  /\ activeRecorder # None \/ pendingOutgoing => Started
  /\ session # None => session \in Calls /\ recorder[session] # "none"

EndedQueued ==
  \A i \in Places : recordingWork[i].kind = "ended" => phone[recordingWork[i].call] \in Over
\* With one call at a time the phone reports every event under the id of its call.
InvEnded ==
  /\ \A c \in Calls : phone[c] \notin {"none", "removed"} => gsmCall = c
  /\ EndedQueued
  /\ chain.at \in {"revoke", "note", "close", "seal"} /\ chain.why = "ended" =>
       phone[Running.own] \in Over
  /\ CompleteEnded

IInv ==
  /\ OwnerReserved /\ RealtimeOwned
  /\ InvSends /\ InvReservation /\ InvBegin /\ InvKnown /\ InvQueue /\ InvLastRing /\ InvRing
  /\ InvTerminal /\ InvChain
  /\ InvStop /\ InvStart
  /\ Faulty("audit") \/ NoOrphan
  /\ CallWaiting \/ InvEnded

-------------------------------------------------------------------------------
(* What the speech session and the session of the phone rest on besides         *)

\* A lost device stays lost, and its teardown captured the speech session in use.
InvLost ==
  \A i \in Places :
    LET o == recordingWork[i] IN
    o.kind = "lost" =>
      /\ Started /\ ~connected
      /\ activeRealtime # None /\ activeRecorder = o.own => o.rt = activeRealtime
\* Nobody attaches a speech session while stop() revokes.
InvRevoking == stop.at = "revoke" => stop.rt = activeRealtime
Releasing == InvLost /\ InvRevoking /\ (Faulty("audit") \/ RealtimeReleased)


\* The phone is to bridge the audio of c, and the gateway knows of no reason why not.
Exposed(c) == connected /\ session = c /\ recordingHealthy /\ stop.at = "idle"
\* Then c is recorded, or the revocation of its session is on its way.
Backed(c) ==
  Exposed(c) =>
    \/ activeRecorder = c
    \/ chain.at = "revoke" /\ Running.own = c /\ recorder[c] = "open"
InvBacked == (\A c \in Calls : Backed(c)) /\ (~Started => session = None)
==============================================================================
