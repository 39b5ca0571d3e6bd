-------------------------- MODULE RealtimeSession --------------------------
(***************************************************************************)
(* The speech session of one recorded call (realtime-session.js): it hands *)
(* the caller's PCM to a transcription provider and the final transcripts  *)
(* to the gateway, and speaks the replies that a synthesis provider makes, *)
(* cut off when the caller begins to speak (energy-vad.js).                *)
(*                                                                         *)
(* The adapters are part of it: the three transcription sessions, which    *)
(* differ in how a turn is asked for and in what a lost connection does,   *)
(* and the four synthesis streams, whose network pieces need not end where *)
(* a sample ends.  Audio is a sequence of numbered bytes at the phone's    *)
(* rate, so that lost, repeated and reordered audio can be told from whole *)
(* audio; resampling and gain change no byte's place and are left out.     *)
(***************************************************************************)
EXTENDS Integers, Sequences, SequencesExt

CONSTANTS
  SttKinds,     \* the transcription adapters: "groq", "openai", "elevenlabs"
  TtsKinds,     \* the synthesis adapters: "stream", "whole", "cached", "groq"
  Bytes,        \* the length of a reply's audio
  FrameBytes,   \* the length of a frame of the phone
  RetryLimit,   \* ttsRetryLimit
  MaxTurnFrames,\* the longest turn the Groq session keeps
  MaxFrames,    \* bound: frames heard from the caller
  MaxSpeaks,    \* bound: replies
  MaxFaults     \* bound: failures of providers

ASSUME RealtimeSessionAssumption ==
  /\ SttKinds \subseteq {"groq", "openai", "elevenlabs"}
  /\ TtsKinds \subseteq {"stream", "whole", "cached", "groq"}
  /\ {Bytes, FrameBytes} \subseteq Nat \ {0} /\ Bytes % 2 = 0 /\ FrameBytes % 2 = 0
  /\ {RetryLimit, MaxTurnFrames, MaxFrames, MaxSpeaks, MaxFaults} \subseteq Nat

VARIABLES
  kind,      \* the adapters the router has pinned for the call
  ear,       \* what the session hears: its phase, the VAD, the transcription session
  asked,     \* the turns the provider has been given and has not answered
  events,    \* eventWork: the provider's events that have not been handled
  said,      \* the remote transcripts the gateway has recorded
  mouth,     \* the speech in progress
  net,       \* what the synthesis adapter has read of its response
  played,    \* the bytes of this reply that the phone was sent
  outcome,   \* how the last speak() ended
  recorder,  \* the gateway still has the recorder of this call
  down,      \* the process has ended on an unhandled rejection
  count      \* [heard, turns, speaks, faults]: bounds

vars == <<kind, ear, asked, events, said, mouth, net, played, outcome, recorder, down, count>>
earVars == <<ear, asked, events, said>>
mouthVars == <<mouth, net, played, outcome>>

Audio == [i \in 1..Bytes |-> i]
WavHeader == <<-1, -2>>
Pad == 0
Wire == IF kind.tts = "groq" THEN WavHeader \o Audio ELSE Audio

Turns == 1..MaxFrames
Problem == [turn |-> 0, gap |-> FALSE]
Events == [turn : Turns, gap : BOOLEAN] \cup {Problem}

\* The adapters the router pins to the call, once both are healthy.
Pinned == [stt : SttKinds, tts : TtsKinds]

Unread == [pos |-> 0, carry |-> <<>>, header |-> FALSE, consumed |-> 0]
Silent == [at |-> "idle", attempt |-> 0, sent |-> 0, cut |-> FALSE, inter |-> TRUE,
           pending |-> <<>>, ended |-> FALSE]
Outcomes == {"none", "spoken", "interrupted", "failed"}

TypeOK ==
  /\ kind \in Pinned
  /\ ear \in [phase : {"open", "closing", "closed"}, vad : BOOLEAN, chunks : 0..MaxTurnFrames + MaxFrames,
              complete : BOOLEAN, error : BOOLEAN, lost : BOOLEAN, ended : BOOLEAN, gap : BOOLEAN]
  /\ asked \in Seq(Events) /\ events \in Seq(Events)
  /\ said \in Seq([turn : Turns, gap : BOOLEAN, complete : BOOLEAN])
  /\ mouth \in [at : {"idle", "chunk", "pace", "send"}, attempt : 0..RetryLimit,
                sent : 0..Bytes, cut : BOOLEAN, inter : BOOLEAN,
                pending : Seq(-2..Bytes), ended : BOOLEAN]
  /\ net \in [pos : 0..Bytes + 2, carry : Seq(-2..Bytes), header : BOOLEAN, consumed : 0..Bytes]
  /\ played \in Seq(-2..Bytes)
  /\ outcome \in Outcomes
  /\ recorder \in BOOLEAN /\ down \in BOOLEAN
  /\ count \in [heard : 0..MaxFrames, turns : 0..MaxFrames, speaks : 0..MaxSpeaks,
                faults : 0..MaxFaults]
  \* no more than a frame and a piece is ever held, and a closed session keeps no transcription
  /\ Len(mouth.pending) < FrameBytes + Bytes
  /\ ear.phase # "open" => asked = <<>>

Init ==
  /\ kind \in Pinned
  /\ ear = [phase |-> "open", vad |-> FALSE, chunks |-> 0, complete |-> TRUE, error |-> FALSE,
            lost |-> FALSE, ended |-> FALSE, gap |-> FALSE]
  /\ asked = <<>> /\ events = <<>> /\ said = <<>>
  /\ mouth = Silent /\ net = Unread /\ played = <<>> /\ outcome = "none"
  /\ recorder = TRUE /\ down = FALSE
  /\ count = [heard |-> 0, turns |-> 0, speaks |-> 0, faults |-> 0]

Fault == count.faults < MaxFaults /\ count' = [count EXCEPT !.faults = @ + 1]

-----------------------------------------------------------------------------
(* Listening *)

\* EnergyVad.push: what the energy of a frame makes of the state of the VAD.
Verdicts(speaking) == IF speaking THEN {"none", "speech_stopped"} ELSE {"none", "speech_started"}

\* bargeIn(): a speech that may be interrupted is.
BargedIn(m) == IF m.at # "idle" /\ m.inter THEN [m EXCEPT !.cut = TRUE] ELSE m

\* pushPcm16 of the Groq session keeps the frame for the turn, up to forty seconds.
GroqRefuses(e) == e.chunks + 1 > MaxTurnFrames
\* ElevenLabs: a session whose socket has closed throws.
ElevenLabsRefuses(e) == e.lost
\* OpenAI: send() on a socket that has closed drops the frame and says nothing.
OpenAiDrops(e) == e.lost

Refuses(e) ==
  \/ kind.stt = "groq" /\ GroqRefuses(e)
  \/ kind.stt = "elevenlabs" /\ ElevenLabsRefuses(e)

\* commitTurn(): the turn is closed and asked for.
Commit(e) ==
  /\ asked' = Append(asked, [turn |-> count.turns + 1, gap |-> e.gap])
  /\ count' = [count EXCEPT !.heard = @ + 1, !.turns = @ + 1]
  /\ ear' = [e EXCEPT !.chunks = 0]

\* pushRemotePcm, and the work it chains: the adapters take a frame without waiting.
HearFrame(verdict) ==
  LET e == [ear EXCEPT !.vad = IF verdict = "none" THEN @ ELSE verdict = "speech_started"]
      drops == kind.stt = "openai" /\ OpenAiDrops(ear)
  IN /\ ~down /\ recorder
     /\ ear.phase = "open" /\ ~ear.error
     /\ count.heard < MaxFrames
     /\ mouth' = IF verdict = "speech_started" THEN BargedIn(mouth) ELSE mouth
     /\ \/ /\ Refuses(ear)
           /\ ear' = [e EXCEPT !.complete = FALSE, !.gap = TRUE, !.chunks = 0]
           /\ events' = IF kind.stt = "groq" THEN Append(events, Problem) ELSE events
           /\ count' = [count EXCEPT !.heard = @ + 1]
           /\ UNCHANGED asked
        \/ /\ ~Refuses(ear) /\ drops
           /\ ear' = [e EXCEPT !.gap = TRUE]
           /\ count' = [count EXCEPT !.heard = @ + 1]
           /\ UNCHANGED <<asked, events>>
        \/ /\ ~Refuses(ear) /\ ~drops /\ verdict # "speech_stopped"
           /\ ear' = [e EXCEPT !.chunks = @ + 1]
           /\ count' = [count EXCEPT !.heard = @ + 1]
           /\ UNCHANGED <<asked, events>>
        \/ /\ ~Refuses(ear) /\ ~drops /\ verdict = "speech_stopped"
           /\ Commit(e)
           /\ UNCHANGED events
     /\ UNCHANGED <<kind, said, net, played, outcome, recorder, down>>

\* mutant: every turn is transcribed at once
AnswerableAll == 1..Len(asked)

\* The Groq session transcribes one turn at a time; the others answer in order.
Answerable == {i \in 1..Len(asked) : i = 1}

\* The provider answers a turn with its transcript or with an error.
Answer(i) ==
  /\ ~down /\ i \in Answerable /\ ~ear.ended
  /\ asked' = RemoveAt(asked, i)
  /\ \/ events' = Append(events, asked[i]) /\ UNCHANGED <<ear, count>>
     \/ /\ events' = Append(events, Problem)
        /\ ear' = [ear EXCEPT !.gap = TRUE]
        /\ Fault
  /\ UNCHANGED <<kind, said, recorder, down>> /\ UNCHANGED mouthVars

\* The socket of the transcription closes, or fails and is closed: OpenAI's adapter only
\* ends the events, ElevenLabs' also refuses what comes, and reports an error as one.
ConnectionLost(failed) ==
  /\ ~down /\ kind.stt # "groq" /\ ear.phase = "open" /\ ~ear.lost
  /\ Fault
  /\ failed => kind.stt = "elevenlabs"
  /\ ear' = [ear EXCEPT !.lost = TRUE, !.ended = TRUE,
                        !.gap = @ \/ asked # <<>> \/ ear.chunks > 0]
  /\ events' = IF failed THEN Append(events, Problem) ELSE events
  /\ asked' = <<>>
  /\ UNCHANGED <<kind, said, recorder, down>> /\ UNCHANGED mouthVars

Noted(e) == [e EXCEPT !.error = TRUE, !.complete = FALSE]

\* #handleSttEvent, one at a time.  The gateway refuses a transcript once it has given up
\* the recorder: the chain is rejected, and unless close() already waits for it nothing
\* handles that.
HandleEvent ==
  /\ ~down /\ events # <<>>
  /\ LET event == Head(events) IN
       \/ /\ event = Problem
          /\ ear' = Noted(ear)
          /\ events' = Tail(events)
          /\ UNCHANGED <<said, down>>
       \/ /\ event # Problem /\ recorder
          /\ said' = Append(said, [turn |-> event.turn, gap |-> event.gap,
                                   complete |-> ear.complete])
          /\ events' = Tail(events)
          /\ UNCHANGED <<ear, down>>
       \/ /\ event # Problem /\ ~recorder
          /\ events' = <<>>
          /\ down' = (ear.phase = "open")
          /\ UNCHANGED <<ear, said>>
  /\ UNCHANGED <<kind, asked, recorder, count>> /\ UNCHANGED mouthVars

\* The gateway disowns the recorder of an ended call, a lost phone or a failed write.
CallEnds ==
  /\ ~down /\ recorder
  /\ recorder' = FALSE
  /\ UNCHANGED <<kind, down, count>> /\ UNCHANGED earVars /\ UNCHANGED mouthVars

\* close(): no more frames, the speech cut if it may be, and the transcription aborted;
\* what it has been asked is not answered any more.
Close ==
  /\ ~down /\ ~recorder /\ ear.phase = "open"
  /\ ear' = [ear EXCEPT !.phase = "closing", !.ended = TRUE]
  /\ mouth' = BargedIn(mouth)
  /\ asked' = <<>>
  /\ UNCHANGED <<kind, events, said, net, played, outcome, recorder, down, count>>

\* close() has awaited eventWork.
Closed ==
  /\ ~down /\ ear.phase = "closing" /\ events = <<>> /\ ear.ended
  /\ ear' = [ear EXCEPT !.phase = "closed"]
  /\ UNCHANGED <<kind, asked, events, said, recorder, down, count>> /\ UNCHANGED mouthVars

-----------------------------------------------------------------------------
(* The synthesis adapters: what the next piece of a response yields *)

\* mutant: the odd byte is thrown away
StreamReadUncarried(n, piece) ==
  LET usable == Len(piece) - (Len(piece) % 2)
  IN [yield |-> SubSeq(piece, 1, usable), net |-> [n EXCEPT !.pos = @ + Len(piece)]]

\* OpenAI and ElevenLabs keep the odd byte of a piece for the next one.
StreamRead(n, piece) ==
  LET combined == n.carry \o piece
      usable == Len(combined) - (Len(combined) % 2)
  IN [yield |-> SubSeq(combined, 1, usable),
      net |-> [n EXCEPT !.pos = @ + Len(piece),
                        !.carry = SubSeq(combined, usable + 1, Len(combined))]]

\* Groq's WAV: offsets are of the whole response, but only the rest of it is at hand.
GroqRead(n, piece) ==
  LET combined == n.carry \o piece
      headed == n.header \/ Len(combined) >= Len(WavHeader)
      reach == IF Len(combined) < Len(Wire) THEN Len(combined) ELSE Len(Wire)
      available == reach - Len(WavHeader) - n.consumed
      aligned == IF available > 0 THEN available - (available % 2) ELSE 0
      start == Len(WavHeader) + n.consumed
      end == start + aligned
  IN IF ~headed
     THEN [yield |-> <<>>, net |-> [n EXCEPT !.pos = @ + Len(piece), !.carry = combined]]
     ELSE [yield |-> SubSeq(combined, start + 1, end),
           net |-> [pos |-> n.pos + Len(piece), header |-> TRUE, consumed |-> n.consumed + aligned,
                    carry |-> SubSeq(combined, end + 1, Len(combined))]]

Read(n, piece) == IF kind.tts = "groq" THEN GroqRead(n, piece) ELSE StreamRead(n, piece)

\* Supertonic decodes its whole response; a prewarmed phrase is copied from the cache.
PieceSizes == IF kind.tts \in {"whole", "cached"} THEN {Len(Wire)} ELSE 1..3
Piece(k) == SubSeq(Wire, net.pos + 1, net.pos + k)

-----------------------------------------------------------------------------
(* Speaking *)

Finish(m, result) == /\ mouth' = Silent /\ net' = Unread
                     /\ outcome' = IF m.cut THEN "interrupted" ELSE result

\* Where the loops of speak() go on with what is pending.
GoOn(m, n) ==
  IF m.cut \/ (m.ended /\ m.pending = <<>>) THEN Finish(m, "spoken")
  ELSE /\ mouth' = [m EXCEPT !.at = IF m.ended \/ Len(m.pending) >= FrameBytes THEN "pace"
                                    ELSE "chunk"]
       /\ net' = n /\ UNCHANGED outcome

\* The catch of an attempt: it is repeated, once, if nothing of it was heard.
Throw(m) ==
  IF m.cut \/ m.ended \/ m.sent > 0 \/ m.attempt >= RetryLimit THEN Finish(m, "failed")
  ELSE /\ mouth' = [m EXCEPT !.at = "chunk", !.attempt = @ + 1, !.pending = <<>>]
       /\ net' = Unread /\ UNCHANGED outcome

Speak(inter) ==
  /\ ~down /\ recorder /\ ear.phase = "open"
  /\ mouth.at = "idle" /\ count.speaks < MaxSpeaks
  /\ mouth' = [Silent EXCEPT !.at = "chunk", !.inter = inter]
  /\ net' = Unread /\ played' = <<>> /\ outcome' = "none"
  /\ count' = [count EXCEPT !.speaks = @ + 1]
  /\ UNCHANGED <<kind, recorder, down>> /\ UNCHANGED earVars

ChunkArrives ==
  /\ ~down /\ mouth.at = "chunk" /\ net.pos < Len(Wire)
  /\ \E k \in PieceSizes :
       /\ net.pos + k <= Len(Wire)
       /\ LET read == Read(net, Piece(k)) IN
            IF read.yield = <<>>
            THEN net' = read.net /\ UNCHANGED <<mouth, outcome>>
            ELSE GoOn([mouth EXCEPT !.pending = @ \o read.yield], read.net)
  /\ UNCHANGED <<kind, played, recorder, down, count>> /\ UNCHANGED earVars

\* The stream is done; a rest that is no sample is an error.
StreamEnds ==
  /\ ~down /\ mouth.at = "chunk" /\ net.pos = Len(Wire)
  /\ IF net.carry # <<>> THEN Throw(mouth)
     ELSE GoOn([mouth EXCEPT !.ended = TRUE], net)
  /\ UNCHANGED <<kind, played, recorder, down, count>> /\ UNCHANGED earVars

\* The provider refuses or fails; a phrase from the cache does not.
ProviderFails ==
  /\ ~down /\ mouth.at = "chunk" /\ kind.tts # "cached"
  /\ Fault
  /\ Throw(mouth)
  /\ UNCHANGED <<kind, played, recorder, down>> /\ UNCHANGED earVars

\* mutant: the timer aborts the provider and waits on
TimeoutDeaf ==
  /\ ~down /\ mouth.at = "chunk" /\ mouth.cut
  /\ Throw(mouth)
  /\ UNCHANGED <<kind, played, recorder, down, count>> /\ UNCHANGED earVars

\* nextTtsChunk: three seconds without a chunk, or the abort of a barge-in.
Timeout ==
  /\ ~down /\ mouth.at = "chunk"
  /\ Throw(mouth)
  /\ UNCHANGED <<kind, played, recorder, down, count>> /\ UNCHANGED earVars

\* mutant: what the wait was aborted for is not looked at
PacedRegardless ==
  /\ ~down /\ mouth.at = "pace"
  /\ mouth' = [mouth EXCEPT !.at = "send"]
  /\ UNCHANGED <<kind, net, outcome, played, recorder, down, count>> /\ UNCHANGED earVars

\* sendFrame: the time of the frame has come, or the wait was aborted.
Paced ==
  /\ ~down /\ mouth.at = "pace"
  /\ IF mouth.cut THEN Finish(mouth, "spoken")
     ELSE mouth' = [mouth EXCEPT !.at = "send"] /\ UNCHANGED <<net, outcome>>
  /\ UNCHANGED <<kind, played, recorder, down, count>> /\ UNCHANGED earVars

Frame == [i \in 1..FrameBytes |-> IF i <= Len(mouth.pending) THEN mouth.pending[i] ELSE Pad]
Rest == SubSeq(mouth.pending, FrameBytes + 1, Len(mouth.pending))

\* sendAgentPcm: the frame is recorded and handed to the phone, or there is no recorder.
Sent ==
  /\ ~down /\ mouth.at = "send"
  /\ IF recorder
     THEN /\ played' = played \o Frame
          /\ GoOn([mouth EXCEPT !.sent = @ + 1, !.pending = Rest], net)
     ELSE Throw(mouth) /\ UNCHANGED played
  /\ UNCHANGED <<kind, recorder, down, count>> /\ UNCHANGED earVars

-----------------------------------------------------------------------------
Settles == Timeout \/ Paced \/ Sent

Next ==
  \/ \E verdict \in Verdicts(ear.vad) : HearFrame(verdict)
  \/ \E i \in 1..Len(asked) : Answer(i)
  \/ \E failed \in BOOLEAN : ConnectionLost(failed)
  \/ HandleEvent \/ CallEnds \/ Close \/ Closed
  \/ \E inter \in BOOLEAN : Speak(inter)
  \/ ChunkArrives \/ StreamEnds \/ ProviderFails \/ Settles

\* Timers fire, a write to the recorder settles, and the event chain runs; no provider
\* owes an answer.
Spec ==
  /\ Init /\ [][Next]_vars
  /\ WF_vars(Settles) /\ WF_vars(HandleEvent \/ Closed)

-----------------------------------------------------------------------------
(* Properties *)

\* The turns of the caller are recorded in the order in which they were spoken.
TranscriptInOrder == \A i, j \in 1..Len(said) : i < j => said[i].turn < said[j].turn

\* A transcript that calls itself complete is: every earlier turn is recorded, and every
\* frame heard before its end was in a turn.
CompleteHonest ==
  \A i \in 1..Len(said) : said[i].complete => said[i].turn = i /\ ~said[i].gap

\* The Groq adapter is known to lose audio of a WAV that comes in several pieces and to report
\* the reply as spoken (GroqRead): until that is mended, the next two are about the others.
Reliable == kind.tts # "groq"

\* What the phone is sent of a reply is its audio from the beginning, each byte once and in
\* its place, whatever the pieces of the network and the attempts of the provider.
HeardOnce ==
  Reliable => \A i \in 1..Len(played) : played[i] = IF i <= Bytes THEN Audio[i] ELSE Pad

\* A reply that speak() reports as spoken has reached the phone to its last byte.
SpokenWhole ==
  Reliable /\ outcome = "spoken" => Len(played) >= Bytes /\ SubSeq(played, 1, Bytes) = Audio

\* After the caller has cut a reply off no frame of it begins to be sent, not one that was
\* waiting for its time either: at most the one that was already being recorded is heard.
CutStaysCut == [][mouth.cut => mouth'.at # "send" \/ mouth.at = "send"]_vars

\* A speech ends, and frees the only speech slot, though its provider never answers.
SlotFreed == mouth.at # "idle" ~> mouth.at = "idle" \/ down

\* close() returns: the teardown of the recording awaits it.
Closes == ear.phase = "closing" ~> ear.phase = "closed"

\* In every state: its types, and a transcript in the order of the call that is called
\* complete only when nothing of it is missing.
SpeechInv == TypeOK /\ TranscriptInOrder /\ CompleteHonest

\* The phone is sent the audio of the reply and nothing else, and all of it when speak()
\* says so.
SpokenTrue == HeardOnce /\ SpokenWhole

\* Neither a provider that hangs nor one that has died keeps the speech slot or close().
SpeechLive == SlotFreed /\ Closes
=============================================================================
