------------------------------ MODULE VoiceTurns ------------------------------
(* One conversation of the voice agent (pc/pc-gateway/scripts/                  *)
(* hermes-voice-supervisor.js): VoiceTurnQueue collects what the caller says,   *)
(* superviseHermesTurns answers it from prepared replies or from Hermes, the    *)
(* language model behind HermesGatewayClient, and speaks through the gateway.   *)
(*                                                                              *)
(* The supervisor is one JavaScript thread.  An action is what runs between two *)
(* awaits; while a call of the gateway or of Hermes is awaited the caller goes  *)
(* on talking, timers fire, the call may end and the time limit may pass.  What *)
(* is said is one of four kinds of text: the answers depend on nothing else.    *)
(*                                                                              *)
(* A definition in front of another one whose name extends that name is a       *)
(* deliberately broken variant of it, which no other definition uses.           *)
EXTENDS Naturals, Sequences, FiniteSets

CONSTANTS
  MaxFragments,   \* bound: the transcript fragments of the caller
  MaxFailures,    \* MAX_CONSECUTIVE_HERMES_FAILURES
  KeepEvents,     \* how many turns the queue keeps (100 in the code)
  Faults          \* "rpc": a call of the gateway fails; "hermes": Hermes fails or is late

ASSUME BoundsAssumption ==
  /\ MaxFragments \in Nat /\ MaxFailures \in Nat \ {0} /\ KeepEvents \in Nat \ {0}
  /\ Faults \subseteq {"rpc", "hermes"}

VARIABLES
  direction,  \* whose call it is: the prepared replies differ
  call,       \* the phone's call: active, ended
  late,       \* the time limit of the conversation has passed
  fragments,  \* how many fragments the caller has spoken
  queue,      \* VoiceTurnQueue: sequence, events, pending, lastTurn, cut
  at,         \* where superviseHermesTurns waits
  turn,       \* the turn it answers; while it waits for one, what the waiter was handed
  loop,       \* afterSequence, silences, failures, signature, used, talked, verify
  speech,     \* speechChain: the jobs queued, the one running, failed, interrupted
  timers,     \* the acknowledgement timers armed
  hermes,     \* up, the prompts Hermes works on, whether a forgotten waiter is left
  reply,      \* what Hermes answered
  outcome,    \* how the conversation ended
  answered,   \* history: the turns a reply was spoken to, in that order
  told,       \* history: the turns Hermes has been told of
  farewell    \* history: a farewell has been given to the speech service

talkVars == <<direction, call, late, fragments, queue, at, turn, loop, speech, timers,
          hermes, reply, outcome, answered, told, farewell>>
callVars == <<direction, call, late>>
history == <<answered, told, farewell>>

Texts == {"attention", "affirm", "bye", "question"}
NoTurn == [seq |-> 0, status |-> "none", text |-> "none", prev |-> 0, cut |-> FALSE]
SomeTurns ==
  [seq : Nat, status : {"turn", "ended"}, text : Texts \cup {"none"}, prev : Nat, cut : BOOLEAN]
Jobs == [kind : {"ack", "prepared", "response"}, safe : BOOLEAN, cuttable : BOOLEAN, bye : BOOLEAN]
Intents == {"closing", "attention", "name_only", "recipient_confirmed", "verification_retry"}
NoReply == [class |-> "none", for |-> 0, safe |-> FALSE]
Places ==
  {"status", "waiting", "silenceStatus", "silenceSpeech", "silenceHangup",
   "prepared", "preparedHangup", "thinking", "replying", "hangup", "recovering",
   "recoveryStatus", "recoverySpeech", "closingStatus", "closingSpeech", "closingHangup", "done"}
Outcomes ==
  {"none", "call_ended", "agent_hangup", "agent_unavailable", "maximum_duration", "threw", "died"}

TalkTypeOK ==
  /\ direction \in {"incoming", "outgoing"} /\ call \in {"active", "ended"} /\ late \in BOOLEAN
  /\ fragments \in 0..MaxFragments
  /\ queue \in [sequence : Nat, events : Seq(SomeTurns), pending : SUBSET Texts,
                lastTurn : Nat, cut : BOOLEAN]
  /\ Len(queue.events) <= KeepEvents
  /\ at \in Places /\ turn \in SomeTurns \cup {NoTurn}
  /\ loop \in [after : Nat, silences : 0..2, failures : 0..MaxFailures, attention : BOOLEAN,
               used : SUBSET Intents, talked : BOOLEAN, verify : BOOLEAN, ledger : SUBSET Nat]
  /\ speech \in [jobs : Seq(Jobs), running : {"idle", "status", "speaking"},
                 failed : BOOLEAN, interrupted : BOOLEAN]
  /\ Len(speech.jobs) <= 3
  /\ timers \subseteq {"first", "followUp"}
  /\ hermes \in [up : BOOLEAN, prompts : Seq(Nat), forgotten : BOOLEAN]
  /\ reply \in [class : {"none", "answer", "goodbye"}, for : Nat, safe : BOOLEAN]
  /\ outcome \in Outcomes
  /\ answered \in Seq(Nat) /\ told \subseteq Nat /\ farewell \in BOOLEAN

SilentSpeech == [jobs |-> <<>>, running |-> "idle", failed |-> FALSE, interrupted |-> FALSE]

\* The opening has been spoken and what was captured before it discarded.
TalkInit ==
  /\ direction \in {"incoming", "outgoing"} /\ call = "active" /\ late = FALSE
  /\ fragments = 0
  /\ queue = [sequence |-> 0, events |-> <<>>, pending |-> {}, lastTurn |-> 0, cut |-> FALSE]
  /\ at = "status" /\ turn = NoTurn
  /\ loop = [after |-> 0, silences |-> 0, failures |-> 0, attention |-> FALSE, used |-> {},
             talked |-> FALSE, verify |-> TRUE, ledger |-> {}]
  /\ speech = SilentSpeech /\ timers = {}
  /\ hermes = [up |-> TRUE, prompts |-> <<>>, forgotten |-> FALSE]
  /\ reply = NoReply /\ outcome = "none"
  /\ answered = <<>> /\ told = {} /\ farewell = FALSE

Talking == outcome = "none"
Fails(kind) == kind \in Faults

-----------------------------------------------------------------------------
(* The queue of turns.                                                         *)

\* Fragments merge into one text.  Of its parts the strongest decides how it is read:
\* a specific question, then a goodbye, then an affirmation, then "hello".
MergedText(parts) ==
  CHOOSE t \in parts :
    \A other \in parts :
      LET Rank == [question |-> 4, bye |-> 3, affirm |-> 2, attention |-> 1]
      IN Rank[t] >= Rank[other]

\* #publish: the queue keeps the last events.
Kept(events) == IF Len(events) > KeepEvents THEN Tail(events) ELSE events

Published(q, event) ==
  [q EXCEPT !.sequence = @ + 1,
            !.events = Kept(Append(@, [event EXCEPT !.seq = q.sequence + 1]))]

\* #flush: the pending fragments become a turn, with what the caller cut short.
Flushed(q) ==
  IF q.pending = {} THEN q
  ELSE [Published(q, [NoTurn EXCEPT !.status = "turn", !.text = MergedText(q.pending),
                                    !.prev = q.lastTurn, !.cut = q.cut])
          EXCEPT !.pending = {}, !.lastTurn = q.sequence + 1, !.cut = FALSE]

\* latestSequence, and the newest event after a sequence number (findLast).
Newest(q) == q.events[Len(q.events)]
Latest(q) == IF q.events = <<>> THEN 0 ELSE Newest(q).seq
Newer(q, after) == Latest(q) > after
IsStale == Newer(queue, turn.seq)

\* A waiter is handed the event that is published while it waits.
HandedBy(q) == IF at = "waiting" /\ turn = NoTurn /\ Newer(q, loop.after) THEN Newest(q) ELSE turn

\* A final fragment of the caller; the settle timer starts again.
CallerSpeaks(text) ==
  /\ Talking /\ call = "active" /\ fragments < MaxFragments
  /\ fragments' = fragments + 1
  /\ queue' = [queue EXCEPT !.pending = @ \cup {text}]
  /\ UNCHANGED <<callVars, at, turn, loop, speech, timers, hermes, reply, outcome, history>>

\* The settle timer fires.
TurnSettles ==
  /\ Talking /\ queue.pending # {}
  /\ queue' = Flushed(queue) /\ turn' = HandedBy(Flushed(queue))
  /\ UNCHANGED <<callVars, fragments, at, loop, speech, timers, hermes, reply, outcome, history>>

\* The call ends: what is pending is flushed first, then the end published.
QueueAtEnd ==
  [Published(Flushed(queue), [NoTurn EXCEPT !.status = "ended"])
     EXCEPT !.lastTurn = 0, !.cut = FALSE]

CallIsOver ==
  /\ Talking /\ call = "active"
  /\ call' = "ended"
  /\ queue' = QueueAtEnd
  /\ turn' = IF queue.pending # {} THEN HandedBy(Flushed(queue)) ELSE HandedBy(QueueAtEnd)
  /\ UNCHANGED <<direction, late, fragments, at, loop, speech, timers, hermes, reply,
                 outcome, history>>

TimeRunsOut ==
  /\ Talking /\ ~late /\ late' = TRUE
  /\ UNCHANGED <<direction, call, fragments, queue, at, turn, loop, speech, timers, hermes,
                 reply, outcome, history>>

-----------------------------------------------------------------------------
(* Prepared replies.                                                           *)

\* What a text asks for, "none" when it needs Hermes.  A short statement as the first
\* turn of an incoming call is taken for a name.
IncomingIntent(text) ==
  CASE text = "bye" -> "closing"
    [] text = "attention" -> "attention"
    [] text = "affirm" /\ ~loop.talked -> "name_only"
    [] OTHER -> "none"

OutgoingIntent(text) ==
  CASE text = "bye" -> "closing"
    [] text = "affirm" /\ loop.verify -> "recipient_confirmed"
    [] text = "attention" /\ loop.verify /\ "verification_retry" \notin loop.used ->
         "verification_retry"
    [] text = "attention" /\ ~(loop.verify /\ "verification_retry" \notin loop.used) -> "attention"
    [] OTHER -> "none"

Intent(text) == IF direction = "incoming" THEN IncomingIntent(text) ELSE OutgoingIntent(text)

\* The responders use every prepared reply once, except the one to "hello".
Prepared(text) == Intent(text) # "none" /\ Intent(text) \notin loop.used

\* A confirmation, or anything substantive, ends the verification of the recipient.
VerifyAfter(text) ==
  loop.verify /\ Intent(text) # "recipient_confirmed"
              /\ (Intent(text) # "none" \/ text = "attention")

UsedAfter(text) ==
  IF Prepared(text) /\ Intent(text) # "attention" THEN loop.used \cup {Intent(text)} ELSE loop.used

PreparedJob(text) ==
  LET calm == Intent(text) \in {"attention", "verification_retry"}
      bye == Intent(text) = "closing"
  IN [kind |-> "prepared", safe |-> calm, cuttable |-> ~calm /\ ~bye, bye |-> bye]

-----------------------------------------------------------------------------
(* The loop of superviseHermesTurns.                                           *)

Finish(reason) ==
  /\ outcome' = reason /\ at' = "done" /\ timers' = {}

\* The next round: nothing of the last one is left but its history.
NextRound ==
  IF late THEN Finish("maximum_duration")
  ELSE at' = "status" /\ UNCHANGED <<outcome, timers>>

\* status() of the gateway at the start of a round, then waitForTurn: it is handed the
\* newest event at once (turns before it that nobody took are skipped), or waits.
WaiterDeaf == NoTurn
Waiter == IF Newer(queue, loop.after) THEN Newest(queue) ELSE NoTurn

RoundStatus ==
  /\ Talking /\ at = "status"
  /\ \/ call = "ended" /\ Finish("call_ended") /\ UNCHANGED turn
     \/ call = "active" /\ at' = "waiting" /\ turn' = Waiter /\ UNCHANGED <<outcome, timers>>
     \/ Fails("rpc") /\ Finish("threw") /\ UNCHANGED turn
  /\ UNCHANGED <<callVars, fragments, queue, loop, speech, hermes, reply, history>>

\* Nobody spoke for a while: the first time the agent asks, the second time it leaves.
Silence ==
  /\ Talking /\ at = "waiting" /\ turn = NoTurn
  /\ loop' = [loop EXCEPT !.silences = @ + 1]
  /\ at' = "silenceStatus"
  /\ UNCHANGED <<callVars, fragments, queue, turn, speech, timers, hermes, reply, outcome, history>>

SilenceStatus ==
  /\ Talking /\ at = "silenceStatus"
  /\ \/ call = "ended" /\ Finish("call_ended") /\ UNCHANGED farewell
     \/ /\ call = "active" /\ at' = "silenceSpeech" /\ farewell' = (farewell \/ loop.silences = 2)
        /\ UNCHANGED <<outcome, timers>>
     \/ Fails("rpc") /\ Finish("threw") /\ UNCHANGED farewell
  /\ UNCHANGED <<callVars, fragments, queue, turn, loop, speech, hermes, reply, answered, told>>

SilenceSpoken ==
  /\ Talking /\ at = "silenceSpeech"
  /\ \/ loop.silences = 2 /\ at' = "silenceHangup" /\ UNCHANGED <<outcome, timers>>
     \/ loop.silences < 2 /\ NextRound
     \/ Fails("rpc") /\ \E reason \in {"agent_unavailable", "threw"} : Finish(reason)
  /\ UNCHANGED <<callVars, fragments, queue, turn, loop, speech, hermes, reply, history>>

SilenceHangup ==
  /\ Talking /\ at = "silenceHangup" /\ Finish("agent_hangup")
  /\ UNCHANGED <<callVars, fragments, queue, turn, loop, speech, hermes, reply, history>>

EndHeard ==
  /\ Talking /\ at = "waiting" /\ turn.status = "ended"
  /\ Finish("call_ended")
  /\ UNCHANGED <<callVars, fragments, queue, turn, loop, speech, hermes, reply, history>>

\* A second "hello" right after the first is not answered again.
Suppressed(text, recent) == text = "attention" /\ loop.attention /\ recent

Taken(t) == [loop EXCEPT !.after = t.seq, !.silences = 0, !.attention = t.text = "attention"]

SuppressTurn ==
  /\ Talking /\ at = "waiting" /\ turn.status = "turn"
  /\ Suppressed(turn.text, TRUE)
  /\ loop' = Taken(turn) /\ NextRound
  /\ UNCHANGED <<callVars, fragments, queue, turn, speech, hermes, reply, history>>

\* The turn has a prepared reply: it is queued as speech and awaited.
TakePreparedTurn ==
  /\ Talking /\ at = "waiting" /\ turn.status = "turn" /\ Prepared(turn.text)
  /\ at' = "prepared"
  /\ loop' = [Taken(turn) EXCEPT !.used = UsedAfter(turn.text), !.verify = VerifyAfter(turn.text)]
  /\ LET job == PreparedJob(turn.text)
     IN /\ speech' = [SilentSpeech EXCEPT !.jobs = <<job>>]
        /\ reply' = [class |-> IF job.bye THEN "goodbye" ELSE "answer",
                     for |-> turn.seq, safe |-> job.safe]
  /\ UNCHANGED <<callVars, fragments, queue, turn, timers, hermes, outcome, history>>

\* voiceReplyPrompt: the turn, the one before it, and the ledger of spoken turns.
ToldBy(t) == (told \cup {t.seq, t.prev} \cup loop.ledger) \ {0}

\* prompt.submit is written to Hermes.
Submitted(t) == IF hermes.up THEN [hermes EXCEPT !.prompts = Append(@, t.seq)] ELSE hermes

\* The turn goes to Hermes, and the acknowledgement timers are armed for the wait.
AskHermes ==
  /\ Talking /\ at = "waiting" /\ turn.status = "turn" /\ ~Prepared(turn.text)
  /\ at' = "thinking"
  /\ loop' = [Taken(turn) EXCEPT !.verify = VerifyAfter(turn.text)]
  /\ speech' = SilentSpeech
  /\ \E armed \in {{}, {"first"}, {"first", "followUp"}} : timers' = armed
  /\ hermes' = Submitted(turn)
  /\ told' = IF hermes.up THEN ToldBy(turn) ELSE told
  /\ UNCHANGED <<callVars, fragments, queue, turn, reply, outcome, answered, farewell>>

-----------------------------------------------------------------------------
(* Speech.  speechChain runs the jobs of a round one after the other.          *)

Queued(s, kind, cuttable, bye) ==
  [s EXCEPT !.jobs = Append(@, [kind |-> kind, safe |-> FALSE, cuttable |-> cuttable, bye |-> bye])]
Popped(s) == [s EXCEPT !.jobs = Tail(@), !.running = "idle"]
Drained == speech.jobs = <<>> /\ speech.running = "idle"

\* While Hermes is awaited nobody handles a rejection of the chain: the process dies.
ChainFails ==
  IF at = "thinking" THEN Finish("died") /\ UNCHANGED speech
  ELSE /\ speech' = [speech EXCEPT !.jobs = <<>>, !.running = "idle", !.failed = TRUE]
       /\ UNCHANGED <<at, outcome, timers>>

\* What is stale when its turn comes is not spoken.
Skips(job) == speech.interrupted \/ (~job.safe /\ IsStale)

SpeechStarts ==
  /\ Talking /\ speech.running = "idle" /\ speech.jobs # <<>>
  /\ speech' = IF Skips(Head(speech.jobs)) THEN Popped(speech)
               ELSE [speech EXCEPT !.running = "status"]
  /\ UNCHANGED <<callVars, fragments, queue, at, turn, loop, timers, hermes, reply, outcome, history>>

SpeechStatus ==
  /\ Talking /\ speech.running = "status"
  /\ LET job == Head(speech.jobs)
     IN \/ /\ call = "ended" /\ speech' = Popped(speech)
           /\ UNCHANGED <<at, outcome, timers, answered, farewell>>
        \/ /\ call = "active" /\ speech' = [speech EXCEPT !.running = "speaking"]
           /\ answered' = IF job.kind = "ack" THEN answered ELSE Append(answered, turn.seq)
           /\ farewell' = (farewell \/ job.bye)
           /\ UNCHANGED <<at, outcome, timers>>
        \/ Fails("rpc") /\ ChainFails /\ UNCHANGED <<answered, farewell>>
  /\ UNCHANGED <<callVars, fragments, queue, turn, loop, hermes, reply, told>>

\* speak() returns: accepted, or cut short by the caller, or refused.
SpeechEnds ==
  /\ Talking /\ speech.running = "speaking"
  /\ \/ /\ speech' = Popped(speech) /\ UNCHANGED <<queue, at, outcome, timers>>
     \/ /\ Head(speech.jobs).cuttable
        /\ speech' = [Popped(speech) EXCEPT !.interrupted = TRUE]
        /\ queue' = [queue EXCEPT !.cut = call = "active"]
        /\ UNCHANGED <<at, outcome, timers>>
     \/ /\ call = "ended" \/ Fails("rpc")
        /\ IF IsStale THEN speech' = Popped(speech) /\ UNCHANGED <<at, outcome, timers>>
           ELSE ChainFails
        /\ UNCHANGED queue
  /\ UNCHANGED <<callVars, fragments, turn, loop, hermes, reply, history>>

-----------------------------------------------------------------------------
(* Waiting for Hermes.                                                         *)

\* An acknowledgement timer fires; the follow-up is the later one.
AcknowledgeNow(timer) ==
  /\ Talking /\ timer \in timers /\ (timer = "followUp" => "first" \notin timers)
  /\ timers' = timers \ {timer}
  /\ speech' = IF IsStale THEN speech ELSE Queued(speech, "ack", TRUE, FALSE)
  /\ UNCHANGED <<callVars, fragments, queue, at, turn, loop, hermes, reply, outcome, history>>

\* clearAcknowledgementTimers, as soon as Hermes has answered or failed.
ClearTimersForgotten == UNCHANGED timers
ClearTimers == timers' = {}

\* Hermes completes a prompt.  The event names the session and not the prompt: whoever
\* waits takes it, a waiter left behind by an earlier prompt too.
HermesCompletes ==
  /\ Talking /\ hermes.up /\ hermes.prompts # <<>>
  /\ hermes' = [hermes EXCEPT !.prompts = Tail(@), !.forgotten = FALSE]
  /\ \/ /\ at # "thinking" /\ UNCHANGED <<at, loop, speech, timers, reply>>
     \/ /\ at = "thinking" /\ ClearTimers
        /\ \E class \in {"answer", "goodbye"} :
             /\ reply' = [class |-> class, for |-> Head(hermes.prompts), safe |-> FALSE]
             /\ speech' = Queued(speech, "response", class = "answer", class = "goodbye")
        /\ loop' = [loop EXCEPT !.failures = 0]
        /\ at' = "replying"
     \/ /\ at = "thinking" /\ Fails("hermes") /\ ClearTimers
        /\ at' = "recovering" /\ UNCHANGED <<loop, speech, reply>>
  /\ UNCHANGED <<callVars, fragments, queue, turn, outcome, history>>

\* No answer in time: Hermes goes on working on the prompt.  When it has not even taken
\* the prompt, the rejection of the completion comes first, and nobody handles it.
HermesTimesOutNever == FALSE /\ UNCHANGED talkVars
HermesTimesOut ==
  /\ Talking /\ at = "thinking" /\ hermes.up /\ (Fails("hermes") \/ late)
  /\ \/ ClearTimers /\ at' = "recovering" /\ UNCHANGED outcome
     \/ Fails("hermes") /\ Finish("died")
  /\ UNCHANGED <<callVars, fragments, queue, turn, loop, speech, hermes, reply, history>>

\* prompt.submit is refused, or Hermes is gone: the waiter for its completion stays behind.
SubmitRefused ==
  /\ Talking /\ at = "thinking"
  /\ \/ ~hermes.up /\ hermes' = [hermes EXCEPT !.forgotten = TRUE]
     \/ /\ Fails("hermes") /\ hermes.up /\ hermes.prompts # <<>>
        /\ hermes.prompts[Len(hermes.prompts)] = turn.seq
        /\ hermes' = [hermes EXCEPT !.prompts = SubSeq(@, 1, Len(@) - 1), !.forgotten = TRUE]
  /\ ClearTimers /\ at' = "recovering"
  /\ UNCHANGED <<callVars, fragments, queue, turn, loop, speech, reply, outcome, history>>

\* Its time runs out, and nobody handles the rejection.
ForgottenWaiterFails ==
  /\ Talking /\ hermes.forgotten /\ Finish("died")
  /\ UNCHANGED <<callVars, fragments, queue, turn, loop, speech, hermes, reply, history>>

\* The process of Hermes exits: every request is rejected, now and later.  A waiter left
\* behind, or a completion whose prompt is not yet taken, is rejected with nobody to handle it.
HermesExits ==
  /\ Talking /\ Fails("hermes") /\ hermes.up
  /\ hermes' = [hermes EXCEPT !.up = FALSE, !.prompts = <<>>]
  /\ \/ (hermes.forgotten \/ at = "thinking") /\ Finish("died")
     \/ ~hermes.forgotten /\ at = "thinking" /\ ClearTimers /\ at' = "recovering" /\ UNCHANGED outcome
     \/ ~hermes.forgotten /\ at # "thinking" /\ UNCHANGED <<at, timers, outcome>>
  /\ UNCHANGED <<callVars, fragments, queue, turn, loop, speech, reply, history>>

-----------------------------------------------------------------------------
(* After the speech of a round.                                                *)

Remembered == [loop EXCEPT !.talked = TRUE, !.ledger = @ \cup {turn.seq}]

\* A reply that was cut short, or that a newer turn overtook, is not remembered.
PreparedStale == speech.interrupted \/ (~reply.safe /\ IsStale)

PreparedSpoken ==
  /\ Talking /\ at = "prepared" /\ Drained
  /\ \/ speech.failed /\ Finish("threw") /\ UNCHANGED loop
     \/ ~speech.failed /\ PreparedStale /\ NextRound /\ UNCHANGED loop
     \/ /\ ~speech.failed /\ ~PreparedStale /\ loop' = Remembered
        /\ IF reply.class = "goodbye" THEN at' = "preparedHangup" /\ UNCHANGED <<outcome, timers>>
           ELSE NextRound
  /\ UNCHANGED <<callVars, fragments, queue, turn, speech, hermes, reply, history>>

PreparedHangup ==
  /\ Talking /\ at = "preparedHangup"
  /\ Finish("agent_hangup") \/ (Fails("rpc") /\ Finish("threw"))
  /\ UNCHANGED <<callVars, fragments, queue, turn, loop, speech, hermes, reply, history>>

\* A goodbye counts as spoken even when a newer turn kept it from being spoken.
ReplyStale == speech.interrupted \/ (reply.class # "goodbye" /\ IsStale)

ReplySpoken ==
  /\ Talking /\ at = "replying" /\ Drained
  /\ \/ speech.failed /\ at' = "recovering" /\ UNCHANGED <<loop, outcome, timers>>
     \/ ~speech.failed /\ ReplyStale /\ NextRound /\ UNCHANGED loop
     \/ /\ ~speech.failed /\ ~ReplyStale /\ loop' = Remembered
        /\ IF reply.class = "goodbye" THEN at' = "hangup" /\ UNCHANGED <<outcome, timers>>
           ELSE NextRound
  /\ UNCHANGED <<callVars, fragments, queue, turn, speech, hermes, reply, history>>

Hangup ==
  /\ Talking /\ at = "hangup"
  /\ \/ Finish("agent_hangup")
     \/ Fails("rpc") /\ at' = "recovering" /\ UNCHANGED <<outcome, timers>>
  /\ UNCHANGED <<callVars, fragments, queue, turn, loop, speech, hermes, reply, history>>

\* The catch of a round: what speech is queued ends first.
Recover ==
  /\ Talking /\ at = "recovering" /\ Drained
  /\ \/ late /\ Finish("maximum_duration") /\ UNCHANGED loop
     \/ /\ ~late /\ (speech.interrupted \/ IsStale)
        /\ at' = "status" /\ UNCHANGED <<loop, outcome, timers>>
     \/ /\ ~late /\ ~speech.interrupted /\ ~IsStale
        /\ loop' = [loop EXCEPT !.failures = @ + 1]
        /\ at' = IF loop.failures + 1 < MaxFailures THEN "recoveryStatus" ELSE "closingStatus"
        /\ UNCHANGED <<outcome, timers>>
  /\ UNCHANGED <<callVars, fragments, queue, turn, speech, hermes, reply, history>>

RecoveryStatus ==
  /\ Talking /\ at = "recoveryStatus"
  /\ \/ call = "ended" /\ Finish("call_ended")
     \/ call = "active" /\ at' = "recoverySpeech" /\ UNCHANGED <<outcome, timers>>
     \/ Fails("rpc") /\ at' = "closingStatus" /\ UNCHANGED <<outcome, timers>>
  /\ UNCHANGED <<callVars, fragments, queue, turn, loop, speech, hermes, reply, history>>

RecoverySpoken ==
  /\ Talking /\ at = "recoverySpeech"
  /\ \/ NextRound
     \/ (Fails("rpc") \/ call = "ended") /\ at' = "closingStatus" /\ UNCHANGED <<outcome, timers>>
  /\ UNCHANGED <<callVars, fragments, queue, turn, loop, speech, hermes, reply, history>>

\* The agent gives up: a farewell, whatever becomes of it, and then the hang-up.
ClosingStatus ==
  /\ Talking /\ at = "closingStatus"
  /\ \/ call = "ended" /\ Finish("agent_unavailable") /\ UNCHANGED farewell
     \/ /\ call = "active" /\ at' = "closingSpeech" /\ farewell' = TRUE
        /\ UNCHANGED <<outcome, timers>>
     \/ Fails("rpc") /\ Finish("agent_unavailable") /\ UNCHANGED farewell
  /\ UNCHANGED <<callVars, fragments, queue, turn, loop, speech, hermes, reply, answered, told>>

ClosingSpoken ==
  /\ Talking /\ at = "closingSpeech"
  /\ \/ at' = "closingHangup" /\ UNCHANGED <<outcome, timers>>
     \/ Fails("rpc") /\ Finish("agent_unavailable")
  /\ UNCHANGED <<callVars, fragments, queue, turn, loop, speech, hermes, reply, history>>

ClosingHangup ==
  /\ Talking /\ at = "closingHangup"
  /\ Finish("agent_hangup") \/ (Fails("rpc") /\ Finish("agent_unavailable"))
  /\ UNCHANGED <<callVars, fragments, queue, turn, loop, speech, hermes, reply, history>>

-----------------------------------------------------------------------------
Loop ==
  \/ RoundStatus \/ Silence \/ SilenceStatus \/ SilenceSpoken \/ SilenceHangup
  \/ EndHeard \/ SuppressTurn \/ TakePreparedTurn \/ AskHermes
  \/ PreparedSpoken \/ PreparedHangup \/ ReplySpoken \/ Hangup
  \/ Recover \/ RecoveryStatus \/ RecoverySpoken
  \/ ClosingStatus \/ ClosingSpoken \/ ClosingHangup

Speaking == SpeechStarts \/ SpeechStatus \/ SpeechEnds

Hermes ==
  HermesCompletes \/ HermesTimesOut \/ SubmitRefused \/ ForgottenWaiterFails \/ HermesExits

TalkNext ==
  \/ \E text \in Texts : CallerSpeaks(text)
  \/ TurnSettles \/ CallIsOver \/ TimeRunsOut
  \/ Loop \/ Speaking \/ Hermes
  \/ \E timer \in {"first", "followUp"} : AcknowledgeNow(timer)

\* Every call of the gateway has a timeout, so its await settles; a settle timer that is
\* armed fires.  Hermes need not answer: the timer of its waiter fires then, and a process
\* that is gone rejects what it is asked.
TalkSpec ==
  /\ TalkInit /\ [][TalkNext]_talkVars
  /\ WF_talkVars(Loop) /\ WF_talkVars(Speaking) /\ WF_talkVars(TurnSettles)
  /\ WF_talkVars(HermesTimesOut) /\ WF_talkVars(~hermes.up /\ SubmitRefused)

-----------------------------------------------------------------------------
(* Properties.                                                                 *)

\* The agent hangs up on a caller only after a farewell was given to the speech service, or
\* over a goodbye that the caller talked past.
HangupAnnounced ==
  outcome = "agent_hangup" /\ call = "active" => farewell \/ IsStale

\* Turns are answered in the order they were spoken, none of them twice: no reply to an
\* earlier turn follows the reply to a later one.
AnsweredInOrder ==
  \A i, j \in DOMAIN answered : i < j => answered[i] < answered[j]

\* The loop never speaks while the chain of the round still does: an acknowledgement that
\* its timer queues late must not run into a recovery prompt or the farewell.
OneVoice ==
  ~(at \in {"silenceSpeech", "recoverySpeech", "closingSpeech"} /\ speech.running = "speaking")

\* A round counts as silence only when the caller has said nothing since the last turn taken:
\* a turn that settles while the loop is between two awaits is not lost.
SilenceIsReal ==
  [][loop'.silences > loop.silences => ~Newer(queue, loop.after)]_talkVars

\* Once the call has ended, or its time is over, the conversation ends.
ConversationEnds == (call = "ended" \/ late) ~> (outcome # "none")

\* In every state of a conversation: its types, and that the caller is answered in order, by
\* one voice at a time, and is not hung up on without a farewell.
ConversationInv == TalkTypeOK /\ HangupAnnounced /\ AnsweredInOrder /\ OneVoice
=============================================================================
