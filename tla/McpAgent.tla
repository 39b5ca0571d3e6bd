------------------------------ MODULE McpAgent ------------------------------
(***************************************************************************)
(* The MCP server an external agent runs a phone call through              *)
(* (src/pc/pc-gateway/src/mcp-server.js): how the events of the daemon     *)
(* become numbered turns the agent polls for, how a dialled call gets its  *)
(* rendered opening, how an acknowledgement bridges the time an agent      *)
(* takes to think, and how the agent's replies are ordered against all of  *)
(* these on the one voice a call has (Gateway.speak, gateway.js).   *)
(*                                                                         *)
(* The agent has at most one wait and one speak in flight; the two overlap *)
(* freely with the events, the timers and the answers of the daemon.       *)
(***************************************************************************)
EXTENDS Integers, Sequences, FiniteSets, Functions

CONSTANTS
  MaxFragments,   \* bound: final transcripts of the caller
  MaxPolls        \* bound: status reads of an opening after the first

ASSUME McpAgentAssumption == MaxFragments \in Nat /\ MaxPolls \in Nat

VARIABLES
  call,      \* the call at the daemon, and what its events have told the server
  dial,      \* the dial tool
  opening,   \* the rendered opening of a dialled call
  prep,      \* the prepared replies of the call
  turns,     \* turnEvents: what the caller said, {} for the end of the call
  frag,      \* pendingRemoteTurns: fragments that have not settled
  spoke,     \* fragments so far
  rings,     \* incomingEvents: sequence of the last one
  wait,      \* the wait tool in flight
  cursor,    \* waitCursorByCall (-1: never waited), and that of incoming calls
  heard,     \* history: the answers of wait_for_turn that handed something over, each
             \* as the numbers of the turns it was merged from
  say,       \* the speak tool in flight
  replied,   \* history: the newest turn that a reply of the agent answered
  ack,       \* pendingAcknowledgement
  mouth,     \* the speech that the daemon plays on the call
  server     \* "open", or "closed" once its input has ended

mcpVars == <<call, dial, opening, prep, turns, frag, spoke, rings, wait, cursor, heard, say,
             replied, ack, mouth, server>>
agentVars == <<wait, cursor, heard>>

MaxTurns == MaxFragments + 1
Kinds == {"words", "hello", "bye"}
Ended == {}
Seqs == 0..MaxTurns
Phases == {"idle", "ringing", "active", "ended"}

NoAck == [seq |-> 0, timers |-> {}, todo |-> {}, started |-> FALSE]
NoWait == [at |-> "none", after |-> 0, got |-> 0, behind |-> 0]
NoSay == [at |-> "none", for |-> -1, behind |-> 0]
Silent == [who |-> "nobody", seq |-> 0]
NoOpening == [at |-> "none", live |-> FALSE, polls |-> 0, spoken |-> 0]

\* The opening: "prepared" until the call is active, then a guard time, a status read
\* ("ready", "notready" or "over"), and the speech or another poll.
OpeningStages == {"none", "prepared", "settling", "ready", "notready", "over", "speaking",
                  "done"}

AgentTypeOK ==
  /\ call \in [way : {"none", "incoming", "outgoing"}, phase : Phases, known : Phases,
               answered : BOOLEAN, media : BOOLEAN]
  /\ dial \in {"none", "rendering", "correlating", "found", "done"}
  /\ opening \in [at : OpeningStages, live : BOOLEAN, polls : 0..MaxPolls,
                  spoken : 0..2]
  /\ prep \in {"none", "ready", "used"}
  /\ turns \in Seq(SUBSET Kinds) /\ Len(turns) <= MaxTurns
  /\ frag \subseteq Kinds /\ spoke \in 0..MaxFragments /\ rings \in 0..1
  /\ wait \in [at : {"none", "mode", "incoming", "turn", "cancelling", "speaking"},
               after : Seqs, got : Seqs, behind : Seqs]
  /\ cursor \in [turn : Seqs \cup {-1}, ring : 0..1]
  /\ heard \in Seq(SUBSET Seqs)
  /\ say \in [at : {"none", "cancelling", "speaking"}, for : Seqs \cup {-1}, behind : Seqs]
  /\ replied \in Seqs
  /\ ack \in [seq : Seqs, timers : SUBSET {"primary", "follow"},
              todo : SUBSET {"primary", "follow"}, started : BOOLEAN]
  /\ mouth \in [who : {"nobody", "ack", "opening", "prepared", "reply"}, seq : Seqs]
  /\ server \in {"open", "closed"}
  \* nothing is numbered that was not published, and only one end is
  /\ \A n \in {wait.got, cursor.turn, say.for, replied, ack.seq} : n <= Len(turns)
  /\ \A i, j \in DOMAIN turns : turns[i] = Ended /\ turns[j] = Ended => i = j

AgentInit ==
  /\ call = [way |-> "none", phase |-> "idle", known |-> "idle", answered |-> FALSE,
             media |-> FALSE]
  /\ dial = "none" /\ opening = NoOpening /\ prep = "none"
  /\ turns = << >> /\ frag = {} /\ spoke = 0 /\ rings = 0
  /\ wait = NoWait /\ cursor = [turn |-> -1, ring |-> 0] /\ heard = << >>
  /\ say = NoSay /\ replied = 0 /\ ack = NoAck /\ mouth = Silent
  /\ server = "open"

-----------------------------------------------------------------------------
(* What the texts are told apart by *)

\* What a text merged from several kinds of fragments may count as: a goodbye has to stand
\* alone, and a "hello?" in a text that stays short still calls for attention.
Said(kinds) ==
  IF kinds = {"bye"} THEN {{"bye"}}
  ELSE {{kind} : kind \in (kinds \ {"bye"}) \cup (IF "bye" \in kinds THEN {"words"} ELSE {})}
       \cup (IF Cardinality(kinds) > 1 THEN {{"words"}} ELSE {})

\* isHangupIntent, isAttentionTurn, and a caller's turn that a prepared reply may fit.
IsClosing(text) == text = {"bye"}
IsAttention(text) == text = {"hello"}
MayFitPrepared(text) == text = {"words"}

TurnsAfter(n) == {i \in DOMAIN turns : i > n /\ turns[i] # Ended}
Newest(S) == CHOOSE i \in S : \A j \in S : i >= j

\* mergeTranscriptFragments over the turns that one answer hands over.
Merged(after, got) ==
  Said(UNION {turns[i] : i \in {j \in DOMAIN turns : j > after /\ j <= got}})

-----------------------------------------------------------------------------
(* The one voice of a call *)

RealtimeUp == call.phase = "active" /\ call.media
MouthFree == mouth.who = "nobody"

\* A speak that the daemon takes; any other is refused without a sound.
Takes(who, seq) == RealtimeUp /\ MouthFree /\ mouth' = [who |-> who, seq |-> seq]
Refuses == ~(RealtimeUp /\ MouthFree) /\ UNCHANGED mouth

\* `await pending.active`: the speech of that acknowledgement still plays.
Plays(seq) == mouth.who = "ack" /\ mouth.seq = seq
Behind == IF Plays(ack.seq) THEN ack.seq ELSE 0

Awaited(seq) == seq # 0 /\ Plays(seq)

-----------------------------------------------------------------------------
(* The acknowledgement *)

\* fresh(): nothing was said since.
Fresh(seq) == frag = {} /\ TurnsAfter(seq) = {}

Cancelled == ack' = NoAck

\* _scheduleAcknowledgement: the one before is cancelled, and if it was already heard, or a
\* recent one was, or no phrase fits, there is none.
ScheduleAfter(previous, seq, text) ==
  \/ Cancelled
  \/ /\ ~previous.started /\ ~IsClosing(text)
     /\ \E more \in SUBSET {"follow"} :
          ack' = [NoAck EXCEPT !.seq = seq, !.timers = {"primary"} \cup more]
Schedule(seq, text) == ScheduleAfter(ack, seq, text)

\* finally: an acknowledgement with nothing left to say is forgotten.
Settled(a) == IF a.timers = {} /\ a.todo = {} THEN NoAck ELSE a

\* A timer of it fires: the phrase is spoken, after the one that still plays.
AckTimer ==
  \E kind \in ack.timers :
    LET left == [ack EXCEPT !.timers = @ \ {kind}]
        begun == [left EXCEPT !.started = TRUE]
    IN /\ \/ ~Fresh(ack.seq) /\ ack' = left /\ UNCHANGED mouth
          \/ /\ Fresh(ack.seq) /\ Plays(ack.seq)
             /\ ack' = [begun EXCEPT !.todo = @ \cup {kind}] /\ UNCHANGED mouth
          \/ Fresh(ack.seq) /\ ~Plays(ack.seq) /\ ack' = begun /\ Takes("ack", ack.seq)
          \/ /\ Fresh(ack.seq) /\ ~Plays(ack.seq)
             /\ ack' = Settled(begun) /\ Refuses
       /\ UNCHANGED <<call, dial, opening, prep, turns, frag, spoke, rings, agentVars, say,
                      replied, server>>

\* The speech of an acknowledgement ends; the phrase queued behind it is next.
AckEnds ==
  /\ mouth.who = "ack"
  /\ \/ /\ ack.seq = mouth.seq /\ ack.todo # {} /\ Fresh(ack.seq) /\ RealtimeUp
        /\ ack' = [ack EXCEPT !.todo = {}] /\ UNCHANGED mouth
     \/ /\ ~(ack.seq = mouth.seq /\ ack.todo # {} /\ Fresh(ack.seq) /\ RealtimeUp)
        /\ ack' = (IF ack.seq = mouth.seq THEN Settled([ack EXCEPT !.todo = {}]) ELSE ack)
        /\ mouth' = Silent
  /\ UNCHANGED <<call, dial, opening, prep, turns, frag, spoke, rings, agentVars, say,
                 replied, server>>

-----------------------------------------------------------------------------
(* Turns, and the agent that waits for them *)

\* The agent knows of a call: from an event, or because its dial has returned.
Following == server = "open" /\ dial \in {"none", "done"} /\ call.known # "idle"

\* The turns of ts (or the end alone) that an answer hands over.
Given(ts, after, got) ==
  {i \in 1..got : i > after /\ (ts[i] # Ended \/ (ts[got] = Ended /\ i = got))}

Hears(given) == heard' = (IF given = {} THEN heard ELSE Append(heard, given))

\* mutant: a cursor that only an explicit argument moves
ReceiptBehind(seq, given) ==
  /\ wait' = NoWait
  /\ cursor' = [cursor EXCEPT !.turn = IF @ = -1 THEN 0 ELSE @]
  /\ Hears(given)

\* The receipt of wait_for_turn: the cursor of the call moves to it.
Receipt(seq, given) ==
  /\ wait' = NoWait
  /\ cursor' = [cursor EXCEPT !.turn = IF seq > @ THEN seq ELSE @]
  /\ Hears(given)

\* Without a prepared reply: the acknowledgement is scheduled, and the turn handed over.
HandOver(w, text) ==
  /\ Receipt(w.got, Given(turns', w.after, w.got))
  /\ Schedule(w.got, text)

HandOverMerged ==
  \E text \in Merged(wait.after, wait.got) : HandOver(wait, text)

\* _finalizeWaitTurn for the turns after w.after up to w.got, whose merged text is given.
Finalize(w, text) ==
  \/ /\ prep = "ready" /\ MayFitPrepared(text)
     /\ wait' = [w EXCEPT !.at = "cancelling", !.behind = Behind] /\ Cancelled
     /\ UNCHANGED <<cursor, heard>>
  \/ HandOver(w, text)

\* _publishTurn of a turn: numbered, kept, and given to the waiter.
Publish(text) ==
  /\ turns' = Append(turns, text)
  /\ \/ /\ wait.at = "turn"
        /\ Finalize([wait EXCEPT !.got = Len(turns) + 1], text)
     \/ wait.at # "turn" /\ UNCHANGED <<wait, cursor, heard, ack>>

\* _queueRemoteTurn.  The transcript of words spoken just before the end may come after it.
CallerSpeaks(kind) ==
  /\ server = "open" /\ call.known \in {"active", "ended"}
  /\ spoke < MaxFragments
  /\ frag' \in Said(frag \cup {kind}) /\ spoke' = spoke + 1
  /\ UNCHANGED <<call, dial, opening, prep, turns, rings, agentVars, say, replied, ack, mouth,
                 server>>

\* The settle timer of the fragments.
TurnSettles ==
  /\ frag # {}
  /\ frag' = {} /\ Publish(frag)
  /\ UNCHANGED <<call, dial, opening, prep, spoke, rings, say, replied, mouth, server>>

\* mutant: only what comes after the call is looked for
AgentWaitsForNew ==
  /\ Following /\ wait.at = "none"
  /\ wait' = [NoWait EXCEPT !.at = "turn", !.after = Len(turns)]
  /\ UNCHANGED <<call, dial, opening, prep, turns, frag, spoke, rings, cursor, heard, say,
                 replied, ack, mouth, server>>

\* wait_for_turn: what is newer than the cursor is handed over at once, merged, unless the
\* call ended after it; otherwise the tool waits.
AgentWaits ==
  /\ Following /\ wait.at = "none"
  /\ LET after == IF cursor.turn = -1 THEN 0 ELSE cursor.turn
         w == [NoWait EXCEPT !.after = after]
         newer == TurnsAfter(after)
     IN \/ /\ Len(turns) <= after
           /\ wait' = [w EXCEPT !.at = "turn"] /\ UNCHANGED <<turns, cursor, heard, ack>>
        \/ /\ Len(turns) > after /\ turns[Len(turns)] = Ended
           /\ Receipt(Len(turns), {Len(turns)}) /\ UNCHANGED <<turns, ack>>
        \/ /\ Len(turns) > after /\ turns[Len(turns)] # Ended
           /\ UNCHANGED turns
           /\ \E text \in Merged(after, Newest(newer)) :
                Finalize([w EXCEPT !.got = Newest(newer)], text)
  /\ UNCHANGED <<call, dial, opening, prep, frag, spoke, rings, say, replied, mouth, server>>

WaitTimesOut ==
  /\ wait.at \in {"turn", "incoming"}
  /\ \/ wait.at = "turn" /\ Receipt(wait.after, {})
     \/ wait.at = "incoming" /\ wait' = NoWait /\ UNCHANGED <<cursor, heard>>
  /\ UNCHANGED <<call, dial, opening, prep, turns, frag, spoke, rings, say, replied, ack,
                 mouth, server>>

\* The prepared reply, once the acknowledgement that was cancelled is over.
WaitProceeds ==
  /\ wait.at = "cancelling" /\ ~Awaited(wait.behind)
  /\ UNCHANGED turns
  /\ \/ /\ Takes("prepared", wait.got) /\ wait' = [wait EXCEPT !.at = "speaking"]
        /\ UNCHANGED <<cursor, heard, ack>>
     \/ Refuses /\ HandOverMerged
  /\ UNCHANGED <<call, dial, opening, prep, frag, spoke, rings, say, replied, server>>

\* It has been played, or the call ended under it.
PreparedEnds ==
  /\ mouth.who = "prepared" /\ mouth' = Silent /\ UNCHANGED turns
  /\ \/ /\ wait.at = "speaking" /\ wait.got = mouth.seq
        /\ prep' = (IF prep = "ready" THEN "used" ELSE prep)
        /\ Receipt(wait.got, Given(turns, wait.after, wait.got))
        /\ UNCHANGED ack
     \/ /\ wait.at = "speaking" /\ wait.got = mouth.seq /\ call.phase = "ended"
        /\ HandOverMerged /\ UNCHANGED prep
     \/ /\ ~(wait.at = "speaking" /\ wait.got = mouth.seq)
        /\ UNCHANGED <<prep, wait, cursor, heard, ack>>
  /\ UNCHANGED <<call, dial, opening, frag, spoke, rings, say, replied, server>>

\* wait_for_incoming_call, by an agent that follows no call yet: the mode is read first, then
\* the backlog, then it waits.
AgentWaitsForRing ==
  /\ server = "open" /\ dial = "none" /\ wait.at = "none" /\ cursor.turn = -1
  /\ call.known \in {"idle", "ringing"}
  /\ wait' = [NoWait EXCEPT !.at = "mode", !.after = cursor.ring]
  /\ UNCHANGED <<call, dial, opening, prep, turns, frag, spoke, rings, cursor, heard, say,
                 replied, ack, mouth, server>>

ModeRead ==
  /\ wait.at = "mode"
  /\ \/ wait' = NoWait /\ UNCHANGED cursor     \* the mode is off, or could not be read
     \/ /\ rings > wait.after
        /\ wait' = NoWait /\ cursor' = [cursor EXCEPT !.ring = rings]
     \/ rings <= wait.after /\ wait' = [wait EXCEPT !.at = "incoming"] /\ UNCHANGED cursor
  /\ UNCHANGED <<call, dial, opening, prep, turns, frag, spoke, rings, heard, say, replied,
                 ack, mouth, server>>

-----------------------------------------------------------------------------
(* The replies of the agent *)

\* speak: in answer to the turn the cursor is at; the acknowledgement is cancelled and, if it
\* is being spoken, awaited.
AgentSpeaks ==
  /\ Following /\ say.at = "none"
  /\ say' = [at |-> "cancelling", for |-> cursor.turn, behind |-> Behind]
  /\ Cancelled
  /\ UNCHANGED <<call, dial, opening, prep, turns, frag, spoke, rings, agentVars, replied,
                 mouth, server>>

\* The caller has said something since that the reply cannot know of.
Stale(for) ==
  /\ for >= 0 /\ TurnsAfter(for) # {}
  /\ for > 0 => ~IsClosing(turns[for])
  /\ ~IsAttention(turns[Newest(TurnsAfter(for))])

\* mutant: what was said while the acknowledgement was awaited is not looked at
SayProceedsUnchecked ==
  /\ say.at = "cancelling" /\ ~Awaited(say.behind)
  /\ \/ /\ Takes("reply", 0) /\ say' = [say EXCEPT !.at = "speaking"]
        /\ replied' = (IF say.for > replied THEN say.for ELSE replied)
     \/ Refuses /\ say' = NoSay /\ UNCHANGED replied
  /\ UNCHANGED <<call, dial, opening, prep, turns, frag, spoke, rings, agentVars, ack, server>>

SayProceeds ==
  /\ say.at = "cancelling" /\ ~Awaited(say.behind)
  /\ \/ Stale(say.for) /\ say' = NoSay /\ UNCHANGED <<replied, mouth>>
     \/ /\ ~Stale(say.for) /\ Takes("reply", 0) /\ say' = [say EXCEPT !.at = "speaking"]
        /\ replied' = (IF say.for > replied THEN say.for ELSE replied)
     \/ ~Stale(say.for) /\ Refuses /\ say' = NoSay /\ UNCHANGED replied
  /\ UNCHANGED <<call, dial, opening, prep, turns, frag, spoke, rings, agentVars, ack, server>>

ReplyEnds ==
  /\ mouth.who = "reply" /\ mouth' = Silent
  /\ say' = (IF say.at = "speaking" THEN NoSay ELSE say)
  /\ UNCHANGED <<call, dial, opening, prep, turns, frag, spoke, rings, agentVars, replied, ack,
                 server>>

-----------------------------------------------------------------------------
(* Dialling, and the opening of a dialled call *)

\* dial: the opening is rendered before the phone is touched; that may fail, and the daemon
\* may deny the dial.  The phone starts the call by and by.
AgentDials ==
  /\ server = "open" /\ dial = "none" /\ wait.at = "none" /\ call.way = "none"
  /\ dial' = "rendering"
  /\ UNCHANGED <<call, opening, prep, turns, frag, spoke, rings, agentVars, say, replied, ack,
                 mouth, server>>

DialTaken ==
  /\ dial = "rendering"
  /\ \/ dial' = "done" /\ UNCHANGED call
     \/ dial' = "correlating" /\ call.way = "none" /\ call' = [call EXCEPT !.way = "outgoing"]
  /\ UNCHANGED <<opening, prep, turns, frag, spoke, rings, agentVars, say, replied, ack, mouth,
                 server>>

\* One round of the correlation: from the events, or else from the status of the daemon,
\* until the call is found or the time is over.
DialCorrelates ==
  /\ dial = "correlating"
  /\ \/ /\ call.known \in {"ringing", "active"} \/ call.phase \in {"ringing", "active"}
        /\ dial' = "found"
     \/ /\ call.known \notin {"ringing", "active"} /\ call.phase \notin {"ringing", "active"}
        /\ dial' = "done"
  /\ UNCHANGED <<call, opening, prep, turns, frag, spoke, rings, agentVars, say, replied, ack,
                 mouth, server>>

\* The opening waits for the call to be active, unless the events say it already is.
DialPrepares ==
  /\ dial = "found" /\ dial' = "done"
  /\ opening' = [NoOpening EXCEPT !.live = TRUE,
                 !.at = IF call.known = "active" THEN "settling" ELSE "prepared"]
  /\ prep' = "ready"
  /\ UNCHANGED <<call, turns, frag, spoke, rings, agentVars, say, replied, ack, mouth, server>>

\* What a status read says of the call.
StatusNow ==
  IF call.phase # "active" THEN "over" ELSE IF call.media THEN "ready" ELSE "notready"

OpeningOver == [opening EXCEPT !.at = "done", !.live = FALSE]

\* The guard time is over: the daemon is asked, unless the opening was cancelled.
OpeningTimer ==
  /\ opening.at = "settling"
  /\ opening' = (IF opening.live THEN [opening EXCEPT !.at = StatusNow] ELSE OpeningOver)
  /\ UNCHANGED <<call, dial, prep, turns, frag, spoke, rings, agentVars, say, replied, ack,
                 mouth, server>>

\* A round of the loop after a status that was not ready, or a refusal that may be.
OpeningPolls ==
  /\ opening.at = "notready"
  /\ \/ opening.live /\ opening.polls < MaxPolls
        /\ opening' = [opening EXCEPT !.at = StatusNow, !.polls = @ + 1]
     \/ opening' = OpeningOver        \* cancelled, or openingReadyTimeoutMs is over
  /\ UNCHANGED <<call, dial, prep, turns, frag, spoke, rings, agentVars, say, replied, ack,
                 mouth, server>>

\* The status has come.
OpeningSpeaks ==
  /\ opening.at \in {"ready", "over"}
  /\ \/ opening.at = "over" /\ opening' = OpeningOver /\ UNCHANGED mouth
     \/ /\ opening.at = "ready" /\ Takes("opening", 0)
        /\ opening' = [opening EXCEPT !.at = "speaking", !.spoken = @ + 1]
     \/ /\ opening.at = "ready" /\ ~RealtimeUp /\ UNCHANGED mouth
        /\ opening' = [opening EXCEPT !.at = "notready"]
     \/ opening.at = "ready" /\ RealtimeUp /\ Refuses /\ opening' = OpeningOver
  /\ UNCHANGED <<call, dial, prep, turns, frag, spoke, rings, agentVars, say, replied, ack,
                 server>>

OpeningEnds ==
  /\ mouth.who = "opening" /\ mouth' = Silent
  /\ opening' = (IF opening.at = "speaking" THEN OpeningOver ELSE opening)
  /\ UNCHANGED <<call, dial, prep, turns, frag, spoke, rings, agentVars, say, replied, ack,
                 server>>

\* mutant: an opening without an answer is tried again
AfterLostRetry == [opening EXCEPT !.at = "notready"]
AfterLost == OpeningOver

\* The server gives up on a speak of its own (its time is over, the socket broke) that the
\* daemon goes on to play.
AnswerLost ==
  /\ UNCHANGED turns
  /\ \/ /\ opening.at = "speaking" /\ opening' = AfterLost
        /\ UNCHANGED <<wait, cursor, heard, ack>>
     \/ /\ wait.at = "speaking" /\ HandOverMerged
        /\ UNCHANGED opening
  /\ UNCHANGED <<call, dial, prep, frag, spoke, rings, say, replied, mouth, server>>

-----------------------------------------------------------------------------
(* The call and its events *)

Placed ==
  /\ call.phase = "idle"
  /\ \/ call.way = "outgoing" /\ call' = [call EXCEPT !.phase = "ringing"]
     \/ /\ call.way = "none"
        /\ call' = [call EXCEPT !.way = "incoming", !.phase = "ringing"]
  /\ UNCHANGED <<dial, opening, prep, turns, frag, spoke, rings, agentVars, say, replied, ack,
                 mouth, server>>

Answered ==
  /\ call.phase = "ringing" /\ call' = [call EXCEPT !.phase = "active", !.answered = TRUE]
  /\ UNCHANGED <<dial, opening, prep, turns, frag, spoke, rings, agentVars, say, replied, ack,
                 mouth, server>>

MediaUp ==
  /\ call.phase = "active" /\ ~call.media /\ call' = [call EXCEPT !.media = TRUE]
  /\ UNCHANGED <<dial, opening, prep, turns, frag, spoke, rings, agentVars, say, replied, ack,
                 mouth, server>>

CallEnds ==
  /\ call.phase \in {"ringing", "active"}
  /\ call' = [call EXCEPT !.phase = "ended", !.media = FALSE]
  /\ UNCHANGED <<dial, opening, prep, turns, frag, spoke, rings, agentVars, say, replied, ack,
                 mouth, server>>

Listening == server = "open"

HearsRinging ==
  /\ Listening /\ call.known = "idle" /\ call.phase # "idle"
  /\ call' = [call EXCEPT !.known = "ringing"]
  /\ IF call.way = "incoming"
     THEN \* _publishIncoming, while the receptionist mode is on
          /\ rings' \in {0, 1}
          /\ IF wait.at = "incoming" /\ wait.after < rings'
             THEN wait' = NoWait /\ cursor' = [cursor EXCEPT !.ring = rings']
             ELSE UNCHANGED <<wait, cursor>>
     ELSE UNCHANGED <<rings, wait, cursor>>
  /\ UNCHANGED <<dial, opening, prep, turns, frag, spoke, heard, say, replied, ack, mouth,
                 server>>

HearsActive ==
  /\ Listening /\ call.known = "ringing" /\ call.answered
  /\ call' = [call EXCEPT !.known = "active"]
  /\ opening' = (IF opening.at = "prepared" THEN [opening EXCEPT !.at = "settling"]
                 ELSE opening)
  /\ UNCHANGED <<dial, prep, turns, frag, spoke, rings, agentVars, say, replied, ack, mouth,
                 server>>

\* The opening is cancelled, what the caller said last is flushed, and the end is published.
HearsEnded ==
  /\ Listening /\ call.phase = "ended"
  /\ call.known = (IF call.answered THEN "active" ELSE "ringing")
  /\ call' = [call EXCEPT !.known = "ended"]
  /\ opening' = (IF opening.at = "prepared" THEN OpeningOver
                 ELSE [opening EXCEPT !.live = FALSE])
  /\ prep' = "none" /\ frag' = {}
  /\ turns' = turns \o (IF frag = {} THEN << >> ELSE <<frag>>) \o <<Ended>>
  \* the waiter gets the flushed turn if there is one (the acknowledgement of it is scheduled
  \* after the one before was cancelled), and the end if there is none
  /\ \/ /\ wait.at = "turn" /\ frag = {}
        /\ Receipt(Len(turns) + 1, {Len(turns) + 1}) /\ Cancelled
     \/ /\ wait.at = "turn" /\ frag # {}
        /\ Receipt(Len(turns) + 1, {Len(turns) + 1})
        /\ ScheduleAfter(NoAck, Len(turns) + 1, frag)
     \/ wait.at # "turn" /\ Cancelled /\ UNCHANGED <<wait, cursor, heard>>
  /\ UNCHANGED <<dial, spoke, rings, say, replied, mouth, server>>

-----------------------------------------------------------------------------
(* The end of the server *)

\* runStdio: the input ends.  Every tool in flight is aborted, and close() drops what the
\* handler holds; only a status the opening has already asked for is still answered.
Closes ==
  /\ server = "open" /\ server' = "closed"
  /\ wait' = NoWait /\ say' = NoSay /\ dial' = "done" /\ Cancelled
  /\ opening' = (IF opening.at \in {"none", "prepared", "settling"} THEN OpeningOver
                 ELSE [opening EXCEPT !.live = FALSE])
  /\ turns' = << >> /\ frag' = {} /\ prep' = "none" /\ rings' = 0
  /\ cursor' = [turn |-> -1, ring |-> 0] /\ heard' = << >> /\ replied' = 0
  /\ call' = [call EXCEPT !.known = "idle"]
  /\ UNCHANGED <<spoke, mouth>>

-----------------------------------------------------------------------------

Timers == AckTimer \/ TurnSettles \/ WaitTimesOut \/ OpeningTimer \/ OpeningPolls

AnswersArrive == AckEnds \/ WaitProceeds \/ PreparedEnds \/ ModeRead \/ SayProceeds
                 \/ ReplyEnds \/ DialTaken \/ DialCorrelates \/ DialPrepares
                 \/ OpeningSpeaks \/ OpeningEnds \/ AnswerLost

Agent == AgentWaits \/ AgentWaitsForRing \/ AgentSpeaks \/ AgentDials

Phone == Placed \/ Answered \/ MediaUp \/ CallEnds
         \/ \E kind \in Kinds : CallerSpeaks(kind)

Events == HearsRinging \/ HearsActive \/ HearsEnded

AgentNext == Timers \/ AnswersArrive \/ Agent \/ Phone \/ Events \/ Closes

\* A wait times out, a speech ends, and a daemon that took a request answers it; an agent that
\* follows its instructions keeps waiting for turns.  The call, the caller and the user owe
\* nothing, nor does the socket of the events: it is opened once, when the server starts, and
\* a server that lost it hears no more.
Fairness ==
  /\ WF_mcpVars(AckEnds \/ PreparedEnds \/ ReplyEnds \/ OpeningEnds)
  /\ WF_mcpVars(ModeRead \/ WaitTimesOut \/ WaitProceeds)
  /\ WF_mcpVars(DialTaken \/ DialCorrelates \/ DialPrepares)
  /\ WF_mcpVars(SayProceeds)
  /\ WF_mcpVars(AgentWaits)

AgentSpec == AgentInit /\ [][AgentNext]_mcpVars /\ Fairness

-----------------------------------------------------------------------------
(* Properties *)

\* A tool that waits waits for something new: whatever was published before it was
\* registered, or between the read of the receptionist mode and that, was handed over
\* instead (_waitForTurn, _waitForIncomingCall).
NoLostWakeup ==
  /\ wait.at = "turn" => Len(turns) <= wait.after
  /\ wait.at = "incoming" => rings <= wait.after

\* The opening of a call is played at most once, though the loop tries again after a refusal
\* and though an answer of the daemon may be lost after it took the speech
\* (_schedulePreparedOpening).
OpeningOnce == opening.spoken <= 1

\* An opening never waits for an activation that has already been told: the call may become
\* active before, during or after the correlation of the dial (_dial, _capture).
OpeningNotForgotten == opening.at = "prepared" => call.known # "active"

\* While the call lasts no turn is passed over: what is behind the cursor has been given to
\* the agent, merged or alone (_waitForTurn, mergeTranscriptFragments).  The end of the call
\* does pass over what the agent has not fetched.
NothingPassedOver ==
  Ended \notin Range(turns) =>
    \A i \in DOMAIN turns : i <= cursor.turn => i \in UNION Range(heard)

\* Turns reach the agent in their order, none of them twice, whether it fetched them from the
\* backlog, was waiting for them, or got them after a prepared reply.
HeardInOrder ==
  \A i, j \in DOMAIN heard : i < j => \A n \in heard[i], m \in heard[j] : n < m

\* An acknowledgement never starts once the agent has answered the turn it acknowledges, nor
\* after the caller went on speaking (_scheduleAcknowledgement, _cancelAcknowledgement).
NoLateAcknowledgement ==
  [][mouth'.who = "ack" /\ mouth # mouth' =>
       mouth'.seq > replied /\ frag = {} /\ TurnsAfter(mouth'.seq) = {}]_mcpVars

\* A reply that was overtaken is not spoken: at the moment it reaches the daemon, however
\* long an acknowledgement kept it waiting, nothing newer than the turn it answers has been
\* published, unless that turn said goodbye or the newest only asks whether anyone is there.
NotOvertaken ==
  [][mouth'.who = "reply" /\ mouth.who # "reply" => ~Stale(say.for)]_mcpVars

\* A speak always returns, whatever acknowledgement or speech it has to await (_call).
SpeakReturns == (say.at # "none") ~> (say.at = "none")

\* An agent that keeps waiting is given every turn, unless the call has ended or the server
\* was told to stop.
AgentHears ==
  (TurnsAfter(0) \ UNION Range(heard) # {})
    ~> (TurnsAfter(0) \subseteq UNION Range(heard) \/ call.phase = "ended" \/ server # "open")

\* In every state: its types, no wait for what has already come, and one opening of a call,
\* neither repeated nor forgotten.
AgentInv == AgentTypeOK /\ NoLostWakeup /\ OpeningOnce /\ OpeningNotForgotten

\* The agent is given the turns of the call in their order, each once and none left out, on
\* all three ways by which it may get them.
TurnsKept == NothingPassedOver /\ HeardInOrder

\* What is spoken still answers the caller when it begins: an acknowledgement and a reply
\* that were overtaken while they waited are not spoken.
SpeechTimely == NoLateAcknowledgement /\ NotOvertaken

\* A speak returns, and an agent that goes on waiting hears every turn.
AgentLive == SpeakReturns /\ AgentHears
=============================================================================
