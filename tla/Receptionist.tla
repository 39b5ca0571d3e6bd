----------------------------- MODULE Receptionist -----------------------------
(* The programs that answer and place calls for the agent.  The desktop keeps a *)
(* supervised child process running while answering is enabled                  *)
(* (ui/electron/agent-supervisor.js, wired in main.js); the child               *)
(* (scripts/hermes-voice-supervisor.js, runIncomingReceptionist) prepares a     *)
(* Hermes session, waits for a call, answers it through the gateway and talks   *)
(* (VoiceTurns).  outgoingMain of the same script places one call.              *)
(*                                                                              *)
(* A child that is told to stop (SIGTERM) only notes it: it may be in a call,   *)
(* or about to answer one, while its successor is already running.  Every       *)
(* action of a child is what it does between two awaits.                        *)
(*                                                                              *)
(* A definition in front of another one whose name extends that name is a       *)
(* deliberately broken variant of it, which no other definition uses.           *)
EXTENDS Naturals, Sequences, FiniteSets

CONSTANTS
  Children,      \* child processes, reused once their end has been noticed
  Incoming,      \* calls that may come in
  Outgoing,      \* calls that outgoingMain may place
  Instructions,  \* what the owner may write
  MaxTurns,      \* bound: how often the owner saves the settings or the gateway (re)connects
  MaxFaults,     \* bound: how many calls, prompts and speech requests fail
  None           \* no child, no call

\* Every call has an id of its own, whichever side places it.
ASSUME ReceptionistAssumption ==
  /\ MaxTurns \in Nat /\ MaxFaults \in Nat
  /\ Children # {} /\ Instructions # {}
  /\ Incoming \cap Outgoing = {}
  /\ None \notin Children \cup Incoming \cup Outgoing

VARIABLES
  store,     \* AgentAnsweringSettingsStore of the gateway: the saved mode
  saving,    \* the mode a save of the settings page is writing, or None
  inbox,     \* answers of the gateway on their way to the desktop
  desktop,   \* AgentAnsweringSupervisor, and whether the desktop runs
  child,     \* the children: where each is, whether told to stop, its session and call
  calls,     \* the calls at the phone: how far each is, and who answered it
  recording, \* the gateway: the recorded call, and whether recorder and speech are up
  dialer,    \* outgoingMain: where it is, and its call
  left       \* what the bounds still allow: turns of the desktop, faults

vars == <<store, saving, inbox, desktop, child, calls, recording, dialer, left>>
settings == <<store, saving, inbox>>

Calls == Incoming \cup Outgoing
\* What the owner wrote counts only while answering is enabled.
Off == [enabled |-> FALSE, instructions |-> None]
Modes == [enabled : {TRUE}, instructions : Instructions] \cup {Off}

\* Where a child waits: being up without a call, and with one.
Ready == {"reading", "polling"}
Deciding == {"rechecking", "window", "answer", "answering"}
InCall == {"waiting", "media", "opening", "conversing", "farewell"}
ChildPlaces ==
  {"dead", "exited", "starting", "creating", "mode"}
  \cup Ready \cup Deciding \cup InCall
DialerPlaces ==
  {"idle", "dialing", "waiting", "conversing", "done"}
NoChild == [at |-> "dead", told |-> FALSE, sessions |-> 0, instructions |-> None, call |-> None]

TypeOK ==
  /\ store \in Modes /\ saving \in Modes \cup {None}
  /\ inbox \in Seq([mode : Modes, refresh : BOOLEAN])
  /\ desktop \in [open : BOOLEAN, enabled : BOOLEAN, timer : BOOLEAN,
                  instructions : Instructions \cup {None}, child : Children \cup {None}]
  /\ child \in [Children -> [at : ChildPlaces, told : BOOLEAN, sessions : 0..1,
                             instructions : Instructions \cup {None},
                             call : Incoming \cup {None}]]
  /\ calls \in [Calls -> [phase : {"none", "ringing", "active", "ended"},
                          by : {"nobody", "human", "agent"}]]
  /\ recording \in [call : Calls \cup {None}, up : BOOLEAN]
  /\ dialer \in [at : DialerPlaces, call : Outgoing \cup {None}]
  /\ left \in [turns : 0..MaxTurns, faults : 0..MaxFaults]

\* The desktop has started and heard of the mode; when answering is enabled, a child starts.
Init ==
  /\ store \in {Off, [enabled |-> TRUE, instructions |-> CHOOSE i \in Instructions : TRUE]}
  /\ saving = None /\ inbox = <<>>
  /\ LET first == IF store.enabled THEN CHOOSE c \in Children : TRUE ELSE None
     IN /\ desktop = [open |-> TRUE, enabled |-> store.enabled, timer |-> FALSE,
                      instructions |-> store.instructions, child |-> first]
        /\ child = [c \in Children |-> IF c = first THEN [NoChild EXCEPT !.at = "starting"]
                                       ELSE NoChild]
  /\ calls = [k \in Calls |-> [phase |-> "none", by |-> "nobody"]]
  /\ recording = [call |-> None, up |-> FALSE]
  /\ dialer = [at |-> "idle", call |-> None]
  /\ left = [turns |-> MaxTurns, faults |-> MaxFaults]

\* A request of somebody fails; this many times at most.
Fault == left.faults > 0 /\ left' = [left EXCEPT !.faults = @ - 1]
Works == UNCHANGED left

\* One call at a time here: call waiting is the matter of GatewayRecording.
Current == IF \E k \in Calls : calls[k].phase \in {"ringing", "active"}
           THEN CHOOSE k \in Calls : calls[k].phase \in {"ringing", "active"} ELSE None
Rings(k) == k \in Incoming /\ calls[k].phase = "ringing"

-----------------------------------------------------------------------------
(* The settings, and the supervisor of the desktop.                            *)

\* Save on the settings page; the page takes no second one meanwhile.
Save(mode) ==
  /\ desktop.open /\ left.turns > 0 /\ saving = None
  /\ saving' = mode /\ left' = [left EXCEPT !.turns = @ - 1]
  /\ UNCHANGED <<store, inbox, desktop, child, calls, recording, dialer>>

\* configure: the file is replaced, then the mode in memory, then the answer is sent.
Saved ==
  /\ saving # None /\ saving' = None
  /\ \/ Works /\ store' = saving
        /\ inbox' = Append(inbox, [mode |-> saving, refresh |-> FALSE])
     \/ Fault /\ UNCHANGED <<store, inbox>>
  /\ UNCHANGED <<desktop, child, calls, recording, dialer>>

\* onReady: the event stream is up again; a status that fails counts as disabled.
GatewayReady ==
  /\ desktop.open /\ left.turns > 0
  /\ \/ left' = [left EXCEPT !.turns = @ - 1]
        /\ inbox' = Append(inbox, [mode |-> store, refresh |-> TRUE])
     \/ /\ left.faults > 0 /\ left' = [left EXCEPT !.turns = @ - 1, !.faults = @ - 1]
        /\ inbox' = Append(inbox, [mode |-> Off, refresh |-> TRUE])
  /\ UNCHANGED <<store, saving, desktop, child, calls, recording, dialer>>

Killed(children, c) == IF c = None THEN children ELSE [children EXCEPT ![c].told = TRUE]

Spawned(d, children, d2, children2) ==
  \E c \in Children :
    /\ children[c].at = "dead"
    /\ d2 = [d EXCEPT !.child = c, !.timer = FALSE]
    /\ children2 = [children EXCEPT ![c] = [NoChild EXCEPT !.at = "starting"]]

\* sync: stop; or refresh, when the instructions changed or the gateway is a new one; or start.
Sync(mode, refresh) ==
  LET d == [desktop EXCEPT !.enabled = mode.enabled,
                           !.instructions = IF mode.enabled THEN mode.instructions ELSE None]
      mustRefresh == desktop.enabled /\ (desktop.instructions # mode.instructions \/ refresh)
  IN \/ /\ ~mode.enabled
        /\ desktop' = [d EXCEPT !.child = None, !.timer = FALSE]
        /\ child' = Killed(child, desktop.child)
     \/ mode.enabled /\ mustRefresh /\ Spawned(d, Killed(child, desktop.child), desktop', child')
     \/ /\ mode.enabled /\ ~mustRefresh
        /\ IF d.child = None /\ ~d.timer THEN Spawned(d, child, desktop', child')
           ELSE desktop' = d /\ UNCHANGED child

Answered ==
  /\ desktop.open /\ inbox # <<>> /\ inbox' = Tail(inbox)
  /\ Sync(Head(inbox).mode, Head(inbox).refresh)
  /\ UNCHANGED <<store, saving, calls, recording, dialer, left>>

\* 'exit' of a child: only that of the present one is followed by another.
FinishedUnchecked(c) == [desktop EXCEPT !.child = None, !.timer = desktop.enabled]
FinishedForGood(c) == IF desktop.child = c THEN [desktop EXCEPT !.child = None] ELSE desktop
Finished(c) ==
  IF desktop.child = c THEN [desktop EXCEPT !.child = None, !.timer = desktop.enabled]
  ELSE desktop

ChildFinished(c) ==
  /\ child[c].at = "exited"
  /\ desktop' = Finished(c) /\ child' = [child EXCEPT ![c] = NoChild]
  /\ UNCHANGED <<settings, calls, recording, dialer, left>>

RestartTimer ==
  /\ desktop.timer
  /\ \/ desktop.enabled /\ desktop.child = None /\ Spawned(desktop, child, desktop', child')
     \/ ~(desktop.enabled /\ desktop.child = None)
        /\ desktop' = [desktop EXCEPT !.timer = FALSE] /\ UNCHANGED child
  /\ UNCHANGED <<settings, calls, recording, dialer, left>>

\* before-quit: the supervisor stops; answers still to come find nobody.
Quit ==
  /\ desktop.open
  /\ desktop' = [desktop EXCEPT !.open = FALSE, !.enabled = FALSE, !.instructions = None,
                                !.child = None, !.timer = FALSE]
  /\ child' = Killed(child, desktop.child) /\ inbox' = <<>>
  /\ UNCHANGED <<store, saving, calls, recording, dialer, left>>

-----------------------------------------------------------------------------
(* The phone and the gateway, as far as the agent sees them.                   *)

\* 'incoming' reaches the children that have subscribed to it.
Ring(k) ==
  /\ Current = None /\ calls[k].phase = "none"
  /\ calls' = [calls EXCEPT ![k].phase = "ringing"]
  /\ child' = [c \in Children |->
                 IF child[c].at = "polling" THEN [child[c] EXCEPT !.at = "rechecking", !.call = k]
                 ELSE child[c]]
  /\ UNCHANGED <<settings, desktop, recording, dialer, left>>

HumanAnswers(k) ==
  /\ Rings(k) /\ calls' = [calls EXCEPT ![k] = [phase |-> "active", by |-> "human"]]
  /\ UNCHANGED <<settings, desktop, child, recording, dialer, left>>

\* The called party answers; recorder and speech session are started then.
PeerAnswers(k) ==
  /\ k \in Outgoing /\ calls[k].phase = "ringing"
  /\ calls' = [calls EXCEPT ![k] = [phase |-> "active", by |-> "agent"]]
  /\ \/ recording' = [call |-> k, up |-> TRUE] /\ Works
     \/ Fault /\ UNCHANGED recording
  /\ UNCHANGED <<settings, desktop, child, dialer>>

\* The end of a call, and what the gateway drops with it.
Over(k) ==
  /\ calls' = [calls EXCEPT ![k].phase = "ended"]
  /\ recording' = IF recording.call = k THEN [call |-> None, up |-> FALSE] ELSE recording

CallEnds(k) ==
  /\ calls[k].phase \in {"ringing", "active"} /\ Over(k)
  /\ UNCHANGED <<settings, desktop, child, dialer, left>>

\* The recorder or the speech session of the call in progress fails.
MediaFails ==
  /\ recording.up /\ Fault /\ recording' = [recording EXCEPT !.up = FALSE]
  /\ UNCHANGED <<settings, desktop, child, calls, dialer>>

-----------------------------------------------------------------------------
(* A child.                                                                    *)

Goes(c, place) == child' = [child EXCEPT ![c].at = place]
Exits(c) == child' = [child EXCEPT ![c] = [NoChild EXCEPT !.at = "exited"]]
Returns(c) ==
  child' = [child EXCEPT ![c].at = "creating", ![c].call = None, ![c].instructions = None]
ChildOnly == UNCHANGED <<settings, desktop, calls, recording, dialer>>

\* The event stream and Hermes come up; before its handler is installed SIGTERM ends a child.
ChildStarts(c) ==
  /\ child[c].at = "starting"
  /\ \/ Works /\ Goes(c, "creating")
     \/ Fault /\ Exits(c)
     \/ Works /\ child[c].told /\ Exits(c)
  /\ ChildOnly

\* The head of the loop: the finally of the last round closes its session, a new one is
\* created.  A session of the preferred model that fails its health check is closed before
\* the fallback is tried, so that one session is left or none.
CloseSession(c) == 0

CreateSession(c) ==
  /\ child[c].at = "creating"
  /\ \/ /\ Works /\ ~child[c].told
        /\ child' = [child EXCEPT ![c].at = "mode", ![c].sessions = CloseSession(c) + 1]
     \/ Works /\ child[c].told /\ Exits(c)
     \/ Fault /\ Exits(c)
  /\ ChildOnly

\* initialMode, and the opening Hermes drafts for it (or the local template); every prepared
\* sentence is rendered, or the child gives up.
ReadMode(c) ==
  /\ child[c].at = "mode"
  /\ \/ Works /\ store.enabled
        /\ child' = [child EXCEPT ![c].at = "reading", ![c].instructions = store.instructions]
     \/ Works /\ ~store.enabled /\ Exits(c)
     \/ Fault /\ Exits(c)
  /\ ChildOnly

\* waitForIncomingCall: mode and status are read, a ringing call is taken from the status.  A
\* call that rings before the child has subscribed is found in the status of the next poll.
ReadStatus(c) ==
  /\ child[c].at = "reading"
  /\ \/ Works /\ (child[c].told \/ ~store.enabled) /\ Exits(c)
     \/ /\ Works /\ ~child[c].told /\ store.enabled /\ Rings(Current)
        /\ child' = [child EXCEPT ![c].at = "rechecking", ![c].call = Current]
     \/ Works /\ ~child[c].told /\ store.enabled /\ ~Rings(Current) /\ Goes(c, "polling")
     \/ Fault /\ Exits(c)
  /\ ChildOnly

PollTimesOut(c) == child[c].at = "polling" /\ Works /\ Goes(c, "reading") /\ ChildOnly

\* The mode is read again; when the owner has written something else, the child is done.
Recheck(c) ==
  /\ child[c].at = "rechecking"
  /\ \/ Works /\ store.enabled /\ store.instructions = child[c].instructions /\ Goes(c, "window")
     \/ Works /\ ~(store.enabled /\ store.instructions = child[c].instructions) /\ Exits(c)
     \/ Fault /\ Exits(c)
  /\ ChildOnly

\* waitForIncomingAnswerWindow: 15 seconds later the same call must still ring.
AnswerWindow(c) ==
  /\ child[c].at = "window"
  /\ \/ Works /\ Rings(child[c].call) /\ Goes(c, "answer")
     \/ Works /\ ~Rings(child[c].call) /\ Returns(c)
     \/ Fault /\ Exits(c)
  /\ ChildOnly

\* answer() of the gateway reserves the recording for the call, unless it has been for another.
AnswerRequested(c) ==
  LET k == child[c].call
      mayRecord == recording.call = None /\ Current = k
  IN
  /\ child[c].at = "answer" /\ Works
  /\ \/ mayRecord /\ Goes(c, "answering") /\ recording' = [call |-> k, up |-> FALSE]
     \/ recording.call = k /\ recording.up /\ Goes(c, "answering") /\ UNCHANGED recording
     \/ /\ ~mayRecord /\ ~(recording.call = k /\ recording.up)
        /\ Exits(c) /\ UNCHANGED recording
  /\ UNCHANGED <<settings, desktop, calls, dialer>>

\* Recorder and speech session are up, or the answer is denied; then the phone is told, which
\* takes the command while the call is its call, ringing or not.
Answer(c) ==
  LET k == child[c].call IN
  /\ child[c].at = "answering"
  /\ \/ /\ Works /\ Current = k /\ Goes(c, "waiting")
        /\ recording' = [call |-> k, up |-> TRUE]
        /\ calls' = IF Rings(k) THEN [calls EXCEPT ![k] = [phase |-> "active", by |-> "agent"]]
                    ELSE calls
     \/ Works /\ Current # k /\ Exits(c) /\ UNCHANGED <<calls, recording>>
     \/ /\ Fault /\ Exits(c) /\ UNCHANGED calls
        /\ recording' = IF recording.call = k THEN [call |-> None, up |-> FALSE] ELSE recording
  /\ UNCHANGED <<settings, desktop, dialer>>

\* answerAndWaitForActive: 'active' or 'ended' of the call.
ActiveHeard(c) ==
  /\ child[c].at = "waiting"
  /\ \/ Works /\ Current = child[c].call /\ Goes(c, "media")
     \/ Works /\ Current # child[c].call /\ Returns(c)
     \/ Fault /\ Exits(c)
  /\ ChildOnly

\* waitForStableCallMedia: when recorder or speech do not come up the call is left as it is.
MediaWait(c) ==
  /\ child[c].at = "media"
  /\ \/ Works /\ Current = child[c].call /\ recording.up /\ Goes(c, "opening")
     \/ Works /\ ~(Current = child[c].call /\ recording.up) /\ Returns(c)
     \/ Fault /\ Exits(c)
  /\ ChildOnly

SpeakOpening(c) ==
  /\ child[c].at = "opening"
  /\ \/ Works /\ Current = child[c].call /\ recording.up /\ Goes(c, "conversing")
     \/ Works /\ ~(Current = child[c].call /\ recording.up) /\ Goes(c, "farewell")
     \/ Fault /\ Goes(c, "farewell")
  /\ ChildOnly

\* superviseHermesTurns: the call ends, the agent hangs up, it gives up (its time over or
\* Hermes gone), or the process dies.
ConverseUntilStop(c) ==
  /\ child[c].at = "conversing"
  /\ \/ Works /\ Current # child[c].call /\ Returns(c) /\ UNCHANGED <<calls, recording>>
     \/ Works /\ child[c].told /\ Returns(c) /\ UNCHANGED <<calls, recording>>
  /\ UNCHANGED <<settings, desktop, dialer>>
Converse(c) ==
  /\ child[c].at = "conversing"
  /\ \/ Works /\ Current # child[c].call /\ Returns(c) /\ UNCHANGED <<calls, recording>>
     \/ Works /\ Current = child[c].call /\ Returns(c) /\ Over(child[c].call)
     \/ Works /\ Goes(c, "farewell") /\ UNCHANGED <<calls, recording>>
     \/ Fault /\ Exits(c) /\ UNCHANGED <<calls, recording>>
  /\ UNCHANGED <<settings, desktop, dialer>>

\* finishUnavailableCall: a farewell and the hang-up, if it is still this call.
Farewell(c) ==
  /\ child[c].at = "farewell" /\ Returns(c)
  /\ \/ Works /\ Current = child[c].call /\ Over(child[c].call)
     \/ Works /\ Current # child[c].call /\ UNCHANGED <<calls, recording>>
     \/ Fault /\ UNCHANGED <<calls, recording>>
  /\ UNCHANGED <<settings, desktop, dialer>>

-----------------------------------------------------------------------------
(* outgoingMain.                                                               *)

DialerGoes(place) == dialer' = [dialer EXCEPT !.at = place]
DialerOnly == UNCHANGED <<settings, desktop, child, calls, recording>>

\* No other call may be on; then the session, the plan and the opening are prepared.
DialerStarts(k) ==
  /\ dialer.at = "idle" /\ Works /\ DialerOnly
  /\ dialer' = [at |-> IF Current = None THEN "dialing" ELSE "done", call |-> k]

\* dial() is refused while a call or a recording is on.
Dial ==
  /\ dialer.at = "dialing"
  /\ \/ /\ Works /\ Current = None /\ recording.call = None /\ DialerGoes("waiting")
        /\ calls' = [calls EXCEPT ![dialer.call].phase = "ringing"]
        /\ recording' = [call |-> dialer.call, up |-> FALSE]
     \/ /\ (Works /\ ~(Current = None /\ recording.call = None)) \/ Fault
        /\ DialerGoes("done") /\ UNCHANGED <<calls, recording>>
  /\ UNCHANGED <<settings, desktop, child>>

\* 'active' or 'ended' of the call, then its media and the opening: each failure ends the
\* program, and leaves the call as it is.
DialerWaits ==
  LET k == dialer.call IN
  /\ dialer.at = "waiting"
  /\ \/ Works /\ calls[k].phase = "active" /\ recording.up /\ DialerGoes("conversing")
     \/ Works /\ calls[k].phase = "active" /\ ~recording.up /\ DialerGoes("done")
     \/ Works /\ calls[k].phase = "ended" /\ DialerGoes("done")
     \/ Fault /\ DialerGoes("done")
  /\ DialerOnly

\* The conversation ends with the call, or with a hang-up that is accepted, or is not.
DialerConverses ==
  LET k == dialer.call IN
  /\ dialer.at = "conversing" /\ DialerGoes("done")
  /\ \/ Works /\ Current = k /\ Over(k)
     \/ Works /\ Current # k /\ UNCHANGED <<calls, recording>>
     \/ Fault /\ UNCHANGED <<calls, recording>>
  /\ UNCHANGED <<settings, desktop, child>>

-----------------------------------------------------------------------------
ChildStep(c) ==
  \/ ChildStarts(c) \/ CreateSession(c) \/ ReadMode(c)
  \/ ReadStatus(c) \/ PollTimesOut(c) \/ Recheck(c) \/ AnswerWindow(c)
  \/ AnswerRequested(c) \/ Answer(c) \/ ActiveHeard(c)
  \/ MediaWait(c) \/ SpeakOpening(c) \/ Converse(c) \/ Farewell(c)

Dialer == Dial \/ DialerWaits \/ DialerConverses

Next ==
  \/ \E mode \in Modes : Save(mode)
  \/ Saved \/ GatewayReady \/ Answered \/ RestartTimer \/ Quit \/ MediaFails
  \/ \E c \in Children : ChildFinished(c) \/ ChildStep(c)
  \/ \E k \in Calls : PeerAnswers(k) \/ CallEnds(k)
  \/ \E k \in Incoming : Ring(k) \/ HumanAnswers(k)
  \/ \E k \in Outgoing : DialerStarts(k)
  \/ Dialer

\* Every request has a timeout, and so has a conversation; an exit is reported, a restart
\* timer fires, what the gateway answers arrives.  People and the phone owe nothing.
Spec ==
  /\ Init /\ [][Next]_vars
  /\ \A c \in Children : WF_vars(ChildStep(c)) /\ WF_vars(ChildFinished(c))
  /\ WF_vars(Saved) /\ WF_vars(Answered) /\ WF_vars(RestartTimer) /\ WF_vars(Dialer)

-----------------------------------------------------------------------------
(* Properties.                                                                 *)

\* The supervisor never loses a child: at most one that runs has not been told to stop, and
\* it is the one the desktop knows.
OneListener ==
  \A c \in Children :
    child[c].at \notin {"dead", "exited"} /\ ~child[c].told => desktop.child = c

\* A child holds the session it works with and no other; the one it ends with dies with it.
OneSession ==
  \A c \in Children :
    /\ child[c].at \in {"dead", "exited", "starting"} => child[c].sessions = 0
    /\ child[c].at = "mode" => child[c].sessions = 1
    /\ child[c].at \in Ready \cup Deciding \cup InCall => child[c].sessions = 1

Attended(k) ==
  \/ \E c \in Children : child[c].call = k /\ child[c].at \in InCall
  \/ dialer.call = k /\ dialer.at \in InCall

\* Unless something fails, a call the agent has taken is not left alone: neither a refresh
\* of the listener, nor the end of the desktop, nor a second child takes the agent away.
CallsAttended ==
  left.faults = MaxFaults =>
    \A k \in Calls : calls[k].phase = "active" /\ calls[k].by = "agent" => Attended(k)

\* The listener stops when the mode is turned off or the desktop is closed, after the call
\* it is in.
ListenerStops ==
  \A c \in Children : child[c].told ~> child[c].at = "dead"

\* While answering is enabled a child becomes ready again, after a failure and after a call.
Rearmed == []<>(~desktop.enabled \/ \E c \in Children : child[c].at \in Ready \cup Deciding \cup InCall)

\* In every state: its types, one listener that is not on its way out, and one session for it,
\* whatever children have been replaced and whatever has failed.
ListenerInv == TypeOK /\ OneListener /\ OneSession

\* The listener stops when it has to, and is there again when it should be: neither a child
\* that dies nor a mode that is changed while it works leaves the desktop without.
ListenerLive == ListenerStops /\ Rearmed
=============================================================================
