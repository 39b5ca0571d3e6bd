---------------------------- MODULE SupervisorProofs ----------------------------
(* The programs that answer for the agent, for any number of children, calls and  *)
(* failures, and the conversation they hold, for any number of fragments, any      *)
(* length of its queue and any failures.                                          *)
(*                                                                                *)
(* Receptionist: ListenerInv is inductive as it stands.  CallsAttended rests on    *)
(* what binds a call to its recording and to whoever talks in it: only one call    *)
(* is in progress (InvOneCall), so that the gateway, the phone and a child that    *)
(* each look at "the" call see the same one; the recorder of a call that was taken *)
(* is up (InvTaken), so that no child gives it up for want of media; and a placed  *)
(* call has a dialer that waits (InvPlaced).  The last two hold until something    *)
(* fails.                                                                         *)
(*                                                                                *)
(* VoiceTurns: what the loop of a round may take for granted when an await         *)
(* returns: that no speech is left of the round before (InvSpeech), that the turn  *)
(* it has taken is the newest it has seen and has not been answered (InvTurn,      *)
(* InvAnswered), and that a goodbye which is no longer queued has been spoken or   *)
(* overtaken (InvBye).                                                            *)
EXTENDS Receptionist, VoiceTurns, SequenceTheorems, TLAPS

-----------------------------------------------------------------------------
(* The listener and its calls *)


ChildRecords == [at : ChildPlaces, told : BOOLEAN, sessions : 0..1,
                 instructions : Instructions \cup {None}, call : Incoming \cup {None}]
Desktops == [open : BOOLEAN, enabled : BOOLEAN, timer : BOOLEAN,
             instructions : Instructions \cup {None}, child : Children \cup {None}]
Replies == [mode : Modes, refresh : BOOLEAN]

\* The phases of a call that occupies the phone.
InProgress(k) == calls[k].phase \in {"ringing", "active"}
TakenByAgent(k) == calls[k].phase = "active" /\ calls[k].by = "agent"
Faultless == left.faults = MaxFaults

\* One call at a time, and the recording is of that call.
InvOneCall ==
  /\ \A j, k \in Calls : InProgress(j) /\ InProgress(k) => j = k
  /\ recording.call # None => InProgress(recording.call)
\* A call the agent has taken is recorded and attended.
InvTaken ==
  \A k \in Calls : TakenByAgent(k) => recording = [call |-> k, up |-> TRUE] /\ Attended(k)
\* A call that is placed is that of the dialer, which waits for it or converses.
InvPlaced ==
  \A k \in Outgoing : InProgress(k) =>
    /\ dialer.call = k /\ dialer.at \in {"waiting", "conversing"}
    /\ calls[k].phase = "active" => calls[k].by = "agent"
IInv == ListenerInv /\ InvOneCall /\ (Faultless => InvTaken /\ InvPlaced)

CallsInv == InvOneCall /\ (Faultless => InvTaken /\ InvPlaced)
Gone == {"dead", "exited"}

-----------------------------------------------------------------------------
(* What the helpers do to a child *)

\* The places of a child.
LEMMA ChildPlaced ==
  /\ ChildPlaces = {"dead", "exited", "starting", "creating", "mode", "reading", "polling",
                    "rechecking", "window", "answer", "answering", "waiting", "media", "opening",
                    "conversing", "farewell"}
  /\ Ready \cup Deciding \cup InCall =
       ChildPlaces \ {"dead", "exited", "starting", "creating", "mode"}
  /\ InCall \subseteq ChildPlaces
  BY DEF ChildPlaces, Ready, Deciding, InCall

\* The fields of a child, one at a time.
LEMMA ChildFields ==
  ASSUME NEW r \in ChildRecords
  PROVE  /\ \A p \in ChildPlaces : [r EXCEPT !.at = p] \in ChildRecords
         /\ \A b \in BOOLEAN : [r EXCEPT !.told = b] \in ChildRecords
         /\ \A n \in 0..1 : [r EXCEPT !.sessions = n] \in ChildRecords
         /\ \A i \in Instructions \cup {None} : [r EXCEPT !.instructions = i] \in ChildRecords
         /\ \A k \in Incoming \cup {None} : [r EXCEPT !.call = k] \in ChildRecords
  <1>1. ASSUME NEW p \in ChildPlaces PROVE [r EXCEPT !.at = p] \in ChildRecords
    BY DEF ChildRecords
  <1>2. ASSUME NEW b \in BOOLEAN PROVE [r EXCEPT !.told = b] \in ChildRecords
    BY DEF ChildRecords
  <1>3. ASSUME NEW n \in 0..1 PROVE [r EXCEPT !.sessions = n] \in ChildRecords
    BY DEF ChildRecords
  <1>4. ASSUME NEW i \in Instructions \cup {None} PROVE [r EXCEPT !.instructions = i] \in ChildRecords
    BY DEF ChildRecords
  <1>5. ASSUME NEW k \in Incoming \cup {None} PROVE [r EXCEPT !.call = k] \in ChildRecords
    BY DEF ChildRecords
  <1> QED BY <1>1, <1>2, <1>3, <1>4, <1>5

\* A child that is none, that starts and that has exited.
LEMMA NewChild ==
  /\ NoChild \in ChildRecords /\ NoChild.at = "dead" /\ NoChild.sessions = 0
  /\ LET r == [NoChild EXCEPT !.at = "starting"] IN
       r \in ChildRecords /\ r.at = "starting" /\ r.sessions = 0
  /\ LET r == [NoChild EXCEPT !.at = "exited"] IN
       r \in ChildRecords /\ r.at = "exited" /\ r.sessions = 0
  <1>1. NoChild \in ChildRecords /\ NoChild.at = "dead" /\ NoChild.sessions = 0
    BY ChildPlaced DEF NoChild, ChildRecords
  <1>2. PICK s : s = [NoChild EXCEPT !.at = "starting"]
    OBVIOUS
  <1>3. PICK e : e = [NoChild EXCEPT !.at = "exited"]
    OBVIOUS
  <1>4. s \in ChildRecords /\ e \in ChildRecords
    BY <1>1, <1>2, <1>3, ChildFields, ChildPlaced
  <1>5. s.at = "starting" /\ s.sessions = 0 /\ e.at = "exited" /\ e.sessions = 0
    BY <1>1, <1>2, <1>3 DEF ChildRecords
  <1> QED BY <1>1, <1>2, <1>3, <1>4, <1>5

\* Only the child c changes.
Changes(c, r) == r \in ChildRecords /\ child' = [child EXCEPT ![c] = r]

\* A child goes to another place, and keeps the rest.
LEMMA GoesEffect ==
  ASSUME TypeOK, NEW c \in Children, NEW p \in ChildPlaces, Goes(c, p)
  PROVE  \E r : /\ Changes(c, r) /\ r.at = p /\ r.told = child[c].told
                /\ r.sessions = child[c].sessions /\ r.call = child[c].call
  <1>1. child \in [Children -> ChildRecords] /\ child[c] \in ChildRecords
    BY DEF TypeOK, ChildRecords
  <1>2. PICK r : r = [child[c] EXCEPT !.at = p]
    OBVIOUS
  <1>3. r \in ChildRecords
    BY <1>1, <1>2, ChildFields
  <1>4. child' = [child EXCEPT ![c] = r]
    BY <1>2 DEF Goes
  <1> QED BY <1>1, <1>2, <1>3, <1>4 DEF Changes, ChildRecords

\* A child whose process ends keeps nothing.
LEMMA ExitsEffect ==
  ASSUME NEW c \in Children, Exits(c)
  PROVE  \E r : Changes(c, r) /\ r.at = "exited" /\ r.sessions = 0
  BY NewChild DEF Exits, Changes

\* A child that returns to the head of its loop keeps its session until there.
LEMMA ReturnsEffect ==
  ASSUME TypeOK, NEW c \in Children, Returns(c)
  PROVE  \E r : Changes(c, r) /\ r.at = "creating" /\ r.told = child[c].told
  <1>1. child \in [Children -> ChildRecords] /\ child[c] \in ChildRecords
    BY DEF TypeOK, ChildRecords
  <1>2. PICK a : a = [child[c] EXCEPT !.at = "creating"]
    OBVIOUS
  <1>3. a \in ChildRecords
    BY <1>1, <1>2, ChildFields, ChildPlaced
  <1>4. PICK b : b = [a EXCEPT !.call = None]
    OBVIOUS
  <1>5. b \in ChildRecords
    BY <1>3, <1>4, ChildFields
  <1>6. PICK r : r = [b EXCEPT !.instructions = None]
    OBVIOUS
  <1>7. r \in ChildRecords
    BY <1>5, <1>6, ChildFields
  <1>8. child' = [child EXCEPT ![c] = r]
    <2>1. PICK f : f = [child EXCEPT ![c] = a]
      OBVIOUS
    <2>2. PICK g : g = [f EXCEPT ![c] = b]
      OBVIOUS
    <2>3. f[c] = a /\ g[c] = b
      BY <1>1, <1>3, <1>5, <2>1, <2>2
    <2>4. child' = [g EXCEPT ![c] = r]
      BY <1>2, <1>4, <1>6, <2>1, <2>2, <2>3 DEF Returns
    <2> QED BY <1>1, <2>1, <2>2, <2>4
  <1>9. r.at = "creating" /\ r.told = child[c].told
    BY <1>1, <1>2, <1>4, <1>6 DEF ChildRecords
  <1> QED BY <1>7, <1>8, <1>9 DEF Changes

\* A child that changes twice in one step.
LEMMA ChangesTwice ==
  ASSUME TypeOK, NEW c \in Children, NEW a, NEW f, NEW r \in ChildRecords,
         f = [child EXCEPT ![c] = a], child' = [f EXCEPT ![c] = r]
  PROVE  Changes(c, r)
  BY DEF Changes, TypeOK

-----------------------------------------------------------------------------
(* One listener, and one session for it *)

ListenerParts == child' \in [Children -> ChildRecords] /\ OneListener' /\ OneSession'

\* A step of a child that runs.
LEMMA ChildListener ==
  ASSUME ListenerInv, NEW c \in Children, NEW r, Changes(c, r),
         \/ r.at \in Gone /\ r.sessions = 0
         \/ /\ child[c].at \notin Gone /\ r.told = child[c].told
            /\ r.at \notin {"dead", "exited", "starting"}
            /\ r.at = "creating" \/ r.sessions = 1,
         UNCHANGED desktop
  PROVE  ListenerParts
  <1>1. child \in [Children -> ChildRecords] /\ r \in ChildRecords
    BY DEF ListenerInv, TypeOK, ChildRecords, Changes
  <1>2. /\ child' \in [Children -> ChildRecords] /\ child'[c] = r
        /\ \A x \in Children : x # c => child'[x] = child[x]
    BY <1>1 DEF Changes
  <1>3. OneListener'
    BY <1>2 DEF ListenerInv, OneListener, Gone
  <1>4. OneSession'
    BY <1>2, ChildPlaced DEF ListenerInv, OneSession, Gone, Ready, Deciding, InCall
  <1> QED BY <1>2, <1>3, <1>4 DEF ListenerParts

\* A step that leaves children and desktop alone.
LEMMA SameListener ==
  ASSUME ListenerInv, UNCHANGED <<child, desktop>>
  PROVE  ListenerParts
  BY DEF ListenerInv, TypeOK, ChildRecords, OneListener, OneSession, ListenerParts

\* Telling the child of the desktop to stop.
LEMMA KilledEffect ==
  ASSUME ListenerInv, NEW f, f = Killed(child, desktop.child)
  PROVE  /\ f \in [Children -> ChildRecords]
         /\ \A x \in Children : /\ f[x].at = child[x].at /\ f[x].sessions = child[x].sessions
                                /\ f[x].call = child[x].call
                                /\ f[x].at \notin Gone => f[x].told
  <1>1. child \in [Children -> ChildRecords] /\ desktop.child \in Children \cup {None}
    BY DEF ListenerInv, TypeOK, ChildRecords
  <1>2. CASE desktop.child = None
    BY <1>1, <1>2, ReceptionistAssumption DEF Killed, ListenerInv, OneListener, Gone, ChildRecords
  <1>3. ASSUME NEW c \in Children, c = desktop.child, c # None
        PROVE  /\ f \in [Children -> ChildRecords]
               /\ \A x \in Children : /\ f[x].at = child[x].at /\ f[x].sessions = child[x].sessions
                                      /\ f[x].call = child[x].call
                                      /\ f[x].at \notin Gone => f[x].told
    <2>1. PICK r : r = [child[c] EXCEPT !.told = TRUE]
      OBVIOUS
    <2>2. /\ r \in ChildRecords /\ r.told
          /\ r.at = child[c].at /\ r.sessions = child[c].sessions /\ r.call = child[c].call
      BY <1>1, <2>1, ChildFields, ZenonT(60) DEF ChildRecords
    <2>3. f = [child EXCEPT ![c] = r]
      BY <1>3, <2>1 DEF Killed
    <2> QED BY <1>1, <1>3, <2>2, <2>3 DEF ListenerInv, OneListener, Gone
  <1> QED BY <1>1, <1>2, <1>3

\* What a step of the desktop makes of the children: nobody it does not know goes on untold.
Replaced(f, d) ==
  /\ f \in [Children -> ChildRecords] /\ d \in Desktops
  /\ \A x \in Children :
       \/ /\ f[x].at = child[x].at /\ f[x].sessions = child[x].sessions
          /\ f[x].call = child[x].call
          /\ f[x].at \notin Gone /\ ~f[x].told => d.child = x
       \/ child[x].at \in Gone /\ f[x] = NoChild
       \/ child[x].at = "dead" /\ f[x].at = "starting" /\ f[x].sessions = 0 /\ d.child = x

\* Such a step leaves one listener, with one session.
LEMMA ReplacedListener ==
  ASSUME ListenerInv, Replaced(child', desktop')
  PROVE  ListenerParts /\ desktop' \in Desktops
  <1>1. OneListener'
    BY NewChild DEF ListenerInv, OneListener, Replaced, Gone
  <1>2. OneSession'
    BY NewChild, ChildPlaced DEF ListenerInv, OneSession, Replaced, Gone, Ready, Deciding, InCall
  <1> QED BY <1>1, <1>2 DEF ListenerParts, Replaced

\* A new child takes the place of one that is dead, when all others have been told.
LEMMA SpawnedEffect ==
  ASSUME ListenerInv, NEW f, NEW g, NEW d \in Desktops, NEW e, Spawned(d, f, e, g),
         f \in [Children -> ChildRecords],
         \A x \in Children : /\ f[x].at = child[x].at /\ f[x].sessions = child[x].sessions
                             /\ f[x].call = child[x].call
                             /\ f[x].at \notin Gone => f[x].told
  PROVE  Replaced(g, e)
  <1>1. PICK c \in Children : /\ f[c].at = "dead"
                              /\ e = [d EXCEPT !.child = c, !.timer = FALSE]
                              /\ g = [f EXCEPT ![c] = [NoChild EXCEPT !.at = "starting"]]
    BY DEF Spawned
  <1>2. PICK r : r = [NoChild EXCEPT !.at = "starting"]
    OBVIOUS
  <1>3. r \in ChildRecords /\ r.at = "starting" /\ r.sessions = 0
    BY <1>2, NewChild
  <1>4. g = [f EXCEPT ![c] = r]
    BY <1>1, <1>2
  <1>5. e \in Desktops /\ e.child = c
    <2>1. PICK a : a = [d EXCEPT !.child = c]
      OBVIOUS
    <2>2. PICK b : b = [a EXCEPT !.timer = FALSE]
      OBVIOUS
    <2>3. e = b
      BY <1>1, <2>1, <2>2
    <2> QED BY <2>1, <2>2, <2>3 DEF Desktops
  <1>6. /\ g \in [Children -> ChildRecords] /\ g[c] = r
        /\ \A x \in Children : x # c => g[x] = f[x]
    BY <1>3, <1>4
  <1>7. child[c].at = "dead"
    BY <1>1
  <1> QED BY <1>3, <1>5, <1>6, <1>7 DEF Replaced

\* The types of a mode, and of what the desktop makes of one.
LEMMA ModeTypes ==
  ASSUME NEW mode \in Modes
  PROVE  /\ mode.enabled \in BOOLEAN /\ mode.instructions \in Instructions \cup {None}
         /\ mode.enabled => mode.instructions \in Instructions
  <1>1. CASE mode \in [enabled : {TRUE}, instructions : Instructions]
    BY <1>1
  <1>2. CASE mode = Off
    <2>1. mode.enabled = FALSE /\ mode.instructions = None
      BY <1>2 DEF Off
    <2> QED BY <2>1
  <1> QED BY <1>1, <1>2 DEF Modes

\* The fields of the desktop, one at a time.
LEMMA DesktopFields ==
  ASSUME NEW d \in Desktops
  PROVE  /\ \A b \in BOOLEAN : [d EXCEPT !.open = b] \in Desktops
         /\ \A b \in BOOLEAN : [d EXCEPT !.enabled = b] \in Desktops
         /\ \A b \in BOOLEAN : [d EXCEPT !.timer = b] \in Desktops
         /\ \A i \in Instructions \cup {None} : [d EXCEPT !.instructions = i] \in Desktops
         /\ \A c \in Children \cup {None} : [d EXCEPT !.child = c] \in Desktops
  <1>1. ASSUME NEW b \in BOOLEAN
        PROVE  /\ [d EXCEPT !.open = b] \in Desktops /\ [d EXCEPT !.enabled = b] \in Desktops
               /\ [d EXCEPT !.timer = b] \in Desktops
    BY DEF Desktops
  <1>2. ASSUME NEW i \in Instructions \cup {None} PROVE [d EXCEPT !.instructions = i] \in Desktops
    BY DEF Desktops
  <1>3. ASSUME NEW c \in Children \cup {None} PROVE [d EXCEPT !.child = c] \in Desktops
    BY DEF Desktops
  <1> QED BY <1>1, <1>2, <1>3

\* The supervisor takes over a mode: what it knew is replaced, or goes on.
LEMMA SyncEffect ==
  ASSUME ListenerInv, NEW mode \in Modes, NEW refresh, Sync(mode, refresh)
  PROVE  Replaced(child', desktop')
  <1>1. desktop \in Desktops /\ child \in [Children -> ChildRecords]
    BY DEF ListenerInv, TypeOK, Desktops, ChildRecords
  <1>2. PICK i : i = IF mode.enabled THEN mode.instructions ELSE None
    OBVIOUS
  <1>3. PICK a : a = [desktop EXCEPT !.enabled = mode.enabled]
    OBVIOUS
  <1>4. PICK d : d = [a EXCEPT !.instructions = i]
    OBVIOUS
  <1>5. a \in Desktops /\ d \in Desktops
    BY <1>1, <1>2, <1>3, <1>4, ModeTypes, DesktopFields
  <1>6. d = [desktop EXCEPT !.enabled = mode.enabled,
                            !.instructions = IF mode.enabled THEN mode.instructions ELSE None]
    BY <1>2, <1>3, <1>4
  <1>7. d.child = desktop.child
    BY <1>1, <1>3, <1>4 DEF Desktops
  <1>8. PICK f : f = Killed(child, desktop.child)
    OBVIOUS
  <1>9. /\ f \in [Children -> ChildRecords]
        /\ \A x \in Children : /\ f[x].at = child[x].at /\ f[x].sessions = child[x].sessions
                               /\ f[x].call = child[x].call
                               /\ f[x].at \notin Gone => f[x].told
    BY <1>8, KilledEffect
  <1>10. CASE desktop' = [d EXCEPT !.child = None, !.timer = FALSE] /\ child' = f
    <2>1. PICK b : b = [d EXCEPT !.child = None]
      OBVIOUS
    <2>2. desktop' = [b EXCEPT !.timer = FALSE]
      BY <1>10, <2>1
    <2>3. desktop' \in Desktops
      BY <1>5, <2>1, <2>2, DesktopFields
    <2> QED BY <1>9, <1>10, <2>3 DEF Replaced
  <1>11. CASE Spawned(d, f, desktop', child')
    BY <1>5, <1>9, <1>11, SpawnedEffect
  <1>12. CASE d.child = None /\ Spawned(d, child, desktop', child')
    <2>1. f = child
      BY <1>7, <1>8, <1>12 DEF Killed
    <2> QED BY <1>11, <1>12, <2>1
  <1>13. CASE desktop' = d /\ UNCHANGED child
    <2>1. \A x \in Children : child[x].at \notin Gone /\ ~child[x].told => d.child = x
      BY <1>7 DEF ListenerInv, OneListener, Gone
    <2> QED BY <1>1, <1>5, <1>13, <2>1 DEF Replaced
  <1> QED BY <1>6, <1>8, <1>10, <1>11, <1>12, <1>13 DEF Sync

\* The end of a child is noticed.
LEMMA FinishedEffect ==
  ASSUME ListenerInv, NEW c \in Children, ChildFinished(c)
  PROVE  Replaced(child', desktop')
  <1>1. desktop \in Desktops /\ child \in [Children -> ChildRecords]
    BY DEF ListenerInv, TypeOK, Desktops, ChildRecords
  <1>2. desktop' \in Desktops /\ (desktop'.child = desktop.child \/ desktop.child = c)
    <2>1. CASE desktop.child = c
      <3>1. PICK a : a = [desktop EXCEPT !.child = None]
        OBVIOUS
      <3>2. desktop' = [a EXCEPT !.timer = desktop.enabled]
        BY <2>1, <3>1 DEF ChildFinished, Finished
      <3>3. desktop.enabled \in BOOLEAN
        BY <1>1 DEF Desktops
      <3> QED BY <1>1, <2>1, <3>1, <3>2, <3>3, DesktopFields
    <2>2. CASE desktop.child # c
      BY <1>1, <2>2 DEF ChildFinished, Finished
    <2> QED BY <2>1, <2>2
  <1>3. /\ child' \in [Children -> ChildRecords] /\ child'[c] = NoChild
        /\ \A x \in Children : x # c => child'[x] = child[x]
        /\ child[c].at = "exited"
    BY <1>1, NewChild DEF ChildFinished
  <1> QED BY <1>2, <1>3 DEF Replaced, Gone, ListenerInv, OneListener

\* The restart timer fires.
LEMMA TimerEffect == ASSUME ListenerInv, RestartTimer PROVE Replaced(child', desktop')
  <1>1. desktop \in Desktops /\ child \in [Children -> ChildRecords]
    BY DEF ListenerInv, TypeOK, Desktops, ChildRecords
  <1>2. CASE desktop.child = None /\ Spawned(desktop, child, desktop', child')
    <2>1. child = Killed(child, desktop.child)
      BY <1>2 DEF Killed
    <2> QED BY <1>1, <1>2, <2>1, KilledEffect, SpawnedEffect
  <1>3. CASE desktop' = [desktop EXCEPT !.timer = FALSE] /\ UNCHANGED child
    <2>1. desktop' \in Desktops /\ desktop'.child = desktop.child
      BY <1>1, <1>3 DEF Desktops
    <2> QED BY <1>1, <1>3, <2>1 DEF Replaced, Gone, ListenerInv, OneListener
  <1> QED BY <1>2, <1>3 DEF RestartTimer

\* The desktop is closed.
LEMMA QuitEffect == ASSUME ListenerInv, Quit PROVE Replaced(child', desktop')
  <1>1. desktop \in Desktops
    BY DEF ListenerInv, TypeOK, Desktops
  <1>2. PICK a : a = [desktop EXCEPT !.open = FALSE]
    OBVIOUS
  <1>3. PICK b : b = [a EXCEPT !.enabled = FALSE]
    OBVIOUS
  <1>4. PICK i : i = [b EXCEPT !.instructions = None]
    OBVIOUS
  <1>5. PICK k : k = [i EXCEPT !.child = None]
    OBVIOUS
  <1>6. desktop' = [k EXCEPT !.timer = FALSE]
    BY <1>2, <1>3, <1>4, <1>5 DEF Quit
  <1>7. desktop' \in Desktops
    <2>1. a \in Desktops /\ b \in Desktops
      BY <1>1, <1>2, <1>3, DesktopFields
    <2>2. i \in Desktops /\ k \in Desktops
      BY <2>1, <1>4, <1>5, DesktopFields
    <2> QED BY <2>2, <1>6, DesktopFields
  <1>8. child' = Killed(child, desktop.child)
    BY DEF Quit
  <1> QED BY <1>7, <1>8, KilledEffect DEF Replaced

-----------------------------------------------------------------------------
(* The steps of a child *)

\* What a step of a child makes of it.
Proceeds(c) ==
  \E r : /\ Changes(c, r)
         /\ \/ r.at \in Gone /\ r.sessions = 0
            \/ /\ child[c].at \notin Gone /\ r.told = child[c].told
               /\ r.at \notin {"dead", "exited", "starting"}
               /\ r.at = "creating" \/ r.sessions = 1

\* A child that runs and exits, or returns to the head of its loop.
LEMMA MoveProceeds ==
  ASSUME ListenerInv, NEW c \in Children, child[c].at \notin Gone,
         Exits(c) \/ Returns(c)
  PROVE  Proceeds(c)
  <1>1. TypeOK
    BY DEF ListenerInv
  <1>2. CASE Exits(c)
    BY <1>2, ExitsEffect DEF Proceeds, Gone
  <1>3. CASE Returns(c)
    <2>1. PICK r : Changes(c, r) /\ r.at = "creating" /\ r.told = child[c].told
      BY <1>1, <1>3, ReturnsEffect
    <2> QED BY <2>1 DEF Proceeds
  <1> QED BY <1>2, <1>3

\* A child that runs and goes on.
LEMMA GoesProceeds ==
  ASSUME ListenerInv, NEW c \in Children, child[c].at \notin Gone,
         NEW p \in ChildPlaces, p \notin {"dead", "exited", "starting"}, Goes(c, p),
         p = "creating" \/ child[c].at \in {"mode"} \cup Ready \cup Deciding \cup InCall
  PROVE  Proceeds(c)
  <1>1. TypeOK /\ OneSession
    BY DEF ListenerInv
  <1>2. PICK r : /\ Changes(c, r) /\ r.at = p /\ r.told = child[c].told
                 /\ r.sessions = child[c].sessions
    BY <1>1, GoesEffect
  <1>3. p = "creating" \/ child[c].sessions = 1
    BY <1>1 DEF OneSession
  <1> QED BY <1>2, <1>3 DEF Proceeds

\* A child that takes a session, instructions or a call.
LEMMA TakeProceeds ==
  ASSUME ListenerInv, NEW c \in Children,
         \/ /\ child[c].at = "creating"
            /\ child' = [child EXCEPT ![c].at = "mode", ![c].sessions = CloseSession(c) + 1]
         \/ /\ child[c].at = "mode" /\ store.enabled
            /\ child' = [child EXCEPT ![c].at = "reading", ![c].instructions = store.instructions]
         \/ /\ child[c].at = "reading" /\ Rings(Current)
            /\ child' = [child EXCEPT ![c].at = "rechecking", ![c].call = Current]
  PROVE  Proceeds(c)
  <1>1. TypeOK /\ OneSession
    BY DEF ListenerInv
  <1>2. CASE /\ child[c].at = "creating"
             /\ child' = [child EXCEPT ![c].at = "mode", ![c].sessions = CloseSession(c) + 1]
    <2>1. PICK a : a = [child[c] EXCEPT !.at = "mode"]
      OBVIOUS
    <2>2. PICK f : f = [child EXCEPT ![c] = a]
      OBVIOUS
    <2>3. PICK r : r = [a EXCEPT !.sessions = 1]
      OBVIOUS
    <2>4. child' = [f EXCEPT ![c] = r]
      BY <1>1, <1>2, <2>1, <2>2, <2>3 DEF CloseSession, TypeOK
    <2>5. Changes(c, r) /\ r.at = "mode" /\ r.told = child[c].told
      <3>1. "mode" \in ChildPlaces
        BY ChildPlaced
      <3>2. child[c] \in ChildRecords
        BY <1>1 DEF TypeOK, ChildRecords
      <3>3. a \in ChildRecords
        BY <2>1, <3>1, <3>2, ChildFields
      <3>4. r \in ChildRecords
        <4>1. 1 \in 0..1
          OBVIOUS
        <4> QED BY <2>3, <3>3, <4>1, ChildFields
      <3>5. r.at = "mode" /\ r.told = child[c].told
        BY <2>1, <2>3, <3>2 DEF ChildRecords
      <3> QED BY <1>1, <2>2, <2>4, <3>4, <3>5, ChangesTwice
    <2>6. r.sessions = 1
      BY <1>1, <2>1, <2>3 DEF TypeOK
    <2> QED BY <1>2, <2>5, <2>6 DEF Proceeds, Gone
  <1>3. CASE /\ child[c].at = "mode" /\ store.enabled
             /\ child' = [child EXCEPT ![c].at = "reading", ![c].instructions = store.instructions]
    <2>1. PICK a : a = [child[c] EXCEPT !.at = "reading"]
      OBVIOUS
    <2>2. PICK f : f = [child EXCEPT ![c] = a]
      OBVIOUS
    <2>3. PICK r : r = [a EXCEPT !.instructions = store.instructions]
      OBVIOUS
    <2>4. child' = [f EXCEPT ![c] = r]
      BY <1>1, <1>3, <2>1, <2>2, <2>3 DEF TypeOK
    <2>5. store.instructions \in Instructions \cup {None}
      BY <1>1, ModeTypes DEF TypeOK
    <2>6. Changes(c, r) /\ r.at = "reading" /\ r.told = child[c].told
      <3>1. "reading" \in ChildPlaces
        BY ChildPlaced
      <3>2. child[c] \in ChildRecords
        BY <1>1 DEF TypeOK, ChildRecords
      <3>3. a \in ChildRecords
        BY <2>1, <3>1, <3>2, ChildFields
      <3>4. r \in ChildRecords
        BY <2>3, <2>5, <3>3, ChildFields
      <3>5. r.at = "reading" /\ r.told = child[c].told
        BY <2>1, <2>3, <3>2 DEF ChildRecords
      <3> QED BY <1>1, <2>2, <2>4, <3>4, <3>5, ChangesTwice
    <2>7. r.sessions = 1
      BY <1>1, <1>3, <2>1, <2>3 DEF TypeOK, OneSession
    <2> QED BY <1>3, <2>6, <2>7 DEF Proceeds, Gone
  <1>4. CASE /\ child[c].at = "reading" /\ Rings(Current)
             /\ child' = [child EXCEPT ![c].at = "rechecking", ![c].call = Current]
    <2>1. PICK a : a = [child[c] EXCEPT !.at = "rechecking"]
      OBVIOUS
    <2>2. PICK f : f = [child EXCEPT ![c] = a]
      OBVIOUS
    <2>3. PICK r : r = [a EXCEPT !.call = Current]
      OBVIOUS
    <2>4. child' = [f EXCEPT ![c] = r]
      BY <1>1, <1>4, <2>1, <2>2, <2>3 DEF TypeOK
    <2>5. Current \in Incoming \cup {None}
      BY <1>4 DEF Rings
    <2>6. Changes(c, r) /\ r.at = "rechecking" /\ r.told = child[c].told
      <3>1. "rechecking" \in ChildPlaces
        BY ChildPlaced
      <3>2. child[c] \in ChildRecords
        BY <1>1 DEF TypeOK, ChildRecords
      <3>3. a \in ChildRecords
        BY <2>1, <3>1, <3>2, ChildFields
      <3>4. r \in ChildRecords
        BY <2>3, <2>5, <3>3, ChildFields
      <3>5. r.at = "rechecking" /\ r.told = child[c].told
        BY <2>1, <2>3, <3>2 DEF ChildRecords
      <3> QED BY <1>1, <2>2, <2>4, <3>4, <3>5, ChangesTwice
    <2>7. r.sessions = 1
      BY <1>1, <1>4, <2>1, <2>3 DEF TypeOK, OneSession, Ready
    <2> QED BY <1>4, <2>6, <2>7 DEF Proceeds, Gone
  <1> QED BY <1>2, <1>3, <1>4

\* Every step of a child is one of these.
LEMMA StepProceeds ==
  ASSUME ListenerInv, NEW c \in Children, ChildStep(c)
  PROVE  Proceeds(c) /\ UNCHANGED <<settings, desktop, dialer>>
  <1> DEFINE Talks == child[c].at \in {"mode"} \cup Ready \cup Deciding \cup InCall
             Going == {"polling", "reading", "window", "answer", "answering", "waiting", "media",
                       "opening", "conversing", "farewell"}
  <1>1. /\ Going \subseteq ChildPlaces /\ "creating" \in ChildPlaces
        /\ \A p \in Going : p \notin {"dead", "exited", "starting"}
    BY ChildPlaced
  <1>2. ASSUME child[c].at \notin Gone, Exits(c) \/ Returns(c) PROVE Proceeds(c)
    BY <1>2, MoveProceeds
  <1>3. ASSUME Talks, NEW p \in Going, Goes(c, p) PROVE Proceeds(c)
    <2>1. child[c].at \notin Gone
      BY <1>3 DEF Gone, Ready, Deciding, InCall
    <2> QED BY <1>1, <1>3, <2>1, GoesProceeds
  <1>4. CASE ChildStarts(c)
    <2>1. child[c].at \notin Gone
      BY <1>4 DEF ChildStarts, Gone
    <2>2. Goes(c, "creating") => Proceeds(c)
      <3>1. "creating" \in ChildPlaces /\ "creating" \notin {"dead", "exited", "starting"}
        BY <1>1
      <3> QED BY <2>1, <3>1, GoesProceeds
    <2> QED BY <1>2, <1>4, <2>1, <2>2 DEF ChildStarts, ChildOnly
  <1>5. CASE CreateSession(c)
    BY <1>2, <1>5, TakeProceeds DEF CreateSession, ChildOnly, Gone
  <1>6. CASE ReadMode(c)
    BY <1>2, <1>6, TakeProceeds DEF ReadMode, ChildOnly, Gone
  <1>7. CASE ReadStatus(c) \/ PollTimesOut(c) \/ Recheck(c)
    <2>1. Talks /\ child[c].at \notin Gone
      BY <1>7 DEF ReadStatus, PollTimesOut, Recheck, Ready, Deciding, Gone
    <2>2. \/ Exits(c) \/ Goes(c, "polling") \/ Goes(c, "reading") \/ Goes(c, "window")
          \/ /\ child[c].at = "reading" /\ Rings(Current)
             /\ child' = [child EXCEPT ![c].at = "rechecking", ![c].call = Current]
      BY <1>7 DEF ReadStatus, PollTimesOut, Recheck
    <2>3. Proceeds(c)
      BY <1>2, <1>3, <2>1, <2>2, TakeProceeds
    <2> QED BY <1>7, <2>3 DEF ReadStatus, PollTimesOut, Recheck, ChildOnly
  <1>8. CASE AnswerWindow(c) \/ AnswerRequested(c) \/ Answer(c)
    <2>1. Talks /\ child[c].at \notin Gone
      BY <1>8 DEF AnswerWindow, AnswerRequested, Answer, Deciding, Gone
    <2>2. Exits(c) \/ Returns(c) \/ Goes(c, "answer") \/ Goes(c, "answering") \/ Goes(c, "waiting")
      BY <1>8 DEF AnswerWindow, AnswerRequested, Answer
    <2>3. Proceeds(c)
      BY <1>2, <1>3, <2>1, <2>2
    <2> QED BY <1>8, <2>3 DEF AnswerWindow, AnswerRequested, Answer, ChildOnly
  <1>9. CASE ActiveHeard(c) \/ MediaWait(c) \/ SpeakOpening(c) \/ Converse(c) \/ Farewell(c)
    <2>1. Talks /\ child[c].at \notin Gone
      BY <1>9 DEF ActiveHeard, MediaWait, SpeakOpening, Converse, Farewell, InCall, Gone
    <2>2. \/ Exits(c) \/ Returns(c) \/ Goes(c, "media") \/ Goes(c, "opening")
          \/ Goes(c, "conversing") \/ Goes(c, "farewell")
      BY <1>9 DEF ActiveHeard, MediaWait, SpeakOpening, Converse, Farewell
    <2>3. Proceeds(c)
      BY <1>2, <1>3, <2>1, <2>2
    <2> QED BY <1>9, <2>3 DEF ActiveHeard, MediaWait, SpeakOpening, Converse, Farewell, ChildOnly
  <1> QED BY <1>4, <1>5, <1>6, <1>7, <1>8, <1>9 DEF ChildStep

\* A call that rings takes the children that poll.
LEMMA RingEffect ==
  ASSUME ListenerInv, NEW k \in Incoming, Ring(k)
  PROVE  /\ child' \in [Children -> ChildRecords]
         /\ \A c \in Children :
              \/ child'[c] = child[c]
              \/ /\ child[c].at = "polling" /\ child'[c].at = "rechecking"
                 /\ child'[c].told = child[c].told /\ child'[c].sessions = child[c].sessions
  <1>1. child \in [Children -> ChildRecords]
    BY DEF ListenerInv, TypeOK, ChildRecords
  <1>2. ASSUME NEW c \in Children, child[c].at = "polling",
               NEW r, r = [child[c] EXCEPT !.at = "rechecking", !.call = k]
        PROVE  /\ r \in ChildRecords /\ r.at = "rechecking"
               /\ r.told = child[c].told /\ r.sessions = child[c].sessions
    <2>1. PICK a : a = [child[c] EXCEPT !.at = "rechecking"]
      OBVIOUS
    <2>2. r = [a EXCEPT !.call = k]
      BY <1>2, <2>1
    <2>3. a \in ChildRecords
      <3>1. "rechecking" \in ChildPlaces
        BY ChildPlaced
      <3> QED BY <1>1, <2>1, <3>1, ChildFields
    <2> QED BY <1>1, <2>1, <2>2, <2>3, ChildFields DEF ChildRecords
  <1>3. ASSUME NEW c \in Children
        PROVE  /\ child'[c] \in ChildRecords
               /\ \/ child'[c] = child[c]
                  \/ /\ child[c].at = "polling" /\ child'[c].at = "rechecking"
                     /\ child'[c].told = child[c].told /\ child'[c].sessions = child[c].sessions
    BY <1>1, <1>2 DEF Ring
  <1>4. child' \in [Children -> ChildRecords]
    BY <1>3 DEF Ring
  <1> QED BY <1>3, <1>4

\* Every step keeps one listener with one session.
LEMMA StepListener ==
  ASSUME ListenerInv, Next
  PROVE  ListenerParts /\ desktop' \in Desktops
  <1>1. desktop \in Desktops
    BY DEF ListenerInv, TypeOK, Desktops
  <1>2. CASE UNCHANGED <<child, desktop>>
    BY <1>1, <1>2, SameListener
  <1>3. ASSUME NEW c \in Children, ChildStep(c) PROVE ListenerParts /\ desktop' \in Desktops
    <2>1. Proceeds(c) /\ UNCHANGED desktop
      BY <1>3, StepProceeds
    <2> QED BY <1>1, <2>1, ChildListener DEF Proceeds
  <1>4. ASSUME NEW k \in Incoming, Ring(k) PROVE ListenerParts /\ desktop' \in Desktops
    <2>1. UNCHANGED desktop
      BY <1>4 DEF Ring
    <2>2. OneListener'
      BY <1>4, <2>1, RingEffect DEF ListenerInv, OneListener
    <2>3. OneSession'
      BY <1>4, RingEffect, ChildPlaced DEF ListenerInv, OneSession, Ready, Deciding
    <2> QED BY <1>1, <1>4, <2>1, <2>2, <2>3, RingEffect DEF ListenerParts
  <1>5. CASE Answered
    <2>1. Head(inbox).mode \in Modes
      <3>1. inbox \in Seq(Replies) /\ inbox # <<>>
        BY <1>5 DEF Answered, ListenerInv, TypeOK, Replies
      <3>2. Head(inbox) \in Replies
        BY <3>1
      <3> QED BY <3>2 DEF Replies
    <2> QED BY <1>5, <2>1, SyncEffect, ReplacedListener DEF Answered
  <1>6. CASE RestartTimer \/ Quit \/ \E c \in Children : ChildFinished(c)
    BY <1>6, TimerEffect, QuitEffect, FinishedEffect, ReplacedListener
  <1>7. CASE \/ \E mode \in Modes : Save(mode)
             \/ Saved \/ GatewayReady \/ MediaFails
             \/ \E k \in Calls : PeerAnswers(k) \/ CallEnds(k)
             \/ \E k \in Incoming : HumanAnswers(k)
             \/ \E k \in Outgoing : DialerStarts(k)
             \/ Dialer
    BY <1>2, <1>7 DEF Save, Saved, GatewayReady, MediaFails, PeerAnswers, CallEnds, HumanAnswers,
       DialerStarts, DialerOnly, Dialer, Dial, DialerWaits, DialerConverses
  <1> QED BY <1>3, <1>4, <1>5, <1>6, <1>7 DEF Next

-----------------------------------------------------------------------------
(* Types *)

\* No step forgets a failure, and one that fails is not faultless.
LEMMA Failures ==
  ASSUME ListenerInv, Next
  PROVE  /\ left' \in [turns : 0..MaxTurns, faults : 0..MaxFaults]
         /\ Faultless' => Faultless
         /\ Fault => ~Faultless'
  <1>1. /\ left \in [turns : 0..MaxTurns, faults : 0..MaxFaults]
        /\ MaxTurns \in Nat /\ MaxFaults \in Nat
    BY ReceptionistAssumption DEF ListenerInv, TypeOK
  <1>2. ASSUME Fault
        PROVE  /\ left' \in [turns : 0..MaxTurns, faults : 0..MaxFaults]
               /\ ~Faultless'
    BY <1>1, <1>2 DEF Fault, Faultless
  <1>3. CASE Works
    BY <1>1, <1>2, <1>3 DEF Works, Faultless
  <1>4. ASSUME left.turns > 0, left' = [left EXCEPT !.turns = @ - 1]
        PROVE  /\ left' \in [turns : 0..MaxTurns, faults : 0..MaxFaults]
               /\ Faultless' => Faultless
               /\ Fault => ~Faultless'
    BY <1>1, <1>2, <1>4 DEF Faultless
  <1>5. ASSUME left.turns > 0, left.faults > 0,
               left' = [left EXCEPT !.turns = @ - 1, !.faults = @ - 1]
        PROVE  /\ left' \in [turns : 0..MaxTurns, faults : 0..MaxFaults]
               /\ Faultless' => Faultless
               /\ Fault => ~Faultless'
    <2>1. PICK a : a = [left EXCEPT !.turns = @ - 1]
      OBVIOUS
    <2>2. a \in [turns : 0..MaxTurns, faults : 0..MaxFaults] /\ a.faults = left.faults
      BY <1>1, <1>5, <2>1
    <2>3. left' = [a EXCEPT !.faults = @ - 1]
      BY <1>5, <2>1
    <2> QED BY <1>1, <1>2, <1>5, <2>2, <2>3 DEF Faultless
  <1>6. \/ Works \/ Fault
        \/ left.turns > 0 /\ left' = [left EXCEPT !.turns = @ - 1]
        \/ /\ left.turns > 0 /\ left.faults > 0
           /\ left' = [left EXCEPT !.turns = @ - 1, !.faults = @ - 1]
    <2>1. ASSUME NEW c \in Children, ChildStep(c) PROVE Works \/ Fault
      BY <2>1 DEF ChildStep, ChildStarts, CreateSession, ReadMode, ReadStatus, PollTimesOut, Recheck,
         AnswerWindow, AnswerRequested, Answer, ActiveHeard, MediaWait, SpeakOpening, Converse,
         Farewell
    <2>2. CASE \/ Answered \/ RestartTimer \/ Quit \/ \E c \in Children : ChildFinished(c)
               \/ \E k \in Calls : CallEnds(k)
               \/ \E k \in Incoming : Ring(k) \/ HumanAnswers(k)
      BY <2>2 DEF Answered, RestartTimer, Quit, ChildFinished, CallEnds, Ring, HumanAnswers, Works
    <2>3. CASE (\E mode \in Modes : Save(mode)) \/ Saved \/ GatewayReady
      BY <2>3 DEF Save, Saved, GatewayReady
    <2>4. CASE MediaFails \/ (\E k \in Calls : PeerAnswers(k))
               \/ (\E k \in Outgoing : DialerStarts(k)) \/ Dialer
      BY <2>4 DEF MediaFails, PeerAnswers, DialerStarts, Dialer, Dial, DialerWaits, DialerConverses
    <2> QED BY <2>1, <2>2, <2>3, <2>4 DEF Next
  <1>7. CASE Fault
    <2>1. ~Faultless'
      BY <1>2, <1>7
    <2> QED BY <1>2, <1>7, <2>1
  <1> QED BY <1>3, <1>4, <1>5, <1>6, <1>7

\* The settings keep their types.
LEMMA SettingsType ==
  ASSUME ListenerInv, Next
  PROVE  (store \in Modes /\ saving \in Modes \cup {None} /\ inbox \in Seq(Replies))'
  <1>1. store \in Modes /\ saving \in Modes \cup {None} /\ inbox \in Seq(Replies)
    BY DEF ListenerInv, TypeOK, Replies
  <1>2. CASE UNCHANGED settings
    BY <1>1, <1>2 DEF settings
  <1>3. ASSUME NEW mode \in Modes, NEW b \in BOOLEAN
        PROVE  Append(inbox, [mode |-> mode, refresh |-> b]) \in Seq(Replies)
    <2>1. [mode |-> mode, refresh |-> b] \in Replies
      BY <1>3 DEF Replies
    <2> QED BY <1>1, <2>1
  <1>4. ASSUME NEW mode \in Modes, Save(mode)
        PROVE  (store \in Modes /\ saving \in Modes \cup {None} /\ inbox \in Seq(Replies))'
    BY <1>1, <1>4 DEF Save
  <1>5. CASE Saved
    BY <1>1, <1>3, <1>5 DEF Saved
  <1>6. CASE GatewayReady
    BY <1>1, <1>3, <1>6 DEF GatewayReady, Modes
  <1>7. CASE Answered
    BY <1>1, <1>7 DEF Answered
  <1>8. CASE Quit
    BY <1>1, <1>8 DEF Quit
  <1>9. ASSUME NEW c \in Children, ChildStep(c) PROVE UNCHANGED settings
    BY <1>9, StepProceeds
  <1>10. CASE \/ RestartTimer \/ MediaFails \/ (\E c \in Children : ChildFinished(c))
              \/ (\E k \in Calls : PeerAnswers(k) \/ CallEnds(k))
              \/ (\E k \in Incoming : Ring(k) \/ HumanAnswers(k))
              \/ (\E k \in Outgoing : DialerStarts(k))
              \/ Dialer
    BY <1>2, <1>10 DEF RestartTimer, MediaFails, ChildFinished, PeerAnswers, CallEnds, Ring,
       HumanAnswers, DialerStarts, DialerOnly, Dialer, Dial, DialerWaits, DialerConverses
  <1> QED BY <1>2, <1>4, <1>5, <1>6, <1>7, <1>8, <1>9, <1>10 DEF Next

CallStates == [phase : {"none", "ringing", "active", "ended"}, by : {"nobody", "human", "agent"}]
Recordings == [call : Calls \cup {None}, up : BOOLEAN]
PhoneType ==
  /\ calls \in [Calls -> CallStates]
  /\ recording \in Recordings
  /\ dialer \in [at : DialerPlaces, call : Outgoing \cup {None}]

\* The call of the phone is one of the calls, or none.
LEMMA CurrentCall ==
  Current = None \/ (Current \in Calls /\ InProgress(Current))
  BY DEF Current, InProgress

\* A call that is answered, and a recording.
LEMMA PhoneRecords ==
  /\ \A x \in {"human", "agent"} : [phase |-> "active", by |-> x] \in CallStates
  /\ \A k \in Calls \cup {None}, b \in BOOLEAN : [call |-> k, up |-> b] \in Recordings
  BY DEF CallStates, Recordings

\* A call whose phase changes.
LEMMA PhaseType ==
  ASSUME ListenerInv, NEW k, NEW p \in {"ringing", "ended"}, calls' = [calls EXCEPT ![k].phase = p]
  PROVE  calls' \in [Calls -> CallStates]
  BY ZenonT(60) DEF ListenerInv, TypeOK, CallStates

\* The end of a call.
LEMMA OverType ==
  ASSUME ListenerInv, NEW k, Over(k)
  PROVE  calls' \in [Calls -> CallStates] /\ recording' \in Recordings
  <1>1. calls' \in [Calls -> CallStates]
    BY PhaseType DEF Over
  <1>2. recording' = recording \/ recording' = [call |-> None, up |-> FALSE]
    BY DEF Over
  <1>3. recording \in Recordings
    BY DEF ListenerInv, TypeOK, Recordings
  <1> QED BY <1>1, <1>2, <1>3, PhoneRecords

\* What a step of a child does to the calls and their recording.
LEMMA ChildPhoneType == ASSUME ListenerInv, NEW c \in Children, ChildStep(c) PROVE PhoneType'
  <1>1. PhoneType /\ child[c].call \in Calls \cup {None}
    BY DEF ListenerInv, TypeOK, PhoneType, Calls, CallStates, Recordings
  <1>2. UNCHANGED dialer
    BY StepProceeds
  <1>3. CASE UNCHANGED <<calls, recording>>
    BY <1>1, <1>2, <1>3 DEF PhoneType
  <1>4. CASE AnswerRequested(c)
    <2>1. calls' = calls /\ (recording' = recording \/ recording' = [call |-> child[c].call, up |-> FALSE])
      BY <1>4 DEF AnswerRequested
    <2>2. [call |-> child[c].call, up |-> FALSE] \in Recordings
      BY <1>1, PhoneRecords
    <2>3. recording' \in Recordings
      BY <1>1, <2>1, <2>2 DEF PhoneType
    <2> QED BY <1>1, <1>2, <2>1, <2>3 DEF PhoneType
  <1>5. CASE Answer(c)
    <2>1. calls' = calls \/ calls' = [calls EXCEPT ![child[c].call] = [phase |-> "active", by |-> "agent"]]
      BY <1>5 DEF Answer
    <2>2. \/ recording' = recording
          \/ \E b \in BOOLEAN, k \in {child[c].call, None} : recording' = [call |-> k, up |-> b]
      BY <1>5 DEF Answer
    <2>3. calls' \in [Calls -> CallStates]
      BY <1>1, <2>1, PhoneRecords DEF PhoneType
    <2>4. recording' \in Recordings
      BY <1>1, <2>2, PhoneRecords DEF PhoneType
    <2> QED BY <1>1, <1>2, <2>3, <2>4 DEF PhoneType
  <1>6. CASE Converse(c) \/ Farewell(c)
    <2>1. UNCHANGED <<calls, recording>> \/ Over(child[c].call)
      BY <1>6 DEF Converse, Farewell
    <2> QED BY <1>1, <1>2, <1>3, <2>1, OverType DEF PhoneType
  <1> QED BY <1>3, <1>4, <1>5, <1>6 DEF ChildStep, ChildStarts, CreateSession, ReadMode, ReadStatus,
      PollTimesOut, Recheck, AnswerWindow, ActiveHeard, MediaWait, SpeakOpening, ChildOnly

\* The calls, their recording and the dialer keep their types.
LEMMA StepPhoneType == ASSUME ListenerInv, Next PROVE PhoneType'
  <1>1. PhoneType
    BY DEF ListenerInv, TypeOK, PhoneType, CallStates, Recordings
  <1>2. CASE UNCHANGED <<calls, recording, dialer>>
    BY <1>1, <1>2 DEF PhoneType
  <1>3. ASSUME NEW k \in Incoming, Ring(k) \/ HumanAnswers(k) PROVE PhoneType'
    <2>1. UNCHANGED <<recording, dialer>>
      BY <1>3 DEF Ring, HumanAnswers
    <2>2. calls' \in [Calls -> CallStates]
      BY <1>1, <1>3, PhaseType, PhoneRecords DEF Ring, HumanAnswers, PhoneType
    <2> QED BY <1>1, <2>1, <2>2 DEF PhoneType
  <1>4. ASSUME NEW k \in Calls, PeerAnswers(k) PROVE PhoneType'
    <2>1. /\ dialer' = dialer /\ calls' = [calls EXCEPT ![k] = [phase |-> "active", by |-> "agent"]]
          /\ recording' = recording \/ recording' = [call |-> k, up |-> TRUE]
      BY <1>4 DEF PeerAnswers
    <2>2. calls' \in [Calls -> CallStates]
      BY <1>1, <2>1, PhoneRecords DEF PhoneType
    <2>3. recording' \in Recordings
      BY <1>1, <2>1, PhoneRecords DEF PhoneType
    <2> QED BY <1>1, <2>1, <2>2, <2>3 DEF PhoneType
  <1>5. ASSUME NEW k \in Calls, CallEnds(k) PROVE PhoneType'
    BY <1>1, <1>5, OverType DEF CallEnds, PhoneType
  <1>6. CASE MediaFails
    BY <1>1, <1>6 DEF MediaFails, PhoneType, Recordings
  <1>7. ASSUME NEW place \in DialerPlaces, DialerGoes(place)
        PROVE  dialer' \in [at : DialerPlaces, call : Outgoing \cup {None}]
    BY <1>1, <1>7 DEF DialerGoes, PhoneType
  <1>8. {"dialing", "waiting", "conversing", "done"} \subseteq DialerPlaces
    BY DEF DialerPlaces
  <1>9. ASSUME NEW k \in Outgoing, DialerStarts(k) PROVE PhoneType'
    BY <1>1, <1>8, <1>9 DEF DialerStarts, DialerOnly, PhoneType
  <1>10. CASE Dial
    <2>1. dialer.call \in Calls \cup {None}
      BY <1>1 DEF PhoneType, Calls
    <2>2. dialer' \in [at : DialerPlaces, call : Outgoing \cup {None}]
      BY <1>7, <1>8, <1>10 DEF Dial
    <2>3. calls' = calls \/ calls' = [calls EXCEPT ![dialer.call].phase = "ringing"]
      BY <1>10 DEF Dial
    <2>4. recording' = recording \/ recording' = [call |-> dialer.call, up |-> FALSE]
      BY <1>10 DEF Dial
    <2>5. calls' \in [Calls -> CallStates]
      BY <1>1, <2>3, PhaseType DEF PhoneType
    <2>6. recording' \in Recordings
      BY <1>1, <2>1, <2>4, PhoneRecords DEF PhoneType
    <2> QED BY <2>2, <2>5, <2>6 DEF PhoneType
  <1>11. CASE DialerWaits
    <2>1. dialer' \in [at : DialerPlaces, call : Outgoing \cup {None}]
      BY <1>7, <1>8, <1>11 DEF DialerWaits
    <2> QED BY <1>1, <1>11, <2>1 DEF DialerWaits, DialerOnly, PhoneType
  <1>12. CASE DialerConverses
    <2>1. dialer' \in [at : DialerPlaces, call : Outgoing \cup {None}]
      BY <1>7, <1>8, <1>12 DEF DialerConverses
    <2> QED BY <1>1, <1>12, <2>1, OverType DEF DialerConverses, PhoneType
  <1>13. CASE \/ (\E mode \in Modes : Save(mode)) \/ Saved \/ GatewayReady \/ Answered
              \/ RestartTimer \/ Quit \/ \E c \in Children : ChildFinished(c)
    BY <1>2, <1>13 DEF Save, Saved, GatewayReady, Answered, RestartTimer, Quit, ChildFinished
  <1> QED BY <1>3, <1>4, <1>5, <1>6, <1>9, <1>10, <1>11, <1>12, <1>13, ChildPhoneType DEF Next, Dialer

-----------------------------------------------------------------------------
(* The call in progress *)

\* The one call in progress is what the gateway, the phone and a child see.
LEMMA TheCall ==
  ASSUME ListenerInv, InvOneCall
  PROVE  /\ None \notin Calls
         /\ \A j \in Calls : InProgress(j) => Current = j
         /\ Current # None => Current \in Calls /\ InProgress(Current)
         /\ recording.call # None => recording.call = Current
  <1>1. None \notin Calls
    BY ReceptionistAssumption DEF Calls
  <1>2. ASSUME NEW j \in Calls, InProgress(j) PROVE Current = j
    <2>1. Current \in Calls /\ InProgress(Current)
      BY <1>2 DEF Current, InProgress
    <2> QED BY <1>2, <2>1 DEF InvOneCall
  <1>3. recording.call \in Calls \cup {None}
    BY DEF ListenerInv, TypeOK
  <1>4. recording.call # None => recording.call = Current
    BY <1>2, <1>3 DEF InvOneCall
  <1> QED BY <1>1, <1>2, <1>4, CurrentCall

\* With nobody on the phone and no recording there is nothing to keep.
LEMMA Nobody ==
  ASSUME \A j \in Calls : ~InProgress(j)', recording'.call = None
  PROVE  CallsInv'
  BY DEF CallsInv, InvOneCall, InvTaken, InvPlaced, InProgress, TakenByAgent, Calls

\* A call that ends was the only one, and takes its recording with it.
LEMMA OverCalls ==
  ASSUME ListenerInv, CallsInv, NEW k \in Calls \cup {None}, Current = k, Over(k)
  PROVE  CallsInv'
  <1>1. calls \in [Calls -> CallStates] /\ InvOneCall
    BY DEF ListenerInv, TypeOK, CallStates, CallsInv
  <1>2. ASSUME NEW j \in Calls PROVE ~InProgress(j)'
    <2>1. CASE j = k
      BY <1>1, <2>1 DEF Over, InProgress, CallStates
    <2>2. CASE j # k
      BY <1>1, <2>2, TheCall DEF Over, InProgress
    <2> QED BY <2>1, <2>2
  <1>3. recording'.call = None
    BY <1>1, TheCall DEF Over
  <1> QED BY <1>2, <1>3, Nobody

\* No child leaves the call it is in, unless it is over.
Stays ==
  \A x \in Children :
    child[x].at \in InCall /\ child[x].call \in Calls /\ TakenByAgent(child[x].call) =>
      child'[x].at \in InCall /\ child'[x].call = child[x].call

\* Nothing happens to the calls.
LEMMA CalmCalls ==
  ASSUME ListenerInv, CallsInv, Faultless' => Faultless /\ Stays,
         UNCHANGED <<calls, recording, dialer>>
  PROVE  CallsInv'
  <1>1. InvOneCall'
    BY DEF CallsInv, InvOneCall, InProgress
  <1>2. ASSUME Faultless' PROVE InvTaken' /\ InvPlaced'
    <2>1. InvTaken /\ InvPlaced /\ Stays
      BY <1>2 DEF CallsInv
    <2>2. ASSUME NEW k \in Calls, Attended(k), TakenByAgent(k) PROVE Attended(k)'
      <3>1. CASE dialer.call = k /\ dialer.at \in InCall
        BY <3>1 DEF Attended
      <3>2. ASSUME NEW x \in Children, child[x].call = k, child[x].at \in InCall PROVE Attended(k)'
        BY <2>1, <2>2, <3>2 DEF Attended, Stays
      <3> QED BY <2>2, <3>1, <3>2 DEF Attended
    <2>3. InvTaken'
      BY <2>1, <2>2 DEF InvTaken, TakenByAgent
    <2>4. InvPlaced'
      BY <2>1 DEF InvPlaced, InProgress
    <2> QED BY <2>3, <2>4
  <1> QED BY <1>1, <1>2 DEF CallsInv

\* What the desktop does to its children does not take one out of a call.
LEMMA DesktopStays ==
  ASSUME ListenerInv,
         Answered \/ RestartTimer \/ Quit \/ \E c \in Children : ChildFinished(c)
  PROVE  Stays
  <1>1. child \in [Children -> ChildRecords] /\ {"dead", "exited"} \cap InCall = {}
    BY DEF ListenerInv, TypeOK, ChildRecords, InCall
  <1>2. ASSUME NEW d
        PROVE  /\ Killed(child, d) \in [Children -> ChildRecords]
               /\ \A x \in Children : /\ Killed(child, d)[x].at = child[x].at
                                      /\ Killed(child, d)[x].call = child[x].call
    BY <1>1 DEF Killed, ChildRecords
  <1>3. ASSUME NEW d, NEW e, NEW e2, Spawned(e, Killed(child, d), e2, child') PROVE Stays
    BY <1>1, <1>2, <1>3 DEF Spawned, Stays
  <1>4. ASSUME NEW d, child' = Killed(child, d) PROVE Stays
    BY <1>2, <1>4 DEF Stays
  <1>5. child = Killed(child, None)
    BY DEF Killed
  <1>6. ASSUME NEW mode, NEW b, Sync(mode, b) PROVE Stays
    BY <1>3, <1>4, <1>5, <1>6 DEF Sync
  <1>7. ASSUME NEW c \in Children, ChildFinished(c) PROVE Stays
    BY <1>1, <1>7 DEF ChildFinished, Stays
  <1>8. CASE RestartTimer
    BY <1>3, <1>4, <1>5, <1>8 DEF RestartTimer
  <1> QED BY <1>4, <1>6, <1>7, <1>8 DEF Answered, Quit

\* A step of the child c leaves the others where they are.
LEMMA OtherChildren ==
  ASSUME ListenerInv, NEW c \in Children, ChildStep(c)
  PROVE  \A x \in Children \ {c} : child'[x] = child[x]
  BY StepProceeds DEF Proceeds, Changes, ListenerInv, TypeOK

-----------------------------------------------------------------------------
(* One call at a time, recorded and attended *)

\* A step of a child that goes from one place in a call to another.
LEMMA GoesStays ==
  ASSUME ListenerInv, NEW c \in Children, ChildStep(c), NEW p \in InCall, Goes(c, p)
  PROVE  Stays
  <1>1. p \in ChildPlaces /\ TypeOK
    BY ChildPlaced DEF ListenerInv
  <1>2. PICK r : Changes(c, r) /\ r.at = p /\ r.call = child[c].call
    BY <1>1, GoesEffect
  <1>3. child \in [Children -> ChildRecords]
    BY <1>1 DEF TypeOK, ChildRecords
  <1> QED BY <1>2, <1>3, OtherChildren DEF Stays, Changes

\* Nor does a child that is in no call, or whose call is not one the agent has taken.
LEMMA OutsideStays ==
  ASSUME ListenerInv, NEW c \in Children, ChildStep(c),
         ~(child[c].at \in InCall /\ child[c].call \in Calls /\ TakenByAgent(child[c].call))
  PROVE  Stays
  BY OtherChildren DEF Stays

\* The gateway reserves the recording for a call that rings.
LEMMA RequestCalls ==
  ASSUME ListenerInv, CallsInv, NEW c \in Children, ChildStep(c), Faultless' => Faultless,
         AnswerRequested(c)
  PROVE  CallsInv'
  <1>1. UNCHANGED <<calls, dialer>> /\ child[c].at \notin InCall
    BY StepProceeds DEF AnswerRequested, InCall
  <1>2. CASE UNCHANGED recording
    BY <1>1, <1>2, OutsideStays, CalmCalls
  <1>3. ASSUME recording.call = None, Current = child[c].call,
               recording' = [call |-> child[c].call, up |-> FALSE]
        PROVE  CallsInv'
    <2>1. InvOneCall'
      BY <1>1, <1>3, TheCall DEF CallsInv, InvOneCall, InProgress
    <2>2. ASSUME Faultless' PROVE InvTaken' /\ InvPlaced'
      <3>1. InvTaken /\ InvPlaced /\ None \notin Calls
        BY <2>2, TheCall DEF CallsInv
      <3>2. \A k \in Calls : ~TakenByAgent(k)
        BY <1>3, <3>1 DEF InvTaken
      <3>3. InvTaken'
        BY <1>1, <3>2 DEF InvTaken, TakenByAgent
      <3>4. InvPlaced'
        BY <1>1, <3>1 DEF InvPlaced, InProgress
      <3> QED BY <3>3, <3>4
    <2> QED BY <2>1, <2>2 DEF CallsInv
  <1> QED BY <1>2, <1>3 DEF AnswerRequested

\* The agent takes the call: it is recorded, and the child waits in it.
LEMMA AnswerCalls ==
  ASSUME ListenerInv, CallsInv, NEW c \in Children, ChildStep(c), Faultless' => Faultless,
         Fault => ~Faultless', Answer(c)
  PROVE  CallsInv'
  <1> PICK k : k = child[c].call
    OBVIOUS
  <1>1. /\ child[c].at \notin InCall /\ InvOneCall /\ k \in Incoming \cup {None}
        /\ child \in [Children -> ChildRecords] /\ calls \in [Calls -> CallStates]
        /\ UNCHANGED dialer /\ TypeOK
    BY StepProceeds DEF Answer, InCall, CallsInv, ListenerInv, TypeOK, ChildRecords, CallStates
  <1>2. CASE UNCHANGED <<calls, recording>>
    BY <1>1, <1>2, OutsideStays, CalmCalls
  <1>3. ASSUME Fault, UNCHANGED calls,
               recording' = IF recording.call = k THEN [call |-> None, up |-> FALSE] ELSE recording
        PROVE  CallsInv'
    <2>1. InvOneCall'
      BY <1>1, <1>3 DEF InvOneCall, InProgress
    <2> QED BY <1>3, <2>1 DEF CallsInv
  <1>4. ASSUME Current = k, Goes(c, "waiting"), recording' = [call |-> k, up |-> TRUE],
               calls' = IF Rings(k) THEN [calls EXCEPT ![k] = [phase |-> "active", by |-> "agent"]]
                        ELSE calls
        PROVE  CallsInv'
    <2>1. /\ \A j \in Calls : calls'[j] = calls[j] \/ j = k
          /\ \A j \in Calls : InProgress(j)' <=> InProgress(j)
      BY <1>1, <1>4 DEF InProgress, Rings
    <2>2. /\ None \notin Calls /\ \A j \in Calls : InProgress(j)' => j = k
          /\ k # None => InProgress(k)'
      BY <1>1, <1>4, <2>1, TheCall
    <2>3. InvOneCall'
      BY <1>4, <2>2 DEF InvOneCall
    <2>4. k # None => Attended(k)'
      <3>1. "waiting" \in ChildPlaces /\ "waiting" \in InCall
        BY ChildPlaced DEF InCall
      <3>2. PICK r : Changes(c, r) /\ r.at = "waiting" /\ r.call = k
        BY <1>1, <1>4, <3>1, GoesEffect
      <3>3. child'[c] = r
        BY <1>1, <3>2 DEF Changes
      <3> QED BY <3>1, <3>2, <3>3 DEF Attended
    <2>5. InvTaken'
      <3> SUFFICES ASSUME NEW j \in Calls, TakenByAgent(j)'
                   PROVE  recording' = [call |-> j, up |-> TRUE] /\ Attended(j)'
        BY DEF InvTaken
      <3>1. j = k /\ j # None
        BY <2>2 DEF TakenByAgent, InProgress
      <3> QED BY <1>4, <2>4, <3>1
    <2>6. ASSUME Faultless, InvPlaced PROVE InvPlaced'
      <3>1. \A j \in Outgoing : j # k
        BY <1>1, ReceptionistAssumption
      <3> QED BY <1>1, <2>1, <2>6, <3>1 DEF InvPlaced, InProgress, Calls
    <2> QED BY <2>3, <2>5, <2>6 DEF CallsInv
  <1> QED BY <1>2, <1>3, <1>4 DEF Answer

\* In a call a child goes on, unless the call is over or something fails.
LEMMA TalkCalls ==
  ASSUME ListenerInv, CallsInv, NEW c \in Children, ChildStep(c), Faultless' => Faultless,
         Fault => ~Faultless',
         ActiveHeard(c) \/ MediaWait(c) \/ SpeakOpening(c) \/ Converse(c) \/ Farewell(c)
  PROVE  CallsInv'
  <1> DEFINE k == child[c].call
  <1>1. InvOneCall /\ k \in Calls \cup {None} /\ UNCHANGED dialer
    BY StepProceeds DEF CallsInv, ListenerInv, TypeOK, ChildRecords, Calls
  <1>2. CASE Current = k /\ Over(k)
    BY <1>1, <1>2, OverCalls
  <1>3. ASSUME Current # k \/ (Faultless => ~recording.up \/ ~TakenByAgent(k)), UNCHANGED <<calls, recording>>
        PROVE  CallsInv'
    <2>1. ASSUME Faultless PROVE ~(k \in Calls /\ TakenByAgent(k))
      <3>1. k \in Calls /\ TakenByAgent(k) => Current = k
        BY <1>1, TheCall DEF TakenByAgent, InProgress
      <3>2. k \in Calls /\ TakenByAgent(k) => recording.up
        BY <2>1 DEF CallsInv, InvTaken
      <3> QED BY <1>3, <2>1, <3>1, <3>2
    <2>2. Faultless => Stays
      BY <2>1, OutsideStays
    <2> QED BY <1>1, <1>3, <2>2, CalmCalls
  <1>4. ASSUME Fault, UNCHANGED <<calls, recording>> PROVE CallsInv'
    BY <1>1, <1>4, CalmCalls
  <1>5. ASSUME NEW p \in InCall, Goes(c, p), UNCHANGED <<calls, recording>> PROVE CallsInv'
    BY <1>1, <1>5, GoesStays, CalmCalls
  <1>6. {"media", "opening", "conversing", "farewell"} \subseteq InCall
    BY DEF InCall
  <1>7. CASE ActiveHeard(c) \/ MediaWait(c) \/ SpeakOpening(c)
    <2>1. UNCHANGED <<calls, recording>>
      BY <1>7 DEF ActiveHeard, MediaWait, SpeakOpening, ChildOnly
    <2>2. \/ Current # k \/ ~recording.up \/ Fault
          \/ \E p \in {"media", "opening", "conversing", "farewell"} : Goes(c, p)
      BY <1>7 DEF ActiveHeard, MediaWait, SpeakOpening
    <2> QED BY <1>3, <1>4, <1>5, <1>6, <2>1, <2>2
  <1>8. CASE Converse(c)
    BY <1>2, <1>3, <1>4, <1>5, <1>6, <1>8 DEF Converse
  <1>9. CASE Farewell(c)
    BY <1>2, <1>3, <1>4, <1>9 DEF Farewell
  <1> QED BY <1>7, <1>8, <1>9

\* A step of a child leaves the calls that were taken recorded and attended.
LEMMA ChildCalls ==
  ASSUME ListenerInv, CallsInv, NEW c \in Children, ChildStep(c), Faultless' => Faultless,
         Fault => ~Faultless'
  PROVE  CallsInv'
  <1> DEFINE Quiet == \/ ChildStarts(c) \/ CreateSession(c) \/ ReadMode(c) \/ ReadStatus(c)
                      \/ PollTimesOut(c) \/ Recheck(c) \/ AnswerWindow(c)
  <1>1. CASE Quiet
    <2>1. UNCHANGED <<calls, recording, dialer>>
      BY <1>1 DEF ChildStarts, CreateSession, ReadMode, ReadStatus, PollTimesOut, Recheck, AnswerWindow,
         ChildOnly
    <2>2. child[c].at \notin InCall
      BY <1>1 DEF ChildStarts, CreateSession, ReadMode, ReadStatus, PollTimesOut, Recheck, AnswerWindow,
         InCall
    <2> QED BY <2>1, <2>2, OutsideStays, CalmCalls
  <1> QED BY <1>1, RequestCalls, AnswerCalls, TalkCalls DEF ChildStep

\* A call begins to ring, or a human answers it.
LEMMA IncomingCalls ==
  ASSUME ListenerInv, CallsInv, Faultless' => Faultless, NEW k \in Incoming,
         Ring(k) \/ HumanAnswers(k)
  PROVE  CallsInv'
  <1>1. /\ calls \in [Calls -> CallStates] /\ k \in Calls /\ UNCHANGED <<recording, dialer>>
        /\ InvOneCall /\ \A j \in Outgoing : j \in Calls /\ j # k
        /\ recording.call # None => recording.call \in Calls
    BY ReceptionistAssumption
    DEF ListenerInv, TypeOK, CallStates, Calls, Ring, HumanAnswers, CallsInv
  <1>2. \A j \in Calls : j # k => calls'[j] = calls[j]
    BY <1>1 DEF Ring, HumanAnswers
  <1>3. ~TakenByAgent(k)' /\ InProgress(k)'
    <2>1. CASE Ring(k)
      BY <1>1, <2>1 DEF Ring, TakenByAgent, InProgress, CallStates
    <2>2. CASE HumanAnswers(k)
      <3>1. calls'[k] = [phase |-> "active", by |-> "human"]
        BY <1>1, <2>2 DEF HumanAnswers
      <3> QED BY <3>1 DEF TakenByAgent, InProgress
    <2> QED BY <2>1, <2>2
  <1>4. \A j \in Calls : j # k => ~InProgress(j)
    BY <1>1, TheCall DEF Ring, HumanAnswers, Rings, InProgress
  <1>5. \A j \in Calls : InProgress(j)' => j = k
    BY <1>2, <1>4 DEF InProgress
  <1>6. InvOneCall'
    BY <1>1, <1>3, <1>4, <1>5 DEF InvOneCall
  <1>7. InvTaken'
    BY <1>3, <1>5 DEF InvTaken, TakenByAgent, InProgress
  <1>8. InvPlaced'
    BY <1>1, <1>5 DEF InvPlaced
  <1> QED BY <1>6, <1>7, <1>8 DEF CallsInv

\* The called party answers.
LEMMA PeerCalls ==
  ASSUME ListenerInv, CallsInv, Faultless' => Faultless, Fault => ~Faultless', NEW k \in Calls,
         PeerAnswers(k)
  PROVE  CallsInv'
  <1>1. /\ calls \in [Calls -> CallStates] /\ InvOneCall /\ UNCHANGED <<child, dialer>>
        /\ calls' = [calls EXCEPT ![k] = [phase |-> "active", by |-> "agent"]]
    BY DEF ListenerInv, TypeOK, CallStates, PeerAnswers, CallsInv
  <1>2. /\ \A j \in Calls : InProgress(j)' => j = k
        /\ InProgress(k)' /\ InProgress(k) /\ calls'[k].by = "agent"
    BY <1>1 DEF InvOneCall, InProgress, PeerAnswers
  <1>3. recording.call \in {k, None} /\ recording'.call \in {k, None}
    BY <1>1, <1>2, TheCall DEF PeerAnswers
  <1>4. InvOneCall'
    BY <1>2, <1>3 DEF InvOneCall
  <1>5. ASSUME Faultless' PROVE InvTaken' /\ InvPlaced'
    <2>1. recording' = [call |-> k, up |-> TRUE] /\ k \in Outgoing /\ InvPlaced
      BY <1>5 DEF PeerAnswers, CallsInv
    <2>2. dialer.call = k /\ dialer.at \in {"waiting", "conversing"}
      BY <1>2, <2>1 DEF InvPlaced
    <2>3. Attended(k)'
      BY <1>1, <2>2 DEF Attended, InCall
    <2>4. InvTaken'
      <3> SUFFICES ASSUME NEW j \in Calls, TakenByAgent(j)'
                   PROVE  recording' = [call |-> j, up |-> TRUE] /\ Attended(j)'
        BY DEF InvTaken
      <3> QED BY <1>2, <2>1, <2>3 DEF TakenByAgent, InProgress
    <2>5. InvPlaced'
      BY <1>1, <1>2, <2>2 DEF InvPlaced, Calls
    <2> QED BY <2>4, <2>5
  <1> QED BY <1>4, <1>5 DEF CallsInv

\* The recorder or the speech session fails.
LEMMA MediaCalls ==
  ASSUME ListenerInv, CallsInv, Fault => ~Faultless', MediaFails
  PROVE  CallsInv'
  <1>1. recording'.call = recording.call /\ UNCHANGED calls
    BY DEF MediaFails, ListenerInv, TypeOK
  <1>2. InvOneCall'
    BY <1>1 DEF CallsInv, InvOneCall, InProgress
  <1> QED BY <1>2 DEF CallsInv, MediaFails

\* Outside a call the dialer has no call in progress.
LEMMA NotPlaced ==
  ASSUME InvPlaced, \/ dialer.at \notin {"waiting", "conversing"}
                    \/ dialer.call \in Outgoing => ~InProgress(dialer.call)
  PROVE  \A j \in Outgoing : ~InProgress(j)
  BY DEF InvPlaced

\* A dialer that has no call in progress takes nobody away from one.
LEMMA IdleDialer ==
  ASSUME ListenerInv, CallsInv, Faultless' => Faultless, UNCHANGED <<child, calls, recording>>,
         Faultless' => /\ \A j \in Outgoing : ~InProgress(j)
                       /\ dialer.at \in InCall => ~InProgress(dialer.call) \/ dialer.call \notin Calls
  PROVE  CallsInv'
  <1>1. InvOneCall'
    BY DEF CallsInv, InvOneCall, InProgress
  <1>2. ASSUME Faultless' PROVE InvTaken' /\ InvPlaced'
    <2>1. InvTaken /\ InvPlaced
      BY <1>2 DEF CallsInv
    <2>2. InvTaken'
      <3> SUFFICES ASSUME NEW j \in Calls, TakenByAgent(j)'
                   PROVE  recording' = [call |-> j, up |-> TRUE] /\ Attended(j)'
        BY DEF InvTaken
      <3>1. TakenByAgent(j) /\ InProgress(j) /\ recording' = [call |-> j, up |-> TRUE] /\ Attended(j)
        BY <2>1 DEF TakenByAgent, InvTaken, InProgress
      <3>2. \E c \in Children : child[c].call = j /\ child[c].at \in InCall
        BY <1>2, <3>1 DEF Attended
      <3> QED BY <3>1, <3>2 DEF Attended
    <2>3. InvPlaced'
      BY <1>2 DEF InvPlaced, InProgress
    <2> QED BY <2>2, <2>3
  <1> QED BY <1>1, <1>2 DEF CallsInv

\* The dialer.
LEMMA DialerCalls ==
  ASSUME ListenerInv, CallsInv, Faultless' => Faultless, Fault => ~Faultless',
         Dialer \/ \E k \in Outgoing : DialerStarts(k)
  PROVE  CallsInv'
  <1>1. /\ InvOneCall /\ dialer.call \in Outgoing \cup {None} /\ calls \in [Calls -> CallStates]
        /\ dialer \in [at : DialerPlaces, call : Outgoing \cup {None}]
        /\ None \notin Calls /\ Outgoing \subseteq Calls /\ (Faultless => InvTaken /\ InvPlaced)
    BY TheCall DEF CallsInv, ListenerInv, TypeOK, Calls, CallStates
  <1>2. ASSUME UNCHANGED <<child, calls, recording>>, dialer.at \notin {"waiting", "conversing"},
               dialer.at \notin InCall
        PROVE  CallsInv'
    BY <1>1, <1>2, NotPlaced, IdleDialer
  <1>3. ASSUME NEW k \in Outgoing, DialerStarts(k) PROVE CallsInv'
    BY <1>2, <1>3 DEF DialerStarts, DialerOnly, InCall
  <1>4. CASE Dial
    <2>1. CASE UNCHANGED <<calls, recording>>
      BY <1>2, <1>4, <2>1 DEF Dial, InCall
    <2>2. ASSUME Current = None, recording.call = None, DialerGoes("waiting"),
                 calls' = [calls EXCEPT ![dialer.call].phase = "ringing"],
                 recording' = [call |-> dialer.call, up |-> FALSE]
          PROVE  CallsInv'
      <3> PICK k : k = dialer.call
        OBVIOUS
      <3>1. dialer'.at = "waiting" /\ dialer'.call = k
        BY <1>1, <2>2 DEF DialerGoes
      <3>2. \A j \in Calls : ~InProgress(j)
        BY <1>1, <2>2, TheCall
      <3>3. \A j \in Calls : j # k => calls'[j] = calls[j]
        BY <1>1, <2>2
      <3>4. k \in Calls => calls'[k].phase = "ringing"
        BY <1>1, <2>2 DEF CallStates
      <3>5. \A j \in Calls : InProgress(j)' => j = k
        BY <3>2, <3>3 DEF InProgress
      <3>6. InvOneCall'
        BY <1>1, <2>2, <3>4, <3>5 DEF InvOneCall, InProgress, Calls
      <3>7. InvTaken'
        BY <3>4, <3>5 DEF InvTaken, TakenByAgent, InProgress
      <3>8. InvPlaced'
        BY <1>1, <3>1, <3>4, <3>5 DEF InvPlaced
      <3> QED BY <3>6, <3>7, <3>8 DEF CallsInv
    <2> QED BY <1>4, <2>1, <2>2 DEF Dial
  <1>5. CASE DialerWaits
    <2>1. UNCHANGED <<child, calls, recording>>
      BY <1>5 DEF DialerWaits, DialerOnly
    <2>2. CASE DialerGoes("conversing")
      <3>1. dialer'.at = "conversing" /\ dialer'.call = dialer.call /\ dialer.at = "waiting"
        BY <1>1, <1>5, <2>2 DEF DialerGoes, DialerWaits
      <3>2. InvOneCall'
        BY <1>1, <2>1 DEF InvOneCall, InProgress
      <3>3. ASSUME Faultless' PROVE InvTaken' /\ InvPlaced'
        BY <1>1, <2>1, <3>1, <3>3 DEF InvTaken, InvPlaced, TakenByAgent, InProgress, Attended, InCall
      <3> QED BY <3>2, <3>3 DEF CallsInv
    <2>3. CASE Fault
      <3>1. InvOneCall'
        BY <1>1, <2>1 DEF InvOneCall, InProgress
      <3> QED BY <2>3, <3>1 DEF CallsInv
    <2>4. ASSUME calls[dialer.call].phase = "ended" \/
                 (calls[dialer.call].phase = "active" /\ ~recording.up)
          PROVE  CallsInv'
      <3>1. ASSUME Faultless PROVE ~(dialer.call \in Outgoing /\ InProgress(dialer.call))
        <4>1. CASE calls[dialer.call].phase = "ended"
          BY <4>1 DEF InProgress
        <4>2. CASE calls[dialer.call].phase = "active" /\ ~recording.up
          BY <1>1, <3>1, <4>2 DEF InvPlaced, InvTaken, TakenByAgent
        <4> QED BY <2>4, <4>1, <4>2
      <3>2. dialer.call \in Calls => dialer.call \in Outgoing
        BY <1>1
      <3> QED BY <1>1, <2>1, <3>1, <3>2, NotPlaced, IdleDialer
    <2> QED BY <1>5, <2>2, <2>3, <2>4 DEF DialerWaits
  <1>6. CASE DialerConverses
    <2>1. dialer.call \in Calls \cup {None} /\ UNCHANGED child
      BY <1>1, <1>6 DEF DialerConverses
    <2>2. CASE Current = dialer.call /\ Over(dialer.call)
      BY <2>1, <2>2, OverCalls
    <2>3. ASSUME Current # dialer.call, UNCHANGED <<calls, recording>> PROVE CallsInv'
      <3>1. dialer.call \in Calls => ~InProgress(dialer.call)
        BY <1>1, <2>3, TheCall
      <3>2. dialer.call \in Calls => dialer.call \in Outgoing
        BY <1>1
      <3> QED BY <1>1, <2>1, <2>3, <3>1, <3>2, NotPlaced, IdleDialer
    <2>4. ASSUME Fault, UNCHANGED <<calls, recording>> PROVE CallsInv'
      <3>1. InvOneCall'
        BY <1>1, <2>4 DEF InvOneCall, InProgress
      <3> QED BY <2>4, <3>1 DEF CallsInv
    <2> QED BY <1>6, <2>2, <2>3, <2>4 DEF DialerConverses
  <1> QED BY <1>3, <1>4, <1>5, <1>6 DEF Dialer

-----------------------------------------------------------------------------
(* Every step *)

\* With nobody on the phone and nothing recorded, in the first state.
LEMMA Start == ASSUME Init PROVE IInv
  <1> PICK first \in Children \cup {None} :
        first = IF store.enabled THEN CHOOSE c \in Children : TRUE ELSE None
    BY ReceptionistAssumption
  <1>1. store \in Modes
    <2>1. CASE store = Off
      BY <2>1 DEF Modes
    <2>2. CASE store = [enabled |-> TRUE, instructions |-> CHOOSE i \in Instructions : TRUE]
      <3>1. (CHOOSE i \in Instructions : TRUE) \in Instructions
        BY ReceptionistAssumption
      <3> QED BY <2>2, <3>1 DEF Modes
    <2> QED BY <2>1, <2>2 DEF Init
  <1>2. desktop = [open |-> TRUE, enabled |-> store.enabled, timer |-> FALSE,
                   instructions |-> store.instructions, child |-> first]
    BY DEF Init
  <1>3. PICK starting : starting = [NoChild EXCEPT !.at = "starting"]
    OBVIOUS
  <1>4. /\ starting \in ChildRecords /\ starting.at = "starting" /\ starting.sessions = 0
        /\ NoChild \in ChildRecords /\ NoChild.at = "dead" /\ NoChild.sessions = 0
    BY <1>3, NewChild
  <1>5. child = [c \in Children |-> IF c = first THEN starting ELSE NoChild]
    BY <1>3 DEF Init
  <1>6. child \in [Children -> ChildRecords]
    BY <1>4, <1>5
  <1>7. desktop \in Desktops
    BY <1>1, <1>2, ModeTypes DEF Desktops
  <1>8. OneListener
    BY <1>2, <1>4, <1>5 DEF OneListener
  <1>9. OneSession
    BY <1>4, <1>5 DEF OneSession, Ready, Deciding, InCall
  <1>10. PhoneType /\ recording.call = None
    <2>1. [phase |-> "none", by |-> "nobody"] \in CallStates
      BY DEF CallStates
    <2>2. calls \in [Calls -> CallStates] /\ recording \in Recordings /\ recording.call = None
      BY <2>1, PhoneRecords DEF Init
    <2>3. dialer \in [at : DialerPlaces, call : Outgoing \cup {None}]
      BY DEF Init, DialerPlaces
    <2> QED BY <2>2, <2>3 DEF PhoneType
  <1>11. left \in [turns : 0..MaxTurns, faults : 0..MaxFaults]
    BY ReceptionistAssumption DEF Init
  <1>12. saving \in Modes \cup {None} /\ inbox \in Seq([mode : Modes, refresh : BOOLEAN])
    BY DEF Init
  <1>13. TypeOK
    BY <1>1, <1>6, <1>7, <1>10, <1>11, <1>12
    DEF TypeOK, ChildRecords, Desktops, PhoneType, CallStates, Recordings
  <1>14. \A k \in Calls : ~InProgress(k)
    BY DEF Init, InProgress
  <1>15. InvOneCall /\ InvTaken /\ InvPlaced
    BY <1>10, <1>14 DEF InvOneCall, InvTaken, InvPlaced, TakenByAgent, InProgress, Calls
  <1> QED BY <1>8, <1>9, <1>13, <1>15 DEF IInv, ListenerInv

\* Every step keeps the invariant.
LEMMA StepInv == ASSUME IInv, [Next]_vars PROVE IInv'
  <1> ListenerInv /\ CallsInv
    BY DEF IInv, CallsInv
  <1>1. CASE UNCHANGED vars
    BY <1>1 DEF IInv, vars, settings, ListenerInv, TypeOK, OneListener, OneSession, InvOneCall, InvTaken,
       InvPlaced, InProgress, TakenByAgent, Attended, Faultless
  <1>2. CASE Next
    <2>1. ListenerInv'
      <3>1. TypeOK'
        BY <1>2, StepListener, Failures, SettingsType, StepPhoneType
        DEF TypeOK, ListenerParts, ChildRecords, Desktops, Replies, PhoneType, CallStates, Recordings
      <3> QED BY <1>2, <3>1, StepListener DEF ListenerInv, ListenerParts
    <2>2. (Faultless' => Faultless) /\ (Fault => ~Faultless')
      BY <1>2, Failures
    <2>3. ASSUME UNCHANGED <<calls, recording, dialer>>, Stays PROVE CallsInv'
      BY <2>2, <2>3, CalmCalls
    <2>4. ASSUME (\E mode \in Modes : Save(mode)) \/ Saved \/ GatewayReady PROVE CallsInv'
      BY <2>3, <2>4 DEF Save, Saved, GatewayReady, Stays
    <2>5. ASSUME Answered \/ RestartTimer \/ Quit \/ \E c \in Children : ChildFinished(c)
          PROVE  CallsInv'
      <3>1. UNCHANGED <<calls, recording, dialer>>
        BY <2>5 DEF Answered, RestartTimer, Quit, ChildFinished
      <3> QED BY <2>3, <2>5, <3>1, DesktopStays
    <2>6. ASSUME NEW k \in Calls, CallEnds(k) PROVE CallsInv'
      <3>1. Current = k /\ Over(k)
        BY <2>6, TheCall DEF CallEnds, InProgress, CallsInv
      <3> QED BY <3>1, OverCalls
    <2>7. CallsInv'
      BY <1>2, <2>2, <2>4, <2>5, <2>6, ChildCalls, IncomingCalls, PeerCalls, MediaCalls, DialerCalls
      DEF Next
    <2> QED BY <2>1, <2>7 DEF IInv, CallsInv
  <1> QED BY <1>1, <1>2

\* Whatever children are replaced and whatever fails, calls and settings included, IInv holds.
THEOREM Inductive == Spec => []IInv
  BY Start, StepInv, PTL DEF Spec

\* The supervisor never loses a child, and a child has one session: for any number of children,
\* calls, owners' changes and failures.
THEOREM Listening == Spec => []ListenerInv
  <1>1. IInv => ListenerInv
    BY DEF IInv
  <1> QED BY <1>1, Inductive, PTL

\* Unless something fails, a call the agent has taken is never left alone.
THEOREM AllAttended == Spec => []CallsAttended
  <1>1. IInv => CallsAttended
    BY DEF IInv, Faultless, InvTaken, TakenByAgent, CallsAttended
  <1> QED BY <1>1, Inductive, PTL

-----------------------------------------------------------------------------
(* The conversation *)


Queues == [sequence : Nat, events : Seq(SomeTurns), pending : SUBSET Texts,
           lastTurn : Nat, cut : BOOLEAN]
Loops == [after : Nat, silences : 0..2, failures : 0..MaxFailures, attention : BOOLEAN,
          used : SUBSET Intents, talked : BOOLEAN, verify : BOOLEAN, ledger : SUBSET Nat]
Speeches == [jobs : Seq(Jobs), running : {"idle", "status", "speaking"},
             failed : BOOLEAN, interrupted : BOOLEAN]
Minds == [up : BOOLEAN, prompts : Seq(Nat), forgotten : BOOLEAN]
Answers == [class : {"none", "answer", "goodbye"}, for : Nat, safe : BOOLEAN]

\* The places at which no speech of the round is left: those where the loop speaks itself too.
Speechless ==
  {"status", "waiting", "silenceStatus", "silenceSpeech", "silenceHangup", "preparedHangup",
   "hangup", "recoveryStatus", "recoverySpeech", "closingStatus", "closingSpeech", "closingHangup"}
Closing == {"closingStatus", "closingSpeech", "closingHangup"}

\* How often the agent has asked, and Hermes has failed, says where the round can be.
InvRound ==
  /\ outcome = "none" <=> at # "done"
  /\ loop.silences = 2 => at \in {"silenceStatus", "silenceSpeech", "silenceHangup", "done"}
  /\ loop.failures = MaxFailures => at \in Closing \cup {"done"}

\* The queue ends with its newest event.
Whole(q) == q \in Queues /\ Len(q.events) <= KeepEvents /\ Latest(q) = q.sequence
\* The loop has taken nothing that is not there, and a waiter nothing that it had taken before.
InvTurn ==
  /\ Whole(queue) /\ loop.after <= queue.sequence /\ turn.seq <= queue.sequence
  /\ at = "waiting" => IF turn = NoTurn THEN queue.sequence <= loop.after ELSE turn.seq > loop.after

\* Acknowledgements come before the answer, and a goodbye is spoken to its end or not at all.
Orderly(s) ==
  /\ s \in Speeches
  /\ s.jobs = <<>> => s.running = "idle"
  /\ \A i \in 1..Len(s.jobs) : i < Len(s.jobs) => s.jobs[i].kind = "ack"
  /\ \A i \in 1..Len(s.jobs) : s.jobs[i].bye => ~s.jobs[i].cuttable
Armed == (IF "first" \in timers THEN 1 ELSE 0) + (IF "followUp" \in timers THEN 1 ELSE 0)
Answering(s) == s.jobs # <<>> /\ s.jobs[Len(s.jobs)].kind # "ack"
InvSpeech ==
  /\ Orderly(speech) /\ Len(speech.jobs) <= 3
  /\ at # "thinking" => timers = {}
  /\ at = "thinking" => ~Answering(speech) /\ Len(speech.jobs) + Armed <= 2
  /\ at \in Speechless => Drained

\* The answer of the round has not been spoken.
Unsaid(s) == Answering(s) /\ (Len(s.jobs) = 1 => s.running # "speaking")
InvAnswered ==
  /\ \A i \in 1..Len(answered) : answered[i] <= loop.after
  /\ at = "thinking" \/ Unsaid(speech) =>
       turn.seq <= loop.after /\ \A i \in 1..Len(answered) : answered[i] < turn.seq

\* Nothing is left to be said to a caller who has been told goodbye, has gone or talks on.
Released == farewell \/ call = "ended" \/ IsStale
InvBye ==
  /\ (at = "silenceSpeech" /\ loop.silences = 2)
       \/ at \in {"silenceHangup", "closingSpeech", "closingHangup"} => farewell
  /\ speech.running = "speaking" /\ speech.jobs[1].bye => farewell
  /\ at \in {"prepared", "replying"} /\ reply.class = "goodbye" =>
       \/ Answering(speech) /\ speech.jobs[Len(speech.jobs)].bye
       \/ speech.failed \/ speech.interrupted \/ Released
  /\ at \in {"preparedHangup", "hangup"} => Released

TalkIInv ==
  /\ TalkTypeOK /\ HangupAnnounced /\ AnsweredInOrder
  /\ InvRound /\ InvTurn /\ InvSpeech /\ InvAnswered /\ InvBye

-------------------------------------------------------------------------------
(* The queue of turns *)

\* The bounds are numbers.
LEMMA Bounds == MaxFragments \in Nat /\ MaxFailures \in Nat \ {0} /\ KeepEvents \in Nat \ {0}
  BY BoundsAssumption

\* The fields of a queue, one at a time.
LEMMA QueueFields ==
  ASSUME NEW q \in Queues
  PROVE  /\ \A n \in Nat : [q EXCEPT !.sequence = n] \in Queues
         /\ \A e \in Seq(SomeTurns) : [q EXCEPT !.events = e] \in Queues
         /\ \A p \in SUBSET Texts : [q EXCEPT !.pending = p] \in Queues
         /\ \A n \in Nat : [q EXCEPT !.lastTurn = n] \in Queues
         /\ \A b \in BOOLEAN : [q EXCEPT !.cut = b] \in Queues
  <1>1. ASSUME NEW n \in Nat PROVE [q EXCEPT !.sequence = n] \in Queues
    BY DEF Queues
  <1>2. ASSUME NEW e \in Seq(SomeTurns) PROVE [q EXCEPT !.events = e] \in Queues
    BY DEF Queues
  <1>3. ASSUME NEW p \in SUBSET Texts PROVE [q EXCEPT !.pending = p] \in Queues
    BY DEF Queues
  <1>4. ASSUME NEW n \in Nat PROVE [q EXCEPT !.lastTurn = n] \in Queues
    BY DEF Queues
  <1>5. ASSUME NEW b \in BOOLEAN PROVE [q EXCEPT !.cut = b] \in Queues
    BY DEF Queues
  <1> QED BY <1>1, <1>2, <1>3, <1>4, <1>5

\* The event that ends a call.
LEMMA EndEvent == [NoTurn EXCEPT !.status = "ended"] \in SomeTurns
  BY DEF NoTurn, SomeTurns

\* What is flushed is a turn with one of the texts.
LEMMA TurnEvent ==
  ASSUME NEW q \in Queues, q.pending # {}
  PROVE  [NoTurn EXCEPT !.status = "turn", !.text = MergedText(q.pending),
                        !.prev = q.lastTurn, !.cut = q.cut] \in SomeTurns
  <1> DEFINE text == MergedText(q.pending)
  <1>1. text \in Texts
    <2> DEFINE Rank == [question |-> 4, bye |-> 3, affirm |-> 2, attention |-> 1]
    <2>1. /\ Rank["question"] = 4 /\ Rank["bye"] = 3 /\ Rank["affirm"] = 2 /\ Rank["attention"] = 1
      OBVIOUS
    <2> HIDE DEF Rank
    <2>2. q.pending \subseteq Texts
      BY DEF Queues
    <2>3. \E t \in q.pending : \A other \in q.pending : Rank[t] >= Rank[other]
      <3>1. CASE "question" \in q.pending
        BY <2>1, <2>2, <3>1 DEF Texts
      <3>2. CASE "question" \notin q.pending /\ "bye" \in q.pending
        BY <2>1, <2>2, <3>2 DEF Texts
      <3>3. CASE "question" \notin q.pending /\ "bye" \notin q.pending /\ "affirm" \in q.pending
        BY <2>1, <2>2, <3>3 DEF Texts
      <3>4. CASE q.pending = {"attention"}
        BY <2>1, <3>4
      <3> QED BY <2>2, <3>1, <3>2, <3>3, <3>4 DEF Texts
    <2>4. text = CHOOSE t \in q.pending : \A other \in q.pending : Rank[t] >= Rank[other]
      BY DEF MergedText, Rank
    <2> HIDE DEF text
    <2>5. text \in q.pending
      BY <2>3, <2>4
    <2> QED BY <2>2, <2>5
  <1> HIDE DEF text
  <1>2. q.lastTurn \in Nat /\ q.cut \in BOOLEAN
    BY DEF Queues
  <1>3. PICK a : a = [NoTurn EXCEPT !.status = "turn"]
    OBVIOUS
  <1>4. a \in SomeTurns
    BY <1>3 DEF NoTurn, SomeTurns
  <1>5. PICK b : b = [a EXCEPT !.text = text]
    OBVIOUS
  <1>6. b \in SomeTurns
    BY <1>1, <1>4, <1>5 DEF SomeTurns
  <1>7. PICK c : c = [b EXCEPT !.prev = q.lastTurn]
    OBVIOUS
  <1>8. c \in SomeTurns
    BY <1>2, <1>6, <1>7 DEF SomeTurns
  <1>9. PICK d : d = [c EXCEPT !.cut = q.cut]
    OBVIOUS
  <1>10. d \in SomeTurns
    BY <1>2, <1>8, <1>9 DEF SomeTurns
  <1>11. d = [NoTurn EXCEPT !.status = "turn", !.text = text, !.prev = q.lastTurn, !.cut = q.cut]
    BY <1>3, <1>5, <1>7, <1>9
  <1> QED BY <1>10, <1>11 DEF text

\* The queue r is q with one more event, which is the newest.
Grown(q, r) ==
  /\ Whole(r) /\ r.sequence = q.sequence + 1
  /\ r.events # <<>> /\ Newest(r) \in SomeTurns /\ Newest(r).seq = r.sequence

\* Publishing an event keeps the queue whole, though it drops the oldest one.
LEMMA PublishedGrows ==
  ASSUME NEW q, Whole(q), NEW e \in SomeTurns
  PROVE  /\ Grown(q, Published(q, e))
         /\ Published(q, e).pending = q.pending /\ Published(q, e).lastTurn = q.lastTurn
  <1> DEFINE n == q.sequence + 1
             f == [e EXCEPT !.seq = n]
             long == Append(q.events, f)
             kept == Kept(long)
  <1>1. q \in Queues /\ n \in Nat /\ q.events \in Seq(SomeTurns) /\ Len(q.events) <= KeepEvents
    BY DEF Whole, Queues
  <1>2. f \in SomeTurns /\ f.seq = n
    BY <1>1 DEF SomeTurns
  <1> HIDE DEF n, f
  <1>3. long \in Seq(SomeTurns) /\ Len(long) = Len(q.events) + 1 /\ long[Len(long)] = f
    BY <1>1, <1>2
  <1> HIDE DEF long
  <1>4. /\ kept \in Seq(SomeTurns) /\ kept # <<>> /\ Len(kept) <= KeepEvents
        /\ kept[Len(kept)] = f
    <2>1. CASE Len(long) > KeepEvents
      <3>1. kept = Tail(long) /\ Len(long) >= 2
        BY <1>1, <1>3, <2>1, Bounds DEF Kept
      <3>2. Tail(long) \in Seq(SomeTurns) /\ Len(Tail(long)) = Len(long) - 1
            /\ \A i \in 1..Len(long) - 1 : Tail(long)[i] = long[i + 1]
        BY <1>3, <3>1
      <3> QED BY <1>1, <1>3, <3>1, <3>2
    <2>2. CASE ~(Len(long) > KeepEvents)
      BY <1>1, <1>3, <2>2, Bounds DEF Kept
    <2> QED BY <2>1, <2>2
  <1> HIDE DEF kept
  <1>5. PICK r : r = [q EXCEPT !.sequence = n]
    OBVIOUS
  <1>6. r \in Queues /\ r.sequence = n /\ r.pending = q.pending /\ r.lastTurn = q.lastTurn
    BY <1>1, <1>5, QueueFields DEF Queues
  <1>7. PICK s : s = [r EXCEPT !.events = kept]
    OBVIOUS
  <1>8. s \in Queues /\ s.sequence = n /\ s.events = kept /\ s.pending = q.pending
        /\ s.lastTurn = q.lastTurn
    BY <1>4, <1>6, <1>7, QueueFields DEF Queues
  <1>9. Published(q, e) = s
    BY <1>5, <1>7 DEF Published, n, f, long, kept
  <1>10. Newest(s) = f /\ Latest(s) = n
    BY <1>2, <1>4, <1>8 DEF Newest, Latest
  <1> QED BY <1>2, <1>4, <1>8, <1>9, <1>10 DEF Grown, Whole, n

\* The fields that publishing leaves alone may be set afterwards.
LEMMA GrownSet ==
  ASSUME NEW q, NEW r, Grown(q, r)
  PROVE  /\ \A p \in SUBSET Texts : Grown(q, [r EXCEPT !.pending = p])
         /\ \A n \in Nat : Grown(q, [r EXCEPT !.lastTurn = n])
         /\ \A b \in BOOLEAN : Grown(q, [r EXCEPT !.cut = b])
  <1>1. r \in Queues
    BY DEF Grown, Whole
  <1>2. ASSUME NEW p \in SUBSET Texts PROVE Grown(q, [r EXCEPT !.pending = p])
    <2>1. PICK s : s = [r EXCEPT !.pending = p]
      OBVIOUS
    <2>2. s \in Queues /\ s.events = r.events /\ s.sequence = r.sequence
      BY <1>1, <2>1, QueueFields DEF Queues
    <2> QED BY <2>1, <2>2 DEF Grown, Whole, Newest, Latest
  <1>3. ASSUME NEW n \in Nat PROVE Grown(q, [r EXCEPT !.lastTurn = n])
    <2>1. PICK s : s = [r EXCEPT !.lastTurn = n]
      OBVIOUS
    <2>2. s \in Queues /\ s.events = r.events /\ s.sequence = r.sequence
      BY <1>1, <2>1, QueueFields DEF Queues
    <2> QED BY <2>1, <2>2 DEF Grown, Whole, Newest, Latest
  <1>4. ASSUME NEW b \in BOOLEAN PROVE Grown(q, [r EXCEPT !.cut = b])
    <2>1. PICK s : s = [r EXCEPT !.cut = b]
      OBVIOUS
    <2>2. s \in Queues /\ s.events = r.events /\ s.sequence = r.sequence
      BY <1>1, <2>1, QueueFields DEF Queues
    <2> QED BY <2>1, <2>2 DEF Grown, Whole, Newest, Latest
  <1> QED BY <1>2, <1>3, <1>4

\* The pending fragments become one event.
LEMMA FlushedGrows ==
  ASSUME NEW q, Whole(q)
  PROVE  /\ q.pending = {} => Flushed(q) = q
         /\ q.pending # {} => Grown(q, Flushed(q))
  <1>1. CASE q.pending = {}
    BY <1>1 DEF Flushed
  <1>2. CASE q.pending # {}
    <2> DEFINE event == [NoTurn EXCEPT !.status = "turn", !.text = MergedText(q.pending),
                                       !.prev = q.lastTurn, !.cut = q.cut]
    <2>1. q \in Queues /\ q.sequence + 1 \in Nat
      <3>1. q \in Queues
        BY DEF Whole
      <3> HIDE DEF event
      <3> QED BY <3>1 DEF Queues
    <2>11. event \in SomeTurns
      BY <1>2, <2>1, TurnEvent, Zenon
    <2> HIDE DEF event
    <2>2. PICK r : r = Published(q, event)
      OBVIOUS
    <2>3. Grown(q, r)
      BY <2>2, <2>11, PublishedGrows
    <2>4. PICK a : a = [r EXCEPT !.pending = {}]
      OBVIOUS
    <2>5. Grown(q, a)
      BY <2>3, <2>4, GrownSet
    <2>6. PICK b : b = [a EXCEPT !.lastTurn = q.sequence + 1]
      OBVIOUS
    <2>7. Grown(q, b)
      BY <2>1, <2>5, <2>6, GrownSet
    <2>8. PICK c : c = [b EXCEPT !.cut = FALSE]
      OBVIOUS
    <2>9. Grown(q, c)
      BY <2>7, <2>8, GrownSet
    <2>10. Flushed(q) = c
      <3>1. Flushed(q) = [r EXCEPT !.pending = {}, !.lastTurn = q.sequence + 1, !.cut = FALSE]
        BY <1>2, <2>2 DEF Flushed, event
      <3> QED BY <2>4, <2>6, <2>8, <3>1
    <2> QED BY <1>2, <2>9, <2>10
  <1> QED BY <1>1, <1>2

\* The end of the call is the newest event of its queue.
LEMMA EndGrows ==
  ASSUME Whole(queue)
  PROVE  Grown(Flushed(queue), QueueAtEnd)
  <1>1. PICK q : q = Flushed(queue)
    OBVIOUS
  <1>2. Whole(q)
    BY <1>1, FlushedGrows DEF Grown
  <1>3. PICK e : e = [NoTurn EXCEPT !.status = "ended"]
    OBVIOUS
  <1>4. e \in SomeTurns
    BY <1>3, EndEvent
  <1>5. PICK r : r = Published(q, e)
    OBVIOUS
  <1>6. Grown(q, r)
    BY <1>2, <1>4, <1>5, PublishedGrows
  <1>7. PICK a : a = [r EXCEPT !.lastTurn = 0]
    OBVIOUS
  <1>8. Grown(q, a)
    BY <1>6, <1>7, GrownSet
  <1>9. PICK b : b = [a EXCEPT !.cut = FALSE]
    OBVIOUS
  <1>10. Grown(q, b)
    BY <1>8, <1>9, GrownSet
  <1>11. QueueAtEnd = b
    BY <1>1, <1>3, <1>5, <1>7, <1>9 DEF QueueAtEnd
  <1> QED BY <1>1, <1>10, <1>11

-------------------------------------------------------------------------------
(* What a round remembers *)

\* The fields of a round's record, one at a time.
LEMMA LoopFields ==
  ASSUME NEW l \in Loops
  PROVE  /\ \A n \in Nat : [l EXCEPT !.after = n] \in Loops
         /\ \A n \in 0..2 : [l EXCEPT !.silences = n] \in Loops
         /\ \A n \in 0..MaxFailures : [l EXCEPT !.failures = n] \in Loops
         /\ \A b \in BOOLEAN : [l EXCEPT !.attention = b] \in Loops
         /\ \A u \in SUBSET Intents : [l EXCEPT !.used = u] \in Loops
         /\ \A b \in BOOLEAN : [l EXCEPT !.talked = b] \in Loops
         /\ \A b \in BOOLEAN : [l EXCEPT !.verify = b] \in Loops
         /\ \A e \in SUBSET Nat : [l EXCEPT !.ledger = e] \in Loops
  <1>1. ASSUME NEW n \in Nat PROVE [l EXCEPT !.after = n] \in Loops
    BY DEF Loops
  <1>2. ASSUME NEW n \in 0..2 PROVE [l EXCEPT !.silences = n] \in Loops
    BY DEF Loops
  <1>3. ASSUME NEW n \in 0..MaxFailures PROVE [l EXCEPT !.failures = n] \in Loops
    BY DEF Loops
  <1>4. ASSUME NEW b \in BOOLEAN PROVE [l EXCEPT !.attention = b] \in Loops
    BY DEF Loops
  <1>5. ASSUME NEW u \in SUBSET Intents PROVE [l EXCEPT !.used = u] \in Loops
    BY DEF Loops
  <1>6. ASSUME NEW b \in BOOLEAN PROVE [l EXCEPT !.talked = b] \in Loops
    BY DEF Loops
  <1>7. ASSUME NEW b \in BOOLEAN PROVE [l EXCEPT !.verify = b] \in Loops
    BY DEF Loops
  <1>8. ASSUME NEW e \in SUBSET Nat PROVE [l EXCEPT !.ledger = e] \in Loops
    BY DEF Loops
  <1> QED BY <1>1, <1>2, <1>3, <1>4, <1>5, <1>6, <1>7, <1>8

\* The round m has taken the turn n; Hermes has failed as often as in l.
Takes(l, m, n) == m \in Loops /\ m.after = n /\ m.silences = 0 /\ m.failures = l.failures

\* A turn is taken.
LEMMA TakenTurn ==
  ASSUME loop \in Loops, NEW t \in SomeTurns
  PROVE  Takes(loop, Taken(t), t.seq)
  <1>0. PICK n : n = t.seq
    OBVIOUS
  <1>1. n \in Nat /\ (t.text = "attention") \in BOOLEAN
    BY <1>0 DEF SomeTurns
  <1>2. PICK a : a = [loop EXCEPT !.after = n]
    OBVIOUS
  <1>3. a \in Loops
    BY <1>1, <1>2, LoopFields
  <1>9. a.after = n /\ a.failures = loop.failures
    BY <1>2 DEF Loops
  <1>4. PICK b : b = [a EXCEPT !.silences = 0]
    OBVIOUS
  <1>12. 0 \in 0..2
    OBVIOUS
  <1>5. b \in Loops
    BY <1>3, <1>4, <1>12, LoopFields
  <1>10. b.after = n /\ b.silences = 0 /\ b.failures = loop.failures
    BY <1>3, <1>4, <1>9 DEF Loops
  <1>6. PICK c : c = [b EXCEPT !.attention = t.text = "attention"]
    OBVIOUS
  <1>7. c \in Loops
    BY <1>1, <1>5, <1>6, LoopFields
  <1>11. c.after = n /\ c.silences = 0 /\ c.failures = loop.failures
    BY <1>5, <1>6, <1>10 DEF Loops
  <1>8. Taken(t) = c
    BY <1>0, <1>2, <1>4, <1>6 DEF Taken
  <1> QED BY <1>0, <1>7, <1>8, <1>11 DEF Takes

\* What a prepared reply to it, or its question to Hermes, changes besides.
LEMMA TakenSet ==
  ASSUME NEW l, NEW m, NEW n, Takes(l, m, n)
  PROVE  /\ \A u \in SUBSET Intents : Takes(l, [m EXCEPT !.used = u], n)
         /\ \A b \in BOOLEAN : Takes(l, [m EXCEPT !.verify = b], n)
  <1>1. m \in Loops
    BY DEF Takes
  <1>2. ASSUME NEW u \in SUBSET Intents PROVE Takes(l, [m EXCEPT !.used = u], n)
    <2>1. PICK k : k = [m EXCEPT !.used = u]
      OBVIOUS
    <2>2. k \in Loops /\ k.after = m.after /\ k.silences = m.silences /\ k.failures = m.failures
      BY <1>1, <2>1, LoopFields DEF Loops
    <2> QED BY <2>1, <2>2 DEF Takes
  <1>3. ASSUME NEW b \in BOOLEAN PROVE Takes(l, [m EXCEPT !.verify = b], n)
    <2>1. PICK k : k = [m EXCEPT !.verify = b]
      OBVIOUS
    <2>2. k \in Loops /\ k.after = m.after /\ k.silences = m.silences /\ k.failures = m.failures
      BY <1>1, <2>1, LoopFields, ZenonT(60) DEF Loops
    <2> QED BY <2>1, <2>2 DEF Takes
  <1> QED BY <1>2, <1>3

\* The intent of a text is a name, and the verification of a recipient is on or off.
LEMMA Prepares ==
  ASSUME loop \in Loops, NEW text
  PROVE  UsedAfter(text) \in SUBSET Intents /\ VerifyAfter(text) \in BOOLEAN
  <1>1. IncomingIntent(text) \in Intents \cup {"none"}
    BY DEF IncomingIntent, Intents
  <1>2. OutgoingIntent(text) \in Intents \cup {"none"}
    BY DEF OutgoingIntent, Intents
  <1>3. loop.used \in SUBSET Intents /\ loop.verify \in BOOLEAN
    BY DEF Loops
  <1>4. Intent(text) \in Intents \cup {"none"}
    BY <1>1, <1>2 DEF Intent
  <1>5. UsedAfter(text) \in SUBSET Intents
    BY <1>3, <1>4 DEF UsedAfter, Prepared
  <1> QED BY <1>3, <1>5 DEF VerifyAfter

\* A reply that was spoken is remembered.
LEMMA RememberedLoop ==
  ASSUME loop \in Loops, turn.seq \in Nat
  PROVE  /\ Remembered \in Loops /\ Remembered.after = loop.after
         /\ Remembered.silences = loop.silences /\ Remembered.failures = loop.failures
  <1>1. PICK a : a = [loop EXCEPT !.talked = TRUE]
    OBVIOUS
  <1>2. /\ a \in Loops /\ a.after = loop.after /\ a.ledger = loop.ledger
        /\ a.silences = loop.silences /\ a.failures = loop.failures
    BY <1>1, LoopFields, ZenonT(60) DEF Loops
  <1>3. PICK e : e = loop.ledger \cup {turn.seq}
    OBVIOUS
  <1>4. e \in SUBSET Nat
    BY <1>3 DEF Loops
  <1>5. PICK b : b = [a EXCEPT !.ledger = e]
    OBVIOUS
  <1>6. /\ b \in Loops /\ b.after = loop.after
        /\ b.silences = loop.silences /\ b.failures = loop.failures
    BY <1>2, <1>4, <1>5, LoopFields DEF Loops
  <1>7. Remembered = b
    BY <1>1, <1>3, <1>5 DEF Remembered
  <1> QED BY <1>6, <1>7

-------------------------------------------------------------------------------
(* The speeches of a round *)

\* The fields of the chain of speeches, one at a time.
LEMMA SpeechFields ==
  ASSUME NEW s \in Speeches
  PROVE  /\ \A j \in Seq(Jobs) : [s EXCEPT !.jobs = j] \in Speeches
         /\ \A r \in {"idle", "status", "speaking"} : [s EXCEPT !.running = r] \in Speeches
         /\ \A b \in BOOLEAN : [s EXCEPT !.failed = b] \in Speeches
         /\ \A b \in BOOLEAN : [s EXCEPT !.interrupted = b] \in Speeches
  <1>1. ASSUME NEW j \in Seq(Jobs) PROVE [s EXCEPT !.jobs = j] \in Speeches
    BY DEF Speeches
  <1>2. ASSUME NEW r \in {"idle", "status", "speaking"} PROVE [s EXCEPT !.running = r] \in Speeches
    BY DEF Speeches
  <1>3. ASSUME NEW b \in BOOLEAN PROVE [s EXCEPT !.failed = b] \in Speeches
    BY DEF Speeches
  <1>4. ASSUME NEW b \in BOOLEAN PROVE [s EXCEPT !.interrupted = b] \in Speeches
    BY DEF Speeches
  <1> QED BY <1>1, <1>2, <1>3, <1>4

\* The first job of s is over in r: the others follow, the last one is the same.
Advanced(s, r) ==
  /\ Orderly(r) /\ r.running = "idle" /\ r.failed = s.failed
  /\ Len(r.jobs) = Len(s.jobs) - 1
  /\ r.jobs # <<>> => Len(s.jobs) > 1 /\ r.jobs[Len(r.jobs)] = s.jobs[Len(s.jobs)]

\* A speech ends, or is skipped.
LEMMA PoppedAdvances ==
  ASSUME NEW s, Orderly(s), s.jobs # <<>>
  PROVE  /\ Advanced(s, Popped(s)) /\ Popped(s).interrupted = s.interrupted
         /\ Advanced(s, [Popped(s) EXCEPT !.interrupted = TRUE])
         /\ [Popped(s) EXCEPT !.interrupted = TRUE].interrupted = TRUE
  <1>1. s \in Speeches /\ s.jobs \in Seq(Jobs)
    BY DEF Orderly, Speeches
  <1>2. PICK rest : rest = Tail(s.jobs)
    OBVIOUS
  <1>3. /\ rest \in Seq(Jobs) /\ Len(rest) = Len(s.jobs) - 1 /\ Len(s.jobs) \in Nat
        /\ Len(s.jobs) > 0 /\ \A i \in 1..Len(rest) : rest[i] = s.jobs[i + 1]
    BY <1>1, <1>2
  <1>4. PICK a : a = [s EXCEPT !.jobs = rest]
    OBVIOUS
  <1>5. /\ a \in Speeches /\ a.jobs = rest /\ a.failed = s.failed /\ a.interrupted = s.interrupted
    BY <1>1, <1>3, <1>4, SpeechFields DEF Speeches
  <1>6. PICK b : b = [a EXCEPT !.running = "idle"]
    OBVIOUS
  <1>7. /\ b \in Speeches /\ b.jobs = rest /\ b.failed = s.failed /\ b.interrupted = s.interrupted
        /\ b.running = "idle"
    BY <1>5, <1>6, SpeechFields DEF Speeches
  <1>8. Popped(s) = b
    BY <1>2, <1>4, <1>6 DEF Popped
  <1>9. PICK c : c = [b EXCEPT !.interrupted = TRUE]
    OBVIOUS
  <1>10. /\ c \in Speeches /\ c.jobs = rest /\ c.failed = s.failed /\ c.interrupted = TRUE
         /\ c.running = "idle"
    BY <1>7, <1>9, SpeechFields DEF Speeches
  <1>11. /\ \A i \in 1..Len(rest) : i < Len(rest) => rest[i].kind = "ack"
         /\ \A i \in 1..Len(rest) : rest[i].bye => ~rest[i].cuttable
    <2> SUFFICES ASSUME NEW i \in 1..Len(rest)
                 PROVE  (i < Len(rest) => rest[i].kind = "ack") /\ (rest[i].bye => ~rest[i].cuttable)
      OBVIOUS
    <2>1. i + 1 \in 1..Len(s.jobs) /\ rest[i] = s.jobs[i + 1] /\ (i < Len(rest) => i + 1 < Len(s.jobs))
      BY <1>3
    <2> QED BY <2>1 DEF Orderly
  <1>12. rest # <<>> => Len(s.jobs) > 1 /\ rest[Len(rest)] = s.jobs[Len(s.jobs)]
    BY <1>3
  <1>13. Advanced(s, b)
    BY <1>3, <1>7, <1>11, <1>12 DEF Advanced, Orderly
  <1>14. Advanced(s, c)
    BY <1>3, <1>10, <1>11, <1>12 DEF Advanced, Orderly
  <1> QED BY <1>7, <1>8, <1>9, <1>10, <1>13, <1>14

\* The speeches of r are those of s, and one of this kind after them.
Extended(s, r, kind, bye) ==
  /\ Orderly(r) /\ Len(r.jobs) = Len(s.jobs) + 1 /\ r.jobs # <<>>
  /\ r.jobs[Len(r.jobs)].kind = kind /\ r.jobs[Len(r.jobs)].bye = bye
  /\ s.jobs # <<>> => r.jobs[1] = s.jobs[1]
  /\ r.running = s.running /\ r.failed = s.failed /\ r.interrupted = s.interrupted

\* A job is queued behind acknowledgements.
LEMMA QueuedOrderly ==
  ASSUME NEW s, Orderly(s), ~Answering(s), NEW kind \in {"ack", "prepared", "response"},
         NEW cuttable \in BOOLEAN, NEW bye \in BOOLEAN, bye => ~cuttable
  PROVE  Extended(s, Queued(s, kind, cuttable, bye), kind, bye)
  <1>1. s \in Speeches /\ s.jobs \in Seq(Jobs)
    BY DEF Orderly, Speeches
  <1>2. PICK job : job = [kind |-> kind, safe |-> FALSE, cuttable |-> cuttable, bye |-> bye]
    OBVIOUS
  <1>3. job \in Jobs /\ job.kind = kind /\ job.bye = bye /\ job.cuttable = cuttable
    BY <1>2 DEF Jobs
  <1>4. PICK jobs : jobs = Append(s.jobs, job)
    OBVIOUS
  <1>5. /\ jobs \in Seq(Jobs) /\ Len(jobs) = Len(s.jobs) + 1 /\ Len(s.jobs) \in Nat
        /\ jobs[Len(jobs)] = job
        /\ \A i \in 1..Len(s.jobs) : jobs[i] = s.jobs[i]
    BY <1>1, <1>3, <1>4
  <1>6. PICK r : r = [s EXCEPT !.jobs = jobs]
    OBVIOUS
  <1>7. /\ r \in Speeches /\ r.jobs = jobs /\ r.failed = s.failed /\ r.interrupted = s.interrupted
        /\ r.running = s.running
    BY <1>1, <1>5, <1>6, SpeechFields DEF Speeches
  <1>8. Queued(s, kind, cuttable, bye) = r
    BY <1>2, <1>4, <1>6 DEF Queued
  <1>9. \A i \in 1..Len(s.jobs) : s.jobs[i].kind = "ack"
    BY <1>5 DEF Orderly, Answering
  <1>10. \A i \in 1..Len(jobs) : i < Len(jobs) => jobs[i].kind = "ack"
    BY <1>5, <1>9
  <1>11. \A i \in 1..Len(jobs) : jobs[i].bye => ~jobs[i].cuttable
    BY <1>3, <1>5 DEF Orderly
  <1>12. jobs # <<>> /\ (s.jobs # <<>> => jobs[1] = s.jobs[1])
    BY <1>1, <1>5
  <1>13. Orderly(r)
    BY <1>7, <1>10, <1>11, <1>12 DEF Orderly
  <1> QED BY <1>3, <1>5, <1>7, <1>8, <1>12, <1>13 DEF Extended

\* A round begins with no speech but the one it is given.
LEMMA SilentOrderly ==
  ASSUME NEW job \in Jobs, job.bye => ~job.cuttable
  PROVE  LET r == [SilentSpeech EXCEPT !.jobs = <<job>>] IN
         /\ Orderly(r) /\ r.jobs = <<job>> /\ r.running = "idle"
         /\ ~r.failed /\ ~r.interrupted
         /\ Orderly(SilentSpeech) /\ SilentSpeech.jobs = <<>> /\ SilentSpeech.running = "idle"
         /\ ~SilentSpeech.failed /\ ~SilentSpeech.interrupted
  <1>1. SilentSpeech \in Speeches /\ <<job>> \in Seq(Jobs)
    BY DEF SilentSpeech, Speeches
  <1>2. PICK r : r = [SilentSpeech EXCEPT !.jobs = <<job>>]
    OBVIOUS
  <1>3. /\ r \in Speeches /\ r.jobs = <<job>> /\ r.running = "idle" /\ ~r.failed /\ ~r.interrupted
    BY <1>1, <1>2, SpeechFields, ZenonT(60) DEF Speeches, SilentSpeech
  <1>4. Orderly(r) /\ Orderly(SilentSpeech)
    BY <1>1, <1>3 DEF Orderly, SilentSpeech
  <1> QED BY <1>2, <1>3, <1>4 DEF SilentSpeech

-------------------------------------------------------------------------------
(* The steps of the loop that leave speech and queue alone *)

\* The loop goes on to a place where it takes no turn and waits for no answer.
Moves ==
  /\ UNCHANGED <<callVars, fragments, queue, turn, speech, reply, answered, told>>
  /\ at' \in (Speechless \ {"waiting"}) \cup {"recovering", "done"} /\ timers' = {}
  /\ hermes' \in Minds /\ outcome' \in Outcomes /\ farewell' \in BOOLEAN
  /\ farewell => farewell'
  /\ loop' \in Loops /\ loop.after <= loop'.after /\ loop'.after <= queue.sequence
  /\ at' \in Speechless => Drained
  /\ outcome' = "none" <=> at' # "done"
  /\ loop'.silences = 2 => at' \in {"silenceStatus", "silenceSpeech", "silenceHangup", "done"}
  /\ loop'.failures = MaxFailures => at' \in Closing \cup {"done"}
  /\ outcome' = "agent_hangup" => Released'
  /\ (at' = "silenceSpeech" /\ loop'.silences = 2)
       \/ at' \in {"silenceHangup", "closingSpeech", "closingHangup"} => farewell'
  /\ at' \in {"preparedHangup", "hangup"} => Released'

\* Such a step keeps the invariant.
LEMMA MovesInv == ASSUME TalkIInv, Talking, Moves PROVE TalkIInv'
  <1>1. TalkTypeOK'
    BY Bounds, SMTT(30) DEF TalkIInv, TalkTypeOK, Moves, callVars, Loops, Minds, Places, Speechless
  <1>2. HangupAnnounced'
    BY DEF Moves, HangupAnnounced, Released
  <1>3. AnsweredInOrder'
    BY DEF TalkIInv, Moves, AnsweredInOrder
  <1>4. InvRound'
    BY DEF Moves, InvRound
  <1>5. InvTurn'
    BY DEF TalkIInv, Moves, InvTurn, Whole, Latest, Newest, Speechless
  <1>6. InvSpeech'
    BY DEF TalkIInv, Moves, InvSpeech, Orderly, Answering, Drained, Speechless
  <1>7. InvAnswered'
    <2>1. answered \in Seq(Nat) /\ turn.seq \in Nat /\ loop.after \in Nat /\ loop'.after \in Nat
      BY DEF TalkIInv, TalkTypeOK, Moves, Loops, SomeTurns, NoTurn
    <2>2. ASSUME NEW k \in 1..Len(answered) PROVE answered[k] <= loop'.after
      <3>1. answered[k] \in Nat /\ answered[k] <= loop.after
        BY <2>1 DEF TalkIInv, InvAnswered
      <3> QED BY <2>1, <3>1 DEF Moves
    <2>3. Unsaid(speech) =>
            turn.seq <= loop'.after /\ \A k \in 1..Len(answered) : answered[k] < turn.seq
      BY <2>1 DEF TalkIInv, InvAnswered, Moves
    <2>4. at' # "thinking" /\ answered' = answered /\ turn' = turn /\ speech' = speech
      BY DEF Moves, Speechless
    <2> QED BY <2>2, <2>3, <2>4 DEF InvAnswered, Unsaid, Answering
  <1>8. InvBye'
    BY DEF TalkIInv, Moves, InvBye, Speechless
  <1> QED BY <1>1, <1>2, <1>3, <1>4, <1>5, <1>6, <1>7, <1>8 DEF TalkIInv

\* The types of what the loop looks at.
LEMMA Known ==
  ASSUME TalkIInv
  PROVE  /\ loop \in Loops /\ loop.after \in Nat /\ loop.silences \in 0..2
         /\ loop.failures \in 0..MaxFailures /\ loop.ledger \in SUBSET Nat
         /\ turn \in SomeTurns \cup {NoTurn} /\ turn.seq \in Nat /\ turn.prev \in Nat
         /\ queue \in Queues /\ queue.sequence \in Nat
         /\ hermes \in Minds /\ reply \in Answers /\ speech \in Speeches
         /\ answered \in Seq(Nat) /\ told \in SUBSET Nat
  <1>1. /\ loop \in Loops /\ queue \in Queues /\ hermes \in Minds /\ reply \in Answers
        /\ speech \in Speeches /\ answered \in Seq(Nat) /\ told \in SUBSET Nat
    BY DEF TalkIInv, TalkTypeOK, Loops, Queues, Minds, Answers, Speeches
  <1>2. turn \in SomeTurns \cup {NoTurn}
    BY DEF TalkIInv, TalkTypeOK
  <1>3. turn.seq \in Nat /\ turn.prev \in Nat
    BY <1>2 DEF SomeTurns, NoTurn
  <1> QED BY <1>1, <1>2, <1>3 DEF Loops, Queues

\* The loop ends the conversation, with a hang-up only if the caller may be left.
LEMMA FinishMoves ==
  ASSUME TalkIInv, NEW reason \in Outcomes \ {"none"}, Finish(reason),
         reason = "agent_hangup" => Released,
         UNCHANGED <<callVars, fragments, queue, turn, speech, reply, answered, told>>,
         loop' = loop, hermes' \in Minds, farewell' = farewell
  PROVE  Moves
  <1>1. loop' \in Loops /\ loop.after <= loop'.after /\ loop'.after <= queue.sequence
    BY Known DEF TalkIInv, InvTurn
  <1>2. outcome' = "agent_hangup" => Released'
    BY DEF Finish, Released, callVars, IsStale, Newer, Latest, Newest
  <1> QED BY <1>1, <1>2 DEF Moves, Finish, Outcomes, TalkIInv, TalkTypeOK, Speechless

\* The loop goes on to the next round, with what l remembers.
LEMMA NextRoundMoves ==
  ASSUME TalkIInv, Talking, NextRound, Drained, at # "thinking", loop' \in Loops,
         loop.after <= loop'.after, loop'.after <= queue.sequence,
         loop'.silences # 2, loop'.failures # MaxFailures,
         UNCHANGED <<callVars, fragments, queue, turn, speech, reply, answered, told, hermes, farewell>>
  PROVE  Moves
  <1>1. timers' = {} /\ at' \in {"status", "done"} /\ outcome' \in {"none", "maximum_duration"}
        /\ (outcome' = "none" <=> at' # "done")
    BY DEF NextRound, Finish, TalkIInv, InvSpeech, Talking
  <1>2. hermes' \in Minds /\ farewell' \in BOOLEAN
    BY Known DEF TalkIInv, TalkTypeOK
  <1> QED BY <1>1, <1>2 DEF Moves, Outcomes, Speechless

\* The loop only goes on to the place p.
LEMMA GoMoves ==
  ASSUME TalkIInv, Talking, NEW p \in (Speechless \ {"waiting"}) \cup {"recovering"}, at' = p,
         UNCHANGED <<outcome, callVars, fragments, queue, turn, loop, speech, reply, answered, told>>,
         hermes' \in Minds, farewell' \in BOOLEAN, farewell => farewell', timers' = {},
         p \in Speechless => Drained,
         loop.silences = 2 => p \in {"silenceStatus", "silenceSpeech", "silenceHangup"},
         loop.failures = MaxFailures => p \in Closing,
         (p = "silenceSpeech" /\ loop.silences = 2)
           \/ p \in {"silenceHangup", "closingSpeech", "closingHangup"} => farewell',
         p \in {"preparedHangup", "hangup"} => Released
  PROVE  Moves
  <1>1. loop' \in Loops /\ loop.after <= loop'.after /\ loop'.after <= queue.sequence
    BY Known DEF TalkIInv, InvTurn
  <1>2. p \in {"preparedHangup", "hangup"} => Released'
    BY DEF Released, callVars, IsStale, Newer, Latest, Newest
  <1>3. outcome' = "none" /\ at' # "done" /\ outcome' \in Outcomes
    BY DEF Talking, Speechless, Outcomes
  <1> QED BY <1>1, <1>2, <1>3 DEF Moves

\* A round that hears nothing.
LEMMA SilenceMoves ==
  ASSUME TalkIInv, Silence \/ SilenceStatus \/ SilenceSpoken \/ SilenceHangup \/ EndHeard
  PROVE  Moves
  <1>1. CASE Silence
    <2>1. PICK n : n = loop.silences + 1
      OBVIOUS
    <2>2. n \in 0..2 /\ loop.failures # MaxFailures
      <3>1. at = "waiting"
        BY <1>1 DEF Silence
      <3>2. loop.silences # 2 /\ loop.failures # MaxFailures
        BY <3>1 DEF TalkIInv, InvRound, Closing
      <3> QED BY <2>1, <3>2, Known
    <2>3. loop' = [loop EXCEPT !.silences = n]
      BY <1>1, <2>1 DEF Silence
    <2>4. loop' \in Loops
      BY <2>2, <2>3, Known, LoopFields
    <2>5. loop'.after = loop.after /\ loop'.failures = loop.failures
      BY <2>3, Known DEF Loops
    <2>6. /\ at = "waiting" /\ at' = "silenceStatus" /\ outcome' = "none"
          /\ UNCHANGED <<callVars, fragments, queue, turn, speech, timers, hermes, reply, outcome, history>>
      BY <1>1 DEF Silence, Talking
    <2>7. loop.after <= loop'.after /\ loop'.after <= queue.sequence
      BY <2>5, Known DEF TalkIInv, InvTurn
    <2>8. Drained /\ timers' = {} /\ farewell \in BOOLEAN
      BY <2>6 DEF TalkIInv, InvSpeech, Speechless, TalkTypeOK
    <2> QED
      BY <2>2, <2>4, <2>5, <2>6, <2>7, <2>8, Known DEF Moves, history, Speechless, Outcomes
  <1>2. CASE SilenceStatus
    <2>1. /\ at = "silenceStatus" /\ Drained /\ timers = {} /\ loop.failures # MaxFailures
          /\ farewell \in BOOLEAN /\ Talking
      BY <1>2 DEF SilenceStatus, TalkIInv, InvSpeech, InvRound, Speechless, Closing, TalkTypeOK
    <2>2. CASE at' = "silenceSpeech" /\ farewell' = (farewell \/ loop.silences = 2)
               /\ UNCHANGED <<outcome, timers>>
      <3>1. farewell' \in BOOLEAN /\ (farewell => farewell') /\ (loop.silences = 2 => farewell')
        BY <2>1, <2>2, Zenon
      <3>2. hermes' \in Minds /\ UNCHANGED timers /\ at' = "silenceSpeech"
        BY <1>2, <2>2, Known DEF SilenceStatus
      <3> QED BY <1>2, <2>1, <2>2, <3>1, <3>2, GoMoves DEF SilenceStatus, Speechless
    <2>3. ASSUME NEW r \in {"call_ended", "threw"}, Finish(r), farewell' = farewell
          PROVE  Moves
      BY <1>2, <2>3, FinishMoves, Known DEF SilenceStatus, Outcomes
    <2> QED BY <1>2, <2>2, <2>3 DEF SilenceStatus
  <1>3. CASE SilenceSpoken
    <2>1. /\ at = "silenceSpeech" /\ Drained /\ timers = {} /\ loop.failures # MaxFailures
          /\ farewell \in BOOLEAN /\ Talking /\ (loop.silences = 2 => farewell)
      BY <1>3 DEF SilenceSpoken, TalkIInv, InvSpeech, InvRound, InvBye, Speechless, Closing, TalkTypeOK
    <2>2. CASE loop.silences = 2 /\ at' = "silenceHangup" /\ UNCHANGED <<outcome, timers>>
      BY <1>3, <2>1, <2>2, GoMoves, Known DEF SilenceSpoken, Speechless, history
    <2>3. CASE loop.silences < 2 /\ NextRound
      <3>1. loop' \in Loops /\ loop.after <= loop'.after /\ loop'.after <= queue.sequence
            /\ loop'.silences # 2 /\ loop'.failures # MaxFailures
        BY <1>3, <2>1, <2>3, Known DEF SilenceSpoken, TalkIInv, InvTurn
      <3> QED BY <1>3, <2>1, <2>3, <3>1, NextRoundMoves DEF SilenceSpoken, history
    <2>4. ASSUME NEW r \in {"agent_unavailable", "threw"}, Finish(r)
          PROVE  Moves
      BY <1>3, <2>4, FinishMoves, Known DEF SilenceSpoken, Outcomes, history
    <2> QED BY <1>3, <2>2, <2>3, <2>4 DEF SilenceSpoken
  <1>4. CASE SilenceHangup
    <2>1. Released /\ Finish("agent_hangup")
      BY <1>4 DEF SilenceHangup, TalkIInv, InvBye, Released
    <2> QED BY <1>4, <2>1, FinishMoves, Known DEF SilenceHangup, Outcomes, history
  <1>5. CASE EndHeard
    BY <1>5, FinishMoves, Known DEF EndHeard, Outcomes, history
  <1> QED BY <1>1, <1>2, <1>3, <1>4, <1>5

\* A suppressed turn, and the rounds that end with what was said.
LEMMA SpokenMoves ==
  ASSUME TalkIInv, SuppressTurn \/ PreparedSpoken \/ PreparedHangup \/ ReplySpoken \/ Hangup
  PROVE  Moves
  <1>1. CASE SuppressTurn
    <2>1. /\ at = "waiting" /\ turn \in SomeTurns /\ turn # NoTurn /\ Talking
      BY <1>1, Known DEF SuppressTurn, NoTurn
    <2>2. turn.seq > loop.after /\ turn.seq <= queue.sequence
      BY <2>1 DEF TalkIInv, InvTurn
    <2>3. Takes(loop, loop', turn.seq)
      BY <1>1, <2>1, TakenTurn, Known DEF SuppressTurn
    <2>4. /\ loop' \in Loops /\ loop.after <= loop'.after /\ loop'.after <= queue.sequence
          /\ loop'.silences # 2 /\ loop'.failures # MaxFailures
      BY <2>1, <2>2, <2>3, Known DEF Takes, TalkIInv, InvRound, Closing
    <2>5. Drained
      BY <2>1 DEF TalkIInv, InvSpeech, Speechless
    <2> QED BY <1>1, <2>1, <2>4, <2>5, NextRoundMoves DEF SuppressTurn, history
  <1>2. CASE PreparedSpoken
    <2>1. /\ at = "prepared" /\ Drained /\ timers = {} /\ Talking /\ farewell \in BOOLEAN
          /\ loop.silences # 2 /\ loop.failures # MaxFailures
      BY <1>2 DEF PreparedSpoken, TalkIInv, InvSpeech, InvRound, Closing, TalkTypeOK
    <2>2. CASE speech.failed /\ Finish("threw") /\ UNCHANGED loop
      BY <1>2, <2>2, FinishMoves, Known DEF PreparedSpoken, Outcomes, history
    <2>3. ASSUME NextRound, loop' \in {loop, Remembered} PROVE Moves
      <3>1. /\ loop' \in Loops /\ loop.after <= loop'.after /\ loop'.after <= queue.sequence
            /\ loop'.silences # 2 /\ loop'.failures # MaxFailures
        BY <2>1, <2>3, Known, RememberedLoop DEF TalkIInv, InvTurn
      <3> QED BY <1>2, <2>1, <2>3, <3>1, NextRoundMoves DEF PreparedSpoken, history
    <2>4. CASE /\ ~speech.failed /\ ~PreparedStale /\ loop' = Remembered /\ reply.class = "goodbye"
               /\ at' = "preparedHangup" /\ UNCHANGED <<outcome, timers>>
      <3>1. Released
        BY <2>1, <2>4 DEF TalkIInv, InvBye, PreparedStale, Answering, Drained
      <3>2. Released'
        BY <1>2, <3>1 DEF PreparedSpoken, Released, callVars, history, IsStale, Newer, Latest, Newest
      <3>3. /\ loop' \in Loops /\ loop.after <= loop'.after /\ loop'.after <= queue.sequence
            /\ loop'.silences # 2 /\ loop'.failures # MaxFailures
        BY <2>1, <2>4, Known, RememberedLoop DEF TalkIInv, InvTurn
      <3> QED
        BY <1>2, <2>1, <2>4, <3>2, <3>3, Known
           DEF PreparedSpoken, Moves, Talking, Speechless, Outcomes, history
    <2> QED BY <1>2, <2>2, <2>3, <2>4 DEF PreparedSpoken
  <1>3. CASE PreparedHangup
    <2>1. Released
      BY <1>3 DEF PreparedHangup, TalkIInv, InvBye
    <2>2. ASSUME NEW r \in {"agent_hangup", "threw"}, Finish(r) PROVE Moves
      BY <1>3, <2>1, <2>2, FinishMoves, Known DEF PreparedHangup, Outcomes, history
    <2> QED BY <1>3, <2>2 DEF PreparedHangup
  <1>4. CASE ReplySpoken
    <2>1. /\ at = "replying" /\ Drained /\ timers = {} /\ Talking /\ farewell \in BOOLEAN
          /\ loop.silences # 2 /\ loop.failures # MaxFailures
      BY <1>4 DEF ReplySpoken, TalkIInv, InvSpeech, InvRound, Closing, TalkTypeOK
    <2>2. CASE at' = "recovering" /\ UNCHANGED <<loop, outcome, timers>>
      BY <1>4, <2>1, <2>2, GoMoves, Known DEF ReplySpoken, Speechless, history
    <2>3. ASSUME NextRound, loop' \in {loop, Remembered} PROVE Moves
      <3>1. /\ loop' \in Loops /\ loop.after <= loop'.after /\ loop'.after <= queue.sequence
            /\ loop'.silences # 2 /\ loop'.failures # MaxFailures
        BY <2>1, <2>3, Known, RememberedLoop DEF TalkIInv, InvTurn
      <3> QED BY <1>4, <2>1, <2>3, <3>1, NextRoundMoves DEF ReplySpoken, history
    <2>4. CASE /\ ~speech.failed /\ ~ReplyStale /\ loop' = Remembered /\ reply.class = "goodbye"
               /\ at' = "hangup" /\ UNCHANGED <<outcome, timers>>
      <3>1. Released
        BY <2>1, <2>4 DEF TalkIInv, InvBye, ReplyStale, Answering, Drained
      <3>2. Released'
        BY <1>4, <3>1 DEF ReplySpoken, Released, callVars, history, IsStale, Newer, Latest, Newest
      <3>3. /\ loop' \in Loops /\ loop.after <= loop'.after /\ loop'.after <= queue.sequence
            /\ loop'.silences # 2 /\ loop'.failures # MaxFailures
        BY <2>1, <2>4, Known, RememberedLoop DEF TalkIInv, InvTurn
      <3> QED
        BY <1>4, <2>1, <2>4, <3>2, <3>3, Known
           DEF ReplySpoken, Moves, Talking, Speechless, Outcomes, history
    <2> QED BY <1>4, <2>2, <2>3, <2>4 DEF ReplySpoken
  <1>5. CASE Hangup
    <2>1. /\ at = "hangup" /\ timers = {} /\ Talking /\ farewell \in BOOLEAN /\ Released
          /\ loop.silences # 2 /\ loop.failures # MaxFailures
      BY <1>5 DEF Hangup, TalkIInv, InvSpeech, InvRound, InvBye, Closing, TalkTypeOK
    <2>2. CASE Finish("agent_hangup")
      BY <1>5, <2>1, <2>2, FinishMoves, Known DEF Hangup, Outcomes, history
    <2>3. CASE at' = "recovering" /\ UNCHANGED <<outcome, timers>>
      BY <1>5, <2>1, <2>3, GoMoves, Known DEF Hangup, Speechless, history
    <2> QED BY <1>5, <2>2, <2>3 DEF Hangup
  <1> QED BY <1>1, <1>2, <1>3, <1>4, <1>5

\* The catch of a round, the recovery and the farewell.
LEMMA RecoveryMoves ==
  ASSUME TalkIInv, \/ Recover \/ RecoveryStatus \/ RecoverySpoken
               \/ ClosingStatus \/ ClosingSpoken \/ ClosingHangup
  PROVE  Moves
  <1>0. farewell \in BOOLEAN
    BY DEF TalkIInv, TalkTypeOK
  <1>1. CASE Recover
    <2>1. /\ at = "recovering" /\ Drained /\ timers = {} /\ Talking
          /\ loop.silences # 2 /\ loop.failures # MaxFailures
      BY <1>1 DEF Recover, TalkIInv, InvSpeech, InvRound, Closing
    <2>2. CASE Finish("maximum_duration") /\ UNCHANGED loop
      BY <1>1, <2>2, FinishMoves, Known DEF Recover, Outcomes, history
    <2>3. CASE at' = "status" /\ UNCHANGED <<loop, outcome, timers>>
      BY <1>0, <1>1, <2>1, <2>3, GoMoves, Known DEF Recover, Speechless, history
    <2>4. CASE /\ loop' = [loop EXCEPT !.failures = @ + 1]
               /\ at' = IF loop.failures + 1 < MaxFailures THEN "recoveryStatus" ELSE "closingStatus"
               /\ UNCHANGED <<outcome, timers>>
      <3>1. PICK n : n = loop.failures + 1
        OBVIOUS
      <3>2. n \in 0..MaxFailures
        BY <2>1, <3>1, Known, Bounds
      <3>3. loop' = [loop EXCEPT !.failures = n]
        BY <2>4, <3>1
      <3>4. loop' \in Loops
        BY <3>2, <3>3, Known, LoopFields
      <3>5. loop'.after = loop.after /\ loop'.failures = n /\ loop'.silences = loop.silences
        BY <3>3, Known DEF Loops
      <3>6. loop.after <= loop'.after /\ loop'.after <= queue.sequence
        BY <3>5, Known DEF TalkIInv, InvTurn
      <3>7. /\ at' \in {"recoveryStatus", "closingStatus"}
            /\ n = MaxFailures => at' = "closingStatus"
        BY <2>4, <3>1, <3>2, Known, Bounds
      <3> QED
        BY <1>0, <1>1, <2>1, <2>4, <3>4, <3>5, <3>6, <3>7, Known
           DEF Recover, Moves, Talking, Speechless, Closing, Outcomes, history
    <2> QED BY <1>1, <2>2, <2>3, <2>4 DEF Recover
  <1>2. CASE RecoveryStatus
    <2>1. /\ at = "recoveryStatus" /\ Drained /\ timers = {} /\ Talking
          /\ loop.silences # 2 /\ loop.failures # MaxFailures
      BY <1>2 DEF RecoveryStatus, TalkIInv, InvSpeech, InvRound, Speechless, Closing
    <2>2. CASE Finish("call_ended")
      BY <1>2, <2>2, FinishMoves, Known DEF RecoveryStatus, Outcomes, history
    <2>3. ASSUME NEW p \in {"recoverySpeech", "closingStatus"}, at' = p, UNCHANGED <<outcome, timers>>
          PROVE  Moves
      BY <1>0, <1>2, <2>1, <2>3, GoMoves, Known DEF RecoveryStatus, Speechless, history
    <2> QED BY <1>2, <2>2, <2>3 DEF RecoveryStatus
  <1>3. CASE RecoverySpoken
    <2>1. /\ at = "recoverySpeech" /\ Drained /\ timers = {} /\ Talking
          /\ loop.silences # 2 /\ loop.failures # MaxFailures
      BY <1>3 DEF RecoverySpoken, TalkIInv, InvSpeech, InvRound, Speechless, Closing
    <2>2. CASE NextRound
      <3>1. loop' \in Loops /\ loop.after <= loop'.after /\ loop'.after <= queue.sequence
            /\ loop'.silences # 2 /\ loop'.failures # MaxFailures
        BY <1>3, <2>1, Known DEF RecoverySpoken, TalkIInv, InvTurn
      <3> QED BY <1>3, <2>1, <2>2, <3>1, NextRoundMoves DEF RecoverySpoken, history
    <2>3. CASE at' = "closingStatus" /\ UNCHANGED <<outcome, timers>>
      BY <1>0, <1>3, <2>1, <2>3, GoMoves, Known DEF RecoverySpoken, Speechless, history
    <2> QED BY <1>3, <2>2, <2>3 DEF RecoverySpoken
  <1>4. CASE ClosingStatus
    <2>1. /\ at = "closingStatus" /\ Drained /\ timers = {} /\ Talking /\ loop.silences # 2
      BY <1>4 DEF ClosingStatus, TalkIInv, InvSpeech, InvRound, Speechless
    <2>2. CASE Finish("agent_unavailable") /\ UNCHANGED farewell
      BY <1>4, <2>2, FinishMoves, Known DEF ClosingStatus, Outcomes
    <2>3. CASE at' = "closingSpeech" /\ farewell' = TRUE /\ UNCHANGED <<outcome, timers>>
      BY <1>0, <1>4, <2>1, <2>3, GoMoves, Known DEF ClosingStatus, Speechless, Closing
    <2> QED BY <1>4, <2>2, <2>3 DEF ClosingStatus
  <1>5. CASE ClosingSpoken
    <2>1. /\ at = "closingSpeech" /\ Drained /\ timers = {} /\ Talking /\ loop.silences # 2 /\ farewell
      BY <1>5 DEF ClosingSpoken, TalkIInv, InvSpeech, InvRound, InvBye, Speechless
    <2>2. CASE Finish("agent_unavailable")
      BY <1>5, <2>2, FinishMoves, Known DEF ClosingSpoken, Outcomes, history
    <2>3. CASE at' = "closingHangup" /\ UNCHANGED <<outcome, timers>>
      BY <1>0, <1>5, <2>1, <2>3, GoMoves, Known DEF ClosingSpoken, Speechless, Closing, history
    <2> QED BY <1>5, <2>2, <2>3 DEF ClosingSpoken
  <1>6. CASE ClosingHangup
    <2>1. Released
      BY <1>6 DEF ClosingHangup, TalkIInv, InvBye, Released
    <2>2. ASSUME NEW r \in {"agent_hangup", "agent_unavailable"}, Finish(r) PROVE Moves
      BY <1>6, <2>1, <2>2, FinishMoves, Known DEF ClosingHangup, Outcomes, history
    <2> QED BY <1>6, <2>2 DEF ClosingHangup
  <1> QED BY <1>1, <1>2, <1>3, <1>4, <1>5, <1>6

-------------------------------------------------------------------------------
(* Hermes *)

\* The fields of Hermes' record, one at a time.
LEMMA MindFields ==
  ASSUME NEW m \in Minds
  PROVE  /\ \A b \in BOOLEAN : [m EXCEPT !.up = b] \in Minds
         /\ \A p \in Seq(Nat) : [m EXCEPT !.prompts = p] \in Minds
         /\ \A b \in BOOLEAN : [m EXCEPT !.forgotten = b] \in Minds
  <1>1. ASSUME NEW b \in BOOLEAN PROVE [m EXCEPT !.up = b] \in Minds
    BY DEF Minds
  <1>2. ASSUME NEW p \in Seq(Nat) PROVE [m EXCEPT !.prompts = p] \in Minds
    BY DEF Minds
  <1>3. ASSUME NEW b \in BOOLEAN PROVE [m EXCEPT !.forgotten = b] \in Minds
    BY DEF Minds
  <1> QED BY <1>1, <1>2, <1>3

\* Two fields at once.
LEMMA MindChanges ==
  ASSUME NEW m \in Minds, NEW p \in Seq(Nat), NEW b \in BOOLEAN
  PROVE  /\ [m EXCEPT !.prompts = p, !.forgotten = b] \in Minds
         /\ [m EXCEPT !.up = b, !.prompts = p] \in Minds
  <1>1. PICK q : q = [m EXCEPT !.prompts = p]
    OBVIOUS
  <1>2. PICK r : r = [q EXCEPT !.forgotten = b]
    OBVIOUS
  <1>3. r \in Minds /\ r = [m EXCEPT !.prompts = p, !.forgotten = b]
    <2>1. r \in Minds
      BY <1>1, <1>2, MindFields
    <2>2. r = [m EXCEPT !.prompts = p, !.forgotten = b]
      BY <1>1, <1>2
    <2> QED BY <2>1, <2>2
  <1>4. PICK u : u = [m EXCEPT !.up = b]
    OBVIOUS
  <1>5. PICK v : v = [u EXCEPT !.prompts = p]
    OBVIOUS
  <1>6. v \in Minds /\ v = [m EXCEPT !.up = b, !.prompts = p]
    <2>1. v \in Minds
      BY <1>4, <1>5, MindFields
    <2>2. v = [m EXCEPT !.up = b, !.prompts = p]
      BY <1>4, <1>5
    <2> QED BY <2>1, <2>2
  <1> QED BY <1>3, <1>6

\* Hermes alone changes: nobody was waiting for it.
LEMMA AloneInv ==
  ASSUME TalkIInv, hermes' \in Minds,
         UNCHANGED <<callVars, fragments, queue, at, turn, loop, speech, timers, reply, outcome, history>>
  PROVE  TalkIInv'
  <1>1. TalkTypeOK'
    BY DEF TalkIInv, TalkTypeOK, callVars, history, Minds
  <1>2. HangupAnnounced' /\ AnsweredInOrder' /\ InvRound' /\ InvTurn'
    BY DEF TalkIInv, callVars, history, HangupAnnounced, AnsweredInOrder, InvRound, InvTurn,
           IsStale, Newer, Latest, Newest, Whole
  <1>3. InvSpeech' /\ InvAnswered' /\ InvBye'
    BY DEF TalkIInv, callVars, history, InvSpeech, InvAnswered, InvBye, Released, Orderly, Answering,
           Unsaid, Drained, Armed, IsStale, Newer, Latest, Newest
  <1> QED BY <1>1, <1>2, <1>3 DEF TalkIInv

\* An answer of Hermes is queued behind the acknowledgements.
LEMMA AnsweredInv ==
  ASSUME TalkIInv, HermesCompletes, at = "thinking", NEW class \in {"answer", "goodbye"},
         reply' = [class |-> class, for |-> Head(hermes.prompts), safe |-> FALSE],
         speech' = Queued(speech, "response", class = "answer", class = "goodbye"),
         loop' = [loop EXCEPT !.failures = 0], at' = "replying", timers' = {},
         hermes' \in Minds, Head(hermes.prompts) \in Nat
  PROVE  TalkIInv'
  <1>1. UNCHANGED <<callVars, fragments, queue, turn, outcome, answered, told, farewell>> /\ Talking
    BY DEF HermesCompletes, history
  <1>2. /\ Orderly(speech) /\ ~Answering(speech) /\ Len(speech.jobs) + Armed <= 2
        /\ loop.silences # 2
    BY DEF TalkIInv, InvSpeech, InvRound
  <1>3. /\ Orderly(speech') /\ Len(speech'.jobs) = Len(speech.jobs) + 1
        /\ speech'.jobs # <<>> /\ speech'.jobs[Len(speech'.jobs)].kind = "response"
        /\ speech'.jobs[Len(speech'.jobs)].bye = (class = "goodbye")
        /\ speech.jobs # <<>> => speech'.jobs[1] = speech.jobs[1]
        /\ speech'.running = speech.running
    <2>1. PICK c, b : c = (class = "answer") /\ b = (class = "goodbye")
      OBVIOUS
    <2>2. c \in BOOLEAN /\ b \in BOOLEAN /\ (b => ~c)
      BY <2>1
    <2>3. speech' = Queued(speech, "response", c, b)
      BY <2>1
    <2>4. "response" \in {"ack", "prepared", "response"}
      OBVIOUS
    <2>5. Extended(speech, speech', "response", b)
      BY <1>2, <2>2, <2>3, <2>4, QueuedOrderly
    <2> QED BY <2>1, <2>5 DEF Extended
  <1>4. Len(speech.jobs) <= 2
    <2>1. Armed \in {0, 1, 2} /\ Len(speech.jobs) \in Nat
      BY Known DEF Armed, Speeches
    <2> QED BY <1>2, <2>1
  <1>5. speech' \in Speeches /\ Len(speech'.jobs) <= 3
    <2>1. Len(speech.jobs) \in Nat
      BY Known DEF Speeches
    <2> QED BY <1>3, <1>4, <2>1 DEF Orderly
  <1>6. /\ loop' \in Loops /\ loop'.after = loop.after /\ loop'.failures = 0
        /\ loop'.silences = loop.silences
    <2>1. 0 \in 0..MaxFailures
      BY Bounds
    <2>2. loop' \in Loops
      BY <2>1, Known, LoopFields
    <2> QED BY <2>2, Known DEF Loops
  <1>7. reply' \in Answers /\ reply'.class = class
    BY DEF Answers
  <1>8. TalkTypeOK'
    BY <1>1, <1>5, <1>6, <1>7, Known DEF TalkIInv, TalkTypeOK, callVars, Speeches, Loops, Answers, Minds, Places
  <1>9. HangupAnnounced' /\ AnsweredInOrder'
    BY <1>1 DEF TalkIInv, HangupAnnounced, AnsweredInOrder, Talking
  <1>10. InvRound'
    BY <1>1, <1>2, <1>6, Bounds DEF InvRound, Talking
  <1>11. InvTurn'
    BY <1>1, <1>6 DEF TalkIInv, InvTurn, Whole, Latest, Newest
  <1>12. InvSpeech'
    BY <1>3, <1>5 DEF InvSpeech, Speechless
  <1>13. InvAnswered'
    BY <1>1, <1>6 DEF TalkIInv, InvAnswered
  <1>14. InvBye'
    <2>1. speech'.running = "speaking" /\ speech'.jobs[1].bye => farewell'
      <3>1. speech.running = "speaking" => speech.jobs # <<>>
        BY <1>2 DEF Orderly
      <3> QED BY <1>1, <1>3, <3>1 DEF TalkIInv, InvBye
    <2>2. reply'.class = "goodbye" =>
            speech'.jobs # <<>> /\ speech'.jobs[Len(speech'.jobs)].kind # "ack"
            /\ speech'.jobs[Len(speech'.jobs)].bye
      BY <1>3, <1>7
    <2> QED BY <2>1, <2>2 DEF InvBye, Answering
  <1> QED BY <1>8, <1>9, <1>10, <1>11, <1>12, <1>13, <1>14 DEF TalkIInv

\* Hermes answers, fails, is late or exits.
LEMMA HermesInv == ASSUME TalkIInv, Hermes PROVE TalkIInv'
  <1>0. farewell \in BOOLEAN /\ farewell' = farewell /\ hermes.prompts \in Seq(Nat)
        /\ hermes.forgotten \in BOOLEAN
    BY Known DEF Hermes, HermesCompletes, HermesTimesOut, SubmitRefused, ForgottenWaiterFails,
                 HermesExits, history, TalkIInv, TalkTypeOK, Minds
  <1>1. CASE HermesCompletes
    <2>1. PICK p : p = Tail(hermes.prompts)
      OBVIOUS
    <2>2. p \in Seq(Nat) /\ Head(hermes.prompts) \in Nat
      BY <1>0, <1>1, <2>1 DEF HermesCompletes
    <2>3. hermes' \in Minds
      <3>1. hermes' = [hermes EXCEPT !.prompts = p, !.forgotten = FALSE]
        BY <1>1, <2>1 DEF HermesCompletes
      <3> QED BY <2>2, <3>1, Known, MindChanges
    <2>4. CASE at # "thinking" /\ UNCHANGED <<at, loop, speech, timers, reply>>
      BY <1>1, <2>3, <2>4, AloneInv DEF HermesCompletes
    <2>5. ASSUME NEW class \in {"answer", "goodbye"}, at = "thinking", ClearTimers,
                 reply' = [class |-> class, for |-> Head(hermes.prompts), safe |-> FALSE],
                 speech' = Queued(speech, "response", class = "answer", class = "goodbye"),
                 loop' = [loop EXCEPT !.failures = 0], at' = "replying"
          PROVE  TalkIInv'
      BY <1>1, <2>2, <2>3, <2>5, AnsweredInv DEF ClearTimers
    <2>6. CASE at = "thinking" /\ ClearTimers /\ at' = "recovering" /\ UNCHANGED <<loop, speech, reply>>
      <3>1. loop.silences # 2 /\ loop.failures # MaxFailures
        BY <2>6 DEF TalkIInv, InvRound, Closing
      <3> QED BY <1>0, <1>1, <2>3, <2>6, <3>1, GoMoves, MovesInv
              DEF HermesCompletes, ClearTimers, Speechless, history
    <2> QED BY <1>1, <2>4, <2>5, <2>6 DEF HermesCompletes
  <1>2. CASE HermesTimesOut
    <2>1. CASE ClearTimers /\ at' = "recovering" /\ UNCHANGED outcome
      <3>1. loop.silences # 2 /\ loop.failures # MaxFailures
        BY <1>2 DEF HermesTimesOut, TalkIInv, InvRound, Closing
      <3> QED BY <1>0, <1>2, <2>1, <3>1, Known, GoMoves, MovesInv
              DEF HermesTimesOut, ClearTimers, Speechless, history
    <2>2. CASE Finish("died")
      BY <1>0, <1>2, <2>2, Known, FinishMoves, MovesInv DEF HermesTimesOut, Outcomes, history
    <2> QED BY <1>2, <2>1, <2>2 DEF HermesTimesOut
  <1>3. CASE SubmitRefused
    <2>1. hermes' \in Minds
      <3>1. CASE hermes' = [hermes EXCEPT !.forgotten = TRUE]
        BY <3>1, Known, MindFields
      <3>2. CASE hermes' = [hermes EXCEPT !.prompts = SubSeq(@, 1, Len(@) - 1), !.forgotten = TRUE]
                 /\ hermes.prompts # <<>>
        <4>1. PICK p : p = SubSeq(hermes.prompts, 1, Len(hermes.prompts) - 1)
          OBVIOUS
        <4>2. p \in Seq(Nat)
          <5>1. Len(hermes.prompts) \in Nat /\ Len(hermes.prompts) > 0
            BY <1>0, <3>2
          <5> QED BY <1>0, <4>1, <5>1
        <4>3. hermes' = [hermes EXCEPT !.prompts = p, !.forgotten = TRUE]
          BY <3>2, <4>1
        <4> QED BY <4>2, <4>3, Known, MindChanges
      <3> QED BY <1>3, <3>1, <3>2 DEF SubmitRefused
    <2>2. loop.silences # 2 /\ loop.failures # MaxFailures
      BY <1>3 DEF SubmitRefused, TalkIInv, InvRound, Closing
    <2> QED BY <1>0, <1>3, <2>1, <2>2, GoMoves, MovesInv
            DEF SubmitRefused, ClearTimers, Speechless, history
  <1>4. CASE ForgottenWaiterFails
    BY <1>0, <1>4, Known, FinishMoves, MovesInv DEF ForgottenWaiterFails, Outcomes, history
  <1>5. CASE HermesExits
    <2>1. hermes' \in Minds
      <3>1. <<>> \in Seq(Nat) /\ hermes' = [hermes EXCEPT !.up = FALSE, !.prompts = <<>>]
        BY <1>5 DEF HermesExits
      <3> QED BY <3>1, Known, MindChanges
    <2>2. CASE Finish("died")
      BY <1>0, <1>5, <2>1, <2>2, FinishMoves, MovesInv DEF HermesExits, Outcomes, history
    <2>3. CASE at = "thinking" /\ ClearTimers /\ at' = "recovering" /\ UNCHANGED outcome
      <3>1. loop.silences # 2 /\ loop.failures # MaxFailures
        BY <2>3 DEF TalkIInv, InvRound, Closing
      <3> QED BY <1>0, <1>5, <2>1, <2>3, <3>1, GoMoves, MovesInv
              DEF HermesExits, ClearTimers, Speechless, history
    <2>4. CASE UNCHANGED <<at, timers, outcome>>
      BY <1>5, <2>1, <2>4, AloneInv DEF HermesExits
    <2> QED BY <1>5, <2>2, <2>3, <2>4 DEF HermesExits
  <1> QED BY <1>1, <1>2, <1>3, <1>4, <1>5 DEF Hermes

-------------------------------------------------------------------------------
(* The caller, the call and the clock *)

\* The queue and the turn a waiter is handed; what the loop has done stays.
Hears ==
  /\ UNCHANGED <<direction, at, loop, speech, timers, hermes, reply, outcome, history>>
  /\ call' \in {"active", "ended"} /\ (call = "ended" => call' = "ended")
  /\ late' \in BOOLEAN /\ fragments' \in 0..MaxFragments
  /\ Whole(queue') /\ queue.sequence <= queue'.sequence
  /\ turn' \in SomeTurns \cup {NoTurn} /\ turn'.seq <= queue'.sequence
  /\ at # "waiting" => turn' = turn
  /\ at = "waiting" => IF turn' = NoTurn THEN queue'.sequence <= loop.after
                                         ELSE turn'.seq > loop.after

\* Such a step keeps the invariant: what was stale stays so.
LEMMA HearsInv == ASSUME TalkIInv, Talking, Hears PROVE TalkIInv'
  <1>1. /\ loop.after \in Nat /\ queue.sequence \in Nat /\ queue'.sequence \in Nat
        /\ turn.seq \in Nat /\ turn'.seq \in Nat
    <2>1. turn'.seq \in Nat
      BY DEF Hears, SomeTurns, NoTurn
    <2> QED BY <2>1, Known DEF Hears, Whole, Queues
  <1>2. TalkTypeOK'
    BY SMTT(30) DEF TalkIInv, TalkTypeOK, Hears, history, Whole, Queues
  <1>3. HangupAnnounced' /\ AnsweredInOrder' /\ InvRound'
    BY DEF TalkIInv, Hears, history, Talking, HangupAnnounced, AnsweredInOrder, InvRound
  <1>4. InvTurn'
    <2>1. loop'.after <= queue'.sequence
      BY <1>1 DEF TalkIInv, InvTurn, Hears
    <2> QED BY <2>1 DEF InvTurn, Hears
  <1>5. InvSpeech'
    BY DEF TalkIInv, Hears, InvSpeech, Orderly, Answering, Drained, Armed
  <1>6. InvAnswered'
    <2>1. at = "thinking" \/ Unsaid(speech) => turn' = turn
      BY DEF Hears, TalkIInv, InvSpeech, Drained, Unsaid, Answering, Speechless
    <2>2. /\ (at' = "thinking" \/ Unsaid(speech')) <=> (at = "thinking" \/ Unsaid(speech))
          /\ answered' = answered /\ loop' = loop
      BY DEF Hears, history
    <2> QED BY <2>1, <2>2 DEF TalkIInv, InvAnswered
  <1>7. at # "waiting" /\ Released => Released'
    <2>1. IsStale /\ turn' = turn => IsStale'
      BY <1>1 DEF TalkIInv, InvTurn, Whole, Hears, IsStale, Newer
    <2> QED BY <2>1 DEF Hears, Released, history
  <1>8. InvBye'
    BY <1>7 DEF TalkIInv, InvBye, Hears, history, Answering
  <1> QED BY <1>2, <1>3, <1>4, <1>5, <1>6, <1>8 DEF TalkIInv

\* Whoever waits is handed the new event, which is newer than what the loop has taken.
LEMMA Handed ==
  ASSUME TalkIInv, NEW q, Grown(queue, q)
  PROVE  /\ HandedBy(q) \in SomeTurns \cup {NoTurn} /\ HandedBy(q).seq <= q.sequence
         /\ at # "waiting" => HandedBy(q) = turn
         /\ at = "waiting" => HandedBy(q) # NoTurn /\ HandedBy(q).seq > loop.after
  <1>1. /\ q.sequence = queue.sequence + 1 /\ Latest(q) = q.sequence
        /\ Newest(q) \in SomeTurns /\ Newest(q).seq = q.sequence
    BY DEF Grown, Whole
  <1>2. /\ loop.after <= queue.sequence /\ turn.seq <= queue.sequence
        /\ loop.after \in Nat /\ queue.sequence \in Nat /\ turn.seq \in Nat
        /\ turn \in SomeTurns \cup {NoTurn}
    BY Known DEF TalkIInv, InvTurn
  <1>3. Newer(q, loop.after)
    BY <1>1, <1>2 DEF Newer
  <1>4. Newest(q) # NoTurn
    BY <1>1 DEF SomeTurns, NoTurn
  <1>5. CASE at = "waiting" /\ turn = NoTurn
    BY <1>1, <1>2, <1>3, <1>4, <1>5 DEF HandedBy
  <1>6. CASE ~(at = "waiting" /\ turn = NoTurn)
    <2>1. HandedBy(q) = turn
      BY <1>6 DEF HandedBy
    <2>2. at = "waiting" => turn.seq > loop.after
      BY <1>6 DEF TalkIInv, InvTurn
    <2>3. turn.seq <= q.sequence
      BY <1>1, <1>2
    <2> QED BY <1>2, <1>6, <2>1, <2>2, <2>3
  <1> QED BY <1>5, <1>6

\* The caller speaks or is silent, the call ends, or its time is over.
LEMMA CallerInv ==
  ASSUME TalkIInv, (\E text \in Texts : CallerSpeaks(text)) \/ TurnSettles \/ CallIsOver \/ TimeRunsOut
  PROVE  TalkIInv'
  <1>0. /\ Whole(queue) /\ turn.seq <= queue.sequence /\ queue.sequence \in Nat
        /\ turn \in SomeTurns \cup {NoTurn}
        /\ call \in {"active", "ended"} /\ late \in BOOLEAN /\ fragments \in 0..MaxFragments
        /\ at = "waiting" => IF turn = NoTurn THEN queue.sequence <= loop.after
                                              ELSE turn.seq > loop.after
    BY Known DEF TalkIInv, InvTurn, TalkTypeOK
  <1>1. ASSUME NEW text \in Texts, CallerSpeaks(text) PROVE TalkIInv'
    <2>1. PICK p : p = queue.pending \cup {text}
      OBVIOUS
    <2>2. p \in SUBSET Texts
      BY <2>1, Known DEF Queues
    <2>3. queue' = [queue EXCEPT !.pending = p]
      BY <1>1, <2>1 DEF CallerSpeaks
    <2>4. queue' \in Queues
      BY <2>2, <2>3, Known, QueueFields
    <2>5. queue'.events = queue.events /\ queue'.sequence = queue.sequence
      BY <2>3, Known DEF Queues
    <2>6. Whole(queue')
      BY <1>0, <2>4, <2>5 DEF Whole, Latest, Newest
    <2>7. fragments' \in 0..MaxFragments
      BY <1>0, <1>1, Bounds DEF CallerSpeaks
    <2>8. Hears
      BY <1>0, <1>1, <2>5, <2>6, <2>7 DEF CallerSpeaks, Hears, callVars
    <2> QED BY <1>1, <2>8, HearsInv DEF CallerSpeaks
  <1>2. CASE TurnSettles
    <2>1. Grown(queue, queue') /\ turn' = HandedBy(queue')
      BY <1>0, <1>2, FlushedGrows DEF TurnSettles
    <2>2. Whole(queue') /\ queue.sequence <= queue'.sequence
      BY <1>0, <2>1 DEF Grown
    <2>3. Hears
      BY <1>0, <1>2, <2>1, <2>2, Handed DEF TurnSettles, Hears, callVars
    <2> QED BY <1>2, <2>3, HearsInv DEF TurnSettles
  <1>3. CASE CallIsOver
    <2>1. PICK f : f = Flushed(queue)
      OBVIOUS
    <2>2. queue' = QueueAtEnd /\ Grown(f, queue')
      BY <1>0, <1>3, <2>1, EndGrows DEF CallIsOver
    <2>3. CASE queue.pending = {}
      <3>1. f = queue /\ turn' = HandedBy(queue')
        BY <1>0, <1>3, <2>1, <2>2, <2>3, FlushedGrows DEF CallIsOver
      <3>2. Grown(queue, queue')
        BY <2>2, <3>1
      <3>3. Whole(queue') /\ queue.sequence <= queue'.sequence
        BY <1>0, <3>2 DEF Grown
      <3>4. Hears
        BY <1>0, <1>3, <3>1, <3>2, <3>3, Handed DEF CallIsOver, Hears
      <3> QED BY <1>3, <3>4, HearsInv DEF CallIsOver
    <2>4. CASE queue.pending # {}
      <3>1. Grown(queue, f) /\ turn' = HandedBy(f)
        BY <1>0, <1>3, <2>1, <2>4, FlushedGrows DEF CallIsOver
      <3>2. /\ turn' \in SomeTurns \cup {NoTurn} /\ turn'.seq <= f.sequence
            /\ at # "waiting" => turn' = turn
            /\ at = "waiting" => turn' # NoTurn /\ turn'.seq > loop.after
        BY <3>1, Handed
      <3>3. Whole(queue') /\ queue'.sequence = f.sequence + 1 /\ f.sequence = queue.sequence + 1
        BY <2>2, <3>1 DEF Grown
      <3>4. turn'.seq \in Nat
        BY <3>2 DEF SomeTurns, NoTurn
      <3>5. queue.sequence <= queue'.sequence /\ turn'.seq <= queue'.sequence
        BY <1>0, <3>2, <3>3, <3>4
      <3>6. Hears
        BY <1>0, <1>3, <3>2, <3>3, <3>5 DEF CallIsOver, Hears
      <3> QED BY <1>3, <3>6, HearsInv DEF CallIsOver
    <2> QED BY <2>3, <2>4
  <1>4. CASE TimeRunsOut
    <2>1. Hears
      BY <1>0, <1>4 DEF TimeRunsOut, Hears
    <2> QED BY <1>4, <2>1, HearsInv DEF TimeRunsOut
  <1> QED BY <1>1, <1>2, <1>3, <1>4

-------------------------------------------------------------------------------
(* Speaking *)

\* The chain of speeches goes on by a step; the loop waits.
Speaks ==
  /\ UNCHANGED <<callVars, fragments, at, turn, loop, timers, hermes, reply, outcome, told>>
  /\ ~Drained /\ Whole(queue') /\ queue'.sequence = queue.sequence
  /\ Orderly(speech') /\ Len(speech'.jobs) <= Len(speech.jobs)
  /\ Answering(speech') => Answering(speech)
  /\ farewell' \in BOOLEAN /\ (farewell => farewell')

\* What is stale stays so.
LEMMA SpeaksStale == ASSUME TalkIInv, Speaks PROVE IsStale' = IsStale
  BY DEF TalkIInv, InvTurn, Whole, Speaks, IsStale, Newer

\* Such a step keeps the invariant, if it spoke what was to be spoken.
LEMMA SpeaksInv ==
  ASSUME TalkIInv, Talking, Speaks, answered' \in Seq(Nat), AnsweredInOrder', InvAnswered',
         speech'.running = "speaking" /\ speech'.jobs[1].bye => farewell',
         at \in {"prepared", "replying"} /\ reply.class = "goodbye" =>
           \/ Answering(speech') /\ speech'.jobs[Len(speech'.jobs)].bye
           \/ speech'.failed \/ speech'.interrupted \/ Released'
  PROVE  TalkIInv'
  <1>1. Len(speech.jobs) \in Nat /\ Len(speech'.jobs) \in Nat /\ speech' \in Speeches
    BY Known DEF Speaks, Orderly, Speeches
  <1>2. Len(speech'.jobs) <= 3
    BY <1>1 DEF TalkIInv, InvSpeech, Speaks
  <1>3. TalkTypeOK'
    BY <1>1, <1>2, SMTT(30) DEF TalkIInv, TalkTypeOK, Speaks, callVars, Whole, Queues, Speeches
  <1>4. HangupAnnounced' /\ InvRound'
    BY DEF TalkIInv, Speaks, Talking, HangupAnnounced, InvRound
  <1>5. InvTurn'
    BY DEF TalkIInv, Speaks, InvTurn
  <1>6. InvSpeech'
    <2>1. at \notin Speechless
      BY DEF TalkIInv, InvSpeech, Speaks
    <2>2. at = "thinking" => ~Answering(speech') /\ Len(speech'.jobs) + Armed' <= 2
      <3>1. Armed' = Armed /\ Armed \in {0, 1, 2}
        BY DEF Speaks, Armed
      <3> QED BY <1>1, <3>1 DEF TalkIInv, InvSpeech, Speaks
    <2> QED BY <1>2, <2>1, <2>2 DEF TalkIInv, InvSpeech, Speaks
  <1>7. InvBye'
    <2>1. at \notin Speechless /\ at' = at /\ reply' = reply
      BY DEF TalkIInv, InvSpeech, Speaks
    <2> QED BY <2>1 DEF InvBye, Speechless
  <1> QED BY <1>3, <1>4, <1>5, <1>6, <1>7 DEF TalkIInv

\* What was not to be spoken yet is not answered.
LEMMA AnsweredStays ==
  ASSUME TalkIInv, Speaks, answered' = answered, Unsaid(speech') => Unsaid(speech)
  PROVE  answered' \in Seq(Nat) /\ AnsweredInOrder' /\ InvAnswered'
  BY Known DEF TalkIInv, Speaks, AnsweredInOrder, InvAnswered

\* The first speech of the chain, which has one.
LEMMA FirstJob ==
  ASSUME TalkIInv, speech.jobs # <<>>
  PROVE  /\ ~Drained /\ Orderly(speech) /\ speech \in Speeches /\ Len(speech.jobs) \in Nat \ {0}
         /\ Head(speech.jobs) = speech.jobs[1] /\ speech.jobs[1] \in Jobs
         /\ Whole(queue)
         /\ farewell \in BOOLEAN
  <1>1. Orderly(speech) /\ speech \in Speeches /\ speech.jobs \in Seq(Jobs)
    BY Known DEF TalkIInv, InvSpeech, Speeches
  <1>2. Len(speech.jobs) \in Nat \ {0} /\ Head(speech.jobs) = speech.jobs[1] /\ speech.jobs[1] \in Jobs
    BY <1>1
  <1> QED BY <1>1, <1>2 DEF Drained, TalkIInv, InvTurn, TalkTypeOK

\* The first job of the chain is over: it was spoken, or is not to be.
LEMMA OverInv ==
  ASSUME TalkIInv, Talking, speech.jobs # <<>>, Advanced(speech, speech'),
         speech.interrupted => speech'.interrupted,
         UNCHANGED <<callVars, fragments, at, turn, loop, timers, hermes, reply, outcome, history>>,
         Whole(queue'), queue'.sequence = queue.sequence,
         Len(speech.jobs) = 1 /\ speech.jobs[1].bye => speech.interrupted \/ Released
  PROVE  TalkIInv'
  <1>1. /\ Orderly(speech') /\ speech'.running = "idle" /\ speech'.failed = speech.failed
        /\ Len(speech'.jobs) = Len(speech.jobs) - 1
        /\ Answering(speech') => /\ Len(speech.jobs) > 1 /\ Answering(speech)
                                 /\ speech'.jobs[Len(speech'.jobs)] = speech.jobs[Len(speech.jobs)]
        /\ speech'.jobs = <<>> <=> Len(speech.jobs) = 1
    <2>1. speech' \in Speeches /\ speech'.jobs \in Seq(Jobs)
      BY DEF Advanced, Orderly, Speeches
    <2>2. Len(speech'.jobs) = Len(speech.jobs) - 1 /\ Len(speech.jobs) \in Nat \ {0}
      BY FirstJob DEF Advanced
    <2>3. speech'.jobs = <<>> <=> Len(speech'.jobs) = 0
      BY <2>1
    <2>4. speech'.jobs = <<>> <=> Len(speech.jobs) = 1
      BY <2>2, <2>3
    <2>5. Answering(speech') => /\ Len(speech.jobs) > 1 /\ Answering(speech)
                                /\ speech'.jobs[Len(speech'.jobs)] = speech.jobs[Len(speech.jobs)]
      <3> SUFFICES ASSUME Answering(speech')
                   PROVE  /\ Len(speech.jobs) > 1 /\ Answering(speech)
                          /\ speech'.jobs[Len(speech'.jobs)] = speech.jobs[Len(speech.jobs)]
        OBVIOUS
      <3>1. speech'.jobs # <<>> /\ speech'.jobs[Len(speech'.jobs)].kind # "ack"
        BY DEF Answering
      <3>2. Len(speech.jobs) > 1 /\ speech'.jobs[Len(speech'.jobs)] = speech.jobs[Len(speech.jobs)]
        BY <3>1 DEF Advanced
      <3>3. speech.jobs[Len(speech.jobs)].kind # "ack"
        BY <3>1, <3>2
      <3> QED BY <3>2, <3>3 DEF Answering
    <2> QED BY <2>2, <2>4, <2>5 DEF Advanced
  <1>2. Speaks
    BY <1>1, FirstJob DEF Speaks, history
  <1>3. Unsaid(speech') => Unsaid(speech)
    BY <1>1, FirstJob DEF Unsaid
  <1>4. answered' \in Seq(Nat) /\ AnsweredInOrder' /\ InvAnswered'
    BY <1>2, <1>3, AnsweredStays DEF history
  <1>5. Released => Released'
    BY <1>2, SpeaksStale DEF Released, callVars, history
  <1>6. ASSUME at \in {"prepared", "replying"}, reply.class = "goodbye"
        PROVE  \/ Answering(speech') /\ speech'.jobs[Len(speech'.jobs)].bye
               \/ speech'.failed \/ speech'.interrupted \/ Released'
    <2>1. CASE Answering(speech) /\ speech.jobs[Len(speech.jobs)].bye
      <3>1. CASE Len(speech.jobs) = 1
        BY <1>5, <2>1, <3>1
      <3>2. CASE Len(speech.jobs) # 1
        <4>1. speech'.jobs # <<>>
          BY <1>1, <3>2
        <4>2. speech'.jobs[Len(speech'.jobs)] = speech.jobs[Len(speech.jobs)]
          BY <4>1 DEF Advanced
        <4> QED BY <2>1, <4>1, <4>2 DEF Answering
      <3> QED BY <3>1, <3>2
    <2>2. CASE ~(Answering(speech) /\ speech.jobs[Len(speech.jobs)].bye)
      BY <1>1, <1>5, <1>6, <2>2 DEF TalkIInv, InvBye
    <2> QED BY <2>1, <2>2
  <1> QED BY <1>1, <1>2, <1>4, <1>6, SpeaksInv

\* The first job goes on: its status has been asked for, or it is being spoken.
LEMMA OnInv ==
  ASSUME TalkIInv, Talking, speech.jobs # <<>>, NEW r \in {"status", "speaking"},
         speech.running # "speaking", speech' = [speech EXCEPT !.running = r],
         UNCHANGED <<callVars, fragments, queue, at, turn, loop, timers, hermes, reply, outcome, told>>,
         farewell' \in BOOLEAN, farewell => farewell',
         r = "speaking" /\ speech.jobs[1].bye => farewell',
         answered' = IF r = "speaking" /\ speech.jobs[1].kind # "ack"
                     THEN Append(answered, turn.seq) ELSE answered
  PROVE  TalkIInv'
  <1>1. /\ speech' \in Speeches /\ speech'.jobs = speech.jobs /\ speech'.running = r
        /\ speech'.failed = speech.failed /\ speech'.interrupted = speech.interrupted
    BY FirstJob, SpeechFields DEF Speeches
  <1>2. Orderly(speech')
    BY <1>1, FirstJob DEF Orderly
  <1>3. Speaks
    BY <1>1, <1>2, FirstJob DEF Speaks, Answering
  <1>4. answered' \in Seq(Nat) /\ AnsweredInOrder' /\ InvAnswered'
    <2>1. CASE r = "speaking" /\ speech.jobs[1].kind # "ack"
      <3>1. Len(speech.jobs) = 1 /\ Answering(speech) /\ Unsaid(speech)
        <4>1. 1 \in 1..Len(speech.jobs) /\ Len(speech.jobs) \in Nat \ {0}
          BY FirstJob
        <4>2. 1 < Len(speech.jobs) => speech.jobs[1].kind = "ack"
          BY <4>1, FirstJob DEF Orderly
        <4>3. Len(speech.jobs) = 1
          <5>1. PICK n : n = Len(speech.jobs)
            OBVIOUS
          <5>2. n \in Nat \ {0}
            BY <4>1, <5>1
          <5>3. ~(1 < n)
            BY <2>1, <4>2, <5>1
          <5>4. n = 1
            BY <5>2, <5>3
          <5> QED BY <5>1, <5>4
        <4>4. Answering(speech)
          BY <2>1, <4>3 DEF Answering
        <4> QED BY <4>3, <4>4 DEF Unsaid
      <3>2. at # "thinking"
        BY <3>1 DEF TalkIInv, InvSpeech
      <3>3. /\ turn.seq <= loop.after /\ \A k \in 1..Len(answered) : answered[k] < turn.seq
            /\ \A k \in 1..Len(answered) : answered[k] <= loop.after
        BY <3>1 DEF TalkIInv, InvAnswered
      <3>4. /\ answered' \in Seq(Nat) /\ Len(answered') = Len(answered) + 1
            /\ Len(answered) \in Nat /\ answered'[Len(answered) + 1] = turn.seq
            /\ \A k \in 1..Len(answered) : answered'[k] = answered[k]
        BY <2>1, Known
      <3>5. AnsweredInOrder'
        <4> SUFFICES ASSUME NEW j \in DOMAIN answered', NEW k \in DOMAIN answered', j < k
                     PROVE  answered'[j] < answered'[k]
          BY DEF AnsweredInOrder
        <4>1. j \in 1..Len(answered) /\ k \in 1..Len(answered) + 1
          BY <3>4
        <4>2. CASE k = Len(answered) + 1
          BY <3>3, <3>4, <4>1, <4>2
        <4>3. CASE k # Len(answered) + 1
          <5>1. k \in DOMAIN answered /\ j \in DOMAIN answered
            BY <3>4, <4>1, <4>3, Known
          <5>2. answered[j] < answered[k]
            BY <5>1 DEF TalkIInv, AnsweredInOrder
          <5> QED BY <3>4, <4>1, <5>1, <5>2
        <4> QED BY <4>2, <4>3
      <3>6. \A k \in 1..Len(answered') : answered'[k] <= loop.after
        BY <3>3, <3>4
      <3>7. ~Unsaid(speech') /\ at' # "thinking" /\ loop' = loop
        BY <1>1, <2>1, <3>1, <3>2 DEF Unsaid
      <3> QED BY <3>4, <3>5, <3>6, <3>7 DEF InvAnswered
    <2>2. CASE ~(r = "speaking" /\ speech.jobs[1].kind # "ack")
      <3>1. Unsaid(speech') => Unsaid(speech)
        BY <1>1 DEF Unsaid, Answering
      <3> QED BY <1>3, <2>2, <3>1, AnsweredStays
    <2> QED BY <2>1, <2>2
  <1>5. Released => Released'
    BY <1>3, SpeaksStale DEF Released, callVars
  <1>6. at \in {"prepared", "replying"} /\ reply.class = "goodbye" =>
           \/ Answering(speech') /\ speech'.jobs[Len(speech'.jobs)].bye
           \/ speech'.failed \/ speech'.interrupted \/ Released'
    BY <1>1, <1>5 DEF TalkIInv, InvBye, Answering
  <1> QED BY <1>1, <1>3, <1>4, <1>6, SpeaksInv

\* The chain fails: the process dies, or the round has to recover.
LEMMA ChainFailsInv ==
  ASSUME TalkIInv, Talking, speech.jobs # <<>>, ChainFails,
         UNCHANGED <<callVars, fragments, queue, turn, loop, hermes, reply, history>>
  PROVE  TalkIInv'
  <1>1. CASE at = "thinking"
    BY <1>1, Known, FinishMoves, MovesInv DEF ChainFails, Outcomes, history
  <1>2. CASE at # "thinking"
    <2>1. PICK a : a = [speech EXCEPT !.jobs = <<>>]
      OBVIOUS
    <2>2. a \in Speeches /\ a.jobs = <<>>
      <3>1. <<>> \in Seq(Jobs)
        OBVIOUS
      <3>2. a \in Speeches
        BY <2>1, <3>1, FirstJob, SpeechFields
      <3> QED BY <2>1, <3>2, FirstJob DEF Speeches
    <2>3. PICK b : b = [a EXCEPT !.running = "idle"]
      OBVIOUS
    <2>4. b \in Speeches /\ b.jobs = <<>> /\ b.running = "idle"
      BY <2>2, <2>3, SpeechFields DEF Speeches
    <2>5. PICK c : c = [b EXCEPT !.failed = TRUE]
      OBVIOUS
    <2>6. c \in Speeches /\ c.jobs = <<>> /\ c.running = "idle" /\ c.failed = TRUE
      BY <2>4, <2>5, SpeechFields DEF Speeches
    <2>7. speech' = c
      <3>1. speech' = [speech EXCEPT !.jobs = <<>>, !.running = "idle", !.failed = TRUE]
        BY <1>2 DEF ChainFails
      <3> QED BY <2>1, <2>3, <2>5, <3>1
    <2>8. Orderly(speech') /\ Len(speech'.jobs) = 0 /\ ~Answering(speech')
      BY <2>6, <2>7 DEF Orderly, Answering
    <2>9. Speaks
      BY <1>2, <2>8, FirstJob DEF Speaks, ChainFails, history
    <2>10. answered' \in Seq(Nat) /\ AnsweredInOrder' /\ InvAnswered'
      BY <2>8, <2>9, AnsweredStays DEF Unsaid, history
    <2> QED BY <2>6, <2>7, <2>9, <2>10, SpeaksInv
  <1> QED BY <1>1, <1>2

\* A speech starts, is about to be spoken, or ends.
LEMMA SpeakingInv == ASSUME TalkIInv, Speaking PROVE TalkIInv'
  <1>1. CASE SpeechStarts
    <2>1. speech.jobs # <<>> /\ Talking
      BY <1>1 DEF SpeechStarts
    <2>2. CASE Skips(Head(speech.jobs)) /\ speech' = Popped(speech)
      <3>1. Advanced(speech, speech') /\ speech'.interrupted = speech.interrupted
        BY <2>1, <2>2, FirstJob, PoppedAdvances
      <3>2. speech.interrupted \/ Released
        BY <2>2 DEF Skips, Released
      <3> QED BY <1>1, <2>1, <3>1, <3>2, FirstJob, OverInv DEF SpeechStarts
    <2>3. CASE speech' = [speech EXCEPT !.running = "status"]
      BY <1>1, <2>1, <2>3, FirstJob, OnInv DEF SpeechStarts, history
    <2> QED BY <1>1, <2>2, <2>3 DEF SpeechStarts
  <1>2. CASE SpeechStatus
    <2>1. speech.jobs # <<>> /\ Talking /\ speech.running = "status"
      BY <1>2 DEF SpeechStatus, TalkIInv, InvSpeech, Orderly
    <2>2. CASE call = "ended" /\ speech' = Popped(speech)
               /\ UNCHANGED <<at, outcome, timers, answered, farewell>>
      <3>1. Advanced(speech, speech') /\ speech'.interrupted = speech.interrupted
        BY <2>1, <2>2, FirstJob, PoppedAdvances
      <3>2. Released
        BY <2>2 DEF Released
      <3> QED BY <1>2, <2>1, <2>2, <3>1, <3>2, FirstJob, OverInv DEF SpeechStatus, history
    <2>3. CASE /\ speech' = [speech EXCEPT !.running = "speaking"]
               /\ answered' = IF Head(speech.jobs).kind = "ack" THEN answered
                              ELSE Append(answered, turn.seq)
               /\ farewell' = (farewell \/ Head(speech.jobs).bye)
               /\ UNCHANGED <<at, outcome, timers>>
      <3>1. speech.jobs[1].bye \in BOOLEAN /\ Head(speech.jobs) = speech.jobs[1]
        BY <2>1, FirstJob DEF Jobs
      <3>2. /\ farewell' \in BOOLEAN /\ (farewell => farewell')
            /\ speech.jobs[1].bye => farewell'
        BY <2>1, <2>3, <3>1, FirstJob, Zenon
      <3> QED BY <1>2, <2>1, <2>3, <3>1, <3>2, FirstJob, OnInv DEF SpeechStatus
    <2>4. CASE ChainFails /\ UNCHANGED <<answered, farewell>>
      BY <1>2, <2>1, <2>4, ChainFailsInv DEF SpeechStatus, history
    <2> QED BY <1>2, <2>2, <2>3, <2>4 DEF SpeechStatus
  <1>3. CASE SpeechEnds
    <2>1. speech.jobs # <<>> /\ Talking /\ speech.running = "speaking"
      BY <1>3 DEF SpeechEnds, TalkIInv, InvSpeech, Orderly
    <2>2. Advanced(speech, Popped(speech)) /\ Popped(speech).interrupted = speech.interrupted
      BY <2>1, FirstJob, PoppedAdvances
    <2>3. speech.jobs[1].bye => Released
      BY <2>1 DEF TalkIInv, InvBye, Released
    <2>4. CASE speech' = Popped(speech) /\ UNCHANGED <<queue, at, outcome, timers>>
      BY <1>3, <2>1, <2>2, <2>3, <2>4, FirstJob, OverInv DEF SpeechEnds
    <2>5. CASE /\ speech' = [Popped(speech) EXCEPT !.interrupted = TRUE]
               /\ queue' = [queue EXCEPT !.cut = call = "active"]
               /\ UNCHANGED <<at, outcome, timers>>
      <3>1. Advanced(speech, speech') /\ speech'.interrupted = TRUE
        BY <2>1, <2>5, FirstJob, PoppedAdvances
      <3>2. PICK b : b = (call = "active")
        OBVIOUS
      <3>3. queue' = [queue EXCEPT !.cut = b] /\ b \in BOOLEAN
        BY <2>5, <3>2
      <3>4. queue' \in Queues
        BY <3>3, Known, QueueFields
      <3>5. queue'.events = queue.events /\ queue'.sequence = queue.sequence
        BY <3>3, Known DEF Queues
      <3>6. Whole(queue')
        BY <2>1, <3>4, <3>5, FirstJob DEF Whole, Latest, Newest
      <3> QED BY <1>3, <2>1, <2>3, <2>5, <3>1, <3>5, <3>6, OverInv DEF SpeechEnds
    <2>6. CASE ChainFails /\ UNCHANGED queue
      BY <1>3, <2>1, <2>6, ChainFailsInv DEF SpeechEnds
    <2> QED BY <1>3, <2>4, <2>5, <2>6 DEF SpeechEnds
  <1> QED BY <1>1, <1>2, <1>3 DEF Speaking

-------------------------------------------------------------------------------
(* The start of a round *)

\* A waiter is handed the newest turn, if the loop has not taken it, or nothing.
LEMMA Awaited ==
  ASSUME TalkIInv
  PROVE  /\ Waiter \in SomeTurns \cup {NoTurn} /\ Waiter.seq <= queue.sequence
         /\ IF Waiter = NoTurn THEN queue.sequence <= loop.after ELSE Waiter.seq > loop.after
  <1>1. /\ queue.sequence \in Nat /\ loop.after \in Nat /\ queue \in Queues
        /\ Latest(queue) = queue.sequence /\ queue.events \in Seq(SomeTurns)
    BY Known DEF TalkIInv, InvTurn, Whole, Queues
  <1>2. CASE Newer(queue, loop.after)
    <2>1. queue.sequence > loop.after
      BY <1>1, <1>2 DEF Newer
    <2>2. queue.events # <<>>
      BY <1>1, <2>1 DEF Latest
    <2>3. Newest(queue).seq = queue.sequence
      BY <1>1, <2>2 DEF Latest
    <2>4. Newest(queue) \in SomeTurns
      BY <1>1, <2>2 DEF Newest
    <2>5. Waiter = Newest(queue)
      BY <1>2 DEF Waiter
    <2>6. Newest(queue) # NoTurn
      BY <2>4 DEF SomeTurns, NoTurn
    <2> QED BY <1>1, <2>1, <2>3, <2>4, <2>5, <2>6
  <1>3. CASE ~Newer(queue, loop.after)
    <2>1. Waiter = NoTurn /\ NoTurn.seq = 0
      BY <1>3 DEF Waiter, NoTurn
    <2>2. queue.sequence <= loop.after
      BY <1>1, <1>3 DEF Newer
    <2> QED BY <1>1, <2>1, <2>2
  <1> QED BY <1>2, <1>3

\* The loop asks for the status of the call and waits for a turn.
LEMMA RoundInv == ASSUME TalkIInv, RoundStatus PROVE TalkIInv'
  <1>1. ASSUME NEW r \in {"call_ended", "threw"}, Finish(r), UNCHANGED turn
        PROVE  TalkIInv'
    <2>1. Moves
      BY <1>1, FinishMoves, Known DEF RoundStatus, Outcomes, history
    <2> QED BY <2>1, MovesInv DEF RoundStatus
  <1>2. CASE at' = "waiting" /\ turn' = Waiter /\ UNCHANGED <<outcome, timers>>
    <2>1. /\ UNCHANGED <<callVars, fragments, queue, loop, speech, hermes, reply, history>>
          /\ at = "status" /\ outcome = "none" /\ outcome' = "none" /\ timers' = timers
      BY <1>2 DEF RoundStatus, Talking
    <2>2. turn' \in SomeTurns \cup {NoTurn} /\ turn'.seq <= queue.sequence
          /\ IF turn' = NoTurn THEN queue.sequence <= loop.after ELSE turn'.seq > loop.after
      BY <1>2, Awaited
    <2>3. TalkTypeOK'
      BY <1>2, <2>1, <2>2 DEF TalkIInv, TalkTypeOK, callVars, history, Places
    <2>4. HangupAnnounced' /\ AnsweredInOrder' /\ InvRound'
      BY <1>2, <2>1 DEF TalkIInv, HangupAnnounced, AnsweredInOrder, InvRound, Closing, history
    <2>5. InvTurn'
      BY <2>1, <2>2 DEF TalkIInv, InvTurn, Whole, Latest, Newest
    <2>6. InvSpeech' /\ Drained
      BY <1>2, <2>1 DEF TalkIInv, InvSpeech, Orderly, Answering, Drained, Speechless
    <2>7. InvAnswered'
      BY <1>2, <2>1, <2>6 DEF TalkIInv, InvAnswered, Unsaid, Answering, Drained, history
    <2>8. InvBye'
      BY <1>2, <2>1, <2>6 DEF InvBye, Drained
    <2> QED BY <2>3, <2>4, <2>5, <2>6, <2>7, <2>8 DEF TalkIInv
  <1> QED BY <1>1, <1>2 DEF RoundStatus

\* The loop takes the turn it was handed: nothing is left of the rounds before.
Begins ==
  /\ at = "waiting" /\ turn.status = "turn" /\ at' \in {"prepared", "thinking"}
  /\ UNCHANGED <<callVars, fragments, queue, turn, outcome, answered, farewell>>
  /\ Takes(loop, loop', turn.seq)
  /\ Orderly(speech') /\ Len(speech'.jobs) <= 1 /\ speech'.running = "idle"
  /\ timers' \subseteq {"first", "followUp"} /\ (at' = "prepared" => timers' = {})
  /\ at' = "thinking" => speech'.jobs = <<>>
  /\ hermes' \in Minds /\ reply' \in Answers /\ told' \in SUBSET Nat
  /\ at' = "prepared" /\ reply'.class = "goodbye" =>
       Answering(speech') /\ speech'.jobs[Len(speech'.jobs)].bye

\* Such a step keeps the invariant: the turn is newer than any that was answered.
LEMMA BeginsInv == ASSUME TalkIInv, Talking, Begins PROVE TalkIInv'
  <1>1. /\ turn \in SomeTurns /\ turn # NoTurn /\ turn.seq \in Nat /\ loop.after \in Nat
        /\ queue.sequence \in Nat /\ answered \in Seq(Nat)
    BY Known DEF Begins, NoTurn
  <1>2. turn.seq > loop.after /\ turn.seq <= queue.sequence
    BY <1>1 DEF Begins, TalkIInv, InvTurn
  <1>3. /\ loop' \in Loops /\ loop'.after = turn.seq /\ loop'.silences = 0
        /\ loop'.failures # MaxFailures
    BY DEF Begins, Takes, TalkIInv, InvRound, Closing
  <1>4. speech' \in Speeches /\ Len(speech'.jobs) \in Nat
    BY DEF Begins, Orderly, Speeches
  <1>5. TalkTypeOK'
    <2>1. Len(speech'.jobs) <= 3
      BY <1>4 DEF Begins
    <2> QED BY <1>3, <1>4, <2>1 DEF TalkIInv, TalkTypeOK, Begins, callVars, Loops, Speeches, Minds, Answers, Places
  <1>6. HangupAnnounced' /\ AnsweredInOrder' /\ InvRound'
    BY <1>3 DEF TalkIInv, Begins, Talking, HangupAnnounced, AnsweredInOrder, InvRound
  <1>7. InvTurn'
    BY <1>2, <1>3 DEF TalkIInv, InvTurn, Begins, Whole, Latest, Newest
  <1>8. InvSpeech'
    <2>1. Len(speech'.jobs) <= 3
      BY <1>4 DEF Begins
    <2>2. at' = "thinking" => ~Answering(speech') /\ Len(speech'.jobs) + Armed' <= 2
      <3>1. Armed' \in {0, 1, 2}
        BY DEF Armed
      <3>2. speech'.jobs = <<>> => Len(speech'.jobs) = 0
        OBVIOUS
      <3> QED BY <3>1, <3>2 DEF Begins, Answering
    <2>3. at' \notin Speechless /\ (at' # "thinking" => timers' = {})
      BY DEF Begins, Speechless
    <2> QED BY <2>1, <2>2, <2>3 DEF InvSpeech, Begins
  <1>9. InvAnswered'
    <2>1. ASSUME NEW k \in 1..Len(answered) PROVE answered[k] < turn.seq /\ answered[k] <= turn.seq
      <3>1. answered[k] \in Nat /\ answered[k] <= loop.after
        BY <1>1 DEF TalkIInv, InvAnswered
      <3> QED BY <1>1, <1>2, <3>1
    <2>2. answered' = answered /\ turn' = turn /\ turn.seq <= turn.seq
      BY <1>1 DEF Begins
    <2> QED BY <1>3, <2>1, <2>2 DEF InvAnswered
  <1>10. InvBye'
    BY DEF Begins, InvBye
  <1> QED BY <1>5, <1>6, <1>7, <1>8, <1>9, <1>10 DEF TalkIInv

\* The turn has a prepared reply, or goes to Hermes.
LEMMA TakeInv == ASSUME TalkIInv, TakePreparedTurn \/ AskHermes PROVE TalkIInv'
  <1>0. /\ turn \in SomeTurns /\ loop \in Loops /\ hermes \in Minds /\ reply \in Answers
        /\ turn.seq \in Nat /\ turn.prev \in Nat /\ told \in SUBSET Nat
        /\ loop.ledger \in SUBSET Nat /\ timers = {}
    BY Known DEF TakePreparedTurn, AskHermes, NoTurn, TalkIInv, InvSpeech
  <1>1. CASE TakePreparedTurn
    <2>1. PICK u, v : u = UsedAfter(turn.text) /\ v = VerifyAfter(turn.text)
      OBVIOUS
    <2>2. u \in SUBSET Intents /\ v \in BOOLEAN
      BY <1>0, <2>1, Prepares
    <2>3. PICK a : a = [Taken(turn) EXCEPT !.used = u]
      OBVIOUS
    <2>4. Takes(loop, a, turn.seq)
      BY <1>0, <2>2, <2>3, TakenTurn, TakenSet
    <2>5. PICK b : b = [a EXCEPT !.verify = v]
      OBVIOUS
    <2>6. Takes(loop, b, turn.seq)
      BY <2>2, <2>4, <2>5, TakenSet
    <2>7. loop' = b
      <3>1. loop' = [Taken(turn) EXCEPT !.used = u, !.verify = v]
        BY <1>1, <2>1 DEF TakePreparedTurn
      <3> QED BY <2>3, <2>5, <3>1
    <2>8. PICK job : job = PreparedJob(turn.text)
      OBVIOUS
    <2>9. /\ job \in Jobs /\ (job.bye => ~job.cuttable) /\ job.kind = "prepared"
          /\ job.safe \in BOOLEAN
      <3>1. PICK c, d : c = (Intent(turn.text) \in {"attention", "verification_retry"})
                        /\ d = (Intent(turn.text) = "closing")
        OBVIOUS
      <3>2. c \in BOOLEAN /\ d \in BOOLEAN
        BY <3>1
      <3>3. job = [kind |-> "prepared", safe |-> c, cuttable |-> ~c /\ ~d, bye |-> d]
        BY <2>8, <3>1 DEF PreparedJob
      <3> QED BY <3>2, <3>3 DEF Jobs
    <2>10. /\ speech' = [SilentSpeech EXCEPT !.jobs = <<job>>]
           /\ reply' = [class |-> IF job.bye THEN "goodbye" ELSE "answer",
                        for |-> turn.seq, safe |-> job.safe]
      BY <1>1, <2>8 DEF TakePreparedTurn
    <2>11. Orderly(speech') /\ speech'.jobs = <<job>> /\ speech'.running = "idle"
      BY <2>9, <2>10, SilentOrderly
    <2>12. Len(speech'.jobs) = 1 /\ speech'.jobs[1] = job /\ speech'.jobs # <<>>
      BY <2>11
    <2>13. reply' \in Answers /\ (reply'.class = "goodbye" => job.bye)
      BY <1>0, <2>9, <2>10 DEF Answers
    <2>14. Answering(speech')
      BY <2>9, <2>12 DEF Answering
    <2>15. Begins
      BY <1>0, <1>1, <2>6, <2>7, <2>11, <2>12, <2>13, <2>14
         DEF TakePreparedTurn, Begins, history
    <2> QED BY <1>1, <2>15, BeginsInv DEF TakePreparedTurn
  <1>2. CASE AskHermes
    <2>1. PICK v : v = VerifyAfter(turn.text)
      OBVIOUS
    <2>2. v \in BOOLEAN
      BY <1>0, <2>1, Prepares
    <2>3. loop' = [Taken(turn) EXCEPT !.verify = v]
      BY <1>2, <2>1 DEF AskHermes
    <2>4. Takes(loop, loop', turn.seq)
      BY <1>0, <2>2, <2>3, TakenTurn, TakenSet
    <2>5. Orderly(speech') /\ speech'.jobs = <<>> /\ speech'.running = "idle"
      <3>1. PICK job \in Jobs : job = [kind |-> "ack", safe |-> FALSE, cuttable |-> FALSE, bye |-> FALSE]
        BY DEF Jobs
      <3>2. job.bye => ~job.cuttable
        BY <3>1
      <3>3. speech' = SilentSpeech
        BY <1>2 DEF AskHermes
      <3> QED BY <3>2, <3>3, SilentOrderly
    <2>6. hermes' \in Minds
      <3>1. PICK p : p = Append(hermes.prompts, turn.seq)
        OBVIOUS
      <3>2. p \in Seq(Nat)
        BY <1>0, <3>1 DEF Minds
      <3>3. hermes' \in {hermes, [hermes EXCEPT !.prompts = p]}
        BY <1>2, <3>1 DEF AskHermes, Submitted
      <3> QED BY <1>0, <3>2, <3>3, MindFields
    <2>7. told' \in SUBSET Nat
      BY <1>0, <1>2 DEF AskHermes, ToldBy
    <2>8. timers' \subseteq {"first", "followUp"}
      BY <1>2 DEF AskHermes
    <2>9. Len(speech'.jobs) <= 1
      BY <2>5
    <2>10. Begins
      BY <1>0, <1>2, <2>4, <2>5, <2>6, <2>7, <2>8, <2>9 DEF AskHermes, Begins
    <2> QED BY <1>2, <2>10, BeginsInv DEF AskHermes
  <1> QED BY <1>1, <1>2

\* An acknowledgement timer fires while Hermes is awaited.
LEMMA AcknowledgeInv ==
  ASSUME TalkIInv, NEW timer \in {"first", "followUp"}, AcknowledgeNow(timer)
  PROVE  TalkIInv'
  <1>1. /\ Talking /\ timer \in timers /\ timers' = timers \ {timer}
        /\ speech' = IF IsStale THEN speech ELSE Queued(speech, "ack", TRUE, FALSE)
        /\ UNCHANGED <<callVars, fragments, queue, at, turn, loop, hermes, reply, outcome, history>>
    BY DEF AcknowledgeNow
  <1>2. /\ at = "thinking" /\ Orderly(speech) /\ ~Answering(speech)
        /\ Len(speech.jobs) + Armed <= 2 /\ Len(speech.jobs) \in Nat
    BY <1>1, Known DEF TalkIInv, InvSpeech, Speeches
  <1>3. Armed \in {1, 2} /\ Armed' = Armed - 1
    BY <1>1 DEF Armed
  <1>4. /\ Orderly(speech') /\ ~Answering(speech')
        /\ Len(speech'.jobs) \in {Len(speech.jobs), Len(speech.jobs) + 1}
        /\ speech.jobs # <<>> => speech'.jobs[1] = speech.jobs[1]
        /\ speech'.running = speech.running
    <2>1. CASE IsStale
      BY <1>1, <1>2, <2>1
    <2>2. CASE ~IsStale
      <3>1. speech' = Queued(speech, "ack", TRUE, FALSE)
        BY <1>1, <2>2
      <3>2. "ack" \in {"ack", "prepared", "response"} /\ TRUE \in BOOLEAN /\ FALSE \in BOOLEAN
        OBVIOUS
      <3>3. Extended(speech, speech', "ack", FALSE)
        BY <1>2, <3>1, <3>2, QueuedOrderly
      <3> QED BY <3>3 DEF Extended, Answering
    <2> QED BY <2>1, <2>2
  <1>5. speech' \in Speeches /\ Len(speech'.jobs) + Armed' <= 2 /\ Len(speech'.jobs) <= 3
    BY <1>2, <1>3, <1>4 DEF Orderly
  <1>6. TalkTypeOK'
    <2>1. timers' \subseteq {"first", "followUp"}
      BY <1>1 DEF TalkIInv, TalkTypeOK
    <2>2. UNCHANGED <<callVars, fragments, queue, at, turn, loop, hermes, reply, outcome, history>>
      BY <1>1
    <2>3. TalkTypeOK
      BY DEF TalkIInv
    <2> QED BY <1>5, <2>1, <2>2, <2>3, SMTT(30) DEF TalkTypeOK, callVars, history, Speeches
  <1>7. HangupAnnounced' /\ AnsweredInOrder' /\ InvRound' /\ InvTurn'
    BY <1>1 DEF TalkIInv, Talking, HangupAnnounced, AnsweredInOrder, InvRound, InvTurn, history,
                Whole, Latest, Newest
  <1>8. InvSpeech'
    BY <1>1, <1>2, <1>4, <1>5 DEF InvSpeech, Speechless
  <1>9. InvAnswered'
    BY <1>1, <1>2 DEF TalkIInv, InvAnswered, history
  <1>10. InvBye'
    <2>1. speech'.running = "speaking" => speech.jobs # <<>>
      BY <1>2, <1>4 DEF Orderly
    <2>2. speech'.running = "speaking" /\ speech'.jobs[1].bye => farewell'
      BY <1>1, <1>4, <2>1 DEF TalkIInv, InvBye, history
    <2>3. at' = "thinking"
      BY <1>1, <1>2
    <2> QED BY <2>2, <2>3 DEF InvBye
  <1> QED BY <1>6, <1>7, <1>8, <1>9, <1>10 DEF TalkIInv

-------------------------------------------------------------------------------
(* The theorems *)

\* A conversation begins with an empty queue and a silent agent.
LEMMA InitInv == TalkInit => TalkIInv
  <1> SUFFICES ASSUME TalkInit PROVE TalkIInv
    OBVIOUS
  <1>1. TalkTypeOK
    <2>1. queue \in Queues /\ Len(queue.events) <= KeepEvents
      BY Bounds DEF TalkInit, Queues
    <2>2. loop \in Loops
      <3>1. 0 \in 0..MaxFailures /\ 0 \in 0..2 /\ {} \in SUBSET Intents /\ {} \in SUBSET Nat
        BY Bounds
      <3> QED BY <3>1 DEF TalkInit, Loops
    <2>3. speech \in Speeches /\ Len(speech.jobs) <= 3
      BY DEF TalkInit, Speeches, SilentSpeech
    <2>4. hermes \in Minds /\ reply \in Answers
      BY DEF TalkInit, Minds, Answers, NoReply
    <2>5. fragments \in 0..MaxFragments /\ answered \in Seq(Nat) /\ turn = NoTurn
      BY Bounds DEF TalkInit
    <2>6. /\ direction \in {"incoming", "outgoing"} /\ call = "active" /\ late = FALSE
          /\ at = "status" /\ timers = {} /\ outcome = "none" /\ told = {} /\ farewell = FALSE
      BY DEF TalkInit
    <2> QED BY <2>1, <2>2, <2>3, <2>4, <2>5, <2>6
            DEF TalkTypeOK, Queues, Loops, Speeches, Minds, Answers, Places, Outcomes
  <1>2. HangupAnnounced /\ AnsweredInOrder /\ InvRound /\ InvTurn
    <2>1. HangupAnnounced /\ AnsweredInOrder /\ InvRound
      BY Bounds DEF TalkInit, HangupAnnounced, AnsweredInOrder, InvRound
    <2>2. queue \in Queues /\ Len(queue.events) <= KeepEvents
      BY <1>1 DEF TalkTypeOK, Queues
    <2>3. Latest(queue) = queue.sequence /\ queue.sequence = 0 /\ loop.after = 0 /\ turn.seq = 0
      BY DEF TalkInit, Latest, NoTurn
    <2> QED BY <2>1, <2>2, <2>3 DEF InvTurn, Whole, TalkInit
  <1>3. InvSpeech
    <2>1. speech \in Speeches
      BY <1>1 DEF TalkTypeOK, Speeches
    <2> QED BY <2>1 DEF TalkInit, InvSpeech, Orderly, SilentSpeech, Drained
  <1>4. InvAnswered /\ InvBye
    BY DEF TalkInit, InvAnswered, InvBye, Unsaid, Answering, SilentSpeech
  <1> QED BY <1>1, <1>2, <1>3, <1>4 DEF TalkIInv

\* Every step keeps the invariant.
LEMMA NextInv == TalkIInv /\ [TalkNext]_talkVars => TalkIInv'
  <1> SUFFICES ASSUME TalkIInv, [TalkNext]_talkVars PROVE TalkIInv'
    OBVIOUS
  <1>1. CASE (\E text \in Texts : CallerSpeaks(text)) \/ TurnSettles \/ CallIsOver \/ TimeRunsOut
    BY <1>1, CallerInv
  <1>2. CASE Loop
    <2>1. ASSUME Moves PROVE TalkIInv'
      BY <1>2, <2>1, MovesInv
         DEF Loop, RoundStatus, Silence, SilenceStatus, SilenceSpoken, SilenceHangup, EndHeard,
             SuppressTurn, TakePreparedTurn, AskHermes, PreparedSpoken, PreparedHangup, ReplySpoken,
             Hangup, Recover, RecoveryStatus, RecoverySpoken, ClosingStatus, ClosingSpoken,
             ClosingHangup
    <2>2. CASE Silence \/ SilenceStatus \/ SilenceSpoken \/ SilenceHangup \/ EndHeard
      BY <2>1, <2>2, SilenceMoves
    <2>3. CASE SuppressTurn \/ PreparedSpoken \/ PreparedHangup \/ ReplySpoken \/ Hangup
      BY <2>1, <2>3, SpokenMoves
    <2>4. CASE \/ Recover \/ RecoveryStatus \/ RecoverySpoken
               \/ ClosingStatus \/ ClosingSpoken \/ ClosingHangup
      BY <2>1, <2>4, RecoveryMoves
    <2>5. CASE RoundStatus
      BY <2>5, RoundInv
    <2>6. CASE TakePreparedTurn \/ AskHermes
      BY <2>6, TakeInv
    <2> QED BY <1>2, <2>2, <2>3, <2>4, <2>5, <2>6 DEF Loop
  <1>3. CASE Speaking
    BY <1>3, SpeakingInv
  <1>4. CASE Hermes
    BY <1>4, HermesInv
  <1>5. CASE \E timer \in {"first", "followUp"} : AcknowledgeNow(timer)
    BY <1>5, AcknowledgeInv
  <1>6. CASE UNCHANGED talkVars
    <2>1. hermes' \in Minds
      BY <1>6, Known DEF talkVars
    <2> QED BY <1>6, <2>1, AloneInv DEF talkVars, callVars, history
  <1> QED BY <1>1, <1>2, <1>3, <1>4, <1>5, <1>6 DEF TalkNext

\* The inductive invariant of the conversation.
THEOREM TalkInductive == TalkSpec => []TalkIInv
  BY InitInv, NextInv, PTL DEF TalkSpec

\* The loop speaks itself only when the chain of the round is done.
LEMMA AloneSpeaks == TalkIInv => OneVoice
  BY DEF TalkIInv, InvSpeech, OneVoice, Drained, Speechless

\* In every conversation the caller is answered in order, every turn at most once, by one
\* voice at a time, and the agent hangs up only after a farewell or over a goodbye the
\* caller has talked past (superviseHermesTurns, its speechChain and VoiceTurnQueue).
THEOREM Conversing == TalkSpec => []ConversationInv
  <1>1. TalkIInv => ConversationInv
    BY AloneSpeaks DEF TalkIInv, ConversationInv
  <1> QED BY <1>1, TalkInductive, PTL

\* Only a round that was handed nothing counts as silence, and whoever waits is handed
\* everything that is newer: the agent never leaves for silence a caller who has spoken
\* (waitForTurn and #publish).
THEOREM SilenceCounts == TalkSpec => SilenceIsReal
  <1>1. ASSUME TalkIInv, TalkNext PROVE loop'.silences > loop.silences => ~Newer(queue, loop.after)
    <2>1. loop.silences \in Nat
      BY <1>1, Known
    <2>2. CASE Silence
      <3>1. at = "waiting" /\ turn = NoTurn
        BY <2>2 DEF Silence
      <3>2. queue.sequence <= loop.after /\ Latest(queue) = queue.sequence
        BY <1>1, <3>1 DEF TalkIInv, InvTurn, Whole
      <3>3. queue.sequence \in Nat /\ loop.after \in Nat
        BY <1>1, Known
      <3> QED BY <3>2, <3>3 DEF Newer
    <2>3. CASE loop'.silences = loop.silences \/ loop'.silences = 0
      BY <2>1, <2>3
    <2>4. CASE (\E text \in Texts : CallerSpeaks(text)) \/ TurnSettles \/ CallIsOver \/ TimeRunsOut
      BY <2>3, <2>4 DEF CallerSpeaks, TurnSettles, CallIsOver, TimeRunsOut
    <2>5. CASE Loop
      <3>1. /\ Remembered.silences = loop.silences
            /\ [loop EXCEPT !.failures = loop.failures + 1].silences = loop.silences
        BY <1>1, Known, RememberedLoop DEF Loops
      <3>2. CASE SuppressTurn \/ TakePreparedTurn \/ AskHermes
        <4>1. turn \in SomeTurns /\ loop \in Loops
          <5>1. turn.status = "turn"
            BY <3>2, Zenon DEF SuppressTurn, TakePreparedTurn, AskHermes
          <5>2. turn # NoTurn
            BY <5>1 DEF NoTurn
          <5> QED BY <1>1, <5>2, Known
        <4>2. Taken(turn) \in Loops /\ Taken(turn).silences = 0
          BY <4>1, TakenTurn DEF Takes
        <4>3. CASE SuppressTurn
          BY <2>3, <4>2, <4>3 DEF SuppressTurn
        <4>4. CASE TakePreparedTurn
          BY <2>3, <4>2, <4>4 DEF TakePreparedTurn, Loops
        <4>5. CASE AskHermes
          BY <2>3, <4>2, <4>5 DEF AskHermes, Loops
        <4> QED BY <3>2, <4>3, <4>4, <4>5
      <3>3. CASE PreparedSpoken \/ ReplySpoken
        BY <2>3, <3>1, <3>3 DEF PreparedSpoken, ReplySpoken
      <3>4. CASE Recover
        BY <2>3, <3>1, <3>4 DEF Recover
      <3>5. CASE \/ RoundStatus \/ SilenceStatus \/ SilenceSpoken \/ SilenceHangup \/ EndHeard
                 \/ PreparedHangup \/ Hangup \/ RecoveryStatus \/ RecoverySpoken
                 \/ ClosingStatus \/ ClosingSpoken \/ ClosingHangup
        BY <2>3, <3>5
           DEF RoundStatus, SilenceStatus, SilenceSpoken, SilenceHangup, EndHeard, PreparedHangup,
               Hangup, RecoveryStatus, RecoverySpoken, ClosingStatus, ClosingSpoken, ClosingHangup
      <3> QED BY <2>2, <2>5, <3>2, <3>3, <3>4, <3>5 DEF Loop
    <2>6. CASE Speaking
      BY <2>3, <2>6 DEF Speaking, SpeechStarts, SpeechStatus, SpeechEnds
    <2>7. CASE Hermes
      <3>1. [loop EXCEPT !.failures = 0].silences = loop.silences
        BY <1>1, Known DEF Loops
      <3> QED BY <2>3, <2>7, <3>1
              DEF Hermes, HermesCompletes, HermesTimesOut, SubmitRefused, ForgottenWaiterFails, HermesExits
    <2>8. CASE \E timer \in {"first", "followUp"} : AcknowledgeNow(timer)
      BY <2>3, <2>8 DEF AcknowledgeNow
    <2> QED BY <1>1, <2>4, <2>5, <2>6, <2>7, <2>8 DEF TalkNext
  <1>2. ASSUME TalkIInv, UNCHANGED talkVars PROVE ~(loop'.silences > loop.silences)
    <2>1. loop.silences \in Nat /\ loop' = loop
      BY <1>2, Known DEF talkVars
    <2> QED BY <2>1
  <1>3. TalkIInv /\ [TalkNext]_talkVars => [loop'.silences > loop.silences => ~Newer(queue, loop.after)]_talkVars
    BY <1>1, <1>2
  <1> QED BY <1>3, TalkInductive, PTL DEF TalkSpec, SilenceIsReal

=============================================================================
