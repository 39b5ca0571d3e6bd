--------------------------- MODULE PhoneLinkProofs ---------------------------
(***************************************************************************)
(* The safety of pairing and reconnection for every number of pairings,    *)
(* faults and stops.                                                       *)
(*                                                                         *)
(* Agreement is not inductive: that a desktop commits the key its phone    *)
(* has committed rests on how far the attempt, the pairing connection, the *)
(* authenticated connection and both disks have come together.  IInv says  *)
(* so for every stage.                                                     *)
(***************************************************************************)
EXTENDS PhoneLink, TLAPS

-----------------------------------------------------------------------------
(* The inductive invariant *)

\* Which stages of the attempt a connection of the DeviceClient can be met at.
InvWire ==
  /\ desk.at \in {"select", "tunnel", "exchange", "confirm", "forward"} => wire.at = "down"
  /\ wire.at = "auth" => desk.at \in {"connect", "reconnect"}
  /\ wire.at = "down" => wire = Unlinked
  /\ desk.timer => wire.at = "down"

\* What the stage of the attempt says of the desktop's disk and of the key it shows.
InvKey ==
  /\ desk.at \in {"tunnel", "exchange"} => file = Empty
  /\ desk.at = "confirm" \/ (desk.at \in {"forward", "connect"} /\ desk.plan # "committed") =>
       file.staged # None /\ desk.key = file.staged
  /\ desk.plan = "committed" \/ desk.at \in {"start", "reconnect", "evidence"} =>
       file.committed # None
  /\ desk.at = "commit" =>
       /\ file.staged # None /\ flash.staged = None /\ talk.at # "confirming"
       /\ flash.committed = file.staged \/ phone.forgot

\* Who pairs: a phone without a key of any kind, with a desktop that has staged what it confirms.
InvTalk ==
  /\ talk.at \in {"answered", "confirming"} =>
       phone.mode = "bootstrap" /\ flash = Empty /\ talk.key # None
  /\ talk.at = "confirming" => file.staged = talk.key
  /\ desk.at = "confirm" =>
       /\ talk.at \notin {"hello", "confirming"} /\ flash.staged = None
       /\ talk.at = "answered" => talk.key = file.staged

\* What the phone's mode says of its disk, and its disk of the desktop's.
InvPhone ==
  /\ phone.mode = "proving" => flash.staged # None
  /\ phone.mode = "enrolled" => flash.committed # None
  /\ flash.staged # None => file.staged = flash.staged
  /\ wire.at = "proof" => phone.mode = "enrolled" /\ flash.committed = desk.key

\* A failed attempt is to show the stage of no attempt.
Shown == {"WAITING_FOR_PHONE", "WAITING_FOR_PHONE_START", "PAIRING", "BLOCKED"}

InvNext ==
  desk.at = "cleaning" => desk.next \in Shown

IInv ==
  /\ TypeOK /\ NeverAsymmetric /\ Agreement /\ StageHonest /\ NeverGivesUp
  /\ InvWire /\ InvKey /\ InvTalk /\ InvPhone /\ InvNext

-----------------------------------------------------------------------------
(* The record of the daemon, one field at a time *)

\* The record of the daemon, one field at a time.
LEMMA DaemonFields ==
  ASSUME NEW d \in Daemons
  PROVE  /\ \A v \in Connecting \cup {"idle", "down"} : [d EXCEPT !.at = v] \in Daemons
         /\ \A v \in {"absent", "staged", "committed"} : [d EXCEPT !.plan = v] \in Daemons
         /\ \A v \in Maybe : [d EXCEPT !.key = v] \in Daemons
         /\ \A v \in Maybe : [d EXCEPT !.secret = v] \in Daemons
         /\ \A v \in BOOLEAN : [d EXCEPT !.attached = v] \in Daemons
         /\ \A v \in Stages : [d EXCEPT !.setup = v] \in Daemons
         /\ \A v \in Stages : [d EXCEPT !.next = v] \in Daemons
         /\ \A v \in BOOLEAN : [d EXCEPT !.forward = v] \in Daemons
         /\ \A v \in BOOLEAN : [d EXCEPT !.tunnel = v] \in Daemons
         /\ \A v \in BOOLEAN : [d EXCEPT !.closing = v] \in Daemons
         /\ \A v \in BOOLEAN : [d EXCEPT !.timer = v] \in Daemons
         /\ \A v \in BOOLEAN : [d EXCEPT !.stopping = v] \in Daemons
         /\ \A v \in BOOLEAN : [d EXCEPT !.stopped = v] \in Daemons
<1>1. ASSUME NEW v \in Connecting \cup {"idle", "down"} PROVE [d EXCEPT !.at = v] \in Daemons
  BY DEF Daemons
<1>2. ASSUME NEW v \in {"absent", "staged", "committed"} PROVE [d EXCEPT !.plan = v] \in Daemons
  BY DEF Daemons
<1>3. ASSUME NEW v \in Maybe PROVE [d EXCEPT !.key = v] \in Daemons
  BY DEF Daemons
<1>4. ASSUME NEW v \in Maybe PROVE [d EXCEPT !.secret = v] \in Daemons
  BY DEF Daemons
<1>5. ASSUME NEW v \in BOOLEAN PROVE [d EXCEPT !.attached = v] \in Daemons
  BY DEF Daemons
<1>6. ASSUME NEW v \in Stages PROVE [d EXCEPT !.setup = v] \in Daemons
  BY DEF Daemons
<1>7. ASSUME NEW v \in Stages PROVE [d EXCEPT !.next = v] \in Daemons
  BY DEF Daemons
<1>8. ASSUME NEW v \in BOOLEAN PROVE [d EXCEPT !.forward = v] \in Daemons
  BY DEF Daemons
<1>9. ASSUME NEW v \in BOOLEAN PROVE [d EXCEPT !.tunnel = v] \in Daemons
  BY DEF Daemons
<1>10. ASSUME NEW v \in BOOLEAN PROVE [d EXCEPT !.closing = v] \in Daemons
  BY DEF Daemons
<1>11. ASSUME NEW v \in BOOLEAN PROVE [d EXCEPT !.timer = v] \in Daemons
  BY DEF Daemons
<1>12. ASSUME NEW v \in BOOLEAN PROVE [d EXCEPT !.stopping = v] \in Daemons
  BY DEF Daemons
<1>13. ASSUME NEW v \in BOOLEAN PROVE [d EXCEPT !.stopped = v] \in Daemons
  BY DEF Daemons
<1> QED
  BY <1>1, <1>2, <1>3, <1>4, <1>5, <1>6, <1>7, <1>8, <1>9, <1>10, <1>11, <1>12, <1>13

\* What the catch of connectPhone makes of a daemon d.
Gone(d, e) ==
  /\ e \in Daemons
  /\ e.at = "cleaning" /\ e.attached = FALSE /\ e.next \in Shown
  /\ e.plan = d.plan /\ e.key = d.key /\ e.secret = d.secret /\ e.setup = d.setup
  /\ e.timer = d.timer /\ e.stopping = d.stopping

\* A failed attempt turns to its cleanup.
LEMMA FailedDaemon ==
  ASSUME NEW d \in Daemons, NEW cause
  PROVE  Gone(d, Failed(d, cause))
<1> DEFINE next == Classified(cause, d.setup)
<1>1. next \in Shown /\ next \in Stages
  BY DEF Classified, Shown, Stages
<1> HIDE DEF next
<1>2. PICK a : a = [d EXCEPT !.at = "cleaning"]
  OBVIOUS
<1>3. a \in Daemons
  BY <1>2, DaemonFields DEF Connecting
<1>4. PICK b : b = [a EXCEPT !.attached = FALSE]
  OBVIOUS
<1>5. b \in Daemons
  BY <1>3, <1>4, DaemonFields
<1>6. PICK f : f = [b EXCEPT !.next = next]
  OBVIOUS
<1>7. f \in Daemons
  BY <1>1, <1>5, <1>6, DaemonFields
<1>8. Failed(d, cause) = f
  BY <1>2, <1>4, <1>6 DEF Failed, next
<1>9. /\ f.at = "cleaning" /\ f.attached = FALSE /\ f.next = next
      /\ f.plan = d.plan /\ f.key = d.key /\ f.secret = d.secret /\ f.setup = d.setup
      /\ f.timer = d.timer /\ f.stopping = d.stopping
  BY <1>2, <1>4, <1>6 DEF Daemons
<1> QED
  BY <1>1, <1>7, <1>8, <1>9 DEF Gone

\* A daemon that starts, and one that has ended, are daemons.
LEMMA BootedDaemon ==
  Booted \in Daemons /\ Down \in Daemons /\ Down.at = "down"
<1>1. Booted \in Daemons
  BY PhoneLinkAssumption DEF Booted, Daemons, Connecting, Stages, Maybe, Keys, None
<1> QED
  BY <1>1, DaemonFields DEF Down, Booted

\* What the fields of a daemon are.
LEMMA DaemonTypes ==
  ASSUME NEW d \in Daemons
  PROVE  /\ d.key \in Maybe /\ d.secret \in Maybe /\ d.setup \in Stages /\ d.next \in Stages
         /\ d.attached \in BOOLEAN /\ d.forward \in BOOLEAN /\ d.tunnel \in BOOLEAN
         /\ d.closing \in BOOLEAN /\ d.timer \in BOOLEAN /\ d.stopping \in BOOLEAN
  BY DEF Daemons

\* What a teardown of its client makes of a daemon that delegates to it.
Detached(d, e) ==
  /\ d.attached /\ ~d.stopping
  /\ e \in Daemons /\ e.at = "cleaning" /\ e.attached = FALSE
  /\ e.setup = "WAITING_FOR_PHONE" /\ e.next = "WAITING_FOR_PHONE"
  /\ e.plan = d.plan /\ e.key = d.key /\ e.timer = d.timer /\ e.stopping = d.stopping

\* The end of a connection is taken by a running gateway, by an attempt that waits for
\* it, or by nobody.
LEMMA DisconnectedDaemon ==
  ASSUME NEW d \in Daemons
  PROVE  \/ Detached(d, Disconnected(d))
         \/ /\ Gone(d, Disconnected(d)) /\ ~(d.attached /\ ~d.stopping)
            /\ d.at \in {"connect", "reconnect"}
         \/ /\ Disconnected(d) = d /\ ~(d.attached /\ ~d.stopping)
            /\ (d.at \in {"connect", "reconnect"} => wire.at = "down")
<1>1. CASE d.attached /\ ~d.stopping
  <2>1. PICK a : a = [d EXCEPT !.at = "cleaning"]
    OBVIOUS
  <2>2. a \in Daemons
    BY <2>1, DaemonFields DEF Connecting
  <2>3. PICK b : b = [a EXCEPT !.attached = FALSE]
    OBVIOUS
  <2>4. b \in Daemons
    BY <2>2, <2>3, DaemonFields
  <2>5. PICK c : c = [b EXCEPT !.setup = "WAITING_FOR_PHONE"]
    OBVIOUS
  <2>6. c \in Daemons
    BY <2>4, <2>5, DaemonFields DEF Stages
  <2>7. PICK e : e = [c EXCEPT !.next = "WAITING_FOR_PHONE"]
    OBVIOUS
  <2>8. e \in Daemons
    BY <2>6, <2>7, DaemonFields DEF Stages
  <2>9. Disconnected(d) = e
    BY <1>1, <2>1, <2>3, <2>5, <2>7 DEF Disconnected
  <2>10. /\ e.at = "cleaning" /\ e.attached = FALSE
         /\ e.setup = "WAITING_FOR_PHONE" /\ e.next = "WAITING_FOR_PHONE"
         /\ e.plan = d.plan /\ e.key = d.key /\ e.timer = d.timer /\ e.stopping = d.stopping
    BY <2>1, <2>3, <2>5, <2>7 DEF Daemons
  <2> QED
    BY <1>1, <2>8, <2>9, <2>10 DEF Detached
<1>2. CASE ~(d.attached /\ ~d.stopping) /\ d.at \in {"connect", "reconnect"} /\ wire.at # "down"
  <2>1. Disconnected(d) = Failed(d, "transport")
    BY <1>2 DEF Disconnected
  <2> QED
    BY <1>2, <2>1, FailedDaemon
<1>3. CASE ~(d.attached /\ ~d.stopping) /\ ~(d.at \in {"connect", "reconnect"} /\ wire.at # "down")
  BY <1>3 DEF Disconnected
<1> QED
  BY <1>1, <1>2, <1>3

-----------------------------------------------------------------------------
(* Every step keeps the invariant *)

\* DaemonStarts keeps the invariant.
LEMMA DaemonStartsInv ==
  ASSUME IInv, DaemonStarts
  PROVE  IInv'
<1> USE PhoneLinkAssumption
<1>1. desk' \in Daemons
  BY BootedDaemon DEF DaemonStarts
<1>2. (file \in Disk /\ flash \in Disk)'
  BY DaemonTypes DEF DaemonStarts, Booted, Down, Unlinked, Empty, IInv, None, TypeOK, Disk,
     Maybe, Keys
<1>3. (phone \in [mode : {"stopped", "bootstrap", "proving", "enrolled"},
                  late : BOOLEAN, forgot : BOOLEAN])'
  BY DaemonTypes DEF DaemonStarts, Booted, Down, Unlinked, Empty, IInv, None, TypeOK
<1>4. (/\ talk \in [at : {"none", "hello", "answered", "confirming"}, key : Maybe]
       /\ wire \in [at : {"down", "auth", "proof", "up"}, proved : BOOLEAN])'
  BY DaemonTypes DEF DaemonStarts, Booted, Down, Unlinked, Empty, IInv, None, TypeOK, Maybe,
     Keys, Disk
<1>5. (/\ plugged \in BOOLEAN /\ made \in 0..MaxPairings
       /\ faults \in 0..MaxFaults /\ stops \in 0..MaxStops)'
  BY DaemonTypes DEF DaemonStarts, Booted, Down, Unlinked, Empty, IInv, None, TypeOK
<1>6. (/\ desk.stopping => ~desk.timer
       /\ desk.at = "down" => desk = Down /\ wire = Unlinked)'
  BY DaemonTypes DEF DaemonStarts, Booted, Down, Unlinked, Empty, IInv, None, TypeOK, Daemons,
     InvWire, Down, Booted
<1>7. TypeOK'
  BY <1>1, <1>2, <1>3, <1>4, <1>5, <1>6 DEF TypeOK
<1>8. NeverAsymmetric'
  BY DaemonTypes DEF IInv, NeverAsymmetric, DaemonStarts, Booted, Down
<1>9. Agreement'
  BY DaemonTypes DEF IInv, Agreement, DaemonStarts, Booted, Down
<1>10. StageHonest'
  BY DaemonTypes DEF IInv, StageHonest, DaemonStarts, Booted, Down
<1>11. NeverGivesUp'
  BY DaemonTypes DEF IInv, NeverGivesUp, DaemonStarts, Booted, Down
<1>12. InvWire'
  BY DaemonTypes DEF IInv, InvWire, DaemonStarts, Booted, Down, Unlinked, TypeOK
<1>13. InvKey'
  BY DaemonTypes DEF IInv, InvKey, DaemonStarts, Booted, Down
<1>14. InvTalk'
  BY DaemonTypes DEF IInv, InvTalk, DaemonStarts, Booted, Down
<1>15. InvPhone'
  BY DaemonTypes DEF IInv, InvPhone, DaemonStarts, Booted, Down, TypeOK
<1>16. InvNext'
  BY DaemonTypes DEF IInv, InvNext, DaemonStarts, Booted, Down
<1> QED
  BY <1>7, <1>8, <1>9, <1>10, <1>11, <1>12, <1>13, <1>14, <1>15, <1>16 DEF IInv

\* RetryFires keeps the invariant.
LEMMA RetryFiresInv ==
  ASSUME IInv, RetryFires
  PROVE  IInv'
<1> USE PhoneLinkAssumption
<1>1. desk' \in Daemons
  <2>1. PICK d1 : d1 = [desk EXCEPT !.timer = FALSE]
    OBVIOUS
  <2>2. d1 \in Daemons
    BY <2>1, DaemonFields, DaemonTypes DEF IInv, TypeOK, Disk, None
  <2>3. PICK d2 : d2 = [d1 EXCEPT !.at = IF desk.stopping \/ desk.attached THEN "idle" ELSE "select"]
    OBVIOUS
  <2>4. d2 \in Daemons
    BY <2>2, <2>3, DaemonFields, DaemonTypes DEF IInv, TypeOK, Disk, None, Connecting
  <2>5. desk' = d2
    BY <2>1, <2>3 DEF RetryFires
  <2> QED
    BY <2>4, <2>5
<1>2. (file \in Disk /\ flash \in Disk)'
  BY DaemonTypes DEF RetryFires, IInv, None, TypeOK, Disk, Maybe, Keys
<1>3. (phone \in [mode : {"stopped", "bootstrap", "proving", "enrolled"},
                  late : BOOLEAN, forgot : BOOLEAN])'
  BY DaemonTypes DEF RetryFires, IInv, None, TypeOK
<1>4. (/\ talk \in [at : {"none", "hello", "answered", "confirming"}, key : Maybe]
       /\ wire \in [at : {"down", "auth", "proof", "up"}, proved : BOOLEAN])'
  BY DaemonTypes DEF RetryFires, IInv, None, TypeOK, Maybe, Keys, Disk
<1>5. (/\ plugged \in BOOLEAN /\ made \in 0..MaxPairings
       /\ faults \in 0..MaxFaults /\ stops \in 0..MaxStops)'
  BY DaemonTypes DEF RetryFires, IInv, None, TypeOK
<1>6. (/\ desk.stopping => ~desk.timer
       /\ desk.at = "down" => desk = Down /\ wire = Unlinked)'
  BY DaemonTypes DEF RetryFires, IInv, None, TypeOK, Daemons, InvWire, Down, Booted
<1>7. TypeOK'
  BY <1>1, <1>2, <1>3, <1>4, <1>5, <1>6 DEF TypeOK
<1>8. NeverAsymmetric'
  BY DaemonTypes DEF IInv, NeverAsymmetric, RetryFires
<1>9. Agreement'
  BY DaemonTypes DEF IInv, Agreement, RetryFires
<1>10. StageHonest'
  BY DaemonTypes DEF IInv, StageHonest, RetryFires
<1>11. NeverGivesUp'
  BY DaemonTypes DEF IInv, NeverGivesUp, RetryFires
<1>12. InvWire'
  BY DaemonTypes DEF IInv, InvWire, RetryFires
<1>13. InvKey'
  BY DaemonTypes DEF IInv, InvKey, RetryFires
<1>14. InvTalk'
  BY DaemonTypes DEF IInv, InvTalk, RetryFires
<1>15. InvPhone'
  BY DaemonTypes DEF IInv, InvPhone, RetryFires
<1>16. InvNext'
  BY DaemonTypes DEF IInv, InvNext, RetryFires
<1> QED
  BY <1>7, <1>8, <1>9, <1>10, <1>11, <1>12, <1>13, <1>14, <1>15, <1>16 DEF IInv

\* Select keeps the invariant.
LEMMA SelectInv ==
  ASSUME IInv, Select
  PROVE  IInv'
<1> USE PhoneLinkAssumption
<1>1. /\ desk' \in Daemons
      /\ desk'.stopping = desk.stopping /\ desk'.timer = desk.timer
      /\ desk'.plan = Recovered(file) /\ desk'.setup = "VERIFYING_DEVICE"
      /\ desk'.attached \in {desk.attached, FALSE}
      /\ \/ desk'.at = "cleaning" /\ desk'.next \in Shown
         \/ /\ desk'.at = IF desk'.plan = "absent" THEN "tunnel" ELSE "forward"
            /\ desk'.key = IF desk'.plan = "staged" THEN file.staged ELSE None
  <2>1. PICK p : p = [desk EXCEPT !.plan = Recovered(file)]
    OBVIOUS
  <2>2. p \in Daemons
    BY <2>1, DaemonFields, DaemonTypes DEF IInv, TypeOK, Disk, None, Recovered
  <2>3. PICK s : s = [p EXCEPT !.secret = Loaded(file)]
    OBVIOUS
  <2>4. s \in Daemons
    BY <2>2, <2>3, DaemonFields, DaemonTypes DEF IInv, TypeOK, Disk, None, Loaded
  <2>5. PICK k : k = [s EXCEPT !.key = None]
    OBVIOUS
  <2>6. k \in Daemons
    BY <2>4, <2>5, DaemonFields, DaemonTypes DEF IInv, TypeOK, Disk, None, Maybe
  <2>7. PICK begun : begun = [k EXCEPT !.setup = "VERIFYING_DEVICE"]
    OBVIOUS
  <2>8. begun \in Daemons
    BY <2>6, <2>7, DaemonFields, DaemonTypes DEF IInv, TypeOK, Disk, None, Stages
  <2>20. /\ begun = [desk EXCEPT !.plan = Recovered(file), !.secret = Loaded(file),
                                !.key = None, !.setup = "VERIFYING_DEVICE"]
         /\ begun.plan = Recovered(file) /\ begun.setup = "VERIFYING_DEVICE"
         /\ begun.stopping = desk.stopping /\ begun.timer = desk.timer /\ begun.attached = desk.attached
    BY <2>1, <2>3, <2>5, <2>7 DEF IInv, TypeOK, Daemons
  <2>21. CASE \E cause : desk' = Failed(begun, cause)
    <3>1. PICK cause : desk' = Failed(begun, cause)
      BY <2>21
    <3>2. Gone(begun, desk')
      BY <2>8, <3>1, FailedDaemon
    <3> QED
      BY <2>20, <3>2 DEF Gone
  <2>22. CASE desk' = [begun EXCEPT !.at = IF begun.plan = "absent" THEN "tunnel" ELSE "forward",
                                    !.key = IF begun.plan = "staged" THEN file.staged ELSE None]
    <3>1. PICK t : t = [begun EXCEPT !.at = IF begun.plan = "absent" THEN "tunnel" ELSE "forward"]
      OBVIOUS
    <3>2. t \in Daemons
      BY <2>8, <3>1, DaemonFields, DaemonTypes DEF IInv, TypeOK, Disk, None, Connecting
    <3>3. PICK f : f = [t EXCEPT !.key = IF begun.plan = "staged" THEN file.staged ELSE None]
      OBVIOUS
    <3>4. f \in Daemons
      BY <3>2, <3>3, DaemonFields, DaemonTypes DEF IInv, TypeOK, Disk, None, Maybe
    <3>5. /\ desk' = f /\ f.at = (IF begun.plan = "absent" THEN "tunnel" ELSE "forward")
          /\ f.key = (IF begun.plan = "staged" THEN file.staged ELSE None)
          /\ f.plan = begun.plan /\ f.setup = begun.setup /\ f.stopping = begun.stopping
          /\ f.timer = begun.timer /\ f.attached = begun.attached
      BY <2>22, <2>8, <3>1, <3>3 DEF Daemons
    <3> QED
      BY <2>20, <3>4, <3>5
  <2> QED
    BY <2>20, <2>21, <2>22 DEF Select, WrongPhone, IInv, NeverAsymmetric
<1>2. /\ desk.at = "select" /\ faults' \in 0..MaxFaults
      /\ UNCHANGED <<file, flash, phone, talk, wire, plugged, made, stops>>
  BY DEF Select, Fault, IInv, TypeOK
<1>3. desk' \in Daemons
  BY <1>1, <1>2, DaemonTypes DEF IInv, None, Gone, Recovered, TypeOK
<1>4. (file \in Disk /\ flash \in Disk)'
  BY <1>1, <1>2, DaemonTypes DEF IInv, None, Gone, Recovered, TypeOK, Disk, Maybe, Keys
<1>5. (phone \in [mode : {"stopped", "bootstrap", "proving", "enrolled"},
                  late : BOOLEAN, forgot : BOOLEAN])'
  BY <1>1, <1>2, DaemonTypes DEF IInv, None, Gone, Recovered, TypeOK
<1>6. (/\ talk \in [at : {"none", "hello", "answered", "confirming"}, key : Maybe]
       /\ wire \in [at : {"down", "auth", "proof", "up"}, proved : BOOLEAN])'
  BY <1>1, <1>2, DaemonTypes DEF IInv, None, Recovered, TypeOK, Maybe, Keys, Disk, Unlinked
<1>7. (/\ plugged \in BOOLEAN /\ made \in 0..MaxPairings
       /\ faults \in 0..MaxFaults /\ stops \in 0..MaxStops)'
  BY <1>1, <1>2, DaemonTypes DEF IInv, None, Gone, Recovered, TypeOK
<1>8. (/\ desk.stopping => ~desk.timer
       /\ desk.at = "down" => desk = Down /\ wire = Unlinked)'
  BY <1>1, <1>2, DaemonTypes DEF IInv, None, Gone, Recovered, TypeOK, InvWire, Down, Booted
<1>9. TypeOK'
  BY <1>3, <1>4, <1>5, <1>6, <1>7, <1>8 DEF TypeOK
<1>10. NeverAsymmetric'
  BY <1>1, <1>2, DaemonTypes DEF IInv, NeverAsymmetric, Recovered
<1>11. Agreement'
  BY <1>1, <1>2, DaemonTypes DEF IInv, Agreement, Recovered
<1>12. StageHonest'
  BY <1>1, <1>2, DaemonTypes DEF IInv, StageHonest, Recovered
<1>13. NeverGivesUp'
  BY <1>1, <1>2, DaemonTypes DEF IInv, NeverGivesUp, Recovered
<1>14. InvWire'
  BY <1>1, <1>2, DaemonTypes DEF IInv, InvWire, Recovered
<1>15. InvKey'
  BY <1>1, <1>2, DaemonTypes DEF IInv, InvKey, Recovered, TypeOK, Disk, Empty
<1>16. InvTalk'
  BY <1>1, <1>2, DaemonTypes DEF IInv, InvTalk, Recovered
<1>17. InvPhone'
  BY <1>1, <1>2, DaemonTypes DEF IInv, InvPhone, Recovered, InvWire
<1>18. InvNext'
  BY <1>1, <1>2, DaemonTypes DEF IInv, InvNext, Recovered
<1> QED
  BY <1>9, <1>10, <1>11, <1>12, <1>13, <1>14, <1>15, <1>16, <1>17, <1>18 DEF IInv

\* OpenTunnel keeps the invariant.
LEMMA OpenTunnelInv ==
  ASSUME IInv, OpenTunnel
  PROVE  IInv'
<1> USE PhoneLinkAssumption
<1>1. /\ desk' \in Daemons
      /\ desk'.stopping = desk.stopping /\ desk'.timer = desk.timer
      /\ desk'.plan = desk.plan /\ desk'.key = desk.key
      /\ desk'.setup \in {"PAIRING", "WAITING_FOR_PHONE_START"}
      /\ desk'.attached \in {desk.attached, FALSE}
      /\ \/ desk'.at = "cleaning" /\ desk'.next \in Shown /\ talk' = talk
         \/ desk'.at = "exchange" /\ talk' = Hello
  <2>1. CASE ~Forwardable
    <3>1. PICK d : d = [desk EXCEPT !.setup = "WAITING_FOR_PHONE_START"]
      OBVIOUS
    <3>2. d \in Daemons
      BY <3>1, DaemonFields DEF IInv, TypeOK, Stages
    <3>3. Gone(d, desk') /\ talk' = talk
      BY <2>1, <3>1, <3>2, FailedDaemon DEF OpenTunnel
    <3>4. /\ d.stopping = desk.stopping /\ d.timer = desk.timer /\ d.plan = desk.plan
          /\ d.key = desk.key /\ d.setup = "WAITING_FOR_PHONE_START"
      BY <3>1 DEF IInv, TypeOK, Daemons
    <3> QED
      BY <3>3, <3>4 DEF Gone
  <2>2. CASE Forwardable
    <3>1. PICK d : d = [desk EXCEPT !.at = "exchange"]
      OBVIOUS
    <3>2. d \in Daemons
      BY <3>1, DaemonFields DEF IInv, TypeOK, Connecting
    <3>3. PICK e : e = [d EXCEPT !.tunnel = TRUE]
      OBVIOUS
    <3>4. e \in Daemons
      BY <3>2, <3>3, DaemonFields
    <3>5. PICK f : f = [e EXCEPT !.setup = "PAIRING"]
      OBVIOUS
    <3>6. f \in Daemons
      BY <3>4, <3>5, DaemonFields DEF Stages
    <3>7. desk' = f /\ talk' = Hello
      BY <2>2, <3>1, <3>3, <3>5 DEF OpenTunnel
    <3>8. /\ f.stopping = desk.stopping /\ f.timer = desk.timer /\ f.plan = desk.plan
          /\ f.key = desk.key /\ f.setup = "PAIRING" /\ f.at = "exchange"
          /\ f.attached = desk.attached
      BY <3>1, <3>3, <3>5 DEF IInv, TypeOK, Daemons
    <3> QED
      BY <3>6, <3>7, <3>8
  <2> QED
    BY <2>1, <2>2
<1>2. /\ desk.at = "tunnel"
      /\ UNCHANGED <<file, flash, phone, wire, plugged, made, faults, stops>>
  BY DEF OpenTunnel
<1>3. desk' \in Daemons
  BY <1>1, <1>2, DaemonTypes DEF IInv, None, Gone, Hello, TypeOK
<1>4. (file \in Disk /\ flash \in Disk)'
  BY <1>1, <1>2, DaemonTypes DEF IInv, None, Gone, Hello, TypeOK, Disk, Maybe, Keys
<1>5. (phone \in [mode : {"stopped", "bootstrap", "proving", "enrolled"},
                  late : BOOLEAN, forgot : BOOLEAN])'
  BY <1>1, <1>2, DaemonTypes DEF IInv, None, Gone, Hello, TypeOK
<1>6. (/\ talk \in [at : {"none", "hello", "answered", "confirming"}, key : Maybe]
       /\ wire \in [at : {"down", "auth", "proof", "up"}, proved : BOOLEAN])'
  BY <1>1, <1>2, DaemonTypes DEF IInv, None, Hello, TypeOK, Maybe, Keys, Disk, Unlinked
<1>7. (/\ plugged \in BOOLEAN /\ made \in 0..MaxPairings
       /\ faults \in 0..MaxFaults /\ stops \in 0..MaxStops)'
  BY <1>1, <1>2, DaemonTypes DEF IInv, None, Gone, Hello, TypeOK
<1>8. (/\ desk.stopping => ~desk.timer
       /\ desk.at = "down" => desk = Down /\ wire = Unlinked)'
  BY <1>1, <1>2, DaemonTypes DEF IInv, None, Gone, Hello, TypeOK, InvWire, Down, Booted
<1>9. TypeOK'
  BY <1>3, <1>4, <1>5, <1>6, <1>7, <1>8 DEF TypeOK
<1>10. NeverAsymmetric'
  BY <1>1, <1>2, DaemonTypes DEF IInv, NeverAsymmetric, Hello
<1>11. Agreement'
  BY <1>1, <1>2, DaemonTypes DEF IInv, Agreement, Hello
<1>12. StageHonest'
  BY <1>1, <1>2, DaemonTypes DEF IInv, StageHonest, Hello
<1>13. NeverGivesUp'
  BY <1>1, <1>2, DaemonTypes DEF IInv, NeverGivesUp, Hello
<1>14. InvWire'
  BY <1>1, <1>2, DaemonTypes DEF IInv, InvWire, Hello
<1>15. InvKey'
  BY <1>1, <1>2, DaemonTypes DEF IInv, InvKey, Hello
<1>16. InvTalk'
  BY <1>1, <1>2, DaemonTypes DEF IInv, InvTalk, Hello
<1>17. InvPhone'
  BY <1>1, <1>2, DaemonTypes DEF IInv, InvPhone, Hello
<1>18. InvNext'
  BY <1>1, <1>2, DaemonTypes DEF IInv, InvNext, Hello
<1> QED
  BY <1>9, <1>10, <1>11, <1>12, <1>13, <1>14, <1>15, <1>16, <1>17, <1>18 DEF IInv

\* ExchangeFails keeps the invariant.
LEMMA ExchangeFailsInv ==
  ASSUME IInv, ExchangeFails
  PROVE  IInv'
<1> USE PhoneLinkAssumption
<1>1. Gone(desk, desk')
  BY FailedDaemon DEF ExchangeFails, IInv, TypeOK
<1>2. /\ desk.at = "exchange" /\ ~ProofOfPhoneGood /\ talk' = Silent /\ faults' \in 0..MaxFaults
      /\ UNCHANGED <<file, flash, phone, wire, plugged, made, stops>>
  BY DEF ExchangeFails, Fault, IInv, TypeOK
<1>3. desk' \in Daemons
  BY <1>1, <1>2, DaemonTypes DEF IInv, None, Gone, Silent, ProofOfPhoneGood, TypeOK
<1>4. (file \in Disk /\ flash \in Disk)'
  BY <1>1, <1>2, DaemonTypes DEF IInv, None, Gone, Silent, ProofOfPhoneGood, TypeOK, Disk,
     Maybe, Keys
<1>5. (phone \in [mode : {"stopped", "bootstrap", "proving", "enrolled"},
                  late : BOOLEAN, forgot : BOOLEAN])'
  BY <1>1, <1>2, DaemonTypes DEF IInv, None, Gone, Silent, ProofOfPhoneGood, TypeOK
<1>6. (/\ talk \in [at : {"none", "hello", "answered", "confirming"}, key : Maybe]
       /\ wire \in [at : {"down", "auth", "proof", "up"}, proved : BOOLEAN])'
  BY <1>1, <1>2, DaemonTypes DEF IInv, None, Silent, ProofOfPhoneGood, TypeOK, Maybe, Keys,
     Disk, Unlinked
<1>7. (/\ plugged \in BOOLEAN /\ made \in 0..MaxPairings
       /\ faults \in 0..MaxFaults /\ stops \in 0..MaxStops)'
  BY <1>1, <1>2, DaemonTypes DEF IInv, None, Gone, Silent, ProofOfPhoneGood, TypeOK
<1>8. (/\ desk.stopping => ~desk.timer
       /\ desk.at = "down" => desk = Down /\ wire = Unlinked)'
  BY <1>1, <1>2, DaemonTypes DEF IInv, None, Gone, Silent, ProofOfPhoneGood, TypeOK, InvWire,
     Down, Booted
<1>9. TypeOK'
  BY <1>3, <1>4, <1>5, <1>6, <1>7, <1>8 DEF TypeOK
<1>10. NeverAsymmetric'
  BY <1>1, <1>2, DaemonTypes DEF IInv, NeverAsymmetric, Silent, ProofOfPhoneGood
<1>11. Agreement'
  BY <1>1, <1>2, DaemonTypes DEF IInv, Agreement, Silent, ProofOfPhoneGood
<1>12. StageHonest'
  BY <1>1, <1>2, DaemonTypes DEF IInv, Gone, StageHonest, Silent, ProofOfPhoneGood
<1>13. NeverGivesUp'
  BY <1>1, <1>2, DaemonTypes DEF IInv, Gone, NeverGivesUp, Silent, ProofOfPhoneGood
<1>14. InvWire'
  BY <1>1, <1>2, DaemonTypes DEF IInv, InvWire, Silent, ProofOfPhoneGood
<1>15. InvKey'
  BY <1>1, <1>2, DaemonTypes DEF IInv, Gone, InvKey, Silent, ProofOfPhoneGood
<1>16. InvTalk'
  BY <1>1, <1>2, DaemonTypes DEF IInv, Gone, InvTalk, Silent, ProofOfPhoneGood
<1>17. InvPhone'
  BY <1>1, <1>2, DaemonTypes DEF IInv, Gone, InvPhone, Silent, ProofOfPhoneGood
<1>18. InvNext'
  BY <1>1, <1>2, DaemonTypes DEF IInv, Gone, InvNext, Silent, ProofOfPhoneGood
<1> QED
  BY <1>9, <1>10, <1>11, <1>12, <1>13, <1>14, <1>15, <1>16, <1>17, <1>18 DEF IInv

\* StageKey keeps the invariant.
LEMMA StageKeyInv ==
  ASSUME IInv, StageKey
  PROVE  IInv'
<1> USE PhoneLinkAssumption
<1>1. desk' \in Daemons
  <2>1. PICK d1 : d1 = [desk EXCEPT !.at = "confirm"]
    OBVIOUS
  <2>2. d1 \in Daemons
    BY <2>1, DaemonFields, DaemonTypes DEF IInv, TypeOK, Disk, None, Connecting
  <2>3. PICK d2 : d2 = [d1 EXCEPT !.key = talk.key]
    OBVIOUS
  <2>4. d2 \in Daemons
    BY <2>2, <2>3, DaemonFields, DaemonTypes DEF IInv, TypeOK, Disk, None
  <2>5. desk' = d2
    BY <2>1, <2>3 DEF StageKey
  <2> QED
    BY <2>4, <2>5
<1>2. (file \in Disk /\ flash \in Disk)'
  BY DaemonTypes DEF StageKey, ProofOfPhoneGood, StagedAs, IInv, None, TypeOK, Disk, Maybe, Keys
<1>3. (phone \in [mode : {"stopped", "bootstrap", "proving", "enrolled"},
                  late : BOOLEAN, forgot : BOOLEAN])'
  BY DaemonTypes DEF StageKey, ProofOfPhoneGood, StagedAs, IInv, None, TypeOK
<1>4. (/\ talk \in [at : {"none", "hello", "answered", "confirming"}, key : Maybe]
       /\ wire \in [at : {"down", "auth", "proof", "up"}, proved : BOOLEAN])'
  BY DaemonTypes DEF StageKey, ProofOfPhoneGood, StagedAs, IInv, None, TypeOK, Maybe, Keys, Disk
<1>5. (/\ plugged \in BOOLEAN /\ made \in 0..MaxPairings
       /\ faults \in 0..MaxFaults /\ stops \in 0..MaxStops)'
  BY DaemonTypes DEF StageKey, ProofOfPhoneGood, StagedAs, IInv, None, TypeOK
<1>6. (/\ desk.stopping => ~desk.timer
       /\ desk.at = "down" => desk = Down /\ wire = Unlinked)'
  BY DaemonTypes DEF StageKey, ProofOfPhoneGood, StagedAs, IInv, None, TypeOK, Daemons,
     InvWire, Down, Booted
<1>7. TypeOK'
  BY <1>1, <1>2, <1>3, <1>4, <1>5, <1>6 DEF TypeOK
<1>8. NeverAsymmetric'
  BY DaemonTypes DEF IInv, NeverAsymmetric, StageKey, ProofOfPhoneGood, StagedAs, Asymmetric
<1>9. Agreement'
  BY DaemonTypes DEF IInv, Agreement, StageKey, ProofOfPhoneGood, StagedAs
<1>10. StageHonest'
  BY DaemonTypes DEF IInv, StageHonest, StageKey, ProofOfPhoneGood, StagedAs
<1>11. NeverGivesUp'
  BY DaemonTypes DEF IInv, NeverGivesUp, StageKey, ProofOfPhoneGood, StagedAs
<1>12. InvWire'
  BY DaemonTypes DEF IInv, InvWire, StageKey, ProofOfPhoneGood, StagedAs
<1>13. InvKey'
  BY DaemonTypes DEF IInv, InvKey, StageKey, ProofOfPhoneGood, StagedAs, InvTalk
<1>14. InvTalk'
  BY DaemonTypes DEF IInv, InvTalk, StageKey, ProofOfPhoneGood, StagedAs, Empty
<1>15. InvPhone'
  BY DaemonTypes DEF IInv, InvPhone, StageKey, ProofOfPhoneGood, StagedAs, InvWire
<1>16. InvNext'
  BY DaemonTypes DEF IInv, InvNext, StageKey, ProofOfPhoneGood, StagedAs
<1> QED
  BY <1>7, <1>8, <1>9, <1>10, <1>11, <1>12, <1>13, <1>14, <1>15, <1>16 DEF IInv

\* Confirm keeps the invariant.
LEMMA ConfirmInv ==
  ASSUME IInv, Confirm
  PROVE  IInv'
<1> USE PhoneLinkAssumption
<1>1. \/ /\ desk' \in Daemons /\ desk'.at = "forward" /\ desk'.plan = desk.plan /\ desk'.key = desk.key
         /\ desk'.setup = desk.setup /\ desk'.attached = desk.attached
         /\ desk'.timer = desk.timer /\ desk'.stopping = desk.stopping
         /\ file' = file
         /\ talk' = IF talk.at = "answered" THEN [talk EXCEPT !.at = "confirming"] ELSE talk
      \/ Gone(desk, desk') /\ file' = Aborted(file) /\ talk' = Silent
  <2>1. CASE desk' = Failed(desk, "transport") /\ file' = Aborted(file) /\ talk' = Silent
    BY <2>1, FailedDaemon DEF IInv, TypeOK
  <2>2. CASE /\ desk' = [desk EXCEPT !.at = "forward"] /\ file' = file
             /\ talk' = IF talk.at = "answered" THEN [talk EXCEPT !.at = "confirming"] ELSE talk
    <3>1. desk' \in Daemons
      BY <2>2, DaemonFields DEF IInv, TypeOK, Connecting
    <3>2. /\ desk'.at = "forward" /\ desk'.plan = desk.plan /\ desk'.key = desk.key
          /\ desk'.setup = desk.setup /\ desk'.attached = desk.attached
          /\ desk'.timer = desk.timer /\ desk'.stopping = desk.stopping
      BY <2>2 DEF IInv, TypeOK, Daemons
    <3> QED
      BY <2>2, <3>1, <3>2
  <2> QED
    BY <2>1, <2>2 DEF Confirm
<1>2. /\ desk.at = "confirm" /\ faults' \in 0..MaxFaults
      /\ UNCHANGED <<flash, phone, wire, plugged, made, stops>>
  BY DEF Confirm, Fault, IInv, TypeOK
<1>3. desk' \in Daemons
  BY <1>1, <1>2, DaemonTypes DEF IInv, None, Gone, Aborted, Silent, TypeOK
<1>4. (file \in Disk /\ flash \in Disk)'
  BY <1>1, <1>2, DaemonTypes DEF IInv, None, Gone, Aborted, Silent, TypeOK, Disk, Maybe, Keys
<1>5. (phone \in [mode : {"stopped", "bootstrap", "proving", "enrolled"},
                  late : BOOLEAN, forgot : BOOLEAN])'
  BY <1>1, <1>2, DaemonTypes DEF IInv, None, Gone, Aborted, Silent, TypeOK
<1>6. (/\ talk \in [at : {"none", "hello", "answered", "confirming"}, key : Maybe]
       /\ wire \in [at : {"down", "auth", "proof", "up"}, proved : BOOLEAN])'
  BY <1>1, <1>2, DaemonTypes DEF IInv, None, Aborted, Silent, TypeOK, Maybe, Keys, Disk, Unlinked
<1>7. (/\ plugged \in BOOLEAN /\ made \in 0..MaxPairings
       /\ faults \in 0..MaxFaults /\ stops \in 0..MaxStops)'
  BY <1>1, <1>2, DaemonTypes DEF IInv, None, Gone, Aborted, Silent, TypeOK
<1>8. (/\ desk.stopping => ~desk.timer
       /\ desk.at = "down" => desk = Down /\ wire = Unlinked)'
  BY <1>1, <1>2, DaemonTypes DEF IInv, None, Gone, Aborted, Silent, TypeOK, InvWire, Down, Booted
<1>9. TypeOK'
  BY <1>3, <1>4, <1>5, <1>6, <1>7, <1>8 DEF TypeOK
<1>10. NeverAsymmetric'
  BY <1>1, <1>2, DaemonTypes DEF IInv, NeverAsymmetric, Aborted, Silent, TypeOK, Disk, Asymmetric
<1>11. Agreement'
  BY <1>1, <1>2, DaemonTypes DEF IInv, Agreement, Aborted, Silent, TypeOK, Disk
<1>12. StageHonest'
  BY <1>1, <1>2, DaemonTypes DEF IInv, Gone, StageHonest, Aborted, Silent
<1>13. NeverGivesUp'
  BY <1>1, <1>2, DaemonTypes DEF IInv, Gone, NeverGivesUp, Aborted, Silent
<1>14. InvWire'
  BY <1>1, <1>2, DaemonTypes DEF IInv, InvWire, Aborted, Silent
<1>15. InvKey'
  BY <1>1, <1>2, DaemonTypes DEF IInv, Gone, InvKey, Aborted, Silent, TypeOK, Disk
<1>16. InvTalk'
  BY <1>1, <1>2, DaemonTypes DEF IInv, InvTalk, Aborted, Silent, TypeOK
<1>17. InvPhone'
  BY <1>1, <1>2, DaemonTypes DEF IInv, Gone, InvPhone, Aborted, Silent, InvTalk
<1>18. InvNext'
  BY <1>1, <1>2, DaemonTypes DEF IInv, Gone, InvNext, Aborted, Silent
<1> QED
  BY <1>9, <1>10, <1>11, <1>12, <1>13, <1>14, <1>15, <1>16, <1>17, <1>18 DEF IInv

\* OpenForward keeps the invariant.
LEMMA OpenForwardInv ==
  ASSUME IInv, OpenForward
  PROVE  IInv'
<1> USE PhoneLinkAssumption
<1>1. /\ desk' \in Daemons
      /\ desk'.stopping = desk.stopping /\ desk'.timer = desk.timer
      /\ desk'.plan = desk.plan /\ desk'.setup = "AUTHENTICATING"
      /\ desk'.attached \in {desk.attached, FALSE}
      /\ \/ desk'.at = "cleaning" /\ desk'.next \in Shown
         \/ /\ desk'.at = "connect"
            /\ desk'.key = IF desk.plan = "committed" THEN desk.secret ELSE desk.key
  <2>1. CASE ~Forwardable
    <3>1. PICK d : d = [desk EXCEPT !.setup = "AUTHENTICATING"]
      OBVIOUS
    <3>2. d \in Daemons
      BY <3>1, DaemonFields DEF IInv, TypeOK, Stages
    <3>3. Gone(d, desk')
      BY <2>1, <3>1, <3>2, FailedDaemon DEF OpenForward
    <3>4. /\ d.stopping = desk.stopping /\ d.timer = desk.timer /\ d.plan = desk.plan
          /\ d.setup = "AUTHENTICATING"
      BY <3>1 DEF IInv, TypeOK, Daemons
    <3> QED
      BY <3>3, <3>4 DEF Gone
  <2>2. CASE Forwardable
    <3>1. PICK d : d = [desk EXCEPT !.at = "connect"]
      OBVIOUS
    <3>2. d \in Daemons
      BY <3>1, DaemonFields DEF IInv, TypeOK, Connecting
    <3>3. PICK e : e = [d EXCEPT !.setup = "AUTHENTICATING"]
      OBVIOUS
    <3>4. e \in Daemons
      BY <3>2, <3>3, DaemonFields DEF Stages
    <3>5. PICK f : f = [e EXCEPT !.forward = TRUE]
      OBVIOUS
    <3>6. f \in Daemons
      BY <3>4, <3>5, DaemonFields
    <3>7. PICK g : g = [f EXCEPT !.key = IF desk.plan = "committed" THEN desk.secret ELSE desk.key]
      OBVIOUS
    <3>8. g \in Daemons
      BY <3>6, <3>7, DaemonFields, DaemonTypes DEF IInv, TypeOK
    <3>9. desk' = g
      BY <2>2, <3>1, <3>3, <3>5, <3>7 DEF OpenForward, IInv, TypeOK, Daemons
    <3>10. /\ g.stopping = desk.stopping /\ g.timer = desk.timer /\ g.plan = desk.plan
           /\ g.key = (IF desk.plan = "committed" THEN desk.secret ELSE desk.key)
           /\ g.setup = "AUTHENTICATING" /\ g.at = "connect" /\ g.attached = desk.attached
      BY <3>1, <3>3, <3>5, <3>7 DEF IInv, TypeOK, Daemons
    <3> QED
      BY <3>8, <3>9, <3>10
  <2> QED
    BY <2>1, <2>2
<1>2. /\ desk.at = "forward"
      /\ UNCHANGED <<file, flash, phone, talk, wire, plugged, made, faults, stops>>
  BY DEF OpenForward
<1>3. desk' \in Daemons
  BY <1>1, <1>2, DaemonTypes DEF IInv, None, Gone, TypeOK
<1>4. (file \in Disk /\ flash \in Disk)'
  BY <1>1, <1>2, DaemonTypes DEF IInv, None, Gone, TypeOK, Disk, Maybe, Keys
<1>5. (phone \in [mode : {"stopped", "bootstrap", "proving", "enrolled"},
                  late : BOOLEAN, forgot : BOOLEAN])'
  BY <1>1, <1>2, DaemonTypes DEF IInv, None, Gone, TypeOK
<1>6. (/\ talk \in [at : {"none", "hello", "answered", "confirming"}, key : Maybe]
       /\ wire \in [at : {"down", "auth", "proof", "up"}, proved : BOOLEAN])'
  BY <1>1, <1>2, DaemonTypes DEF IInv, None, TypeOK, Maybe, Keys, Disk, Unlinked
<1>7. (/\ plugged \in BOOLEAN /\ made \in 0..MaxPairings
       /\ faults \in 0..MaxFaults /\ stops \in 0..MaxStops)'
  BY <1>1, <1>2, DaemonTypes DEF IInv, None, Gone, TypeOK
<1>8. (/\ desk.stopping => ~desk.timer
       /\ desk.at = "down" => desk = Down /\ wire = Unlinked)'
  BY <1>1, <1>2, DaemonTypes DEF IInv, None, Gone, TypeOK, InvWire, Down, Booted
<1>9. TypeOK'
  BY <1>3, <1>4, <1>5, <1>6, <1>7, <1>8 DEF TypeOK
<1>10. NeverAsymmetric'
  BY <1>1, <1>2, DaemonTypes DEF IInv, NeverAsymmetric
<1>11. Agreement'
  BY <1>1, <1>2, DaemonTypes DEF IInv, Agreement
<1>12. StageHonest'
  BY <1>1, <1>2, DaemonTypes DEF IInv, StageHonest
<1>13. NeverGivesUp'
  BY <1>1, <1>2, DaemonTypes DEF IInv, NeverGivesUp
<1>14. InvWire'
  BY <1>1, <1>2, DaemonTypes DEF IInv, InvWire
<1>15. InvKey'
  BY <1>1, <1>2, DaemonTypes DEF IInv, InvKey
<1>16. InvTalk'
  BY <1>1, <1>2, DaemonTypes DEF IInv, InvTalk
<1>17. InvPhone'
  BY <1>1, <1>2, DaemonTypes DEF IInv, InvPhone, InvWire
<1>18. InvNext'
  BY <1>1, <1>2, DaemonTypes DEF IInv, InvNext
<1> QED
  BY <1>9, <1>10, <1>11, <1>12, <1>13, <1>14, <1>15, <1>16, <1>17, <1>18 DEF IInv

\* Dial keeps the invariant.
LEMMA DialInv ==
  ASSUME IInv, Dial
  PROVE  IInv'
<1> USE PhoneLinkAssumption
<1>1. \/ desk' = desk /\ wire' = [at |-> "auth", proved |-> FALSE]
      \/ Gone(desk, desk') /\ wire' = wire
  BY FailedDaemon DEF Dial, IInv, TypeOK
<1>2. /\ desk.at \in {"connect", "reconnect"} /\ wire.at = "down"
      /\ UNCHANGED <<file, flash, phone, talk, plugged, made, faults, stops>>
  BY DEF Dial
<1>3. desk' \in Daemons
  BY <1>1, <1>2, DaemonTypes DEF IInv, None, Gone, TypeOK
<1>4. (file \in Disk /\ flash \in Disk)'
  BY <1>1, <1>2, DaemonTypes DEF IInv, None, Gone, TypeOK, Disk, Maybe, Keys
<1>5. (phone \in [mode : {"stopped", "bootstrap", "proving", "enrolled"},
                  late : BOOLEAN, forgot : BOOLEAN])'
  BY <1>1, <1>2, DaemonTypes DEF IInv, None, Gone, TypeOK
<1>6. (/\ talk \in [at : {"none", "hello", "answered", "confirming"}, key : Maybe]
       /\ wire \in [at : {"down", "auth", "proof", "up"}, proved : BOOLEAN])'
  <2>1. /\ Unlinked \in [at : {"down", "auth", "proof", "up"}, proved : BOOLEAN]
        /\ [at |-> "auth", proved |-> FALSE] \in [at : {"down", "auth", "proof", "up"}, proved : BOOLEAN]
        /\ [at |-> "proof", proved |-> FALSE] \in [at : {"down", "auth", "proof", "up"}, proved : BOOLEAN]
        /\ [at |-> "proof", proved |-> TRUE] \in [at : {"down", "auth", "proof", "up"}, proved : BOOLEAN]
    BY DEF Unlinked
  <2>2. /\ talk' = talk
        /\ wire' \in {wire, Unlinked, [at |-> "auth", proved |-> FALSE],
                     [at |-> "proof", proved |-> FALSE], [at |-> "proof", proved |-> TRUE]}
    BY DEF Dial
  <2>3. talk \in [at : {"none", "hello", "answered", "confirming"}, key : Maybe]
        /\ wire \in [at : {"down", "auth", "proof", "up"}, proved : BOOLEAN]
    BY DEF IInv, TypeOK
  <2> QED
    BY <2>1, <2>2, <2>3
<1>7. (/\ plugged \in BOOLEAN /\ made \in 0..MaxPairings
       /\ faults \in 0..MaxFaults /\ stops \in 0..MaxStops)'
  BY <1>1, <1>2, DaemonTypes DEF IInv, None, Gone, TypeOK
<1>8. (/\ desk.stopping => ~desk.timer
       /\ desk.at = "down" => desk = Down /\ wire = Unlinked)'
  BY <1>1, <1>2, DaemonTypes DEF IInv, None, Gone, TypeOK, InvWire, Down, Booted
<1>9. TypeOK'
  BY <1>3, <1>4, <1>5, <1>6, <1>7, <1>8 DEF TypeOK
<1>10. NeverAsymmetric'
  BY <1>1, <1>2, DaemonTypes DEF IInv, NeverAsymmetric
<1>11. Agreement'
  BY <1>1, <1>2, DaemonTypes DEF IInv, Agreement
<1>12. StageHonest'
  BY <1>1, <1>2, DaemonTypes DEF IInv, Gone, StageHonest
<1>13. NeverGivesUp'
  BY <1>1, <1>2, DaemonTypes DEF IInv, Gone, NeverGivesUp
<1>14. InvWire'
  BY <1>1, <1>2, DaemonTypes DEF IInv, InvWire, TypeOK, StageHonest, NeverGivesUp
<1>15. InvKey'
  BY <1>1, <1>2, DaemonTypes DEF IInv, Gone, InvKey
<1>16. InvTalk'
  BY <1>1, <1>2, DaemonTypes DEF IInv, Gone, InvTalk
<1>17. InvPhone'
  BY <1>1, <1>2, DaemonTypes DEF IInv, InvPhone
<1>18. InvNext'
  BY <1>1, <1>2, DaemonTypes DEF IInv, Gone, InvNext
<1> QED
  BY <1>9, <1>10, <1>11, <1>12, <1>13, <1>14, <1>15, <1>16, <1>17, <1>18 DEF IInv

\* ReadProof keeps the invariant.
LEMMA ReadProofInv ==
  ASSUME IInv, ReadProof
  PROVE  IInv'
<1> USE PhoneLinkAssumption
<1>1. desk' \in Daemons
  <2>1. PICK d1 : d1 = [desk EXCEPT !.at =
                     IF desk.at = "reconnect" THEN "start" ELSE IF desk.plan = "committed" THEN "start" ELSE "commit"]
    OBVIOUS
  <2>2. d1 \in Daemons
    BY <2>1, DaemonFields, DaemonTypes DEF IInv, TypeOK, Disk, None, Connecting
  <2>3. desk' = d1
    BY <2>1 DEF ReadProof
  <2> QED
    BY <2>2, <2>3
<1>2. (file \in Disk /\ flash \in Disk)'
  BY DaemonTypes DEF ReadProof, IInv, None, TypeOK, Disk, Maybe, Keys
<1>3. (phone \in [mode : {"stopped", "bootstrap", "proving", "enrolled"},
                  late : BOOLEAN, forgot : BOOLEAN])'
  BY DaemonTypes DEF ReadProof, IInv, None, TypeOK
<1>4. (/\ talk \in [at : {"none", "hello", "answered", "confirming"}, key : Maybe]
       /\ wire \in [at : {"down", "auth", "proof", "up"}, proved : BOOLEAN])'
  BY DaemonTypes DEF ReadProof, IInv, None, TypeOK, Maybe, Keys, Disk
<1>5. (/\ plugged \in BOOLEAN /\ made \in 0..MaxPairings
       /\ faults \in 0..MaxFaults /\ stops \in 0..MaxStops)'
  BY DaemonTypes DEF ReadProof, IInv, None, TypeOK
<1>6. (/\ desk.stopping => ~desk.timer
       /\ desk.at = "down" => desk = Down /\ wire = Unlinked)'
  BY DaemonTypes DEF ReadProof, IInv, None, TypeOK, Daemons, InvWire, Down, Booted
<1>7. TypeOK'
  BY <1>1, <1>2, <1>3, <1>4, <1>5, <1>6 DEF TypeOK
<1>8. NeverAsymmetric'
  BY DaemonTypes DEF IInv, NeverAsymmetric, ReadProof
<1>9. Agreement'
  BY DaemonTypes DEF IInv, Agreement, ReadProof
<1>10. StageHonest'
  BY DaemonTypes DEF IInv, StageHonest, ReadProof
<1>11. NeverGivesUp'
  BY DaemonTypes DEF IInv, NeverGivesUp, ReadProof
<1>12. InvWire'
  BY DaemonTypes DEF IInv, InvWire, ReadProof
<1>13. InvKey'
  BY DaemonTypes DEF IInv, InvKey, ReadProof, NeverAsymmetric, InvTalk, InvPhone, Asymmetric
<1>14. InvTalk'
  BY DaemonTypes DEF IInv, InvTalk, ReadProof
<1>15. InvPhone'
  BY DaemonTypes DEF IInv, InvPhone, ReadProof
<1>16. InvNext'
  BY DaemonTypes DEF IInv, InvNext, ReadProof
<1> QED
  BY <1>7, <1>8, <1>9, <1>10, <1>11, <1>12, <1>13, <1>14, <1>15, <1>16 DEF IInv

\* CommitKey keeps the invariant.
LEMMA CommitKeyInv ==
  ASSUME IInv, CommitKey
  PROVE  IInv'
<1> USE PhoneLinkAssumption
<1>1. \/ /\ desk' \in Daemons /\ desk'.at = "start" /\ desk'.plan = desk.plan /\ desk'.key = desk.key
         /\ desk'.setup = desk.setup /\ desk'.attached = desk.attached
         /\ desk'.timer = desk.timer /\ desk'.stopping = desk.stopping
         /\ file' = Committed(file) /\ file.staged # None /\ file.committed = None
         /\ faults' = faults
      \/ Gone(desk, desk') /\ file' = file /\ faults' \in 0..MaxFaults
  <2>1. CASE Fault /\ desk' = Failed(desk, "disk") /\ UNCHANGED file
    BY <2>1, FailedDaemon DEF Fault, IInv, TypeOK
  <2>2. CASE /\ file.committed = None /\ file.staged # None
             /\ file' = Committed(file)
             /\ desk' = [desk EXCEPT !.at = "start", !.secret = Loaded(file')]
             /\ UNCHANGED faults
    <3>1. PICK d : d = [desk EXCEPT !.at = "start"]
      OBVIOUS
    <3>2. d \in Daemons
      BY <3>1, DaemonFields DEF IInv, TypeOK, Connecting
    <3>3. PICK e : e = [d EXCEPT !.secret = file.staged]
      OBVIOUS
    <3>4. e \in Daemons
      BY <3>2, <3>3, DaemonFields DEF IInv, TypeOK, Disk
    <3>5. desk' = e
      BY <2>2, <3>1, <3>3 DEF Committed, Loaded
    <3>6. /\ e.at = "start" /\ e.plan = desk.plan /\ e.key = desk.key
          /\ e.setup = desk.setup /\ e.attached = desk.attached
          /\ e.timer = desk.timer /\ e.stopping = desk.stopping
      BY <3>1, <3>3 DEF IInv, TypeOK, Daemons
    <3> QED
      BY <2>2, <3>4, <3>5, <3>6
  <2> QED
    BY <2>1, <2>2 DEF CommitKey
<1>2. desk.at = "commit" /\ UNCHANGED <<flash, phone, talk, wire, plugged, made, stops>>
  BY DEF CommitKey
<1>3. desk' \in Daemons
  BY <1>1, <1>2, DaemonTypes DEF IInv, None, Gone, Committed, TypeOK
<1>4. (file \in Disk /\ flash \in Disk)'
  BY <1>1, <1>2, DaemonTypes DEF IInv, None, Gone, Committed, TypeOK, Disk, Maybe, Keys
<1>5. (phone \in [mode : {"stopped", "bootstrap", "proving", "enrolled"},
                  late : BOOLEAN, forgot : BOOLEAN])'
  BY <1>1, <1>2, DaemonTypes DEF IInv, None, Gone, Committed, TypeOK
<1>6. (/\ talk \in [at : {"none", "hello", "answered", "confirming"}, key : Maybe]
       /\ wire \in [at : {"down", "auth", "proof", "up"}, proved : BOOLEAN])'
  BY <1>1, <1>2, DaemonTypes DEF IInv, None, Committed, TypeOK, Maybe, Keys, Disk, Unlinked
<1>7. (/\ plugged \in BOOLEAN /\ made \in 0..MaxPairings
       /\ faults \in 0..MaxFaults /\ stops \in 0..MaxStops)'
  BY <1>1, <1>2, DaemonTypes DEF IInv, None, Gone, Committed, TypeOK
<1>8. (/\ desk.stopping => ~desk.timer
       /\ desk.at = "down" => desk = Down /\ wire = Unlinked)'
  BY <1>1, <1>2, DaemonTypes DEF IInv, None, Gone, Committed, TypeOK, InvWire, Down, Booted
<1>9. TypeOK'
  BY <1>3, <1>4, <1>5, <1>6, <1>7, <1>8 DEF TypeOK
<1>10. NeverAsymmetric'
  BY <1>1, <1>2, DaemonTypes DEF IInv, NeverAsymmetric, Committed, Asymmetric
<1>11. Agreement'
  BY <1>1, <1>2, DaemonTypes DEF IInv, Agreement, Committed, InvKey
<1>12. StageHonest'
  BY <1>1, <1>2, DaemonTypes DEF IInv, Gone, StageHonest, Committed
<1>13. NeverGivesUp'
  BY <1>1, <1>2, DaemonTypes DEF IInv, Gone, NeverGivesUp, Committed
<1>14. InvWire'
  BY <1>1, <1>2, DaemonTypes DEF IInv, Gone, InvWire, Committed
<1>15. InvKey'
  BY <1>1, <1>2, DaemonTypes DEF IInv, Gone, InvKey, Committed
<1>16. InvTalk'
  BY <1>1, <1>2, DaemonTypes DEF IInv, Gone, InvTalk, Committed, InvKey
<1>17. InvPhone'
  BY <1>1, <1>2, DaemonTypes DEF IInv, Gone, InvPhone, Committed, InvKey
<1>18. InvNext'
  BY <1>1, <1>2, DaemonTypes DEF IInv, Gone, InvNext, Committed
<1> QED
  BY <1>9, <1>10, <1>11, <1>12, <1>13, <1>14, <1>15, <1>16, <1>17, <1>18 DEF IInv

\* StartGateway keeps the invariant.
LEMMA StartGatewayInv ==
  ASSUME IInv, StartGateway
  PROVE  IInv'
<1> USE PhoneLinkAssumption
<1>1. \/ Gone(desk, desk')
      \/ /\ desk' \in Daemons
         /\ \/ desk'.at = "evidence" /\ desk'.key = desk.key
            \/ desk'.at = "reconnect" /\ wire.at = "down"
         /\ desk'.plan = desk.plan /\ desk'.setup = desk.setup /\ desk'.attached = desk.attached
         /\ desk'.timer = desk.timer /\ desk'.stopping = desk.stopping
  <2>1. CASE \E cause : desk' = Failed(desk, cause)
    BY <2>1, FailedDaemon DEF IInv, TypeOK
  <2>2. CASE desk' = [desk EXCEPT !.at = "evidence"]
    <3>1. desk' \in Daemons
      BY <2>2, DaemonFields DEF IInv, TypeOK, Connecting
    <3>2. /\ desk'.at = "evidence" /\ desk'.plan = desk.plan /\ desk'.key = desk.key
          /\ desk'.setup = desk.setup /\ desk'.attached = desk.attached
          /\ desk'.timer = desk.timer /\ desk'.stopping = desk.stopping
      BY <2>2 DEF IInv, TypeOK, Daemons
    <3> QED
      BY <3>1, <3>2
  <2>3. CASE wire.at = "down" /\ desk' = [desk EXCEPT !.at = "reconnect", !.forward = TRUE, !.key = desk.secret]
    <3>1. PICK d : d = [desk EXCEPT !.at = "reconnect"]
      OBVIOUS
    <3>2. d \in Daemons
      BY <3>1, DaemonFields DEF IInv, TypeOK, Connecting
    <3>3. PICK e : e = [d EXCEPT !.forward = TRUE]
      OBVIOUS
    <3>4. e \in Daemons
      BY <3>2, <3>3, DaemonFields
    <3>5. PICK f : f = [e EXCEPT !.key = desk.secret]
      OBVIOUS
    <3>6. f \in Daemons
      BY <3>4, <3>5, DaemonFields, DaemonTypes DEF IInv, TypeOK
    <3>7. desk' = f
      BY <2>3, <3>1, <3>3, <3>5
    <3>8. /\ f.at = "reconnect" /\ f.plan = desk.plan /\ f.setup = desk.setup
          /\ f.attached = desk.attached /\ f.timer = desk.timer /\ f.stopping = desk.stopping
      BY <3>1, <3>3, <3>5 DEF IInv, TypeOK, Daemons
    <3> QED
      BY <2>3, <3>6, <3>7, <3>8
  <2> QED
    BY <2>1, <2>2, <2>3 DEF StartGateway
<1>2. desk.at = "start" /\ UNCHANGED <<file, flash, phone, talk, wire, plugged, made, faults, stops>>
  BY DEF StartGateway
<1>3. desk' \in Daemons
  BY <1>1, <1>2, DaemonTypes DEF IInv, None, Gone, TypeOK
<1>4. (file \in Disk /\ flash \in Disk)'
  BY <1>1, <1>2, DaemonTypes DEF IInv, None, Gone, TypeOK, Disk, Maybe, Keys
<1>5. (phone \in [mode : {"stopped", "bootstrap", "proving", "enrolled"},
                  late : BOOLEAN, forgot : BOOLEAN])'
  BY <1>1, <1>2, DaemonTypes DEF IInv, None, Gone, TypeOK
<1>6. (/\ talk \in [at : {"none", "hello", "answered", "confirming"}, key : Maybe]
       /\ wire \in [at : {"down", "auth", "proof", "up"}, proved : BOOLEAN])'
  BY <1>1, <1>2, DaemonTypes DEF IInv, None, TypeOK, Maybe, Keys, Disk, Unlinked
<1>7. (/\ plugged \in BOOLEAN /\ made \in 0..MaxPairings
       /\ faults \in 0..MaxFaults /\ stops \in 0..MaxStops)'
  BY <1>1, <1>2, DaemonTypes DEF IInv, None, Gone, TypeOK
<1>8. (/\ desk.stopping => ~desk.timer
       /\ desk.at = "down" => desk = Down /\ wire = Unlinked)'
  BY <1>1, <1>2, DaemonTypes DEF IInv, None, Gone, TypeOK, InvWire, Down, Booted
<1>9. TypeOK'
  BY <1>3, <1>4, <1>5, <1>6, <1>7, <1>8 DEF TypeOK
<1>10. NeverAsymmetric'
  BY <1>1, <1>2, DaemonTypes DEF IInv, NeverAsymmetric
<1>11. Agreement'
  BY <1>1, <1>2, DaemonTypes DEF IInv, Agreement
<1>12. StageHonest'
  BY <1>1, <1>2, DaemonTypes DEF IInv, Gone, StageHonest
<1>13. NeverGivesUp'
  BY <1>1, <1>2, DaemonTypes DEF IInv, Gone, NeverGivesUp
<1>14. InvWire'
  BY <1>1, <1>2, DaemonTypes DEF IInv, Gone, InvWire
<1>15. InvKey'
  BY <1>1, <1>2, DaemonTypes DEF IInv, Gone, InvKey
<1>16. InvTalk'
  BY <1>1, <1>2, DaemonTypes DEF IInv, Gone, InvTalk
<1>17. InvPhone'
  BY <1>1, <1>2, DaemonTypes DEF IInv, Gone, InvPhone
<1>18. InvNext'
  BY <1>1, <1>2, DaemonTypes DEF IInv, Gone, InvNext
<1> QED
  BY <1>9, <1>10, <1>11, <1>12, <1>13, <1>14, <1>15, <1>16, <1>17, <1>18 DEF IInv

\* Attach keeps the invariant.
LEMMA AttachInv ==
  ASSUME IInv, Attach
  PROVE  IInv'
<1> USE PhoneLinkAssumption
<1>1. \/ Gone(desk, desk') /\ faults' \in 0..MaxFaults
      \/ /\ desk' \in Daemons /\ desk'.at = "idle" /\ desk'.attached = TRUE
         /\ desk'.plan = desk.plan /\ desk'.setup = "AUTHENTICATED"
         /\ desk'.timer = desk.timer /\ desk'.stopping = desk.stopping
         /\ wire.at = "up" /\ faults' = faults
  <2>1. CASE (\E cause : desk' = Failed(desk, cause)) /\ (faults' = faults \/ Fault)
    BY <2>1, FailedDaemon DEF Fault, IInv, TypeOK
  <2>2. CASE /\ wire.at = "up" /\ UNCHANGED faults
             /\ desk' = [desk EXCEPT !.at = "idle", !.attached = TRUE, !.setup = "AUTHENTICATED",
                                     !.closing = desk.closing \/ desk.tunnel, !.tunnel = FALSE,
                                     !.secret = IF desk.tunnel THEN @ ELSE None]
    <3>1. PICK d : d = [desk EXCEPT !.at = "idle"]
      OBVIOUS
    <3>2. d \in Daemons
      BY <3>1, DaemonFields DEF IInv, TypeOK
    <3>3. PICK e : e = [d EXCEPT !.attached = TRUE]
      OBVIOUS
    <3>4. e \in Daemons
      BY <3>2, <3>3, DaemonFields
    <3>5. PICK f : f = [e EXCEPT !.setup = "AUTHENTICATED"]
      OBVIOUS
    <3>6. f \in Daemons
      BY <3>4, <3>5, DaemonFields DEF Stages
    <3>7. PICK g : g = [f EXCEPT !.closing = desk.closing \/ desk.tunnel]
      OBVIOUS
    <3>8. g \in Daemons
      BY <3>6, <3>7, DaemonFields
    <3>9. PICK h : h = [g EXCEPT !.tunnel = FALSE]
      OBVIOUS
    <3>10. h \in Daemons
      BY <3>8, <3>9, DaemonFields
    <3>11. PICK i : i = [h EXCEPT !.secret = IF desk.tunnel THEN desk.secret ELSE None]
      OBVIOUS
    <3>12. i \in Daemons
      BY <3>10, <3>11, DaemonFields, DaemonTypes DEF IInv, TypeOK, Maybe
    <3>13. desk' = i
      BY <2>2, <3>1, <3>3, <3>5, <3>7, <3>9, <3>11
    <3>14. /\ i.at = "idle" /\ i.attached = TRUE /\ i.setup = "AUTHENTICATED" /\ i.plan = desk.plan
           /\ i.timer = desk.timer /\ i.stopping = desk.stopping
      BY <3>1, <3>3, <3>5, <3>7, <3>9, <3>11 DEF IInv, TypeOK, Daemons
    <3> QED
      BY <2>2, <3>12, <3>13, <3>14
  <2> QED
    BY <2>1, <2>2 DEF Attach
<1>2. desk.at = "evidence" /\ UNCHANGED <<file, flash, phone, talk, wire, plugged, made, stops>>
  BY DEF Attach
<1>3. desk' \in Daemons
  BY <1>1, <1>2, DaemonTypes DEF IInv, None, Gone, TypeOK
<1>4. (file \in Disk /\ flash \in Disk)'
  BY <1>1, <1>2, DaemonTypes DEF IInv, None, Gone, TypeOK, Disk, Maybe, Keys
<1>5. (phone \in [mode : {"stopped", "bootstrap", "proving", "enrolled"},
                  late : BOOLEAN, forgot : BOOLEAN])'
  BY <1>1, <1>2, DaemonTypes DEF IInv, None, Gone, TypeOK
<1>6. (/\ talk \in [at : {"none", "hello", "answered", "confirming"}, key : Maybe]
       /\ wire \in [at : {"down", "auth", "proof", "up"}, proved : BOOLEAN])'
  BY <1>1, <1>2, DaemonTypes DEF IInv, None, TypeOK, Maybe, Keys, Disk, Unlinked
<1>7. (/\ plugged \in BOOLEAN /\ made \in 0..MaxPairings
       /\ faults \in 0..MaxFaults /\ stops \in 0..MaxStops)'
  BY <1>1, <1>2, DaemonTypes DEF IInv, None, Gone, TypeOK
<1>8. (/\ desk.stopping => ~desk.timer
       /\ desk.at = "down" => desk = Down /\ wire = Unlinked)'
  BY <1>1, <1>2, DaemonTypes DEF IInv, None, Gone, TypeOK, InvWire, Down, Booted
<1>9. TypeOK'
  BY <1>3, <1>4, <1>5, <1>6, <1>7, <1>8 DEF TypeOK
<1>10. NeverAsymmetric'
  BY <1>1, <1>2, DaemonTypes DEF IInv, NeverAsymmetric
<1>11. Agreement'
  BY <1>1, <1>2, DaemonTypes DEF IInv, Agreement
<1>12. StageHonest'
  BY <1>1, <1>2, DaemonTypes DEF IInv, Gone, StageHonest
<1>13. NeverGivesUp'
  BY <1>1, <1>2, DaemonTypes DEF IInv, Gone, NeverGivesUp
<1>14. InvWire'
  BY <1>1, <1>2, DaemonTypes DEF IInv, Gone, InvWire
<1>15. InvKey'
  BY <1>1, <1>2, DaemonTypes DEF IInv, Gone, InvKey
<1>16. InvTalk'
  BY <1>1, <1>2, DaemonTypes DEF IInv, Gone, InvTalk
<1>17. InvPhone'
  BY <1>1, <1>2, DaemonTypes DEF IInv, Gone, InvPhone
<1>18. InvNext'
  BY <1>1, <1>2, DaemonTypes DEF IInv, Gone, InvNext
<1> QED
  BY <1>9, <1>10, <1>11, <1>12, <1>13, <1>14, <1>15, <1>16, <1>17, <1>18 DEF IInv

\* CleanupPhone keeps the invariant.
LEMMA CleanupPhoneInv ==
  ASSUME IInv, CleanupPhone
  PROVE  IInv'
<1> USE PhoneLinkAssumption
<1>1. desk' \in Daemons
  <2>1. PICK d1 : d1 = [desk EXCEPT !.at = "idle"]
    OBVIOUS
  <2>2. d1 \in Daemons
    BY <2>1, DaemonFields, DaemonTypes DEF IInv, TypeOK, Disk, None
  <2>3. PICK d2 : d2 = [d1 EXCEPT !.setup = desk.next]
    OBVIOUS
  <2>4. d2 \in Daemons
    BY <2>2, <2>3, DaemonFields, DaemonTypes DEF IInv, TypeOK, Disk, None
  <2>5. PICK d3 : d3 = [d2 EXCEPT !.forward = FALSE]
    OBVIOUS
  <2>6. d3 \in Daemons
    BY <2>4, <2>5, DaemonFields, DaemonTypes DEF IInv, TypeOK, Disk, None
  <2>7. PICK d4 : d4 = [d3 EXCEPT !.closing = desk.closing \/ desk.tunnel]
    OBVIOUS
  <2>8. d4 \in Daemons
    BY <2>6, <2>7, DaemonFields, DaemonTypes DEF IInv, TypeOK, Disk, None
  <2>9. PICK d5 : d5 = [d4 EXCEPT !.tunnel = FALSE]
    OBVIOUS
  <2>10. d5 \in Daemons
    BY <2>8, <2>9, DaemonFields, DaemonTypes DEF IInv, TypeOK, Disk, None
  <2>11. PICK d6 : d6 = [d5 EXCEPT !.secret = IF desk.tunnel THEN desk.secret ELSE None]
    OBVIOUS
  <2>12. d6 \in Daemons
    BY <2>10, <2>11, DaemonFields, DaemonTypes DEF IInv, TypeOK, Disk, None, Maybe
  <2>13. PICK d7 : d7 = [d6 EXCEPT !.timer = ~desk.stopping]
    OBVIOUS
  <2>14. d7 \in Daemons
    BY <2>12, <2>13, DaemonFields, DaemonTypes DEF IInv, TypeOK, Disk, None
  <2>15. desk' = d7
    BY <2>1, <2>3, <2>5, <2>7, <2>9, <2>11, <2>13 DEF CleanupPhone, ScheduleRetry, Daemons, TypeOK
  <2> QED
    BY <2>14, <2>15
<1>2. /\ desk'.at = "idle" /\ desk'.attached = desk.attached
      /\ desk'.stopping = desk.stopping /\ desk'.timer = ~desk.stopping /\ desk.at = "cleaning"
  BY DEF CleanupPhone, ScheduleRetry, IInv, TypeOK, Daemons
<1>3. (file \in Disk /\ flash \in Disk)'
  BY DaemonTypes DEF CleanupPhone, ScheduleRetry, Unlinked, IInv, None, TypeOK, Disk, Maybe, Keys
<1>4. (phone \in [mode : {"stopped", "bootstrap", "proving", "enrolled"},
                  late : BOOLEAN, forgot : BOOLEAN])'
  BY DaemonTypes DEF CleanupPhone, ScheduleRetry, Unlinked, IInv, None, TypeOK
<1>5. (/\ talk \in [at : {"none", "hello", "answered", "confirming"}, key : Maybe]
       /\ wire \in [at : {"down", "auth", "proof", "up"}, proved : BOOLEAN])'
  BY DaemonTypes DEF CleanupPhone, ScheduleRetry, Unlinked, IInv, None, TypeOK, Maybe, Keys, Disk
<1>6. (/\ plugged \in BOOLEAN /\ made \in 0..MaxPairings
       /\ faults \in 0..MaxFaults /\ stops \in 0..MaxStops)'
  BY DaemonTypes DEF CleanupPhone, ScheduleRetry, Unlinked, IInv, None, TypeOK
<1>7. (/\ desk.stopping => ~desk.timer
       /\ desk.at = "down" => desk = Down /\ wire = Unlinked)'
  BY DaemonTypes DEF CleanupPhone, ScheduleRetry, Unlinked, IInv, None, TypeOK, Daemons,
     InvWire, Down, Booted
<1>8. TypeOK'
  BY <1>1, <1>3, <1>4, <1>5, <1>6, <1>7 DEF TypeOK
<1>9. NeverAsymmetric'
  BY DaemonTypes DEF IInv, NeverAsymmetric, CleanupPhone, ScheduleRetry
<1>10. Agreement'
  BY DaemonTypes DEF IInv, Agreement, CleanupPhone, ScheduleRetry
<1>11. StageHonest'
  BY DaemonTypes DEF IInv, StageHonest, CleanupPhone, ScheduleRetry, InvNext, Shown
<1>12. NeverGivesUp'
  BY <1>2, DaemonTypes DEF IInv, NeverGivesUp, StageHonest
<1>13. InvWire'
  BY DaemonTypes DEF IInv, InvWire, CleanupPhone, ScheduleRetry, Unlinked
<1>14. InvKey'
  BY DaemonTypes DEF IInv, InvKey, CleanupPhone, ScheduleRetry
<1>15. InvTalk'
  BY DaemonTypes DEF IInv, InvTalk, CleanupPhone, ScheduleRetry
<1>16. InvPhone'
  BY DaemonTypes DEF IInv, InvPhone, CleanupPhone, ScheduleRetry, Unlinked
<1>17. InvNext'
  BY DaemonTypes DEF IInv, InvNext, CleanupPhone, ScheduleRetry
<1> QED
  BY <1>8, <1>9, <1>10, <1>11, <1>12, <1>13, <1>14, <1>15, <1>16, <1>17 DEF IInv

\* TunnelRemoved keeps the invariant.
LEMMA TunnelRemovedInv ==
  ASSUME IInv, TunnelRemoved
  PROVE  IInv'
<1> USE PhoneLinkAssumption
<1>1. desk' \in Daemons
  <2>1. PICK d1 : d1 = [desk EXCEPT !.closing = FALSE]
    OBVIOUS
  <2>2. d1 \in Daemons
    BY <2>1, DaemonFields, DaemonTypes DEF IInv, TypeOK, Disk, None
  <2>3. PICK d2 : d2 = [d1 EXCEPT !.secret = None]
    OBVIOUS
  <2>4. d2 \in Daemons
    BY <2>2, <2>3, DaemonFields, DaemonTypes DEF IInv, TypeOK, Disk, None, Maybe
  <2>5. desk' = d2
    BY <2>1, <2>3 DEF TunnelRemoved
  <2> QED
    BY <2>4, <2>5
<1>2. (file \in Disk /\ flash \in Disk)'
  BY DaemonTypes DEF TunnelRemoved, IInv, None, TypeOK, Disk, Maybe, Keys
<1>3. (phone \in [mode : {"stopped", "bootstrap", "proving", "enrolled"},
                  late : BOOLEAN, forgot : BOOLEAN])'
  BY DaemonTypes DEF TunnelRemoved, IInv, None, TypeOK
<1>4. (/\ talk \in [at : {"none", "hello", "answered", "confirming"}, key : Maybe]
       /\ wire \in [at : {"down", "auth", "proof", "up"}, proved : BOOLEAN])'
  BY DaemonTypes DEF TunnelRemoved, IInv, None, TypeOK, Maybe, Keys, Disk
<1>5. (/\ plugged \in BOOLEAN /\ made \in 0..MaxPairings
       /\ faults \in 0..MaxFaults /\ stops \in 0..MaxStops)'
  BY DaemonTypes DEF TunnelRemoved, IInv, None, TypeOK
<1>6. (/\ desk.stopping => ~desk.timer
       /\ desk.at = "down" => desk = Down /\ wire = Unlinked)'
  BY DaemonTypes DEF TunnelRemoved, IInv, None, TypeOK, Daemons, InvWire, Down, Booted
<1>7. TypeOK'
  BY <1>1, <1>2, <1>3, <1>4, <1>5, <1>6 DEF TypeOK
<1>8. NeverAsymmetric'
  BY DaemonTypes DEF IInv, NeverAsymmetric, TunnelRemoved
<1>9. Agreement'
  BY DaemonTypes DEF IInv, Agreement, TunnelRemoved
<1>10. StageHonest'
  BY DaemonTypes DEF IInv, StageHonest, TunnelRemoved
<1>11. NeverGivesUp'
  BY DaemonTypes DEF IInv, NeverGivesUp, TunnelRemoved
<1>12. InvWire'
  BY DaemonTypes DEF IInv, InvWire, TunnelRemoved
<1>13. InvKey'
  BY DaemonTypes DEF IInv, InvKey, TunnelRemoved
<1>14. InvTalk'
  BY DaemonTypes DEF IInv, InvTalk, TunnelRemoved
<1>15. InvPhone'
  BY DaemonTypes DEF IInv, InvPhone, TunnelRemoved
<1>16. InvNext'
  BY DaemonTypes DEF IInv, InvNext, TunnelRemoved
<1> QED
  BY <1>7, <1>8, <1>9, <1>10, <1>11, <1>12, <1>13, <1>14, <1>15, <1>16 DEF IInv

\* PhoneStarts keeps the invariant.
LEMMA PhoneStartsInv ==
  ASSUME IInv, PhoneStarts
  PROVE  IInv'
<1> USE PhoneLinkAssumption
<1>1. desk' \in Daemons
  BY DEF PhoneStarts, IInv, TypeOK
<1>2. (file \in Disk /\ flash \in Disk)'
  BY DaemonTypes DEF PhoneStarts, Recovered, IInv, None, TypeOK, Disk, Maybe, Keys
<1>3. (phone \in [mode : {"stopped", "bootstrap", "proving", "enrolled"},
                  late : BOOLEAN, forgot : BOOLEAN])'
  BY DaemonTypes DEF PhoneStarts, Recovered, IInv, None, TypeOK
<1>4. (/\ talk \in [at : {"none", "hello", "answered", "confirming"}, key : Maybe]
       /\ wire \in [at : {"down", "auth", "proof", "up"}, proved : BOOLEAN])'
  BY DaemonTypes DEF PhoneStarts, Recovered, IInv, None, TypeOK, Maybe, Keys, Disk
<1>5. (/\ plugged \in BOOLEAN /\ made \in 0..MaxPairings
       /\ faults \in 0..MaxFaults /\ stops \in 0..MaxStops)'
  BY DaemonTypes DEF PhoneStarts, Recovered, IInv, None, TypeOK
<1>6. (/\ desk.stopping => ~desk.timer
       /\ desk.at = "down" => desk = Down /\ wire = Unlinked)'
  BY DaemonTypes DEF PhoneStarts, Recovered, IInv, None, TypeOK, Daemons, InvWire, Down, Booted
<1>7. TypeOK'
  BY <1>1, <1>2, <1>3, <1>4, <1>5, <1>6 DEF TypeOK
<1>8. NeverAsymmetric'
  BY DaemonTypes DEF IInv, NeverAsymmetric, PhoneStarts, Recovered
<1>9. Agreement'
  BY DaemonTypes DEF IInv, Agreement, PhoneStarts, Recovered
<1>10. StageHonest'
  BY DaemonTypes DEF IInv, StageHonest, PhoneStarts, Recovered
<1>11. NeverGivesUp'
  BY DaemonTypes DEF IInv, NeverGivesUp, PhoneStarts, Recovered
<1>12. InvWire'
  BY DaemonTypes DEF IInv, InvWire, PhoneStarts, Recovered
<1>13. InvKey'
  BY DaemonTypes DEF IInv, InvKey, PhoneStarts, Recovered
<1>14. InvTalk'
  BY DaemonTypes DEF IInv, InvTalk, PhoneStarts, Recovered
<1>15. InvPhone'
  BY DaemonTypes DEF IInv, InvPhone, PhoneStarts, Recovered
<1>16. InvNext'
  BY DaemonTypes DEF IInv, InvNext, PhoneStarts, Recovered
<1> QED
  BY <1>7, <1>8, <1>9, <1>10, <1>11, <1>12, <1>13, <1>14, <1>15, <1>16 DEF IInv

\* Answer keeps the invariant.
LEMMA AnswerInv ==
  ASSUME IInv, Answer
  PROVE  IInv'
<1> USE PhoneLinkAssumption
<1>1. desk' \in Daemons
  BY DEF Answer, IInv, TypeOK
<1>2. (file \in Disk /\ flash \in Disk)'
  BY DaemonTypes DEF Answer, Reply, Empty, IInv, None, TypeOK, Disk, Maybe, Keys
<1>3. (phone \in [mode : {"stopped", "bootstrap", "proving", "enrolled"},
                  late : BOOLEAN, forgot : BOOLEAN])'
  BY DaemonTypes DEF Answer, Reply, Empty, IInv, None, TypeOK
<1>4. (/\ talk \in [at : {"none", "hello", "answered", "confirming"}, key : Maybe]
       /\ wire \in [at : {"down", "auth", "proof", "up"}, proved : BOOLEAN])'
  BY DaemonTypes DEF Answer, Reply, Empty, IInv, None, TypeOK, Maybe, Keys, Disk
<1>5. (/\ plugged \in BOOLEAN /\ made \in 0..MaxPairings
       /\ faults \in 0..MaxFaults /\ stops \in 0..MaxStops)'
  BY DaemonTypes DEF Answer, Reply, Empty, IInv, None, TypeOK
<1>6. (/\ desk.stopping => ~desk.timer
       /\ desk.at = "down" => desk = Down /\ wire = Unlinked)'
  BY DaemonTypes DEF Answer, Reply, Empty, IInv, None, TypeOK, Daemons, InvWire, Down, Booted
<1>7. TypeOK'
  BY <1>1, <1>2, <1>3, <1>4, <1>5, <1>6 DEF TypeOK
<1>8. NeverAsymmetric'
  BY DaemonTypes DEF IInv, NeverAsymmetric, Answer, Reply
<1>9. Agreement'
  BY DaemonTypes DEF IInv, Agreement, Answer, Reply
<1>10. StageHonest'
  BY DaemonTypes DEF IInv, StageHonest, Answer, Reply
<1>11. NeverGivesUp'
  BY DaemonTypes DEF IInv, NeverGivesUp, Answer, Reply
<1>12. InvWire'
  BY DaemonTypes DEF IInv, InvWire, Answer, Reply
<1>13. InvKey'
  BY DaemonTypes DEF IInv, InvKey, Answer, Reply
<1>14. InvTalk'
  BY DaemonTypes DEF IInv, None, InvTalk, Answer, Reply, TypeOK
<1>15. InvPhone'
  BY DaemonTypes DEF IInv, InvPhone, Answer, Reply
<1>16. InvNext'
  BY DaemonTypes DEF IInv, InvNext, Answer, Reply
<1> QED
  BY <1>7, <1>8, <1>9, <1>10, <1>11, <1>12, <1>13, <1>14, <1>15, <1>16 DEF IInv

\* TakeConfirmation keeps the invariant.
LEMMA TakeConfirmationInv ==
  ASSUME IInv, TakeConfirmation
  PROVE  IInv'
<1> USE PhoneLinkAssumption
<1>1. desk' \in Daemons
  BY DEF TakeConfirmation, IInv, TypeOK
<1>2. (file \in Disk /\ flash \in Disk)'
  BY DaemonTypes DEF TakeConfirmation, StagedAs, Silent, Empty, IInv, None, TypeOK, Disk,
     Maybe, Keys
<1>3. (phone \in [mode : {"stopped", "bootstrap", "proving", "enrolled"},
                  late : BOOLEAN, forgot : BOOLEAN])'
  BY DaemonTypes DEF TakeConfirmation, StagedAs, Silent, Empty, IInv, None, TypeOK
<1>4. (/\ talk \in [at : {"none", "hello", "answered", "confirming"}, key : Maybe]
       /\ wire \in [at : {"down", "auth", "proof", "up"}, proved : BOOLEAN])'
  BY DaemonTypes DEF TakeConfirmation, StagedAs, Silent, Empty, IInv, None, TypeOK, Maybe,
     Keys, Disk
<1>5. (/\ plugged \in BOOLEAN /\ made \in 0..MaxPairings
       /\ faults \in 0..MaxFaults /\ stops \in 0..MaxStops)'
  BY DaemonTypes DEF TakeConfirmation, StagedAs, Silent, Empty, IInv, None, TypeOK
<1>6. (/\ desk.stopping => ~desk.timer
       /\ desk.at = "down" => desk = Down /\ wire = Unlinked)'
  BY DaemonTypes DEF TakeConfirmation, StagedAs, Silent, Empty, IInv, None, TypeOK, Daemons,
     InvWire, Down, Booted
<1>7. TypeOK'
  BY <1>1, <1>2, <1>3, <1>4, <1>5, <1>6 DEF TypeOK
<1>8. NeverAsymmetric'
  BY DaemonTypes DEF IInv, NeverAsymmetric, TakeConfirmation, StagedAs, Silent, Empty, Asymmetric
<1>9. Agreement'
  BY DaemonTypes DEF IInv, Agreement, TakeConfirmation, StagedAs, Silent
<1>10. StageHonest'
  BY DaemonTypes DEF IInv, StageHonest, TakeConfirmation, StagedAs, Silent
<1>11. NeverGivesUp'
  BY DaemonTypes DEF IInv, NeverGivesUp, TakeConfirmation, StagedAs, Silent
<1>12. InvWire'
  BY DaemonTypes DEF IInv, InvWire, TakeConfirmation, StagedAs, Silent
<1>13. InvKey'
  BY DaemonTypes DEF IInv, InvKey, TakeConfirmation, StagedAs, Silent
<1>14. InvTalk'
  BY DaemonTypes DEF IInv, InvTalk, TakeConfirmation, StagedAs, Silent
<1>15. InvPhone'
  BY DaemonTypes DEF IInv, InvPhone, TakeConfirmation, StagedAs, Silent, InvTalk
<1>16. InvNext'
  BY DaemonTypes DEF IInv, InvNext, TakeConfirmation, StagedAs, Silent
<1> QED
  BY <1>7, <1>8, <1>9, <1>10, <1>11, <1>12, <1>13, <1>14, <1>15, <1>16 DEF IInv

\* WindowCloses keeps the invariant.
LEMMA WindowClosesInv ==
  ASSUME IInv, WindowCloses
  PROVE  IInv'
<1> USE PhoneLinkAssumption
<1>1. desk' \in Daemons
  BY DEF WindowCloses, IInv, TypeOK
<1>2. (file \in Disk /\ flash \in Disk)'
  BY DaemonTypes DEF WindowCloses, IInv, None, TypeOK, Disk, Maybe, Keys
<1>3. (phone \in [mode : {"stopped", "bootstrap", "proving", "enrolled"},
                  late : BOOLEAN, forgot : BOOLEAN])'
  BY DaemonTypes DEF WindowCloses, IInv, None, TypeOK
<1>4. (/\ talk \in [at : {"none", "hello", "answered", "confirming"}, key : Maybe]
       /\ wire \in [at : {"down", "auth", "proof", "up"}, proved : BOOLEAN])'
  BY DaemonTypes DEF WindowCloses, IInv, None, TypeOK, Maybe, Keys, Disk
<1>5. (/\ plugged \in BOOLEAN /\ made \in 0..MaxPairings
       /\ faults \in 0..MaxFaults /\ stops \in 0..MaxStops)'
  BY DaemonTypes DEF WindowCloses, IInv, None, TypeOK
<1>6. (/\ desk.stopping => ~desk.timer
       /\ desk.at = "down" => desk = Down /\ wire = Unlinked)'
  BY DaemonTypes DEF WindowCloses, IInv, None, TypeOK, Daemons, InvWire, Down, Booted
<1>7. TypeOK'
  BY <1>1, <1>2, <1>3, <1>4, <1>5, <1>6 DEF TypeOK
<1>8. NeverAsymmetric'
  BY DaemonTypes DEF IInv, NeverAsymmetric, WindowCloses
<1>9. Agreement'
  BY DaemonTypes DEF IInv, Agreement, WindowCloses
<1>10. StageHonest'
  BY DaemonTypes DEF IInv, StageHonest, WindowCloses
<1>11. NeverGivesUp'
  BY DaemonTypes DEF IInv, NeverGivesUp, WindowCloses
<1>12. InvWire'
  BY DaemonTypes DEF IInv, InvWire, WindowCloses
<1>13. InvKey'
  BY DaemonTypes DEF IInv, InvKey, WindowCloses
<1>14. InvTalk'
  BY DaemonTypes DEF IInv, InvTalk, WindowCloses
<1>15. InvPhone'
  BY DaemonTypes DEF IInv, InvPhone, WindowCloses
<1>16. InvNext'
  BY DaemonTypes DEF IInv, InvNext, WindowCloses
<1> QED
  BY <1>7, <1>8, <1>9, <1>10, <1>11, <1>12, <1>13, <1>14, <1>15, <1>16 DEF IInv

\* ClientGone keeps the invariant.
LEMMA ClientGoneInv ==
  ASSUME IInv, ClientGone
  PROVE  IInv'
<1> USE PhoneLinkAssumption
<1>1. desk' \in Daemons
  BY DEF ClientGone, IInv, TypeOK
<1>2. (file \in Disk /\ flash \in Disk)'
  BY DaemonTypes DEF ClientGone, IInv, None, TypeOK, Disk, Maybe, Keys
<1>3. (phone \in [mode : {"stopped", "bootstrap", "proving", "enrolled"},
                  late : BOOLEAN, forgot : BOOLEAN])'
  BY DaemonTypes DEF ClientGone, IInv, None, TypeOK
<1>4. (/\ talk \in [at : {"none", "hello", "answered", "confirming"}, key : Maybe]
       /\ wire \in [at : {"down", "auth", "proof", "up"}, proved : BOOLEAN])'
  BY DaemonTypes DEF ClientGone, IInv, None, TypeOK, Maybe, Keys, Disk
<1>5. (/\ plugged \in BOOLEAN /\ made \in 0..MaxPairings
       /\ faults \in 0..MaxFaults /\ stops \in 0..MaxStops)'
  BY DaemonTypes DEF ClientGone, IInv, None, TypeOK
<1>6. (/\ desk.stopping => ~desk.timer
       /\ desk.at = "down" => desk = Down /\ wire = Unlinked)'
  BY DaemonTypes DEF ClientGone, IInv, None, TypeOK, Daemons, InvWire, Down, Booted
<1>7. TypeOK'
  BY <1>1, <1>2, <1>3, <1>4, <1>5, <1>6 DEF TypeOK
<1>8. NeverAsymmetric'
  BY DaemonTypes DEF IInv, NeverAsymmetric, ClientGone
<1>9. Agreement'
  BY DaemonTypes DEF IInv, Agreement, ClientGone
<1>10. StageHonest'
  BY DaemonTypes DEF IInv, StageHonest, ClientGone
<1>11. NeverGivesUp'
  BY DaemonTypes DEF IInv, NeverGivesUp, ClientGone
<1>12. InvWire'
  BY DaemonTypes DEF IInv, InvWire, ClientGone
<1>13. InvKey'
  BY DaemonTypes DEF IInv, InvKey, ClientGone
<1>14. InvTalk'
  BY DaemonTypes DEF IInv, InvTalk, ClientGone
<1>15. InvPhone'
  BY DaemonTypes DEF IInv, InvPhone, ClientGone
<1>16. InvNext'
  BY DaemonTypes DEF IInv, InvNext, ClientGone
<1> QED
  BY <1>7, <1>8, <1>9, <1>10, <1>11, <1>12, <1>13, <1>14, <1>15, <1>16 DEF IInv

\* AdmitDesktop keeps the invariant.
LEMMA AdmitDesktopInv ==
  ASSUME IInv, AdmitDesktop
  PROVE  IInv'
<1> USE PhoneLinkAssumption
<1>1. \/ Gone(desk, desk') /\ wire'.at = "down"
      \/ desk' = desk /\ wire'.at = "proof"
      \/ desk' = desk /\ wire'.at = "down" /\ desk.at \notin {"connect", "reconnect"}
  BY FailedDaemon DEF AdmitDesktop, Unlinked, IInv, TypeOK
<1>2. /\ wire.at = "auth" /\ UNCHANGED <<file, talk, plugged, made, faults, stops>>
      /\ \/ /\ phone.mode = "enrolled" /\ UNCHANGED <<flash, phone>>
            /\ \/ wire' = Unlinked
               \/ /\ wire' = [at |-> "proof", proved |-> FALSE]
                  /\ desk.key = flash.committed
         \/ /\ phone.mode = "proving" /\ desk.key = flash.staged /\ desk.key # None
            /\ flash' = Committed(flash)
            /\ wire' = [at |-> "proof", proved |-> TRUE]
            /\ phone' = [phone EXCEPT !.mode = "enrolled"]
         \/ /\ phone.mode = "proving" /\ flash' = Revoked(flash)
            /\ wire' = Unlinked
            /\ phone' = [phone EXCEPT !.mode = "stopped"]
  BY DEF AdmitDesktop
<1>3. desk' \in Daemons
  BY <1>1, <1>2, DaemonTypes DEF IInv, None, Gone, Committed, Revoked, Aborted, TypeOK
<1>4. (file \in Disk /\ flash \in Disk)'
  BY <1>1, <1>2, DaemonTypes DEF IInv, None, Gone, Committed, Revoked, Aborted, TypeOK, Disk,
     Maybe, Keys
<1>5. (phone \in [mode : {"stopped", "bootstrap", "proving", "enrolled"},
                  late : BOOLEAN, forgot : BOOLEAN])'
  BY <1>1, <1>2, DaemonTypes DEF IInv, None, Gone, Committed, Revoked, Aborted, TypeOK
<1>6. (/\ talk \in [at : {"none", "hello", "answered", "confirming"}, key : Maybe]
       /\ wire \in [at : {"down", "auth", "proof", "up"}, proved : BOOLEAN])'
  <2>1. /\ Unlinked \in [at : {"down", "auth", "proof", "up"}, proved : BOOLEAN]
        /\ [at |-> "auth", proved |-> FALSE] \in [at : {"down", "auth", "proof", "up"}, proved : BOOLEAN]
        /\ [at |-> "proof", proved |-> FALSE] \in [at : {"down", "auth", "proof", "up"}, proved : BOOLEAN]
        /\ [at |-> "proof", proved |-> TRUE] \in [at : {"down", "auth", "proof", "up"}, proved : BOOLEAN]
    BY DEF Unlinked
  <2>2. /\ talk' = talk
        /\ wire' \in {wire, Unlinked, [at |-> "auth", proved |-> FALSE],
                     [at |-> "proof", proved |-> FALSE], [at |-> "proof", proved |-> TRUE]}
    BY DEF AdmitDesktop
  <2>3. talk \in [at : {"none", "hello", "answered", "confirming"}, key : Maybe]
        /\ wire \in [at : {"down", "auth", "proof", "up"}, proved : BOOLEAN]
    BY DEF IInv, TypeOK
  <2> QED
    BY <2>1, <2>2, <2>3
<1>7. (/\ plugged \in BOOLEAN /\ made \in 0..MaxPairings
       /\ faults \in 0..MaxFaults /\ stops \in 0..MaxStops)'
  BY <1>1, <1>2, DaemonTypes DEF IInv, None, Gone, Committed, Revoked, Aborted, TypeOK
<1>8. (/\ desk.stopping => ~desk.timer
       /\ desk.at = "down" => desk = Down /\ wire = Unlinked)'
  BY <1>1, <1>2, DaemonTypes DEF IInv, None, Gone, Committed, Revoked, Aborted, TypeOK,
     InvWire, Down, Booted
<1>9. TypeOK'
  BY <1>3, <1>4, <1>5, <1>6, <1>7, <1>8 DEF TypeOK
<1>10. NeverAsymmetric'
  BY <1>1, <1>2, DaemonTypes DEF IInv, NeverAsymmetric, Committed, Revoked, Aborted, TypeOK,
     Disk, Asymmetric
<1>11. Agreement'
  BY <1>1, <1>2, DaemonTypes DEF IInv, Agreement, Committed, Revoked, Aborted, TypeOK,
     NeverAsymmetric, Asymmetric
<1>12. StageHonest'
  BY <1>1, <1>2, DaemonTypes DEF IInv, Gone, StageHonest, Committed, Revoked, Aborted
<1>13. NeverGivesUp'
  BY <1>1, <1>2, DaemonTypes DEF IInv, Gone, NeverGivesUp, Committed, Revoked, Aborted, InvWire
<1>14. InvWire'
  BY <1>1, <1>2, DaemonTypes DEF IInv, InvWire, Committed, Revoked, Aborted
<1>15. InvKey'
  BY <1>1, <1>2, DaemonTypes DEF IInv, Gone, InvKey, Committed, Revoked, Aborted, TypeOK, Disk
<1>16. InvTalk'
  BY <1>1, <1>2, DaemonTypes DEF IInv, Gone, InvTalk, Committed, Revoked, Aborted, TypeOK, Disk
<1>17. InvPhone'
  BY <1>1, <1>2, DaemonTypes DEF IInv, InvPhone, Committed, Revoked, Aborted, TypeOK, Disk,
     Unlinked
<1>18. InvNext'
  BY <1>1, <1>2, DaemonTypes DEF IInv, Gone, InvNext, Committed, Revoked, Aborted
<1> QED
  BY <1>9, <1>10, <1>11, <1>12, <1>13, <1>14, <1>15, <1>16, <1>17, <1>18 DEF IInv

\* PairingServerStops keeps the invariant.
LEMMA PairingServerStopsInv ==
  ASSUME IInv, PairingServerStops
  PROVE  IInv'
<1> USE PhoneLinkAssumption
<1>1. \/ Detached(desk, desk')
      \/ /\ Gone(desk, desk') /\ ~(desk.attached /\ ~desk.stopping)
         /\ desk.at \in {"connect", "reconnect"}
      \/ /\ desk' = desk /\ ~(desk.attached /\ ~desk.stopping)
         /\ (desk.at \in {"connect", "reconnect"} => wire.at = "down")
  BY DisconnectedDaemon DEF PairingServerStops, IInv, TypeOK
<1>2. /\ wire' = Unlinked /\ wire.proved /\ wire.at \in {"proof", "up"}
      /\ UNCHANGED <<file, flash, phone, talk, plugged, made, faults, stops>>
  BY DEF PairingServerStops
<1>3. desk' \in Daemons
  BY <1>1, <1>2, DaemonTypes DEF IInv, None, Gone, Detached, TypeOK
<1>4. (file \in Disk /\ flash \in Disk)'
  BY <1>1, <1>2, DaemonTypes DEF IInv, None, Gone, Detached, TypeOK, Disk, Maybe, Keys
<1>5. (phone \in [mode : {"stopped", "bootstrap", "proving", "enrolled"},
                  late : BOOLEAN, forgot : BOOLEAN])'
  BY <1>1, <1>2, DaemonTypes DEF IInv, None, Gone, Detached, TypeOK
<1>6. (/\ talk \in [at : {"none", "hello", "answered", "confirming"}, key : Maybe]
       /\ wire \in [at : {"down", "auth", "proof", "up"}, proved : BOOLEAN])'
  BY <1>1, <1>2, DaemonTypes DEF IInv, None, Detached, TypeOK, Maybe, Keys, Disk, Unlinked
<1>7. (/\ plugged \in BOOLEAN /\ made \in 0..MaxPairings
       /\ faults \in 0..MaxFaults /\ stops \in 0..MaxStops)'
  BY <1>1, <1>2, DaemonTypes DEF IInv, None, Gone, Detached, TypeOK
<1>8. (/\ desk.stopping => ~desk.timer
       /\ desk.at = "down" => desk = Down /\ wire = Unlinked)'
  BY <1>1, <1>2, DaemonTypes DEF IInv, None, Gone, Detached, TypeOK, InvWire, Down, Booted
<1>9. TypeOK'
  BY <1>3, <1>4, <1>5, <1>6, <1>7, <1>8 DEF TypeOK
<1>10. NeverAsymmetric'
  BY <1>1, <1>2, DaemonTypes DEF IInv, NeverAsymmetric
<1>11. Agreement'
  BY <1>1, <1>2, DaemonTypes DEF IInv, Agreement
<1>12. StageHonest'
  BY <1>1, <1>2, DaemonTypes DEF IInv, Gone, Detached, StageHonest
<1>13. NeverGivesUp'
  BY <1>1, <1>2, DaemonTypes DEF IInv, Gone, Detached, NeverGivesUp, TypeOK, Unlinked
<1>14. InvWire'
  BY <1>1, <1>2, DaemonTypes DEF IInv, InvWire, Unlinked
<1>15. InvKey'
  BY <1>1, <1>2, DaemonTypes DEF IInv, Gone, Detached, InvKey
<1>16. InvTalk'
  BY <1>1, <1>2, DaemonTypes DEF IInv, Gone, Detached, InvTalk
<1>17. InvPhone'
  BY <1>1, <1>2, DaemonTypes DEF IInv, InvPhone, Unlinked
<1>18. InvNext'
  BY <1>1, <1>2, DaemonTypes DEF IInv, Gone, Detached, InvNext, Shown
<1> QED
  BY <1>9, <1>10, <1>11, <1>12, <1>13, <1>14, <1>15, <1>16, <1>17, <1>18 DEF IInv

\* Stop keeps the invariant.
LEMMA StopInv ==
  ASSUME IInv, Stop
  PROVE  IInv'
<1> USE PhoneLinkAssumption
<1>1. desk' \in Daemons
  <2>1. PICK d1 : d1 = [desk EXCEPT !.stopping = TRUE]
    OBVIOUS
  <2>2. d1 \in Daemons
    BY <2>1, DaemonFields, DaemonTypes DEF IInv, TypeOK, Disk, None
  <2>3. PICK d2 : d2 = [d1 EXCEPT !.timer = FALSE]
    OBVIOUS
  <2>4. d2 \in Daemons
    BY <2>2, <2>3, DaemonFields, DaemonTypes DEF IInv, TypeOK, Disk, None
  <2>5. PICK d3 : d3 = [d2 EXCEPT !.attached = FALSE]
    OBVIOUS
  <2>6. d3 \in Daemons
    BY <2>4, <2>5, DaemonFields, DaemonTypes DEF IInv, TypeOK, Disk, None
  <2>7. desk' = d3
    BY <2>1, <2>3, <2>5 DEF Stop
  <2> QED
    BY <2>6, <2>7
<1>2. (file \in Disk /\ flash \in Disk)'
  BY DaemonTypes DEF Stop, IInv, None, TypeOK, Disk, Maybe, Keys
<1>3. (phone \in [mode : {"stopped", "bootstrap", "proving", "enrolled"},
                  late : BOOLEAN, forgot : BOOLEAN])'
  BY DaemonTypes DEF Stop, IInv, None, TypeOK
<1>4. (/\ talk \in [at : {"none", "hello", "answered", "confirming"}, key : Maybe]
       /\ wire \in [at : {"down", "auth", "proof", "up"}, proved : BOOLEAN])'
  BY DaemonTypes DEF Stop, IInv, None, TypeOK, Maybe, Keys, Disk
<1>5. (/\ plugged \in BOOLEAN /\ made \in 0..MaxPairings
       /\ faults \in 0..MaxFaults /\ stops \in 0..MaxStops)'
  BY DaemonTypes DEF Stop, IInv, None, TypeOK
<1>6. (/\ desk.stopping => ~desk.timer
       /\ desk.at = "down" => desk = Down /\ wire = Unlinked)'
  BY DaemonTypes DEF Stop, IInv, None, TypeOK, Daemons, InvWire, Down, Booted
<1>7. TypeOK'
  BY <1>1, <1>2, <1>3, <1>4, <1>5, <1>6 DEF TypeOK
<1>8. NeverAsymmetric'
  BY DaemonTypes DEF IInv, NeverAsymmetric, Stop
<1>9. Agreement'
  BY DaemonTypes DEF IInv, Agreement, Stop
<1>10. StageHonest'
  BY DaemonTypes DEF IInv, StageHonest, Stop
<1>11. NeverGivesUp'
  BY DaemonTypes DEF IInv, NeverGivesUp, Stop
<1>12. InvWire'
  BY DaemonTypes DEF IInv, InvWire, Stop
<1>13. InvKey'
  BY DaemonTypes DEF IInv, InvKey, Stop
<1>14. InvTalk'
  BY DaemonTypes DEF IInv, InvTalk, Stop
<1>15. InvPhone'
  BY DaemonTypes DEF IInv, InvPhone, Stop
<1>16. InvNext'
  BY DaemonTypes DEF IInv, InvNext, Stop
<1> QED
  BY <1>7, <1>8, <1>9, <1>10, <1>11, <1>12, <1>13, <1>14, <1>15, <1>16 DEF IInv

\* StopCleans keeps the invariant.
LEMMA StopCleansInv ==
  ASSUME IInv, StopCleans
  PROVE  IInv'
<1> USE PhoneLinkAssumption
<1>1. /\ desk' \in Daemons /\ desk'.stopping = desk.stopping /\ desk'.timer = desk.timer
      /\ desk'.plan = desk.plan /\ desk'.key = desk.key
      /\ \/ desk'.at = "cleaning" /\ desk'.next \in Shown
         \/ /\ desk'.at = desk.at /\ desk'.next = desk.next /\ desk.at # "down"
            /\ desk.at \in {"connect", "reconnect"} => wire.at = "down"
  <2>1. PICK d : d = IF desk.at \in {"connect", "reconnect"} /\ wire.at # "down"
                     THEN Failed(desk, "transport") ELSE desk
    OBVIOUS
  <2>2. /\ d \in Daemons /\ d.stopping = desk.stopping /\ d.timer = desk.timer
        /\ d.plan = desk.plan /\ d.key = desk.key
        /\ \/ d.at = "cleaning" /\ d.next \in Shown
           \/ d = desk /\ (desk.at \in {"connect", "reconnect"} => wire.at = "down")
    BY <2>1, FailedDaemon DEF Gone, IInv, TypeOK
  <2>3. PICK e : e = [d EXCEPT !.stopped = TRUE]
    OBVIOUS
  <2>4. e \in Daemons
    BY <2>2, <2>3, DaemonFields
  <2>5. PICK f : f = [e EXCEPT !.forward = FALSE]
    OBVIOUS
  <2>6. f \in Daemons
    BY <2>4, <2>5, DaemonFields
  <2>7. desk' = f
    BY <2>1, <2>3, <2>5 DEF StopCleans
  <2>8. /\ f.at = d.at /\ f.next = d.next /\ f.plan = d.plan /\ f.key = d.key
        /\ f.timer = d.timer /\ f.stopping = d.stopping
    BY <2>2, <2>3, <2>5 DEF Daemons
  <2>9. desk.at # "down"
    BY DEF StopCleans, Down, Booted, IInv, TypeOK
  <2> QED
    BY <2>2, <2>6, <2>7, <2>8, <2>9
<1>2. /\ desk.stopping /\ wire' = Unlinked
      /\ UNCHANGED <<file, flash, phone, talk, plugged, made, faults, stops>>
  BY DEF StopCleans
<1>3. desk' \in Daemons
  BY <1>1, <1>2, DaemonTypes DEF IInv, None, Gone, TypeOK
<1>4. (file \in Disk /\ flash \in Disk)'
  BY <1>1, <1>2, DaemonTypes DEF IInv, None, Gone, TypeOK, Disk, Maybe, Keys
<1>5. (phone \in [mode : {"stopped", "bootstrap", "proving", "enrolled"},
                  late : BOOLEAN, forgot : BOOLEAN])'
  BY <1>1, <1>2, DaemonTypes DEF IInv, None, Gone, TypeOK
<1>6. (/\ talk \in [at : {"none", "hello", "answered", "confirming"}, key : Maybe]
       /\ wire \in [at : {"down", "auth", "proof", "up"}, proved : BOOLEAN])'
  BY <1>1, <1>2, DaemonTypes DEF IInv, None, TypeOK, Maybe, Keys, Disk, Unlinked
<1>7. (/\ plugged \in BOOLEAN /\ made \in 0..MaxPairings
       /\ faults \in 0..MaxFaults /\ stops \in 0..MaxStops)'
  BY <1>1, <1>2, DaemonTypes DEF IInv, None, Gone, TypeOK
<1>8. (/\ desk.stopping => ~desk.timer
       /\ desk.at = "down" => desk = Down /\ wire = Unlinked)'
  BY <1>1, <1>2, DaemonTypes DEF IInv, None, Gone, TypeOK, InvWire, Down, Booted
<1>9. TypeOK'
  BY <1>3, <1>4, <1>5, <1>6, <1>7, <1>8 DEF TypeOK
<1>10. NeverAsymmetric'
  BY <1>1, <1>2, DaemonTypes DEF IInv, NeverAsymmetric
<1>11. Agreement'
  BY <1>1, <1>2, DaemonTypes DEF IInv, Agreement
<1>12. StageHonest'
  BY <1>1, <1>2, DaemonTypes DEF IInv, StageHonest
<1>13. NeverGivesUp'
  BY <1>1, <1>2, DaemonTypes DEF IInv, NeverGivesUp
<1>14. InvWire'
  BY <1>1, <1>2, DaemonTypes DEF IInv, InvWire, Unlinked
<1>15. InvKey'
  BY <1>1, <1>2, DaemonTypes DEF IInv, InvKey
<1>16. InvTalk'
  BY <1>1, <1>2, DaemonTypes DEF IInv, InvTalk
<1>17. InvPhone'
  BY <1>1, <1>2, DaemonTypes DEF IInv, InvPhone, Unlinked
<1>18. InvNext'
  BY <1>1, <1>2, DaemonTypes DEF IInv, InvNext
<1> QED
  BY <1>9, <1>10, <1>11, <1>12, <1>13, <1>14, <1>15, <1>16, <1>17, <1>18 DEF IInv

\* Exit keeps the invariant.
LEMMA ExitInv ==
  ASSUME IInv, Exit
  PROVE  IInv'
<1> USE PhoneLinkAssumption
<1>1. desk' \in Daemons
  BY BootedDaemon DEF Exit
<1>2. (file \in Disk /\ flash \in Disk)'
  BY DaemonTypes DEF Exit, Down, Booted, IInv, None, TypeOK, Disk, Maybe, Keys
<1>3. (phone \in [mode : {"stopped", "bootstrap", "proving", "enrolled"},
                  late : BOOLEAN, forgot : BOOLEAN])'
  BY DaemonTypes DEF Exit, Down, Booted, IInv, None, TypeOK
<1>4. (/\ talk \in [at : {"none", "hello", "answered", "confirming"}, key : Maybe]
       /\ wire \in [at : {"down", "auth", "proof", "up"}, proved : BOOLEAN])'
  BY DaemonTypes DEF Exit, Down, Booted, IInv, None, TypeOK, Maybe, Keys, Disk
<1>5. (/\ plugged \in BOOLEAN /\ made \in 0..MaxPairings
       /\ faults \in 0..MaxFaults /\ stops \in 0..MaxStops)'
  BY DaemonTypes DEF Exit, Down, Booted, IInv, None, TypeOK
<1>6. (/\ desk.stopping => ~desk.timer
       /\ desk.at = "down" => desk = Down /\ wire = Unlinked)'
  BY DaemonTypes DEF Exit, Down, Booted, IInv, None, TypeOK, Daemons, InvWire, Down, Booted
<1>7. TypeOK'
  BY <1>1, <1>2, <1>3, <1>4, <1>5, <1>6 DEF TypeOK
<1>8. NeverAsymmetric'
  BY DaemonTypes DEF IInv, NeverAsymmetric, Exit, Down, Booted
<1>9. Agreement'
  BY DaemonTypes DEF IInv, Agreement, Exit, Down, Booted
<1>10. StageHonest'
  BY DaemonTypes DEF IInv, StageHonest, Exit, Down, Booted
<1>11. NeverGivesUp'
  BY DaemonTypes DEF IInv, NeverGivesUp, Exit, Down, Booted
<1>12. InvWire'
  BY DaemonTypes DEF IInv, InvWire, Exit, Down, Booted
<1>13. InvKey'
  BY DaemonTypes DEF IInv, InvKey, Exit, Down, Booted
<1>14. InvTalk'
  BY DaemonTypes DEF IInv, InvTalk, Exit, Down, Booted
<1>15. InvPhone'
  BY DaemonTypes DEF IInv, InvPhone, Exit, Down, Booted
<1>16. InvNext'
  BY DaemonTypes DEF IInv, InvNext, Exit, Down, Booted
<1> QED
  BY <1>7, <1>8, <1>9, <1>10, <1>11, <1>12, <1>13, <1>14, <1>15, <1>16 DEF IInv

\* DaemonKilled keeps the invariant.
LEMMA DaemonKilledInv ==
  ASSUME IInv, DaemonKilled
  PROVE  IInv'
<1> USE PhoneLinkAssumption
<1>1. desk' \in Daemons
  BY BootedDaemon DEF DaemonKilled
<1>2. (file \in Disk /\ flash \in Disk)'
  BY DaemonTypes DEF DaemonKilled, Down, Booted, Unlinked, Silent, Fault, IInv, None, TypeOK,
     Disk, Maybe, Keys
<1>3. (phone \in [mode : {"stopped", "bootstrap", "proving", "enrolled"},
                  late : BOOLEAN, forgot : BOOLEAN])'
  BY DaemonTypes DEF DaemonKilled, Down, Booted, Unlinked, Silent, Fault, IInv, None, TypeOK
<1>4. (/\ talk \in [at : {"none", "hello", "answered", "confirming"}, key : Maybe]
       /\ wire \in [at : {"down", "auth", "proof", "up"}, proved : BOOLEAN])'
  BY DaemonTypes DEF DaemonKilled, Down, Booted, Unlinked, Silent, Fault, IInv, None, TypeOK,
     Maybe, Keys, Disk
<1>5. (/\ plugged \in BOOLEAN /\ made \in 0..MaxPairings
       /\ faults \in 0..MaxFaults /\ stops \in 0..MaxStops)'
  BY DaemonTypes DEF DaemonKilled, Down, Booted, Unlinked, Silent, Fault, IInv, None, TypeOK
<1>6. (/\ desk.stopping => ~desk.timer
       /\ desk.at = "down" => desk = Down /\ wire = Unlinked)'
  BY DaemonTypes DEF DaemonKilled, Down, Booted, Unlinked, Silent, Fault, IInv, None, TypeOK,
     Daemons, InvWire, Down, Booted
<1>7. TypeOK'
  BY <1>1, <1>2, <1>3, <1>4, <1>5, <1>6 DEF TypeOK
<1>8. NeverAsymmetric'
  BY DaemonTypes DEF IInv, NeverAsymmetric, DaemonKilled, Down, Booted, Silent, Fault
<1>9. Agreement'
  BY DaemonTypes DEF IInv, Agreement, DaemonKilled, Down, Booted, Silent, Fault
<1>10. StageHonest'
  BY DaemonTypes DEF IInv, StageHonest, DaemonKilled, Down, Booted, Silent, Fault
<1>11. NeverGivesUp'
  BY DaemonTypes DEF IInv, NeverGivesUp, DaemonKilled, Down, Booted, Silent, Fault
<1>12. InvWire'
  BY DaemonTypes DEF IInv, InvWire, DaemonKilled, Down, Booted, Unlinked, Silent, Fault
<1>13. InvKey'
  BY DaemonTypes DEF IInv, InvKey, DaemonKilled, Down, Booted, Silent, Fault
<1>14. InvTalk'
  BY DaemonTypes DEF IInv, InvTalk, DaemonKilled, Down, Booted, Silent, Fault
<1>15. InvPhone'
  BY DaemonTypes DEF IInv, InvPhone, DaemonKilled, Down, Booted, Unlinked, Silent, Fault
<1>16. InvNext'
  BY DaemonTypes DEF IInv, InvNext, DaemonKilled, Down, Booted, Silent, Fault
<1> QED
  BY <1>7, <1>8, <1>9, <1>10, <1>11, <1>12, <1>13, <1>14, <1>15, <1>16 DEF IInv

\* Unplug keeps the invariant.
LEMMA UnplugInv ==
  ASSUME IInv, Unplug
  PROVE  IInv'
<1> USE PhoneLinkAssumption
<1>1. \/ Detached(desk, desk')
      \/ /\ Gone(desk, desk') /\ ~(desk.attached /\ ~desk.stopping)
         /\ desk.at \in {"connect", "reconnect"}
      \/ /\ desk' = desk /\ ~(desk.attached /\ ~desk.stopping)
         /\ (desk.at \in {"connect", "reconnect"} => wire.at = "down")
  BY DisconnectedDaemon DEF Unplug, IInv, TypeOK
<1>2. /\ wire' = Unlinked /\ talk' = Silent /\ plugged' = FALSE /\ faults' \in 0..MaxFaults
      /\ UNCHANGED <<file, flash, phone, made, stops>>
  BY DEF Unplug, Fault, IInv, TypeOK
<1>3. desk' \in Daemons
  BY <1>1, <1>2, DaemonTypes DEF IInv, None, Gone, Detached, Silent, TypeOK
<1>4. (file \in Disk /\ flash \in Disk)'
  BY <1>1, <1>2, DaemonTypes DEF IInv, None, Gone, Detached, Silent, TypeOK, Disk, Maybe, Keys
<1>5. (phone \in [mode : {"stopped", "bootstrap", "proving", "enrolled"},
                  late : BOOLEAN, forgot : BOOLEAN])'
  BY <1>1, <1>2, DaemonTypes DEF IInv, None, Gone, Detached, Silent, TypeOK
<1>6. (/\ talk \in [at : {"none", "hello", "answered", "confirming"}, key : Maybe]
       /\ wire \in [at : {"down", "auth", "proof", "up"}, proved : BOOLEAN])'
  BY <1>1, <1>2, DaemonTypes DEF IInv, None, Detached, Silent, TypeOK, Maybe, Keys, Disk, Unlinked
<1>7. (/\ plugged \in BOOLEAN /\ made \in 0..MaxPairings
       /\ faults \in 0..MaxFaults /\ stops \in 0..MaxStops)'
  BY <1>1, <1>2, DaemonTypes DEF IInv, None, Gone, Detached, Silent, TypeOK
<1>8. (/\ desk.stopping => ~desk.timer
       /\ desk.at = "down" => desk = Down /\ wire = Unlinked)'
  BY <1>1, <1>2, DaemonTypes DEF IInv, None, Gone, Detached, Silent, TypeOK, InvWire, Down, Booted
<1>9. TypeOK'
  BY <1>3, <1>4, <1>5, <1>6, <1>7, <1>8 DEF TypeOK
<1>10. NeverAsymmetric'
  BY <1>1, <1>2, DaemonTypes DEF IInv, NeverAsymmetric, Silent
<1>11. Agreement'
  BY <1>1, <1>2, DaemonTypes DEF IInv, Agreement, Silent
<1>12. StageHonest'
  BY <1>1, <1>2, DaemonTypes DEF IInv, Gone, Detached, StageHonest, Silent
<1>13. NeverGivesUp'
  BY <1>1, <1>2, DaemonTypes DEF IInv, Gone, Detached, NeverGivesUp, Silent, StageHonest
<1>14. InvWire'
  BY <1>1, <1>2, DaemonTypes DEF IInv, InvWire, Silent, Unlinked
<1>15. InvKey'
  BY <1>1, <1>2, DaemonTypes DEF IInv, Gone, Detached, InvKey, Silent
<1>16. InvTalk'
  BY <1>1, <1>2, DaemonTypes DEF IInv, Gone, Detached, InvTalk, Silent
<1>17. InvPhone'
  BY <1>1, <1>2, DaemonTypes DEF IInv, InvPhone, Silent, Unlinked
<1>18. InvNext'
  BY <1>1, <1>2, DaemonTypes DEF IInv, Gone, Detached, InvNext, Silent, Shown
<1> QED
  BY <1>9, <1>10, <1>11, <1>12, <1>13, <1>14, <1>15, <1>16, <1>17, <1>18 DEF IInv

\* Plug keeps the invariant.
LEMMA PlugInv ==
  ASSUME IInv, Plug
  PROVE  IInv'
<1> USE PhoneLinkAssumption
<1>1. desk' \in Daemons
  BY DEF Plug, IInv, TypeOK
<1>2. (file \in Disk /\ flash \in Disk)'
  BY DaemonTypes DEF Plug, IInv, None, TypeOK, Disk, Maybe, Keys
<1>3. (phone \in [mode : {"stopped", "bootstrap", "proving", "enrolled"},
                  late : BOOLEAN, forgot : BOOLEAN])'
  BY DaemonTypes DEF Plug, IInv, None, TypeOK
<1>4. (/\ talk \in [at : {"none", "hello", "answered", "confirming"}, key : Maybe]
       /\ wire \in [at : {"down", "auth", "proof", "up"}, proved : BOOLEAN])'
  BY DaemonTypes DEF Plug, IInv, None, TypeOK, Maybe, Keys, Disk
<1>5. (/\ plugged \in BOOLEAN /\ made \in 0..MaxPairings
       /\ faults \in 0..MaxFaults /\ stops \in 0..MaxStops)'
  BY DaemonTypes DEF Plug, IInv, None, TypeOK
<1>6. (/\ desk.stopping => ~desk.timer
       /\ desk.at = "down" => desk = Down /\ wire = Unlinked)'
  BY DaemonTypes DEF Plug, IInv, None, TypeOK, Daemons, InvWire, Down, Booted
<1>7. TypeOK'
  BY <1>1, <1>2, <1>3, <1>4, <1>5, <1>6 DEF TypeOK
<1>8. NeverAsymmetric'
  BY DaemonTypes DEF IInv, NeverAsymmetric, Plug
<1>9. Agreement'
  BY DaemonTypes DEF IInv, Agreement, Plug
<1>10. StageHonest'
  BY DaemonTypes DEF IInv, StageHonest, Plug
<1>11. NeverGivesUp'
  BY DaemonTypes DEF IInv, NeverGivesUp, Plug
<1>12. InvWire'
  BY DaemonTypes DEF IInv, InvWire, Plug
<1>13. InvKey'
  BY DaemonTypes DEF IInv, InvKey, Plug
<1>14. InvTalk'
  BY DaemonTypes DEF IInv, InvTalk, Plug
<1>15. InvPhone'
  BY DaemonTypes DEF IInv, InvPhone, Plug
<1>16. InvNext'
  BY DaemonTypes DEF IInv, InvNext, Plug
<1> QED
  BY <1>7, <1>8, <1>9, <1>10, <1>11, <1>12, <1>13, <1>14, <1>15, <1>16 DEF IInv

\* Forget keeps the invariant.
LEMMA ForgetInv ==
  ASSUME IInv, Forget
  PROVE  IInv'
<1> USE PhoneLinkAssumption
<1>1. desk' \in Daemons
  BY DEF Forget, IInv, TypeOK
<1>2. (file \in Disk /\ flash \in Disk)'
  BY DaemonTypes DEF Forget, Fault, IInv, None, TypeOK, Disk, Maybe, Keys
<1>3. (phone \in [mode : {"stopped", "bootstrap", "proving", "enrolled"},
                  late : BOOLEAN, forgot : BOOLEAN])'
  BY DaemonTypes DEF Forget, Fault, IInv, None, TypeOK
<1>4. (/\ talk \in [at : {"none", "hello", "answered", "confirming"}, key : Maybe]
       /\ wire \in [at : {"down", "auth", "proof", "up"}, proved : BOOLEAN])'
  BY DaemonTypes DEF Forget, Fault, IInv, None, TypeOK, Maybe, Keys, Disk
<1>5. (/\ plugged \in BOOLEAN /\ made \in 0..MaxPairings
       /\ faults \in 0..MaxFaults /\ stops \in 0..MaxStops)'
  BY DaemonTypes DEF Forget, Fault, IInv, None, TypeOK
<1>6. (/\ desk.stopping => ~desk.timer
       /\ desk.at = "down" => desk = Down /\ wire = Unlinked)'
  BY DaemonTypes DEF Forget, Fault, IInv, None, TypeOK, Daemons, InvWire, Down, Booted
<1>7. TypeOK'
  BY <1>1, <1>2, <1>3, <1>4, <1>5, <1>6 DEF TypeOK
<1>8. NeverAsymmetric'
  BY DaemonTypes DEF IInv, NeverAsymmetric, Forget, Fault, Asymmetric
<1>9. Agreement'
  BY DaemonTypes DEF IInv, Agreement, Forget, Fault
<1>10. StageHonest'
  BY DaemonTypes DEF IInv, StageHonest, Forget, Fault
<1>11. NeverGivesUp'
  BY DaemonTypes DEF IInv, NeverGivesUp, Forget, Fault
<1>12. InvWire'
  BY DaemonTypes DEF IInv, InvWire, Forget, Fault
<1>13. InvKey'
  BY DaemonTypes DEF IInv, InvKey, Forget, Fault
<1>14. InvTalk'
  BY DaemonTypes DEF IInv, InvTalk, Forget, Fault
<1>15. InvPhone'
  BY DaemonTypes DEF IInv, InvPhone, Forget, Fault
<1>16. InvNext'
  BY DaemonTypes DEF IInv, InvNext, Forget, Fault
<1> QED
  BY <1>7, <1>8, <1>9, <1>10, <1>11, <1>12, <1>13, <1>14, <1>15, <1>16 DEF IInv

\* PhoneStops keeps the invariant.
LEMMA PhoneStopsInv ==
  ASSUME IInv, NEW killed \in BOOLEAN, PhoneStops(killed)
  PROVE  IInv'
<1> USE PhoneLinkAssumption
<1>1. \/ Detached(desk, desk')
      \/ /\ Gone(desk, desk') /\ ~(desk.attached /\ ~desk.stopping)
         /\ desk.at \in {"connect", "reconnect"}
      \/ /\ desk' = desk /\ ~(desk.attached /\ ~desk.stopping)
         /\ (desk.at \in {"connect", "reconnect"} => wire.at = "down")
  BY DisconnectedDaemon DEF PhoneStops, IInv, TypeOK
<1>2. /\ wire' = Unlinked /\ talk' = Silent /\ faults' \in 0..MaxFaults
      /\ phone' = [phone EXCEPT !.mode = "stopped", !.late = FALSE]
      /\ flash' = IF ~killed /\ phone.mode = "proving" THEN Revoked(flash) ELSE flash
      /\ UNCHANGED <<file, plugged, made, stops>>
  BY DEF PhoneStops, Fault, IInv, TypeOK
<1>3. desk' \in Daemons
  BY <1>1, <1>2, DaemonTypes DEF IInv, None, Gone, Detached, Silent, Revoked, Aborted, TypeOK
<1>4. (file \in Disk /\ flash \in Disk)'
  BY <1>1, <1>2, DaemonTypes DEF IInv, None, Gone, Detached, Silent, Revoked, Aborted, TypeOK,
     Disk, Maybe, Keys
<1>5. (phone \in [mode : {"stopped", "bootstrap", "proving", "enrolled"},
                  late : BOOLEAN, forgot : BOOLEAN])'
  BY <1>1, <1>2, DaemonTypes DEF IInv, None, Gone, Detached, Silent, Revoked, Aborted, TypeOK
<1>6. (/\ talk \in [at : {"none", "hello", "answered", "confirming"}, key : Maybe]
       /\ wire \in [at : {"down", "auth", "proof", "up"}, proved : BOOLEAN])'
  BY <1>1, <1>2, DaemonTypes DEF IInv, None, Detached, Silent, Revoked, Aborted, TypeOK, Maybe,
     Keys, Disk, Unlinked
<1>7. (/\ plugged \in BOOLEAN /\ made \in 0..MaxPairings
       /\ faults \in 0..MaxFaults /\ stops \in 0..MaxStops)'
  BY <1>1, <1>2, DaemonTypes DEF IInv, None, Gone, Detached, Silent, Revoked, Aborted, TypeOK
<1>8. (/\ desk.stopping => ~desk.timer
       /\ desk.at = "down" => desk = Down /\ wire = Unlinked)'
  BY <1>1, <1>2, DaemonTypes DEF IInv, None, Gone, Detached, Silent, Revoked, Aborted, TypeOK,
     InvWire, Down, Booted
<1>9. TypeOK'
  BY <1>3, <1>4, <1>5, <1>6, <1>7, <1>8 DEF TypeOK
<1>10. NeverAsymmetric'
  BY <1>1, <1>2, DaemonTypes DEF IInv, NeverAsymmetric, Silent, Revoked, Aborted, Asymmetric
<1>11. Agreement'
  BY <1>1, <1>2, DaemonTypes DEF IInv, Agreement, Silent, Revoked, Aborted
<1>12. StageHonest'
  BY <1>1, <1>2, DaemonTypes DEF IInv, Gone, Detached, StageHonest, Silent, Revoked, Aborted
<1>13. NeverGivesUp'
  BY <1>1, <1>2, DaemonTypes DEF IInv, Gone, Detached, NeverGivesUp, Silent, Revoked, Aborted,
     StageHonest
<1>14. InvWire'
  BY <1>1, <1>2, DaemonTypes DEF IInv, InvWire, Silent, Revoked, Aborted, Unlinked
<1>15. InvKey'
  BY <1>1, <1>2, DaemonTypes DEF IInv, Gone, Detached, InvKey, Silent, Revoked, Aborted
<1>16. InvTalk'
  BY <1>1, <1>2, DaemonTypes DEF IInv, Gone, Detached, InvTalk, Silent, Revoked, Aborted
<1>17. InvPhone'
  BY <1>1, <1>2, DaemonTypes DEF IInv, InvPhone, Silent, Revoked, Aborted, Unlinked
<1>18. InvNext'
  BY <1>1, <1>2, DaemonTypes DEF IInv, Gone, Detached, InvNext, Silent, Revoked, Aborted, Shown
<1> QED
  BY <1>9, <1>10, <1>11, <1>12, <1>13, <1>14, <1>15, <1>16, <1>17, <1>18 DEF IInv
-----------------------------------------------------------------------------
(* The theorems *)

\* The initial state satisfies the invariant.
LEMMA InitInv ==
  Init => IInv
<1> SUFFICES ASSUME Init PROVE IInv
  OBVIOUS
<1>1. Down \in Daemons /\ Down.at = "down" /\ ~Down.stopping /\ ~Down.timer
  BY BootedDaemon DEF Down, Booted
<1>2. TypeOK
  <2>1. file \in Disk /\ flash \in Disk
    BY DEF Init, Empty, Disk, Maybe
  <2>2. talk \in [at : {"none", "hello", "answered", "confirming"}, key : Maybe]
    BY DEF Init, Silent, Maybe
  <2>3. wire \in [at : {"down", "auth", "proof", "up"}, proved : BOOLEAN]
    BY DEF Init, Unlinked
  <2>4. phone \in [mode : {"stopped", "bootstrap", "proving", "enrolled"}, late : BOOLEAN,
                   forgot : BOOLEAN]
    BY DEF Init
  <2>5. made \in 0..MaxPairings /\ faults \in 0..MaxFaults /\ stops \in 0..MaxStops
    BY PhoneLinkAssumption DEF Init
  <2> QED
    BY <1>1, <2>1, <2>2, <2>3, <2>4, <2>5 DEF Init, TypeOK
<1>3. /\ NeverAsymmetric /\ Agreement /\ StageHonest /\ NeverGivesUp
      /\ InvWire /\ InvKey /\ InvTalk /\ InvPhone /\ InvNext
  BY DEF Init, Empty, None, Down, Booted, Silent, Unlinked, Asymmetric, NeverAsymmetric,
     Agreement,
         StageHonest, NeverGivesUp, InvWire, InvKey, InvTalk, InvPhone, InvNext
<1> QED
  BY <1>2, <1>3 DEF IInv

\* Every step of the system keeps the invariant.
LEMMA NextInv ==
  IInv /\ [Next]_vars => IInv'
<1> SUFFICES ASSUME IInv, [Next]_vars PROVE IInv'
  OBVIOUS
<1>1. CASE Next
  <2>1. CASE Attempt
    BY <2>1, SelectInv, OpenTunnelInv, ExchangeFailsInv, StageKeyInv, ConfirmInv, OpenForwardInv,
       DialInv, ReadProofInv, CommitKeyInv, StartGatewayInv, AttachInv, CleanupPhoneInv DEF Attempt
  <2>2. CASE \E killed \in BOOLEAN : PhoneStops(killed)
    BY <2>2, PhoneStopsInv
  <2>3. CASE \/ DaemonStarts \/ RetryFires \/ TunnelRemoved
             \/ PhoneStarts \/ Answer \/ TakeConfirmation \/ WindowCloses \/ ClientGone
    BY <2>3, DaemonStartsInv, RetryFiresInv, TunnelRemovedInv, PhoneStartsInv, AnswerInv,
       TakeConfirmationInv, WindowClosesInv, ClientGoneInv
  <2>4. CASE \/ AdmitDesktop \/ PairingServerStops
             \/ Stop \/ StopCleans \/ Exit \/ DaemonKilled \/ Unplug \/ Plug \/ Forget
    BY <2>4, AdmitDesktopInv, PairingServerStopsInv, StopInv, StopCleansInv, ExitInv,
       DaemonKilledInv, UnplugInv, PlugInv, ForgetInv
  <2> QED
    BY <1>1, <2>1, <2>2, <2>3, <2>4 DEF Next
<1>2. CASE UNCHANGED vars
  BY <1>2 DEF vars, IInv, TypeOK, NeverAsymmetric, Asymmetric, Agreement, StageHonest,
     NeverGivesUp,
              InvWire, InvKey, InvTalk, InvPhone, InvNext
<1> QED
  BY <1>1, <1>2

\* The inductive invariant holds of the protocol, for any number of pairings, crashes and stops.
THEOREM Inductive == Spec => []IInv
<1>1. IInv /\ [Next]_vars => IInv'
  BY NextInv
<1> QED
  BY InitInv, <1>1, PTL DEF Spec

\* A phone that is proving a staged key is shown that key.
LEMMA ShownKey ==
  ASSUME IInv
  PROVE  ShownItsKey
<1> SUFFICES ASSUME wire.at = "auth", phone.mode = "proving"
             PROVE  desk.key = flash.staged
  BY DEF ShownItsKey
<1>1. flash.staged # None /\ file.staged = flash.staged
  BY DEF IInv, InvPhone
<1>2. file.committed = None
  BY <1>1 DEF IInv, NeverAsymmetric, Asymmetric
<1>3. desk.at = "connect" /\ desk.plan # "committed"
  BY <1>2 DEF IInv, InvWire, InvKey
<1> QED
  BY <1>1, <1>3 DEF IInv, InvKey

\* The link is sound (LinkInv): two halves that can always be recovered, a phone that is only
\* shown the key it is proving, and a daemon whose stage is honest and that never gives up.
THEOREM LinkSound == Spec => []LinkInv
<1>1. IInv => LinkInv
  BY ShownKey DEF IInv, LinkInv
<1> QED
  BY Inductive, <1>1, PTL

\* Whatever crashes, is lost or stopped while a key is made, a desktop that has committed a key
\* has the one its phone committed (Agreement).
THEOREM Agrees == Spec => []Agreement
<1>1. IInv => Agreement
  BY DEF IInv
<1> QED
  BY Inductive, <1>1, PTL

\* No step replaces a committed key, on either side, short of the user's Forget (NeverRotated).
THEOREM KeyNeverRotated == Spec => NeverRotated
<1> DEFINE Kept == /\ file.committed # None => file'.committed = file.committed
                   /\ flash.committed # None /\ ~phone'.forgot => flash'.committed = flash.committed
<1>1. ASSUME IInv, [Next]_vars
      PROVE  Kept
  <2> USE <1>1
  <2>1. ASSUME UNCHANGED <<file, flash>>
        PROVE  Kept
    BY <2>1
  <2>2. CASE Attempt
    <3>1. CASE StageKey
      BY <3>1 DEF StageKey, StagedAs, IInv, TypeOK, Disk
    <3>2. CASE Confirm
      BY <3>2 DEF Confirm, Aborted, IInv, TypeOK, Disk
    <3>3. CASE CommitKey
      BY <3>3 DEF CommitKey
    <3>4. CASE Select \/ OpenTunnel \/ ExchangeFails \/ OpenForward \/ Dial \/ ReadProof
      BY <2>1, <3>4 DEF Select, OpenTunnel, ExchangeFails, OpenForward, Dial, ReadProof
    <3>5. CASE StartGateway \/ Attach \/ CleanupPhone
      BY <2>1, <3>5 DEF StartGateway, Attach, CleanupPhone
    <3> QED
      BY <2>2, <3>1, <3>2, <3>3, <3>4, <3>5 DEF Attempt
  <2>3. CASE TakeConfirmation
    BY <2>3 DEF TakeConfirmation, StagedAs, IInv, TypeOK, Disk
  <2>4. CASE AdmitDesktop
    <3>1. phone.mode = "proving" => flash.committed = None
      BY DEF IInv, InvPhone, NeverAsymmetric, Asymmetric
    <3> QED
      BY <2>4, <3>1 DEF AdmitDesktop
  <2>5. CASE \E killed \in BOOLEAN : PhoneStops(killed)
    BY <2>5 DEF PhoneStops, Revoked
  <2>6. CASE Forget
    BY <2>6 DEF Forget, IInv, TypeOK
  <2>7. CASE DaemonStarts \/ RetryFires \/ TunnelRemoved \/ PhoneStarts \/ Answer \/ WindowCloses
            \/ ClientGone
    BY <2>1, <2>7 DEF DaemonStarts, RetryFires, TunnelRemoved, PhoneStarts, Answer, WindowCloses,
                      ClientGone
  <2>8. CASE PairingServerStops \/ Stop \/ StopCleans \/ Exit \/ DaemonKilled \/ Unplug \/ Plug
    BY <2>1, <2>8 DEF PairingServerStops, Stop, StopCleans, Exit, DaemonKilled, Unplug, Plug
  <2>9. CASE UNCHANGED vars
    BY <2>1, <2>9 DEF vars
  <2> QED
    BY <1>1, <2>2, <2>3, <2>4, <2>5, <2>6, <2>7, <2>8, <2>9 DEF Next
<1>2. IInv /\ [Next]_vars => [Kept]_vars
  BY <1>1
<1> QED
  BY Inductive, <1>2, PTL DEF Spec, NeverRotated
=============================================================================
