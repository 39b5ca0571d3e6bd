----------------------------- MODULE PhoneLink -----------------------------
(***************************************************************************)
(* How gatewayd finds, pairs with and keeps its phone: connectPhone and    *)
(* its retry loop (src/pc/pc-gateway/src/gatewayd.js), the pairing it runs *)
(* (bootstrap-client.js, bootstrap-transport.js), the credential file      *)
(* (controller-credential-store.js), adb (adb-manager.js), the             *)
(* authenticated connection (device-client.js), and the service of the     *)
(* phone at the other end (UsbGatewayService.kt,                           *)
(* ControllerBootstrapServer.kt, StagedRecoveryLifecycle.kt).              *)
(*                                                                         *)
(* A pairing makes a key that both sides first stage and then commit, the  *)
(* phone first.  Either process may be killed between any two steps, the   *)
(* cable may be pulled, the user may stop the service of the phone or      *)
(* forget the desktop, and the phone allows a pairing thirty seconds.      *)
(***************************************************************************)
EXTENDS Integers

CONSTANTS
  MaxPairings,    \* bound: keys that pairings may make
  MaxFaults,      \* bound: crashes, losses, failures and acts of the user against the link
  MaxStops        \* bound: SIGTERMs

ASSUME PhoneLinkAssumption ==
  MaxPairings \in Nat /\ MaxFaults \in Nat /\ MaxStops \in Nat

VARIABLES
  file,      \* the desktop's disk: the staged and the committed key
  flash,     \* the phone's preferences: the same
  desk,      \* gatewayd: where connectPhone is, and what the daemon holds
  phone,     \* UsbGatewayService: its mode, whether its thirty seconds are over, and
             \* (history) whether the user has ever made it forget its desktop
  talk,      \* the pairing connection: hello, answer, confirmation
  wire,      \* the authenticated connection of the DeviceClient
  plugged,   \* adb lists the phone as a ready device
  made, faults, stops

vars == <<file, flash, desk, phone, talk, wire, plugged, made, faults, stops>>

None == 0
Keys == 1..MaxPairings
Maybe == Keys \cup {None}

Disk == [staged : Maybe, committed : Maybe]
Empty == [staged |-> None, committed |-> None]

\* The stages of connectPhone; "idle" is between attempts, "down" is no process.
Connecting == {"select", "tunnel", "exchange", "confirm", "forward", "connect",
               "commit", "start", "reconnect", "evidence", "cleaning"}
Stages == {"WAITING_FOR_PHONE", "VERIFYING_DEVICE", "WAITING_FOR_PHONE_START", "PAIRING",
           "AUTHENTICATING", "AUTHENTICATED", "BLOCKED"}

\* A daemon that has just been started: its first attempt runs at once.
Booted ==
  [at |-> "select", plan |-> "absent", key |-> None, secret |-> None, attached |-> FALSE,
   setup |-> "WAITING_FOR_PHONE", next |-> "WAITING_FOR_PHONE", forward |-> FALSE,
   tunnel |-> FALSE, closing |-> FALSE, timer |-> FALSE, stopping |-> FALSE, stopped |-> FALSE]
Down == [Booted EXCEPT !.at = "down"]

Silent == [at |-> "none", key |-> None]
Unlinked == [at |-> "down", proved |-> FALSE]

Daemons ==
  [at : Connecting \cup {"idle", "down"}, plan : {"absent", "staged", "committed"},
   key : Maybe, secret : Maybe, attached : BOOLEAN, setup : Stages, next : Stages,
   forward : BOOLEAN, tunnel : BOOLEAN, closing : BOOLEAN, timer : BOOLEAN,
   stopping : BOOLEAN, stopped : BOOLEAN]

TypeOK ==
  /\ file \in Disk /\ flash \in Disk
  /\ desk \in Daemons
  /\ phone \in [mode : {"stopped", "bootstrap", "proving", "enrolled"}, late : BOOLEAN,
                forgot : BOOLEAN]
  /\ talk \in [at : {"none", "hello", "answered", "confirming"}, key : Maybe]
  /\ wire \in [at : {"down", "auth", "proof", "up"}, proved : BOOLEAN]
  /\ plugged \in BOOLEAN
  /\ made \in 0..MaxPairings /\ faults \in 0..MaxFaults /\ stops \in 0..MaxStops
  \* a daemon that was told to stop arms no timer; one that does not run holds nothing
  /\ desk.stopping => ~desk.timer
  /\ desk.at = "down" => desk = Down /\ wire = Unlinked

Init ==
  /\ file = Empty /\ flash = Empty
  /\ desk = Down
  /\ phone = [mode |-> "stopped", late |-> FALSE, forgot |-> FALSE]
  /\ talk = Silent /\ wire = Unlinked
  /\ plugged = TRUE
  /\ made = 0 /\ faults = 0 /\ stops = 0

-----------------------------------------------------------------------------
(* The credential store of the desktop *)

Asymmetric(disk) == disk.staged # None /\ disk.committed # None

\* mutant: only a committed record is looked for
RecoveredCommitted(disk) == IF disk.committed # None THEN "committed" ELSE "absent"

\* recover(): which half of an enrollment the disk holds.
Recovered(disk) ==
  IF disk.committed # None THEN "committed" ELSE IF disk.staged # None THEN "staged" ELSE "absent"

StagedAs(disk, key) == [disk EXCEPT !.staged = key]
Loaded(disk) == disk.committed
Committed(disk) == [staged |-> None, committed |-> disk.staged]
Aborted(disk) == [disk EXCEPT !.staged = None]

-----------------------------------------------------------------------------
(* What adb finds, and what the pairing connection carries *)

DeviceReady == plugged
Forwardable == plugged

Hello == [at |-> "hello", key |-> None]
Reply(key) == [at |-> "answered", key |-> key]
ProofOfPhoneGood == talk.at = "answered"

-----------------------------------------------------------------------------
(* The retry loop *)

\* What the failure of an attempt shows to the user, by the stage it failed in.
Classified(cause, stage) ==
  IF cause = "refused_device" THEN "BLOCKED"
  ELSE IF cause = "unplugged" THEN "WAITING_FOR_PHONE"
  ELSE IF cause = "transport" /\ stage = "PAIRING" THEN "WAITING_FOR_PHONE_START"
  ELSE IF stage = "AUTHENTICATING" THEN "PAIRING"
  ELSE "WAITING_FOR_PHONE"

\* The catch of connectPhone: detach, and give back what the attempt holds.
Failed(d, cause) ==
  [d EXCEPT !.at = "cleaning", !.attached = FALSE, !.next = Classified(cause, d.setup)]

\* verifyIdentity finds another phone, or selectOne finds two.
WrongPhone(d) == Failed(d, "refused_device")

Fault == faults < MaxFaults /\ faults' = faults + 1

\* The first attempt of a started daemon, or the timer of a failed one.
DaemonStarts ==
  /\ desk.at = "down"
  /\ desk' = Booted
  /\ UNCHANGED <<file, flash, phone, talk, wire, plugged, made, faults, stops>>

RetryFires ==
  /\ desk.at = "idle" /\ desk.timer
  /\ desk' = [desk EXCEPT !.timer = FALSE,
                          !.at = IF desk.stopping \/ desk.attached THEN "idle" ELSE "select"]
  /\ UNCHANGED <<file, flash, phone, talk, wire, plugged, made, faults, stops>>

\* recover() and load(), then the device: the paired one by its serial, or the only one.
Select ==
  /\ desk.at = "select"
  /\ LET begun == [desk EXCEPT !.plan = Recovered(file), !.secret = Loaded(file),
                               !.key = None, !.setup = "VERIFYING_DEVICE"]
     IN \/ /\ Asymmetric(file)
           /\ desk' = Failed(desk, "credential") /\ UNCHANGED faults
        \/ /\ ~Asymmetric(file) /\ ~DeviceReady
           /\ desk' = Failed(begun, "unplugged") /\ UNCHANGED faults
        \/ /\ ~Asymmetric(file) /\ DeviceReady    \* verifyIdentity: another phone, or two of them
           /\ desk' = WrongPhone(begun) /\ Fault
        \/ /\ ~Asymmetric(file) /\ DeviceReady
           /\ desk' = [begun EXCEPT !.at = IF begun.plan = "absent" THEN "tunnel" ELSE "forward",
                                    !.key = IF begun.plan = "staged" THEN file.staged ELSE None]
           /\ UNCHANGED faults
  /\ UNCHANGED <<file, flash, phone, talk, wire, plugged, made, stops>>

\* A retry is armed unless the daemon is stopping.
ScheduleRetry(d) == [d EXCEPT !.timer = ~d.stopping]

\* The catch and the cleanup end: the stage is shown, a retry armed, and the finally
\* block goes on to remove the forward of the pairing, if the attempt had one.
\* mutant: an authentication that failed makes room for a new pairing
CleanupAndForget ==
  /\ desk.at = "cleaning"
  /\ desk' = ScheduleRetry([desk EXCEPT !.at = "idle", !.setup = desk.next, !.forward = FALSE,
                                        !.closing = desk.closing \/ desk.tunnel, !.tunnel = FALSE,
                                        !.secret = IF desk.tunnel THEN @ ELSE None])
  /\ wire' = Unlinked
  /\ file' = IF desk.plan = "committed" /\ desk.setup = "AUTHENTICATING" THEN Empty ELSE file
  /\ UNCHANGED <<flash, phone, talk, plugged, made, faults, stops>>

CleanupPhone ==
  /\ desk.at = "cleaning"
  /\ desk' = ScheduleRetry([desk EXCEPT !.at = "idle", !.setup = desk.next, !.forward = FALSE,
                                        !.closing = desk.closing \/ desk.tunnel, !.tunnel = FALSE,
                                        !.secret = IF desk.tunnel THEN @ ELSE None])
  /\ wire' = Unlinked
  /\ UNCHANGED <<file, flash, phone, talk, plugged, made, faults, stops>>

\* The finally block of an attempt clears controllerSecret, which the next attempt
\* shares when the removal of the forward took longer than the retry.
TunnelRemoved ==
  /\ desk.closing
  /\ desk' = [desk EXCEPT !.closing = FALSE, !.secret = None]
  /\ UNCHANGED <<file, flash, phone, talk, wire, plugged, made, faults, stops>>

-----------------------------------------------------------------------------
(* Pairing, from the desktop *)

OpenTunnel ==
  /\ desk.at = "tunnel"
  /\ desk' = IF Forwardable THEN [desk EXCEPT !.at = "exchange", !.tunnel = TRUE, !.setup = "PAIRING"]
             ELSE Failed([desk EXCEPT !.setup = "WAITING_FOR_PHONE_START"], "unplugged")
  /\ talk' = IF Forwardable THEN Hello ELSE talk
  /\ UNCHANGED <<file, flash, phone, wire, plugged, made, faults, stops>>

\* exchange() fails: nothing listens, the phone closed, or eight seconds have passed.
ExchangeFails ==
  /\ desk.at = "exchange" /\ ~ProofOfPhoneGood
  /\ IF talk.at = "none" \/ phone.mode # "bootstrap" \/ phone.late \/ made = MaxPairings
     THEN UNCHANGED faults ELSE Fault
  /\ desk' = Failed(desk, "transport")
  /\ talk' = Silent
  /\ UNCHANGED <<file, flash, phone, wire, plugged, made, stops>>

\* The proof of the phone is good: the key is staged before it is confirmed.
StageKey ==
  /\ desk.at = "exchange" /\ ProofOfPhoneGood
  /\ file.committed = None /\ file.staged = None
  /\ file' = StagedAs(file, talk.key)
  /\ desk' = [desk EXCEPT !.at = "confirm", !.key = talk.key]
  /\ UNCHANGED <<flash, phone, talk, wire, plugged, made, faults, stops>>

\* mutant: the confirmed key is committed at once
ConfirmCommitted ==
  /\ desk.at = "confirm"
  /\ \/ \* the kernel takes the frame; it is lost if the phone has closed
        /\ talk' = IF talk.at = "answered" THEN [talk EXCEPT !.at = "confirming"] ELSE talk
        /\ desk' = [desk EXCEPT !.at = "forward"]
        /\ file' = Committed(file) /\ UNCHANGED faults
     \/ \* the write fails: the phone cannot have staged, and neither does the desktop
        /\ IF talk.at = "none" THEN UNCHANGED faults ELSE Fault
        /\ file' = Aborted(file)
        /\ desk' = Failed(desk, "transport")
        /\ talk' = Silent
  /\ UNCHANGED <<flash, phone, wire, plugged, made, stops>>

Confirm ==
  /\ desk.at = "confirm"
  /\ \/ \* the kernel takes the frame; it is lost if the phone has closed
        /\ talk' = IF talk.at = "answered" THEN [talk EXCEPT !.at = "confirming"] ELSE talk
        /\ desk' = [desk EXCEPT !.at = "forward"]
        /\ UNCHANGED <<file, faults>>
     \/ \* the write fails: the phone cannot have staged, and neither does the desktop
        /\ IF talk.at = "none" THEN UNCHANGED faults ELSE Fault
        /\ file' = Aborted(file)
        /\ desk' = Failed(desk, "transport")
        /\ talk' = Silent
  /\ UNCHANGED <<flash, phone, wire, plugged, made, stops>>

-----------------------------------------------------------------------------
(* Pairing, from the phone *)

\* Connect desktop is tapped: what the preferences hold decides what is started.
PhoneStarts ==
  /\ phone.mode = "stopped"
  /\ ~Asymmetric(flash)
  /\ phone' = [phone EXCEPT
               !.late = FALSE,
               !.mode = CASE Recovered(flash) = "absent" -> "bootstrap"
                          [] Recovered(flash) = "staged" -> "proving"
                          [] OTHER -> "enrolled"]
  /\ UNCHANGED <<file, flash, desk, talk, wire, plugged, made, faults, stops>>

\* The phone answers a hello whose identity it expects, in the window, with a new key.
Answer ==
  /\ phone.mode = "bootstrap" /\ ~phone.late
  /\ flash = Empty
  /\ talk.at = "hello" /\ plugged
  /\ made < MaxPairings
  /\ made' = made + 1
  /\ talk' = Reply(made + 1)
  /\ UNCHANGED <<file, flash, desk, phone, wire, plugged, faults, stops>>

\* The confirmation arrives in the window: the key is staged and proving starts.
TakeConfirmation ==
  /\ phone.mode = "bootstrap" /\ talk.at = "confirming"
  /\ flash' = IF phone.late \/ flash # Empty THEN [flash EXCEPT !.staged = None]
              ELSE StagedAs(flash, talk.key)
  /\ phone' = IF phone.late \/ flash # Empty THEN [phone EXCEPT !.mode = "stopped"]
              ELSE [phone EXCEPT !.mode = "proving", !.late = FALSE]
  /\ talk' = Silent
  /\ UNCHANGED <<file, desk, wire, plugged, made, faults, stops>>

\* StagedRecoveryLifecycle.revokeLocked, and revokeStaged of a refused client.
Revoked(disk) == IF disk.committed = None THEN Aborted(disk) ELSE disk

\* Thirty seconds: the listener of a pairing closes, a proof would come too late.
WindowCloses ==
  /\ phone.mode \in {"bootstrap", "proving"} /\ ~phone.late
  /\ phone' = IF phone.mode = "bootstrap" /\ talk.at \in {"none", "hello"}
              THEN [phone EXCEPT !.mode = "stopped"] ELSE [phone EXCEPT !.late = TRUE]
  /\ UNCHANGED <<file, flash, desk, talk, wire, plugged, made, faults, stops>>

\* A client that has gone after the answer is a rejected one.
ClientGone ==
  /\ phone.mode = "bootstrap" /\ talk.at = "none" /\ flash.staged = None /\ phone.late
  /\ phone' = [phone EXCEPT !.mode = "stopped"]
  /\ UNCHANGED <<file, flash, desk, talk, wire, plugged, made, faults, stops>>

-----------------------------------------------------------------------------
(* The authenticated connection *)

\* mutant: every proof is made with the shared controllerSecret
OpenForwardShared ==
  /\ desk.at = "forward"
  /\ desk' = IF ~Forwardable THEN Failed([desk EXCEPT !.setup = "AUTHENTICATING"], "unplugged")
             ELSE [desk EXCEPT !.at = "connect", !.setup = "AUTHENTICATING", !.forward = TRUE,
                               \* the key is copied after the forward is there
                               !.key = desk.secret]
  /\ UNCHANGED <<file, flash, phone, talk, wire, plugged, made, faults, stops>>

OpenForward ==
  /\ desk.at = "forward"
  /\ desk' = IF ~Forwardable THEN Failed([desk EXCEPT !.setup = "AUTHENTICATING"], "unplugged")
             ELSE [desk EXCEPT !.at = "connect", !.setup = "AUTHENTICATING", !.forward = TRUE,
                               \* the key is copied after the forward is there
                               !.key = IF desk.plan = "committed" THEN desk.secret ELSE @]
  /\ UNCHANGED <<file, flash, phone, talk, wire, plugged, made, faults, stops>>

Listening == plugged /\ phone.mode \in {"proving", "enrolled"}

Dial ==
  /\ desk.at \in {"connect", "reconnect"} /\ wire.at = "down"
  /\ \/ /\ Listening /\ desk.forward
        /\ wire' = [at |-> "auth", proved |-> FALSE] /\ UNCHANGED desk
     \/ /\ ~(Listening /\ desk.forward)    \* adb accepts and closes: the timer of the proof runs out
        /\ desk' = Failed(desk, "transport") /\ UNCHANGED wire
  /\ UNCHANGED <<file, flash, phone, talk, plugged, made, faults, stops>>

\* The phone knows the key and, while it is staged, commits it before it answers.
AdmitDesktop ==
  /\ wire.at = "auth" /\ Listening
  /\ LET expected == IF phone.mode = "proving" THEN flash.staged ELSE flash.committed
         good == desk.key = expected /\ expected # None
     IN \/ /\ phone.mode = "enrolled"
           /\ wire' = IF good THEN [at |-> "proof", proved |-> FALSE] ELSE Unlinked
           /\ UNCHANGED <<flash, phone>>
        \/ /\ phone.mode = "proving" /\ good /\ ~phone.late
           /\ flash' = Committed(flash)
           /\ wire' = [at |-> "proof", proved |-> TRUE]
           /\ phone' = [phone EXCEPT !.mode = "enrolled"]
        \/ /\ phone.mode = "proving" /\ (~good \/ phone.late)
           /\ flash' = Revoked(flash)
           /\ wire' = Unlinked
           /\ phone' = [phone EXCEPT !.mode = "stopped"]
  /\ desk' = IF wire'.at = "down" /\ desk.at \in {"connect", "reconnect"}
             THEN Failed(desk, "transport") ELSE desk
  /\ UNCHANGED <<file, talk, plugged, made, faults, stops>>

\* The proof of the phone is read: the client is connected, and connectPhone goes on.
ReadProof ==
  /\ wire.at = "proof" /\ desk.at \in {"connect", "reconnect"}
  /\ wire' = [wire EXCEPT !.at = "up"]
  /\ desk' = [desk EXCEPT !.at = IF desk.at = "reconnect" THEN "start"
                                 ELSE IF desk.plan = "committed" THEN "start" ELSE "commit"]
  /\ UNCHANGED <<file, flash, phone, talk, plugged, made, faults, stops>>

\* A teardown of the DeviceClient: the attached daemon hears of it in the same step.
Disconnected(d) ==
  IF d.attached /\ ~d.stopping
  THEN [d EXCEPT !.at = "cleaning", !.attached = FALSE,
                 !.setup = "WAITING_FOR_PHONE", !.next = "WAITING_FOR_PHONE"]
  ELSE IF d.at \in {"connect", "reconnect"} /\ wire.at # "down" THEN Failed(d, "transport")
  ELSE d

\* After the proof the phone replaces its pairing server, and with it the connection.
PairingServerStops ==
  /\ wire.proved /\ wire.at \in {"proof", "up"}
  /\ wire' = Unlinked
  /\ desk' = Disconnected(desk)
  /\ UNCHANGED <<file, flash, phone, talk, plugged, made, faults, stops>>

-----------------------------------------------------------------------------
(* From the connection to the gateway *)

\* store.commit, then load() into controllerSecret.
CommitKey ==
  /\ desk.at = "commit"
  /\ \/ /\ file.committed = None /\ file.staged # None
        /\ file' = Committed(file)
        /\ desk' = [desk EXCEPT !.at = "start", !.secret = Loaded(file')]
        /\ UNCHANGED faults
     \/ /\ Fault
        /\ desk' = Failed(desk, "disk")
        /\ UNCHANGED file
  /\ UNCHANGED <<flash, phone, talk, wire, plugged, made, stops>>

\* The gateway is made and started: it takes the device and the forward of the attempt,
\* or makes its own when stop() has taken them; a lost connection is made again.
StartGateway ==
  /\ desk.at = "start"
  /\ \/ /\ desk.secret = None
        /\ desk' = Failed(desk, "credential")
     \/ /\ desk.secret # None /\ wire.at = "up"
        /\ desk' = [desk EXCEPT !.at = "evidence"]
     \/ /\ desk.secret # None /\ wire.at = "down"
        /\ desk' = IF Forwardable THEN [desk EXCEPT !.at = "reconnect", !.forward = TRUE,
                                                !.key = desk.secret]
                   ELSE Failed(desk, "unplugged")
  /\ UNCHANGED <<file, flash, phone, talk, wire, plugged, made, faults, stops>>

\* provisionDeviceEvidence is answered, or refused, or its connection is lost.
Attach ==
  /\ desk.at = "evidence"
  /\ \/ /\ wire.at = "up"
        /\ desk' = [desk EXCEPT !.at = "idle", !.attached = TRUE, !.setup = "AUTHENTICATED",
                                !.closing = desk.closing \/ desk.tunnel, !.tunnel = FALSE,
                                !.secret = IF desk.tunnel THEN @ ELSE None]
        /\ UNCHANGED faults
     \/ /\ wire.at = "up" /\ Fault
        /\ desk' = Failed(desk, "evidence")
     \/ /\ wire.at = "down"
        /\ desk' = Failed(desk, "transport")
        /\ UNCHANGED faults
  /\ UNCHANGED <<file, flash, phone, talk, wire, plugged, made, stops>>

-----------------------------------------------------------------------------
(* Stop, crashes, the cable and the user *)

\* SIGTERM: no more retries; an attempt under way is not told.
Stop ==
  /\ stops < MaxStops /\ desk.at # "down" /\ ~desk.stopping
  /\ stops' = stops + 1
  /\ desk' = [desk EXCEPT !.stopping = TRUE, !.timer = FALSE, !.attached = FALSE]
  /\ UNCHANGED <<file, flash, phone, talk, wire, plugged, made, faults>>

\* cleanupPhone of stop(), after the RPC server has stopped.
StopCleans ==
  /\ desk.stopping /\ ~desk.stopped
  /\ wire' = Unlinked
  /\ desk' = [(IF desk.at \in {"connect", "reconnect"} /\ wire.at # "down"
               THEN Failed(desk, "transport") ELSE desk)
              EXCEPT !.stopped = TRUE, !.forward = FALSE]
  /\ UNCHANGED <<file, flash, phone, talk, plugged, made, faults, stops>>

\* The process ends when nothing holds it: no attempt and no connection.
Exit ==
  /\ desk.stopped /\ desk.at = "idle" /\ ~desk.closing /\ wire.at = "down"
  /\ desk' = Down
  /\ UNCHANGED <<file, flash, phone, talk, wire, plugged, made, faults, stops>>

DaemonKilled ==
  /\ desk.at # "down" /\ Fault
  /\ desk' = Down
  /\ wire' = Unlinked
  /\ talk' = IF talk.at = "confirming" THEN talk ELSE Silent
  /\ UNCHANGED <<file, flash, phone, plugged, made, stops>>

\* The cable is pulled: every connection through adb is lost, a confirmation too.
Unplug ==
  /\ plugged /\ Fault
  /\ plugged' = FALSE
  /\ wire' = Unlinked
  /\ desk' = Disconnected(desk)
  /\ talk' = Silent
  /\ UNCHANGED <<file, flash, phone, made, stops>>

Plug ==
  /\ ~plugged
  /\ plugged' = TRUE
  /\ UNCHANGED <<file, flash, desk, phone, talk, wire, made, faults, stops>>

\* stopGateway revokes a key that is being proved; Android killing the process does not.
PhoneStops(killed) ==
  /\ phone.mode # "stopped" /\ Fault
  /\ phone' = [phone EXCEPT !.mode = "stopped", !.late = FALSE]
  /\ flash' = IF ~killed /\ phone.mode = "proving" THEN Revoked(flash) ELSE flash
  /\ wire' = Unlinked
  /\ desk' = Disconnected(desk)
  /\ talk' = Silent
  /\ UNCHANGED <<file, plugged, made, stops>>

\* Forget paired desktop: offered while the service is stopped and enrolled.
Forget ==
  /\ phone.mode = "stopped" /\ flash.committed # None /\ Fault
  /\ flash' = [flash EXCEPT !.committed = None]
  /\ phone' = [phone EXCEPT !.forgot = TRUE]
  /\ UNCHANGED <<file, desk, talk, wire, plugged, made, stops>>

-----------------------------------------------------------------------------
Attempt ==
  \/ Select \/ OpenTunnel \/ ExchangeFails \/ StageKey \/ Confirm \/ OpenForward
  \/ Dial \/ ReadProof \/ CommitKey \/ StartGateway \/ Attach \/ CleanupPhone

Next ==
  \/ DaemonStarts \/ RetryFires \/ Attempt \/ TunnelRemoved
  \/ PhoneStarts \/ Answer \/ TakeConfirmation \/ WindowCloses \/ ClientGone
  \/ AdmitDesktop \/ PairingServerStops
  \/ Stop \/ StopCleans \/ Exit \/ DaemonKilled \/ Unplug \/ Plug \/ Forget
  \/ \E killed \in BOOLEAN : PhoneStops(killed)

\* The daemon takes its steps, its timers fire, and a phone that listens answers.
Spec ==
  /\ Init /\ [][Next]_vars
  /\ WF_vars(Attempt) /\ WF_vars(RetryFires)
  /\ WF_vars(AdmitDesktop) /\ WF_vars(PairingServerStops) /\ WF_vars(TunnelRemoved)

-----------------------------------------------------------------------------
(* Properties *)

\* A desktop that holds a committed key holds the one its phone has committed, whatever
\* crashed while it was made, unless the user has made the phone forget it.
Agreement == file.committed # None /\ ~phone.forgot => flash.committed = file.committed

\* Neither side ever holds both halves of an enrollment: the state that recover() and
\* startGateway refuse to run from cannot be reached by any crash.
NeverAsymmetric == ~Asymmetric(file) /\ ~Asymmetric(flash)

\* A phone that is proving a staged key is only shown that key: it answers any other by
\* throwing the enrollment away, while the desktop would keep its half for ever.
ShownItsKey == wire.at = "auth" /\ phone.mode = "proving" => desk.key = flash.staged

\* Until it is told to stop, the daemon shows AUTHENTICATED, and delegates to a gateway,
\* exactly while its client is connected; and waiting for a retry it never shows a
\* stage of an attempt.
StageHonest ==
  ~desk.stopping =>
    /\ desk.attached <=> desk.setup = "AUTHENTICATED"
    /\ desk.attached => desk.at = "idle" /\ wire.at = "up"
    /\ desk.at = "idle" /\ ~desk.attached => desk.setup \notin {"AUTHENTICATING", "VERIFYING_DEVICE"}

\* Until it is told to stop, a daemon without its phone has a retry coming: an attempt, a
\* cleanup that arms the timer, or the timer, and never two attempts at once.
NeverGivesUp ==
  ~desk.stopping /\ desk.at # "down" => (desk.at = "idle" /\ ~desk.attached <=> desk.timer)

\* A committed key is not replaced: not by a failed authentication, a late one, a stop or
\* a second pairing, on either side, short of the user's Forget.
NeverRotated ==
  [][/\ file.committed # None => file'.committed = file.committed
     /\ flash.committed # None /\ ~phone'.forgot => flash'.committed = flash.committed]_vars

Running == desk.at # "down" /\ ~desk.stopping /\ plugged

\* A daemon and a phone that hold the same committed key, with the cable in and the
\* service running, come together again after any loss.
Reconnects ==
  LET apart == Running /\ phone.mode = "enrolled" /\ file.committed # None
               /\ file.committed = flash.committed
  IN apart ~> (desk.attached \/ ~apart)

\* An enrollment both sides have staged, or the phone has committed alone, is finished by
\* a daemon that starts again, if the phone's thirty seconds last.
Finishes ==
  LET half == /\ Running /\ file.staged # None /\ ~phone.late
              /\ \/ phone.mode = "proving" /\ flash.staged = file.staged
                 \/ phone.mode = "enrolled" /\ flash.committed = file.staged
  IN half ~> ~half

\* In every state: its types, two halves that can be recovered, a phone that is shown the key
\* it is proving, and a daemon that tells the truth of its connection and goes on trying.
LinkInv == TypeOK /\ NeverAsymmetric /\ ShownItsKey /\ StageHonest /\ NeverGivesUp

\* What was paired comes together again, and what was half enrolled is finished, after any
\* crash or loss that leaves it possible.
LinkLive == Reconnects /\ Finishes
=============================================================================
