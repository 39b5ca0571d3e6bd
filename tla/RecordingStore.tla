--------------------------- MODULE RecordingStore ---------------------------
(* The recordings on the desktop's disk, and their copies on the phone:         *)
(* RecordingManager and CallRecorder (pc/pc-gateway/src/recording.js), the copy *)
(* protocol (recording-artifact-sync.js, PhoneRecordingArtifactReceiver.kt,     *)
(* PhoneRecordingStore.kt), and the part of gateway.js that queues, retries and *)
(* forgets copies.                                                              *)
(*                                                                              *)
(* Everything a Gateway does with recordings runs one operation after the other *)
(* on its promise chain recordingWork: finishing a recording, copying it to the *)
(* phone, retrying copies, and telling of an incoming call.  Retry timers, the  *)
(* requests of the desktop (copy, export, delete) and the phone run beside it.  *)
(* gatewayd makes a new Gateway for every connection with the phone.            *)
(*                                                                              *)
(* A definition in front of another one whose name extends that name is a       *)
(* deliberately broken variant of it, which no other definition uses.           *)
EXTENDS Naturals, Sequences, FiniteSets

CONSTANTS
  Calls,      \* the calls that are recorded
  None,       \* no call
  Chunks,     \* the chunks of a review WAV
  WireSize,   \* bound: the frames the socket takes before the phone reads one
  MaxFrames,  \* bound: the frames of a track
  MaxExports, \* bound: exports of the desktop
  MaxDeletes, \* bound: deletions of the desktop
  MaxCopies,  \* bound: syncRecording requests of the desktop
  MaxFaults   \* bound: failures of disk, encoder, link, phone and process, and time-outs

ASSUME StoreAssumption ==
  /\ None \notin Calls
  /\ {Chunks, WireSize, MaxFrames} \subseteq Nat \ {0}
  /\ {MaxExports, MaxDeletes, MaxCopies, MaxFaults} \subseteq Nat

VARIABLES
  disk,      \* the directory of every call below the recording root
  exported,  \* the directory of every call below the export root
  recorder,  \* the CallRecorder of every call: none, open, closed
  gateway,   \* the Gateway: state, device.state, phoneRecordingSyncSupported, currentCall,
             \* and whether phoneRecordingCopy.state is 'stored'
  pending,   \* pendingPhoneRecordingSyncs
  timers,    \* phoneRecordingSyncRetryTimers
  chain,     \* recordingWork: the operations that wait
  work,      \* recordingWork: the operation that runs
  awaited,   \* how many operations of the chain stop() still awaits, as long as it runs
  wire,      \* what is under way to the phone
  receipts,  \* what is under way from the phone
  phone,     \* its call, the transfer it receives, what it has published
  exporter,  \* the export that runs
  deleter,   \* the deletion that runs
  deleted,   \* history: the deletions that were reported as done
  stored,    \* history: the copies that were reported as stored
  budget     \* what is left of the bounds

storeVars == <<disk, exported, recorder>>
copyVars == <<pending, timers, chain, work>>
linkVars == <<wire, receipts, phone>>
desktopVars == <<exporter, deleter, deleted>>
vars == <<storeVars, gateway, copyVars, awaited, linkVars, desktopVars, stored, budget>>

NoDirectory ==
  [dir |-> FALSE, remote |-> 0, agent |-> 0, wav |-> FALSE, manifest |-> "none", sums |-> FALSE]
NoExport == [dir |-> FALSE, temp |-> FALSE, file |-> FALSE]
Idle == [op |-> "none"]
Finishing(c, ok) == [op |-> "finish", call |-> c, ok |-> ok]
Copying(c) == [op |-> "copy", call |-> c]
Retrying == [op |-> "retry"]
Announcing(c) == [op |-> "incoming", call |-> c]
NewGateway ==
  [state |-> "running", connected |-> TRUE, supported |-> FALSE, call |-> None, copied |-> FALSE]
NoDeletion == [call |-> None, at |-> "none", broken |-> FALSE]
NoTransfer == [call |-> None, got |-> 0]

MaxOf(a, b) == IF a > b THEN a ELSE b
Available(f) == budget[f] > 0
Spend(f) == budget' = [budget EXCEPT ![f] = @ - 1]
MayFail == Available("faults") /\ Spend("faults")

TypeOK ==
  /\ disk \in [Calls -> [dir : BOOLEAN, remote : 0..MaxFrames, agent : 0..MaxFrames, wav : BOOLEAN,
                         manifest : {"none", "complete", "incomplete"}, sums : BOOLEAN]]
  /\ exported \in [Calls -> [dir : BOOLEAN, temp : BOOLEAN, file : BOOLEAN]]
  /\ recorder \in [Calls -> {"none", "open", "closed"}]
  /\ gateway \in [state : {"running", "stopping", "stopped", "down"}, connected : BOOLEAN,
                  supported : BOOLEAN, call : Calls \cup {None}, copied : BOOLEAN]
  /\ pending \subseteq Calls /\ timers \subseteq pending /\ stored \subseteq Calls
  /\ \A i \in DOMAIN chain : chain[i] \in
       {Retrying} \cup {Copying(c) : c \in Calls} \cup {Announcing(c) : c \in Calls}
                  \cup {Finishing(c, ok) : c \in Calls, ok \in BOOLEAN}
  /\ awaited \in 0..Len(chain) + 1
  /\ Len(wire) \in 0..WireSize
  /\ phone.call \in Calls \cup {None} /\ phone.rx.got \in 0..Chunks
  /\ exporter.call \in Calls \cup {None} /\ deleter.call \in Calls \cup {None}
  /\ deleted \subseteq Calls
  /\ \A f \in DOMAIN budget : budget[f] \in Nat

\* The bounds are shared out: a behaviour has copies asked for and failures, or exports and
\* deletions, or deletions and failures.
Budgets ==
  {[exports |-> 0, deletes |-> 0, copies |-> MaxCopies, faults |-> MaxFaults],
   [exports |-> MaxExports, deletes |-> MaxDeletes, copies |-> 0, faults |-> 0],
   [exports |-> 0, deletes |-> MaxDeletes, copies |-> 0, faults |-> MaxFaults]}

Init ==
  /\ disk = [c \in Calls |-> NoDirectory]
  /\ exported = [c \in Calls |-> NoExport]
  /\ recorder = [c \in Calls |-> "none"]
  /\ gateway = NewGateway
  /\ pending = {} /\ timers = {} /\ chain = <<>> /\ work = Idle /\ awaited = 0
  /\ wire = <<>> /\ receipts = <<>>
  /\ phone = [call |-> None, seen |-> {}, rx |-> NoTransfer, published |-> {}]
  /\ exporter = [call |-> None, at |-> "none"]
  /\ deleter = NoDeletion
  /\ deleted = {} /\ stored = {}
  /\ budget \in Budgets

\* The catalogue, and what may be read of it: the manifest is complete, the file is there and
\* has the hash that the manifest says.
Listed == {c \in Calls : disk[c].dir /\ disk[c].manifest = "complete"}
Verifiable(c) == c \in Listed /\ disk[c].wav

Alive == gateway.state \in {"running", "stopping", "stopped"}
OnLine == gateway.connected
Queue(op) == chain' = Append(chain, op)

-----------------------------------------------------------------------------
(* Calls and their recordings                                                  *)

\* A call rings, or is dialled.  The phone is busy at once; the gateway handles 'incoming'
\* at the end of its chain, 'dialing' when it arrives.
PhoneCall(c) ==
  /\ phone.call = None /\ c \notin phone.seen /\ OnLine /\ gateway.state = "running"
  /\ phone' = [phone EXCEPT !.call = c, !.seen = @ \cup {c}]
  /\ \/ Queue(Announcing(c)) /\ UNCHANGED gateway
     \/ gateway' = [gateway EXCEPT !.call = c] /\ UNCHANGED chain
  /\ UNCHANGED <<storeVars, pending, timers, work, awaited, wire, receipts, desktopVars, stored, budget>>

Startable(c) ==
  /\ gateway.call = c /\ recorder[c] = "none"
  /\ \A d \in Calls : recorder[d] # "open"

StartRecording(c) ==
  /\ Startable(c)
  /\ recorder' = [recorder EXCEPT ![c] = "open"]
  /\ disk' = [disk EXCEPT ![c].dir = TRUE]
  /\ UNCHANGED <<exported, gateway, copyVars, awaited, linkVars, desktopVars, stored, budget>>

\* The preflight refuses, or a directory that has been made cannot be filled and is left.
StartFails(c) ==
  /\ Startable(c) /\ MayFail
  /\ recorder' = [recorder EXCEPT ![c] = "closed"]
  /\ \E made \in BOOLEAN : disk' = [disk EXCEPT ![c].dir = made]
  /\ UNCHANGED <<exported, gateway, copyVars, awaited, linkVars, desktopVars, stored>>

WriteRemote(c) ==
  /\ recorder[c] = "open" /\ disk[c].dir /\ disk[c].remote < MaxFrames
  /\ disk' = [disk EXCEPT ![c].remote = @ + 1]
  /\ UNCHANGED <<exported, recorder, gateway, copyVars, awaited, linkVars, desktopVars, stored, budget>>

\* padTo: the agent's track is filled with silence up to where the caller's is.
Padded(d) == MaxOf(d.agent, IF d.remote = 0 THEN 0 ELSE d.remote - 1)

WriteAgent(c) ==
  /\ recorder[c] = "open" /\ disk[c].dir /\ Padded(disk[c]) < MaxFrames
  /\ disk' = [disk EXCEPT ![c].agent = Padded(disk[c]) + 1]
  /\ UNCHANGED <<exported, recorder, gateway, copyVars, awaited, linkVars, desktopVars, stored, budget>>

\* The call ends; a recording of it is finished at the end of the chain.
CallEnds(c) ==
  /\ phone.call = c
  /\ phone' = [phone EXCEPT !.call = None]
  /\ IF OnLine
     THEN /\ gateway' = [gateway EXCEPT !.call = IF @ = c THEN None ELSE @]
          /\ IF recorder[c] = "open"
             THEN /\ recorder' = [recorder EXCEPT ![c] = "closed"]
                  /\ \/ Queue(Finishing(c, TRUE)) /\ UNCHANGED budget
                     \/ Queue(Finishing(c, FALSE)) /\ MayFail
             ELSE UNCHANGED <<recorder, chain, budget>>
     ELSE UNCHANGED <<gateway, recorder, chain, budget>>
  /\ UNCHANGED <<disk, exported, pending, timers, work, awaited, wire, receipts, desktopVars, stored>>

-----------------------------------------------------------------------------
(* The link and the process                                                    *)

\* The device is no longer connected: the gateway forgets the call and ends its recording,
\* the phone's server drops what it was receiving.
LinkGoes(state) ==
  /\ gateway' = [gateway EXCEPT !.state = state, !.connected = FALSE, !.supported = FALSE, !.call = None,
                                !.copied = FALSE]
  /\ chain' = IF \E c \in Calls : recorder[c] = "open"
              THEN Append(chain, Finishing(CHOOSE c \in Calls : recorder[c] = "open", FALSE))
              ELSE chain
  /\ recorder' = [c \in Calls |-> IF recorder[c] = "open" THEN "closed" ELSE recorder[c]]
  /\ wire' = <<>> /\ receipts' = <<>>

LinkLost ==
  /\ OnLine /\ MayFail /\ LinkGoes(gateway.state)
  /\ phone' = [phone EXCEPT !.rx = NoTransfer]
  /\ UNCHANGED <<disk, exported, pending, timers, work, awaited, desktopVars, stored>>

\* The process of gatewayd ends, with everything it remembers.
ProcessEnds ==
  /\ gateway' = [NewGateway EXCEPT !.state = "down", !.connected = FALSE]
  /\ recorder' = [c \in Calls |-> IF recorder[c] = "open" THEN "closed" ELSE recorder[c]]
  /\ pending' = {} /\ timers' = {} /\ chain' = <<>> /\ work' = Idle /\ awaited' = 0
  /\ wire' = <<>> /\ receipts' = <<>>
  /\ phone' = [phone EXCEPT !.rx = NoTransfer]
  /\ exporter' = [call |-> None, at |-> "none"] /\ deleter' = NoDeletion
  /\ UNCHANGED <<disk, exported, deleted, stored>>

Crash == Alive /\ MayFail /\ ProcessEnds

CapabilitiesForgetful ==
  /\ OnLine /\ gateway.state = "running" /\ ~gateway.supported
  /\ gateway' = [gateway EXCEPT !.supported = TRUE, !.copied = FALSE]
  /\ UNCHANGED <<storeVars, copyVars, awaited, linkVars, desktopVars, stored, budget>>

\* The phone says that it takes recordings: what waited for it is copied.
Capabilities ==
  /\ OnLine /\ gateway.state = "running" /\ ~gateway.supported
  /\ gateway' = [gateway EXCEPT !.supported = TRUE, !.copied = FALSE]
  /\ IF pending # {} THEN Queue(Retrying) ELSE UNCHANGED chain
  /\ UNCHANGED <<storeVars, pending, timers, work, awaited, linkVars, desktopVars, stored, budget>>

\* gatewayd stops a gateway that has lost its phone, and when it is shut down itself: stop()
\* awaits the chain as it is then.
StopGateway ==
  /\ gateway.state = "running"
  /\ IF OnLine THEN MayFail ELSE UNCHANGED budget
  /\ gateway' = [gateway EXCEPT !.state = "stopping"]
  /\ awaited' = Len(chain) + (IF work = Idle THEN 0 ELSE 1)
  /\ UNCHANGED <<storeVars, copyVars, linkVars, desktopVars, stored>>

\* The rest of stop(): the device is disconnected, a recording in progress ended, the timers
\* cleared.
GatewayStopped ==
  /\ gateway.state = "stopping" /\ awaited = 0
  /\ IF OnLine
     THEN LinkGoes("stopped") /\ phone' = [phone EXCEPT !.rx = NoTransfer]
     ELSE /\ gateway' = [gateway EXCEPT !.state = "stopped"]
          /\ UNCHANGED <<recorder, chain, linkVars>>
  /\ timers' = {}
  /\ UNCHANGED <<disk, exported, pending, work, awaited, desktopVars, stored, budget>>

\* gatewayd makes a new Gateway; what the old one still runs can no longer send.
Reconnect ==
  /\ gateway.state \in {"stopped", "down"}
  /\ gateway' = NewGateway
  /\ pending' = {} /\ timers' = {} /\ chain' = <<>> /\ work' = Idle /\ awaited' = 0
  /\ UNCHANGED <<storeVars, linkVars, desktopVars, stored, budget>>

-----------------------------------------------------------------------------
(* The chain                                                                   *)

At(step) == work # Idle /\ work.step = step
Goto(step) == work' = [work EXCEPT !.step = step]
EndOperation == work' = Idle /\ awaited' = IF awaited > 0 THEN awaited - 1 ELSE 0
Running(op, c, step, todo) ==
  [op |-> op, call |-> c, ok |-> FALSE, step |-> step, todo |-> todo, older |-> FALSE,
   sent |-> 0, receipt |-> "none"]
Copy(w, c) == [w EXCEPT !.call = c, !.step = "read", !.sent = 0, !.receipt = "none"]

StartOperation ==
  /\ Alive /\ work = Idle /\ chain # <<>>
  /\ chain' = Tail(chain)
  /\ LET next == Head(chain) IN
     \/ /\ next.op = "finish"
        /\ work' = [Running("finish", next.call, "render", {}) EXCEPT !.ok = next.ok]
        /\ UNCHANGED <<gateway, pending, awaited>>
     \/ /\ next.op = "copy"
        /\ work' = Running("copy", next.call, "read", {})
        /\ pending' = pending \cup {next.call}
        /\ UNCHANGED <<gateway, awaited>>
     \/ /\ next.op = "retry"
        /\ work' = Running("retry", None, "next", pending)
        /\ UNCHANGED <<gateway, pending, awaited>>
     \/ /\ next.op = "incoming"
        /\ gateway' = [gateway EXCEPT !.call = next.call]
        /\ EndOperation
        /\ UNCHANGED pending
  /\ UNCHANGED <<storeVars, timers, linkVars, desktopVars, stored, budget>>

\* CallRecorder.finalize, up to its last await: the tracks are closed and mixed.
Render ==
  /\ At("render") /\ Goto("seal")
  /\ LET d == disk[work.call] IN
     \/ /\ disk' = [disk EXCEPT ![work.call].wav = d.dir /\ MaxOf(d.remote, d.agent) > 0]
        /\ UNCHANGED budget
     \/ MayFail /\ UNCHANGED disk
  /\ UNCHANGED <<exported, recorder, gateway, pending, timers, chain, awaited, linkVars, desktopVars, stored>>

Complete(d, ok) == ok /\ d.remote > 0 /\ d.agent > 0 /\ d.wav

\* The manifest is written with the hashes of what is there.  finalize throws if a file is
\* gone or cannot be written, and nothing finishes the recording then.
Seal ==
  /\ At("seal")
  /\ LET c == work.call
         d == disk[c] IN
     \/ /\ d.dir
        /\ disk' = [disk EXCEPT ![c].manifest =
                      IF Complete(d, work.ok) THEN "complete" ELSE "incomplete"]
        /\ Goto("sums") /\ UNCHANGED <<awaited, budget>>
     \/ /\ ~d.dir /\ EndOperation /\ UNCHANGED <<disk, budget>>
     \/ /\ MayFail /\ EndOperation /\ UNCHANGED disk
  /\ UNCHANGED <<exported, recorder, gateway, pending, timers, chain, linkVars, desktopVars, stored>>

\* The rest of the operation that ended the recording: a copy of it, and then of older ones.
Finished ==
  /\ At("sums")
  /\ LET c == work.call
         older == pending \ {c} # {}
         done == disk[c].manifest = "complete"
         retry == [work EXCEPT !.step = "next", !.todo = pending] IN
     \/ /\ disk[c].dir
        /\ disk' = [disk EXCEPT ![c].sums = TRUE]
        /\ UNCHANGED budget
        /\ pending' = IF done THEN pending \cup {c} ELSE pending
        /\ IF done
           THEN IF gateway.supported
                THEN work' = Copy([work EXCEPT !.older = older], c) /\ UNCHANGED <<gateway, awaited>>
                ELSE gateway' = [gateway EXCEPT !.copied = FALSE] /\ EndOperation
           ELSE /\ IF older /\ gateway.supported /\ gateway.copied
                   THEN work' = retry /\ UNCHANGED awaited
                   ELSE EndOperation
                /\ UNCHANGED gateway
     \/ /\ MayFail \/ (~disk[c].dir /\ UNCHANGED budget)
        /\ EndOperation /\ UNCHANGED <<disk, gateway, pending>>
  /\ UNCHANGED <<exported, recorder, timers, chain, linkVars, desktopVars, stored>>

\* _retryPendingRecordingSyncs: one copy after the other, as long as the phone is there.
NextPending ==
  /\ At("next")
  /\ IF work.todo = {} \/ ~gateway.supported \/ ~OnLine
     THEN EndOperation /\ UNCHANGED pending
     ELSE \E c \in work.todo :
            /\ work' = Copy([work EXCEPT !.todo = @ \ {c}], c)
            /\ pending' = pending \cup {c}
            /\ UNCHANGED awaited
  /\ UNCHANGED <<storeVars, gateway, timers, chain, linkVars, desktopVars, stored, budget>>

-----------------------------------------------------------------------------
(* One copy: syncFinalizedRecording within _syncRecordingDirectory             *)

Sending == At("begin") \/ At("stream") \/ At("commit")
Listening == Sending \/ At("wait")

\* What follows the copy: the next pending one, or the end of the operation.
AfterCopy(older) ==
  IF work.op = "retry" \/ work.todo # {} THEN Goto("next") /\ UNCHANGED awaited
  ELSE IF older THEN work' = [work EXCEPT !.step = "next", !.todo = pending', !.older = FALSE]
                     /\ UNCHANGED awaited
  ELSE EndOperation

MayRetry(c) == c \in pending /\ gateway.state # "stopped"

\* The copy failed: it stays pending, with a timer (_scheduleRecordingSyncRetry).
CopyFailed ==
  /\ gateway' = [gateway EXCEPT !.copied = FALSE]
  /\ timers' = IF MayRetry(work.call) THEN timers \cup {work.call} ELSE timers
  /\ UNCHANGED <<pending, stored>>
  /\ AfterCopy(FALSE)

CopyStored ==
  /\ gateway' = [gateway EXCEPT !.copied = TRUE]
  /\ pending' = pending \ {work.call}
  /\ timers' = timers \ {work.call}
  /\ stored' = stored \cup {work.call}
  /\ AfterCopy(work.older /\ gateway.supported)

Unsent == UNCHANGED <<storeVars, chain, linkVars, desktopVars>>

\* The manifest, the file and its hash are read before anything is sent.
ReadRecording ==
  /\ At("read")
  /\ IF Verifiable(work.call)
     THEN Goto("begin") /\ UNCHANGED <<gateway, pending, timers, stored, awaited>>
     ELSE CopyFailed
  /\ UNCHANGED budget /\ Unsent

\* A send is refused when the link is gone, a chunk when its file cannot be opened.
Refused == ~OnLine \/ (At("stream") /\ work.sent = 0 /\ ~disk[work.call].dir)

SendFails == Sending /\ Refused /\ CopyFailed /\ UNCHANGED budget /\ Unsent

Send ==
  /\ Sending /\ ~Refused /\ Len(wire) < WireSize
  /\ wire' = Append(wire, [frame |-> work.step, call |-> work.call])
  /\ \/ At("begin") /\ Goto("stream")
     \/ At("stream") /\ work' = [work EXCEPT !.sent = @ + 1,
                                   !.step = IF work.sent + 1 = Chunks THEN "commit" ELSE "stream"]
     \/ At("commit") /\ Goto("wait")
  /\ UNCHANGED <<storeVars, gateway, pending, timers, chain, awaited, receipts, phone,
                 desktopVars, stored, budget>>

ReceiptRead(e) == Listening /\ work.receipt = "none" /\ e.call = work.call

\* An event of the phone.  The listener of the running copy hears those of its call; a
\* failure that comes while the copy is still sending is a rejection nobody handles.
Receive ==
  /\ receipts # <<>>
  /\ LET e == Head(receipts) IN
     IF ReceiptRead(e) /\ Sending /\ e.event = "failed" THEN ProcessEnds
     ELSE /\ receipts' = Tail(receipts)
          /\ work' = IF ReceiptRead(e) THEN [work EXCEPT !.receipt = e.event] ELSE work
          /\ UNCHANGED <<storeVars, gateway, pending, timers, chain, awaited, wire, phone,
                         desktopVars, stored>>
  /\ UNCHANGED budget

ReceiptSettles ==
  /\ At("wait")
  /\ \/ work.receipt = "stored" /\ CopyStored
     \/ work.receipt = "failed" /\ CopyFailed
  /\ UNCHANGED budget /\ Unsent

TimesOut == At("wait") /\ work.receipt = "none" /\ (IF OnLine THEN MayFail ELSE UNCHANGED budget)

\* No receipt within timeoutMs; while the copy is still sending, as for Receive.
ReceiptTimesOut == TimesOut /\ CopyFailed /\ Unsent
SendTimesOut == Sending /\ work.receipt = "none" /\ MayFail /\ ProcessEnds

TimerFiresOnce(c) ==
  /\ c \in timers /\ timers' = timers \ {c}
  /\ IF gateway.call = None /\ OnLine /\ gateway.supported THEN Queue(Copying(c)) ELSE UNCHANGED chain
  /\ UNCHANGED <<storeVars, gateway, pending, work, awaited, linkVars, desktopVars, stored, budget>>

\* A retry timer; during a call it is set again.
TimerFires(c) ==
  /\ c \in timers /\ gateway.call = None
  /\ timers' = timers \ {c}
  /\ IF OnLine /\ gateway.supported THEN Queue(Copying(c)) ELSE UNCHANGED chain
  /\ UNCHANGED <<storeVars, gateway, pending, work, awaited, linkVars, desktopVars, stored, budget>>

\* Sync to phone.
SyncRecording(c) ==
  /\ Available("copies") /\ Spend("copies")
  /\ gateway.state = "running" /\ OnLine /\ gateway.supported /\ gateway.call = None
  /\ Verifiable(c)
  /\ Queue(Copying(c))
  /\ UNCHANGED <<storeVars, gateway, pending, timers, work, awaited, linkVars, desktopVars, stored>>

-----------------------------------------------------------------------------
(* The phone                                                                   *)

\* PhoneRecordingArtifactReceiver takes a frame only while no call is up, a begin only while
\* it receives nothing else; a frame it does not take is a protocol error.
Taken(m) ==
  /\ phone.call = None
  /\ phone.rx.call = IF m.frame = "begin" THEN None ELSE m.call

Verified == phone.rx.got = Chunks

PhoneReads ==
  /\ wire # <<>>
  /\ LET m == Head(wire) IN
     \/ /\ Taken(m)
        /\ \/ /\ m.frame = "begin"
              /\ phone' = [phone EXCEPT !.rx = [call |-> m.call, got |-> 0]]
              /\ UNCHANGED <<receipts, budget>>
           \/ /\ m.frame = "stream"
              /\ phone' = [phone EXCEPT !.rx.got = @ + 1]
              /\ UNCHANGED <<receipts, budget>>
           \/ /\ m.frame = "commit" /\ Verified
              /\ phone' = [phone EXCEPT !.rx = NoTransfer, !.published = @ \cup {m.call}]
              /\ receipts' = Append(receipts, [event |-> "stored", call |-> m.call])
              /\ UNCHANGED budget
           \/ /\ m.frame = "commit" /\ (MayFail \/ (~Verified /\ UNCHANGED budget))
              /\ phone' = [phone EXCEPT !.rx = NoTransfer]
              /\ receipts' = Append(receipts, [event |-> "failed", call |-> m.call])
        /\ wire' = Tail(wire)
        /\ UNCHANGED <<gateway, chain, recorder>>
     \/ /\ (~Taken(m) /\ UNCHANGED budget) \/ (m.frame # "commit" /\ MayFail)
        /\ LinkGoes(gateway.state)
        /\ phone' = [phone EXCEPT !.rx = NoTransfer]
  /\ UNCHANGED <<disk, exported, pending, timers, work, awaited, desktopVars, stored>>

-----------------------------------------------------------------------------
(* Exports and deletions                                                       *)

\* exportArtifact: the artifact is verified, copied to a temporary file beside its
\* destination, compared with its source and renamed.
StartExport(c) ==
  /\ Available("exports") /\ Spend("exports")
  /\ exporter.call = None /\ Alive
  /\ Verifiable(c)
  /\ exporter' = [call |-> c, at |-> "mkdir"]
  /\ UNCHANGED <<storeVars, gateway, copyVars, awaited, linkVars, deleter, deleted, stored>>

ExportFinds(c) ==
  \/ exporter.at \in {"mkdir", "unlink"}
  \/ exporter.at = "copy" /\ disk[c].dir /\ exported[c].dir
  \/ exporter.at = "compare" /\ disk[c].dir /\ exported[c].temp
  \/ exporter.at = "rename" /\ exported[c].temp

ExportMade(at, e) ==
  IF at = "mkdir" THEN [e EXCEPT !.dir = TRUE]
  ELSE IF at = "copy" THEN [e EXCEPT !.temp = TRUE]
  ELSE IF at = "unlink" THEN [e EXCEPT !.file = FALSE]
  ELSE IF at = "rename" THEN [e EXCEPT !.file = TRUE, !.temp = FALSE]
  ELSE e

ExportOrder ==
  [mkdir |-> "copy", copy |-> "compare", compare |-> "unlink", unlink |-> "rename",
   rename |-> "none"]

ExportStep ==
  /\ exporter.call # None
  /\ LET c == exporter.call IN
     \/ /\ ExportFinds(c)
        /\ exported' = [exported EXCEPT ![c] = ExportMade(exporter.at, @)]
        /\ exporter' = [call |-> IF exporter.at = "rename" THEN None ELSE c,
                        at |-> ExportOrder[exporter.at]]
     \/ /\ ~ExportFinds(c)
        /\ exported' = [exported EXCEPT ![c].temp = FALSE]
        /\ exporter' = [call |-> None, at |-> "none"]
  /\ UNCHANGED <<disk, recorder, gateway, copyVars, awaited, linkVars, deleter, deleted, stored, budget>>

DeletionOrderReversed ==
  [start |-> "exports", exports |-> "recording", recording |-> "audit"]
\* delete: the recording first, then its exports, then the line in the audit log.
DeletionOrder ==
  [start |-> "recording", recording |-> "exports", exports |-> "audit"]

\* Any directory may be deleted, that of the call in progress too.
StartDelete(c) ==
  /\ Available("deletes") /\ Spend("deletes")
  /\ deleter.call = None /\ Alive /\ disk[c].dir
  /\ deleter' = [deleter EXCEPT !.call = c, !.at = DeletionOrder["start"]]
  /\ UNCHANGED <<storeVars, gateway, copyVars, awaited, linkVars, exporter, deleted, stored>>

DeleteStep ==
  /\ deleter.call # None /\ deleter.at # "audit"
  /\ LET c == deleter.call IN
     /\ deleter' = [deleter EXCEPT !.at = DeletionOrder[@]]
     /\ disk' = IF deleter.at = "recording" THEN [disk EXCEPT ![c] = NoDirectory] ELSE disk
     /\ exported' = IF deleter.at = "exports" THEN [exported EXCEPT ![c] = NoExport] ELSE exported
  /\ UNCHANGED <<recorder, gateway, copyVars, awaited, linkVars, exporter, deleted, stored, budget>>

\* #appendAudit chains its writes: after one that failed, all fail.
AuditDeletion ==
  /\ deleter.call # None /\ deleter.at = "audit"
  /\ \E fails \in BOOLEAN :
       /\ IF fails /\ ~deleter.broken THEN MayFail ELSE fails = deleter.broken /\ UNCHANGED budget
       /\ deleter' = [call |-> None, at |-> "none", broken |-> fails]
       /\ deleted' = IF fails THEN deleted ELSE deleted \cup {deleter.call}
  /\ UNCHANGED <<storeVars, gateway, copyVars, awaited, linkVars, exporter, stored>>

-----------------------------------------------------------------------------
CallStep ==
  \E c \in Calls :
    \/ PhoneCall(c) \/ CallEnds(c) \/ StartRecording(c) \/ StartFails(c)
    \/ WriteRemote(c) \/ WriteAgent(c)
CopyStep == ReadRecording \/ Send \/ SendFails \/ ReceiptSettles \/ ReceiptTimesOut
ChainStep == StartOperation \/ Render \/ Seal \/ Finished \/ NextPending \/ CopyStep
LinkStep == LinkLost \/ Crash \/ Capabilities \/ StopGateway \/ GatewayStopped \/ Reconnect
DesktopStep ==
  \/ ExportStep \/ DeleteStep \/ AuditDeletion
  \/ \E c \in Calls : TimerFires(c) \/ SyncRecording(c) \/ StartExport(c) \/ StartDelete(c)

Next == CallStep \/ ChainStep \/ SendTimesOut \/ Receive \/ PhoneReads \/ LinkStep \/ DesktopStep

Spec == Init /\ [][Next]_vars

\* The event loop, the disk and the phone's reader go on, timers fire, and gatewayd replaces
\* a gateway that has lost its phone; calls, requests and failures may come or not.
FairSpec ==
  /\ Spec
  /\ WF_vars(ChainStep) /\ WF_vars(Receive) /\ WF_vars(PhoneReads)
  /\ WF_vars(StopGateway) /\ WF_vars(GatewayStopped) /\ WF_vars(Capabilities)
  /\ \A c \in Calls : WF_vars(TimerFires(c))

-----------------------------------------------------------------------------
(* Properties                                                                  *)

\* A recording that the catalogue lists as complete (list) can be played: its call has ended,
\* both tracks have frames and the mixed artifact is there, whatever failed on the way.
ListedPlayable ==
  \A c \in Listed : disk[c].wav /\ disk[c].remote > 0 /\ disk[c].agent > 0

\* What the desktop reports as stored on the phone has been published by the phone, although
\* receipts may come after their copy has timed out, while another one is under way.
StoredHonest == stored \subseteq phone.published

\* While the phone is connected and idle no pending copy is forgotten: a timer, the chain or
\* the running operation will take it up.
NeverStranded ==
  gateway.state = "running" /\ gateway.supported =>
    \A c \in pending :
      \/ c \in timers
      \/ \E i \in DOMAIN chain : chain[i] \in {Retrying, Copying(c)}
      \/ work # Idle /\ (work.call = c \/ c \in work.todo)

\* A gateway that has been stopped leaves no retry timer behind.
NoTimerLeft == gateway.state = "stopped" => timers = {}

\* Once a deletion is reported, nothing of the recording is left, in the export root either,
\* although an export of it may have been under way.
DeletedStaysDeleted ==
  \A c \in deleted : ~disk[c].dir /\ ~exported[c].file /\ ~exported[c].temp

\* A gateway that has lost its phone is stopped: nothing on its chain waits for ever.
StopsInTime == (gateway.state = "running" /\ ~OnLine) ~> gateway.state # "running" /\ gateway.state # "stopping"

\* If calls end for good, every copy that is pending is made, unless the phone is lost (which
\* drops what is pending with its gateway) or the recording is deleted.
Copied ==
  <>[](phone.call = None /\ gateway.call = None) =>
    \A c \in Calls : c \in pending ~> c \notin pending \/ ~OnLine \/ ~disk[c].dir

\* In every state: its types, a catalogue and receipts that tell the truth, and no copy that
\* is forgotten while the phone is there, or still taken up when the gateway has stopped.
StoreInv == TypeOK /\ ListedPlayable /\ StoredHonest /\ NeverStranded /\ NoTimerLeft

\* A gateway without its phone comes to its end, and with it every recording is copied.
StoreLive == StopsInTime /\ Copied
=============================================================================
