-------------------------- MODULE RecordingStoreProofs --------------------------
(* The safety of the recordings and of their copies, for any number of calls,    *)
(* chunks, frames, requests and failures.                                        *)
(*                                                                               *)
(* Four things make StoreInv inductive. A manifest is complete only over what it *)
(* lists (InvManifest). A receipt "stored" in flight is true already             *)
(* (InvReceipt). A pending copy is covered by something that does not depend on  *)
(* the copy that has just ended (InvCovered). The frames in flight are those of  *)
(* a transfer that the phone can take, counted with what it has got              *)
(* (InvTransfer). DeletedStaysDeleted rests on the order in which a deletion     *)
(* removes the recording and its export (InvDeleter).                            *)
EXTENDS RecordingStore, TLAPS

-----------------------------------------------------------------------------
(* The types of what TypeOK leaves open *)

Directories == [dir : BOOLEAN, remote : 0..MaxFrames, agent : 0..MaxFrames, wav : BOOLEAN,
                manifest : {"none", "complete", "incomplete"}, sums : BOOLEAN]
Exports == [dir : BOOLEAN, temp : BOOLEAN, file : BOOLEAN]
Gateways == [state : {"running", "stopping", "stopped", "down"}, connected : BOOLEAN,
             supported : BOOLEAN, call : Calls \cup {None}, copied : BOOLEAN]
Operations == {Retrying} \cup {Copying(c) : c \in Calls} \cup {Announcing(c) : c \in Calls}
                         \cup {Finishing(c, ok) : c \in Calls, ok \in BOOLEAN}
FinishSteps == {"render", "seal", "sums"}
CopySteps == {"read", "begin", "stream", "commit", "wait"}
Works == [op : {"finish", "copy", "retry"}, call : Calls \cup {None}, ok : BOOLEAN,
          step : FinishSteps \cup CopySteps \cup {"next"}, todo : SUBSET Calls, older : BOOLEAN,
          sent : 0..Chunks, receipt : {"none", "stored", "failed"}]
Frames == [frame : {"begin", "stream", "commit"}, call : Calls]
Receipts == [event : {"stored", "failed"}, call : Calls]
Transfers == [call : Calls \cup {None}, got : 0..Chunks]
Phones == [call : Calls \cup {None}, seen : SUBSET Calls, rx : Transfers, published : SUBSET Calls]
Exporters == [call : Calls \cup {None},
              at : {"none", "mkdir", "copy", "compare", "unlink", "rename"}]
Deleters == [call : Calls \cup {None}, at : {"none", "recording", "exports", "audit"},
             broken : BOOLEAN]
Budget == [exports : Nat, deletes : Nat, copies : Nat, faults : Nat]

TypeDisk ==
  /\ disk \in [Calls -> Directories] /\ exported \in [Calls -> Exports]
  /\ recorder \in [Calls -> {"none", "open", "closed"}]
TypeGateway == gateway \in Gateways
TypePending == pending \subseteq Calls /\ timers \subseteq pending /\ stored \subseteq Calls
TypeChain == chain \in Seq(Operations)
TypeWork == work = Idle \/ work \in Works
TypeLink == wire \in Seq(Frames) /\ Len(wire) <= WireSize /\ receipts \in Seq(Receipts)
TypePhone == phone \in Phones
TypeDesktop == exporter \in Exporters /\ deleter \in Deleters /\ deleted \subseteq Calls
TypeBudget == budget \in Budget
Types ==
  /\ TypeDisk /\ TypeGateway /\ TypePending /\ TypeChain /\ TypeWork
  /\ TypeLink /\ TypePhone /\ TypeDesktop /\ TypeBudget

-----------------------------------------------------------------------------
(* The inductive invariant *)

\* stop() awaits no more operations than there are.
InvAwaited ==
  awaited \in Nat /\ awaited <= Len(chain) + (IF work = Idle THEN 0 ELSE 1)

\* Only a closed recorder is finished.
InvFinishing ==
  \A i \in DOMAIN chain : chain[i].op = "finish" => recorder[chain[i].call] = "closed"

\* An operation of a recording or of a copy has a call; a copy begins with nothing sent.
InvWork ==
  work # Idle =>
    /\ work.step \in FinishSteps =>
         work.call \in Calls /\ recorder[work.call] = "closed" /\ work.todo = {}
    /\ work.step \in CopySteps => work.call \in Calls
    /\ work.step \in {"read", "begin"} => work.sent = 0

\* Nothing is on disk of a call without a recorder; a complete manifest has its tracks and mix.
InvManifest ==
  \A c \in Calls :
    /\ recorder[c] = "none" => disk[c] = NoDirectory
    /\ disk[c].manifest = "complete" =>
         disk[c].dir /\ disk[c].wav /\ disk[c].remote > 0 /\ disk[c].agent > 0

\* A receipt on its way, or read by the copy that runs, is true.
InvReceipt ==
  /\ \A i \in DOMAIN receipts : receipts[i].event = "stored" => receipts[i].call \in phone.published
  /\ work # Idle /\ work.receipt = "stored" => work.call \in phone.published

\* A pending copy is covered by a timer, by the chain, by the copy that runs, or by those that
\* the running operation still has to do: not by the copy that it has just ended.
Queued(c) == \E i \in DOMAIN chain : chain[i] \in {Retrying, Copying(c)}
Covered(c) ==
  \/ c \in timers
  \/ Queued(c)
  \/ work # Idle /\ work.step \in CopySteps /\ work.call = c
  \/ work # Idle /\ c \in work.todo
InvCovered == gateway.state = "running" /\ gateway.supported => \A c \in pending : Covered(c)

\* A link that is down carries nothing, and takes no recordings.
InvLink ==
  /\ ~gateway.connected =>
       wire = <<>> /\ receipts = <<>> /\ phone.rx = NoTransfer /\ ~gateway.supported
  /\ gateway.state \in {"stopped", "down"} => ~gateway.connected

\* The frames of the wire are those of transfers: i chunks at its head continue what the phone
\* has got, those after a begin are a transfer's first, and the last ones are counted by the
\* copy that sends them.
Streams(i, j) == \A k \in i..j : wire[k].frame = "stream"
InvTransfer ==
  LET n == Len(wire) IN
  /\ \A i \in 2..n : wire[i].frame # "begin" => wire[i - 1].frame # "commit"
  /\ \A j \in 1..n : Streams(1, j) => phone.rx.got + j <= Chunks
  /\ \A i, j \in 1..n : wire[i].frame = "begin" /\ Streams(i + 1, j) => j - i <= Chunks
  /\ work # Idle /\ work.step \in {"stream", "commit"} /\ gateway.connected =>
       /\ work.step = "stream" => work.sent < Chunks
       /\ n > 0 => wire[n].frame # "commit"
       /\ Streams(1, n) => phone.rx.got + n = work.sent
       /\ \A i \in 1..n : wire[i].frame = "begin" /\ Streams(i + 1, n) => n - i = work.sent

\* What a deletion has passed is gone, and cannot come back.
InvDeleter ==
  /\ deleter.call = None <=> deleter.at = "none"
  /\ deleter.call # None => recorder[deleter.call] # "none"
  /\ deleter.at \in {"exports", "audit"} => ~disk[deleter.call].dir
  /\ deleter.at = "audit" => ~exported[deleter.call].file /\ ~exported[deleter.call].temp
  /\ \A c \in deleted : recorder[c] # "none"

InvExporter == exporter.call = None <=> exporter.at = "none"

IInv ==
  /\ Types
  /\ InvAwaited /\ InvFinishing /\ InvWork /\ InvManifest /\ InvReceipt /\ InvCovered
  /\ InvLink /\ InvTransfer /\ InvDeleter /\ InvExporter
  /\ StoredHonest /\ NoTimerLeft /\ DeletedStaysDeleted

-----------------------------------------------------------------------------
(* Records and sequences *)

\* What the assumption on the constants says of the bounds.
LEMMA Bounds ==
  /\ Chunks \in Nat /\ Chunks > 0 /\ 0 \in 0..Chunks
  /\ MaxFrames \in Nat /\ 0 \in 0..MaxFrames /\ WireSize \in Nat
  /\ None \notin Calls
  BY StoreAssumption

\* The running operation, one field at a time.
LEMMA WorkFields ==
  ASSUME NEW w \in Works
  PROVE
    /\ w # Idle /\ w.op \in {"finish", "copy", "retry"} /\ w.call \in Calls \cup {None}
    /\ w.ok \in BOOLEAN /\ w.todo \in SUBSET Calls /\ w.older \in BOOLEAN
    /\ w.sent \in 0..Chunks /\ w.receipt \in {"none", "stored", "failed"}
    /\ w.step \in FinishSteps \cup CopySteps \cup {"next"}
    /\ \A c \in Calls : [w EXCEPT !.call = c] \in Works
    /\ \A b \in BOOLEAN : [w EXCEPT !.ok = b] \in Works /\ [w EXCEPT !.older = b] \in Works
    /\ \A s \in FinishSteps \cup CopySteps \cup {"next"} : [w EXCEPT !.step = s] \in Works
    /\ \A t \in SUBSET Calls : [w EXCEPT !.todo = t] \in Works
    /\ \A n \in 0..Chunks : [w EXCEPT !.sent = n] \in Works
    /\ \A r \in {"none", "stored", "failed"} : [w EXCEPT !.receipt = r] \in Works
  BY DEF Works, Idle

\* An operation that turns to the copy of a call starts at its first step.
LEMMA CopyWork ==
  ASSUME NEW w \in Works, NEW c \in Calls
  PROVE  /\ Copy(w, c) \in Works
         /\ Copy(w, c).op = w.op /\ Copy(w, c).todo = w.todo /\ Copy(w, c).older = w.older
         /\ Copy(w, c).call = c /\ Copy(w, c).step = "read"
         /\ Copy(w, c).sent = 0 /\ Copy(w, c).receipt = "none"
<1>1. PICK a : a = [w EXCEPT !.call = c]
  OBVIOUS
<1>2. a \in Works
  BY <1>1, WorkFields
<1>3. PICK b : b = [a EXCEPT !.step = "read"]
  OBVIOUS
<1>4. b \in Works
  BY <1>2, <1>3, WorkFields DEF CopySteps
<1>5. PICK d : d = [b EXCEPT !.sent = 0]
  OBVIOUS
<1>6. d \in Works
  BY <1>4, <1>5, WorkFields, Bounds
<1>7. PICK e : e = [d EXCEPT !.receipt = "none"]
  OBVIOUS
<1>8. e \in Works
  BY <1>6, <1>7, WorkFields
<1>9. /\ e.op = w.op /\ e.todo = w.todo /\ e.older = w.older
      /\ e.call = c /\ e.step = "read" /\ e.sent = 0 /\ e.receipt = "none"
  BY <1>1, <1>3, <1>5, <1>7 DEF Works
<1>10. Copy(w, c) = e
  BY <1>1, <1>3, <1>5, <1>7 DEF Copy
<1> QED
  BY <1>8, <1>9, <1>10

\* An operation that goes on to the next pending call keeps its receipt and its call.
LEMMA NextWork ==
  ASSUME NEW w \in Works, NEW t \in SUBSET Calls
  PROVE  /\ \A v \in {[w EXCEPT !.step = "next", !.todo = t],
                      [w EXCEPT !.step = "next", !.todo = t, !.older = FALSE]} :
              v \in Works /\ v.step = "next" /\ v.todo = t /\ v.receipt = w.receipt /\ v.call = w.call
<1>1. PICK a : a = [w EXCEPT !.step = "next"]
  OBVIOUS
<1>2. a \in Works
  BY <1>1, WorkFields
<1>3. PICK b : b = [a EXCEPT !.todo = t]
  OBVIOUS
<1>4. b \in Works
  BY <1>2, <1>3, WorkFields
<1>5. PICK d : d = [b EXCEPT !.older = FALSE]
  OBVIOUS
<1>6. d \in Works
  BY <1>4, <1>5, WorkFields
<1>7. /\ b.step = "next" /\ b.todo = t /\ b.receipt = w.receipt /\ b.call = w.call
      /\ d.step = "next" /\ d.todo = t /\ d.receipt = w.receipt /\ d.call = w.call
  BY <1>1, <1>3, <1>5 DEF Works
<1>8. /\ [w EXCEPT !.step = "next", !.todo = t] = b
      /\ [w EXCEPT !.step = "next", !.todo = t, !.older = FALSE] = d
  BY <1>1, <1>3, <1>5
<1> QED
  BY <1>4, <1>6, <1>7, <1>8

\* A chunk that is sent is counted.
LEMMA SendingWork ==
  ASSUME NEW w \in Works, w.sent < Chunks, NEW s \in CopySteps
  PROVE  LET v == [w EXCEPT !.sent = @ + 1, !.step = s] IN
         /\ v \in Works /\ v.op = w.op /\ v.call = w.call /\ v.todo = w.todo
         /\ v.older = w.older /\ v.receipt = w.receipt /\ v.sent = w.sent + 1 /\ v.step = s
<1>1. PICK a : a = [w EXCEPT !.sent = @ + 1]
  OBVIOUS
<1>2. a \in Works
  <2>1. w.sent \in 0..Chunks
    BY WorkFields
  <2>2. w.sent + 1 \in 0..Chunks
    BY <2>1, Bounds
  <2>3. a = [w EXCEPT !.sent = w.sent + 1]
    BY <1>1
  <2> QED
    BY <2>2, <2>3, WorkFields
<1>3. PICK b : b = [a EXCEPT !.step = s]
  OBVIOUS
<1>4. b \in Works
  BY <1>2, <1>3, WorkFields
<1>5. /\ b.op = w.op /\ b.call = w.call /\ b.todo = w.todo /\ b.older = w.older
      /\ b.receipt = w.receipt /\ b.sent = w.sent + 1 /\ b.step = s
  BY <1>1, <1>3 DEF Works
<1>6. [w EXCEPT !.sent = @ + 1, !.step = s] = b
  BY <1>1, <1>3
<1> QED
  BY <1>4, <1>5, <1>6

\* An operation that starts has sent nothing and has no receipt.
LEMMA RunningWork ==
  ASSUME NEW op \in {"finish", "copy", "retry"}, NEW c \in Calls \cup {None},
         NEW s \in FinishSteps \cup CopySteps \cup {"next"}, NEW t \in SUBSET Calls
  PROVE  /\ Running(op, c, s, t) \in Works
         /\ LET v == Running(op, c, s, t) IN
            v.op = op /\ v.call = c /\ v.step = s /\ v.todo = t /\ v.sent = 0 /\ v.receipt = "none"
<1>1. 0 \in 0..Chunks
  BY StoreAssumption
<1> QED
  BY <1>1 DEF Running, Works

\* The record of the gateway, one field at a time.
LEMMA GatewayFields ==
  ASSUME NEW g \in Gateways
  PROVE
    /\ \A c \in Calls \cup {None} : [g EXCEPT !.call = c] \in Gateways
    /\ \A s \in {"running", "stopping", "stopped", "down"} : [g EXCEPT !.state = s] \in Gateways
    /\ \A b \in BOOLEAN : [g EXCEPT !.copied = b] \in Gateways
    /\ \A b \in BOOLEAN : [g EXCEPT !.supported = b] \in Gateways
    /\ \A b \in BOOLEAN : [g EXCEPT !.connected = b] \in Gateways
  BY DEF Gateways

\* Capabilities changes what the phone supports, and nothing else of the link.
LEMMA SupportedGateway ==
  ASSUME NEW g \in Gateways
  PROVE  LET h == [g EXCEPT !.supported = TRUE, !.copied = FALSE] IN
         h \in Gateways /\ h.state = g.state /\ h.connected = g.connected /\ h.supported = TRUE
<1>1. PICK a : a = [g EXCEPT !.supported = TRUE]
  OBVIOUS
<1>2. PICK b : b = [a EXCEPT !.copied = FALSE]
  OBVIOUS
<1>3. [g EXCEPT !.supported = TRUE, !.copied = FALSE] = b
  BY <1>1, <1>2
<1>4. a \in Gateways
  BY <1>1, GatewayFields
<1>5. b \in Gateways
  BY <1>2, <1>4, GatewayFields
<1>6. b.state = g.state /\ b.connected = g.connected /\ b.supported = TRUE
  BY <1>1, <1>2 DEF Gateways
<1> QED
  BY <1>3, <1>5, <1>6

\* A gateway without its link takes no recordings.
LEMMA LostGateway ==
  ASSUME NEW g \in Gateways, NEW s \in {"running", "stopping", "stopped", "down"}, NEW h,
         h = [g EXCEPT !.state = s, !.connected = FALSE, !.supported = FALSE,
                       !.call = None, !.copied = FALSE]
  PROVE  h \in Gateways /\ h.state = s /\ h.connected = FALSE /\ h.supported = FALSE
<1>1. PICK a : a = [g EXCEPT !.state = s]
  OBVIOUS
<1>2. PICK b : b = [a EXCEPT !.connected = FALSE]
  OBVIOUS
<1>3. PICK c : c = [b EXCEPT !.supported = FALSE]
  OBVIOUS
<1>4. PICK d : d = [c EXCEPT !.call = None]
  OBVIOUS
<1>5. PICK e : e = [d EXCEPT !.copied = FALSE]
  OBVIOUS
<1>6. h = e
  BY <1>1, <1>2, <1>3, <1>4, <1>5
<1>7. a \in Gateways
  BY <1>1, GatewayFields
<1>8. b \in Gateways
  BY <1>2, <1>7, GatewayFields
<1>9. c \in Gateways
  BY <1>3, <1>8, GatewayFields
<1>10. d \in Gateways
  BY <1>4, <1>9, GatewayFields
<1>11. e \in Gateways
  BY <1>5, <1>10, GatewayFields
<1>12. e.state = s /\ e.connected = FALSE /\ e.supported = FALSE
  BY <1>1, <1>2, <1>3, <1>4, <1>5 DEF Gateways
<1> QED
  BY <1>6, <1>11, <1>12

\* Nor does one whose process has ended.
LEMMA DownGateway ==
  LET h == [NewGateway EXCEPT !.state = "down", !.connected = FALSE] IN
  h \in Gateways /\ h.state = "down" /\ h.connected = FALSE /\ h.supported = FALSE
<1>1. NewGateway \in Gateways /\ NewGateway.supported = FALSE
  BY DEF NewGateway, Gateways
<1>2. PICK a : a = [NewGateway EXCEPT !.state = "down"]
  OBVIOUS
<1>3. PICK b : b = [a EXCEPT !.connected = FALSE]
  OBVIOUS
<1>4. [NewGateway EXCEPT !.state = "down", !.connected = FALSE] = b
  BY <1>2, <1>3
<1>5. a \in Gateways
  BY <1>1, <1>2, GatewayFields
<1>6. b \in Gateways
  BY <1>3, <1>5, GatewayFields
<1>7. b.state = "down" /\ b.connected = FALSE /\ b.supported = FALSE
  BY <1>1, <1>2, <1>3 DEF Gateways
<1> QED
  BY <1>4, <1>6, <1>7

\* The record of the phone, one field at a time.
LEMMA PhoneFields ==
  ASSUME NEW p \in Phones
  PROVE
    /\ p.rx \in Transfers /\ p.rx.got \in 0..Chunks /\ NoTransfer \in Transfers /\ NoTransfer.got = 0
    /\ \A c \in Calls \cup {None} :
         LET q == [p EXCEPT !.call = c] IN
         q \in Phones /\ q.rx = p.rx /\ q.published = p.published
    /\ \A c \in Calls :
         LET q == [p EXCEPT !.call = c, !.seen = @ \cup {c}] IN
         q \in Phones /\ q.rx = p.rx /\ q.published = p.published
    /\ \A r \in Transfers :
         LET q == [p EXCEPT !.rx = r] IN
         q \in Phones /\ q.rx = r /\ q.published = p.published
    /\ \A r \in Transfers, c \in Calls :
         LET q == [p EXCEPT !.rx = r, !.published = @ \cup {c}] IN
         q \in Phones /\ q.rx = r /\ q.published = p.published \cup {c}
<1>1. 0 \in 0..Chunks
  BY StoreAssumption
<1>2. \A c \in Calls \cup {None} : [p EXCEPT !.call = c] \in Phones
  BY DEF Phones
<1>3. \A r \in Transfers : [p EXCEPT !.rx = r] \in Phones
  BY DEF Phones
<1>4. ASSUME NEW q \in Phones, NEW c \in Calls
      PROVE  [q EXCEPT !.seen = @ \cup {c}] \in Phones
  BY DEF Phones
<1>5. ASSUME NEW q \in Phones, NEW c \in Calls
      PROVE  [q EXCEPT !.published = @ \cup {c}] \in Phones
  BY DEF Phones
<1>6. ASSUME NEW c \in Calls
      PROVE  LET q == [p EXCEPT !.call = c, !.seen = @ \cup {c}] IN
             q \in Phones /\ q.rx = p.rx /\ q.published = p.published
  <2>1. PICK a : a = [p EXCEPT !.call = c]
    OBVIOUS
  <2>2. PICK b : b = [a EXCEPT !.seen = @ \cup {c}]
    OBVIOUS
  <2>3. b = [p EXCEPT !.call = c, !.seen = @ \cup {c}]
    BY <2>1, <2>2 DEF Phones
  <2>4. b \in Phones /\ b.rx = p.rx /\ b.published = p.published
    BY <1>2, <1>4, <2>1, <2>2 DEF Phones
  <2> QED
    BY <2>3, <2>4
<1>7. ASSUME NEW r \in Transfers, NEW c \in Calls
      PROVE  LET q == [p EXCEPT !.rx = r, !.published = @ \cup {c}] IN
             q \in Phones /\ q.rx = r /\ q.published = p.published \cup {c}
  <2>1. PICK a : a = [p EXCEPT !.rx = r]
    OBVIOUS
  <2>2. PICK b : b = [a EXCEPT !.published = @ \cup {c}]
    OBVIOUS
  <2>3. b = [p EXCEPT !.rx = r, !.published = @ \cup {c}]
    BY <2>1, <2>2 DEF Phones
  <2>4. b \in Phones /\ b.rx = r /\ b.published = p.published \cup {c}
    BY <1>3, <1>5, <2>1, <2>2 DEF Phones
  <2> QED
    BY <2>3, <2>4
<1> QED
  BY <1>1, <1>2, <1>3, <1>6, <1>7 DEF Phones, Transfers, NoTransfer

\* Appending keeps every element at its place and adds one.
LEMMA AppendFacts ==
  ASSUME NEW S, NEW s \in Seq(S), NEW e \in S
  PROVE  /\ Append(s, e) \in Seq(S) /\ Len(Append(s, e)) = Len(s) + 1
         /\ DOMAIN Append(s, e) = 1..(Len(s) + 1)
         /\ \A i \in 1..Len(s) : Append(s, e)[i] = s[i]
         /\ Append(s, e)[Len(s) + 1] = e
         /\ DOMAIN s = 1..Len(s) /\ Len(s) \in Nat
  OBVIOUS
\* Taking the head moves every other element one place ahead.
LEMMA TailFacts ==
  ASSUME NEW S, NEW s \in Seq(S), s # <<>>
  PROVE  /\ Head(s) \in S /\ Head(s) = s[1] /\ Len(s) \in Nat /\ Len(s) > 0
         /\ Tail(s) \in Seq(S) /\ Len(Tail(s)) = Len(s) - 1
         /\ DOMAIN s = 1..Len(s) /\ DOMAIN Tail(s) = 1..(Len(s) - 1)
         /\ \A i \in 1..(Len(s) - 1) : Tail(s)[i] = s[i + 1]
  OBVIOUS

\* The directories of the recordings, one field at a time.
LEMMA DiskUpdates ==
  ASSUME NEW d \in [Calls -> Directories], NEW c \in Calls
  PROVE
    /\ \A b \in BOOLEAN : [d EXCEPT ![c].dir = b] \in [Calls -> Directories]
    /\ \A n \in 0..MaxFrames : [d EXCEPT ![c].remote = n] \in [Calls -> Directories]
    /\ \A n \in 0..MaxFrames : [d EXCEPT ![c].agent = n] \in [Calls -> Directories]
    /\ \A b \in BOOLEAN : [d EXCEPT ![c].wav = b] \in [Calls -> Directories]
    /\ \A m \in {"none", "complete", "incomplete"} :
         [d EXCEPT ![c].manifest = m] \in [Calls -> Directories]
    /\ \A b \in BOOLEAN : [d EXCEPT ![c].sums = b] \in [Calls -> Directories]
    /\ [d EXCEPT ![c] = NoDirectory] \in [Calls -> Directories]
<1>1. ASSUME NEW e \in Directories
      PROVE  [d EXCEPT ![c] = e] \in [Calls -> Directories]
  OBVIOUS
<1>2. /\ \A b \in BOOLEAN : [d[c] EXCEPT !.dir = b] \in Directories
      /\ \A n \in 0..MaxFrames : [d[c] EXCEPT !.remote = n] \in Directories
      /\ \A n \in 0..MaxFrames : [d[c] EXCEPT !.agent = n] \in Directories
      /\ \A b \in BOOLEAN : [d[c] EXCEPT !.wav = b] \in Directories
      /\ \A m \in {"none", "complete", "incomplete"} : [d[c] EXCEPT !.manifest = m] \in Directories
      /\ \A b \in BOOLEAN : [d[c] EXCEPT !.sums = b] \in Directories
  <2>1. d[c] \in Directories
    OBVIOUS
  <2> QED
    BY <2>1 DEF Directories
<1>3. NoDirectory \in Directories
  BY Bounds DEF NoDirectory, Directories
<1> QED
  BY <1>1, <1>2, <1>3

-----------------------------------------------------------------------------
(* What a step leaves alone *)

\* Each part of the invariant depends on the variables that it names, and on no others.
LEMMA Unchanged ==
  ASSUME IInv
  PROVE
    /\ UNCHANGED <<disk, exported, recorder>> => TypeDisk'
    /\ UNCHANGED gateway => TypeGateway'
    /\ UNCHANGED <<pending, timers, stored>> => TypePending'
    /\ UNCHANGED chain => TypeChain'
    /\ UNCHANGED work => TypeWork'
    /\ UNCHANGED <<wire, receipts>> => TypeLink'
    /\ UNCHANGED phone => TypePhone'
    /\ UNCHANGED <<exporter, deleter, deleted>> => TypeDesktop'
    /\ UNCHANGED budget => TypeBudget'
    /\ UNCHANGED <<awaited, chain, work>> => InvAwaited'
    /\ UNCHANGED <<chain, recorder>> => InvFinishing'
    /\ UNCHANGED <<work, recorder>> => InvWork'
    /\ UNCHANGED <<recorder, disk>> => InvManifest'
    /\ UNCHANGED <<receipts, phone, work>> => InvReceipt'
    /\ UNCHANGED <<gateway, pending, timers, chain, work>> => InvCovered'
    /\ UNCHANGED <<gateway, wire, receipts, phone>> => InvLink'
    /\ UNCHANGED <<wire, phone, work, gateway>> => InvTransfer'
    /\ UNCHANGED <<deleter, recorder, disk, exported, deleted>> => InvDeleter'
    /\ UNCHANGED exporter => InvExporter'
    /\ UNCHANGED <<stored, phone>> => StoredHonest'
    /\ UNCHANGED <<gateway, timers>> => NoTimerLeft'
    /\ UNCHANGED <<deleted, disk, exported>> => DeletedStaysDeleted'
<1>1. UNCHANGED <<disk, exported, recorder>> => TypeDisk'
  BY DEF IInv, Types, TypeDisk
<1>2. UNCHANGED gateway => TypeGateway'
  BY DEF IInv, Types, TypeGateway
<1>3. UNCHANGED <<pending, timers, stored>> => TypePending'
  BY DEF IInv, Types, TypePending
<1>4. UNCHANGED chain => TypeChain'
  BY DEF IInv, Types, TypeChain
<1>5. UNCHANGED work => TypeWork'
  BY DEF IInv, Types, TypeWork
<1>6. UNCHANGED <<wire, receipts>> => TypeLink'
  BY DEF IInv, Types, TypeLink
<1>7. UNCHANGED phone => TypePhone'
  BY DEF IInv, Types, TypePhone
<1>8. UNCHANGED <<exporter, deleter, deleted>> => TypeDesktop'
  BY DEF IInv, Types, TypeDesktop
<1>9. UNCHANGED budget => TypeBudget'
  BY DEF IInv, Types, TypeBudget
<1>10. UNCHANGED <<awaited, chain, work>> => InvAwaited'
  BY DEF IInv, InvAwaited
<1>11. UNCHANGED <<chain, recorder>> => InvFinishing'
  BY DEF IInv, InvFinishing
<1>12. UNCHANGED <<work, recorder>> => InvWork'
  BY DEF IInv, InvWork
<1>13. UNCHANGED <<recorder, disk>> => InvManifest'
  BY DEF IInv, InvManifest
<1>14. UNCHANGED <<receipts, phone, work>> => InvReceipt'
  BY DEF IInv, InvReceipt
<1>15. UNCHANGED <<gateway, pending, timers, chain, work>> => InvCovered'
  BY DEF IInv, InvCovered, Covered, Queued
<1>16. UNCHANGED <<gateway, wire, receipts, phone>> => InvLink'
  BY DEF IInv, InvLink
<1>17. UNCHANGED <<wire, phone, work, gateway>> => InvTransfer'
  BY DEF IInv, InvTransfer, Streams
<1>18. UNCHANGED <<deleter, recorder, disk, exported, deleted>> => InvDeleter'
  BY DEF IInv, InvDeleter
<1>19. UNCHANGED exporter => InvExporter'
  BY DEF IInv, InvExporter
<1>20. UNCHANGED <<stored, phone>> => StoredHonest'
  BY DEF IInv, StoredHonest
<1>21. UNCHANGED <<gateway, timers>> => NoTimerLeft'
  BY DEF IInv, NoTimerLeft
<1>22. UNCHANGED <<deleted, disk, exported>> => DeletedStaysDeleted'
  BY DEF IInv, DeletedStaysDeleted
<1> QED
  BY <1>1, <1>2, <1>3, <1>4, <1>5, <1>6, <1>7, <1>8, <1>9, <1>10, <1>11, <1>12, <1>13, <1>14,
     <1>15, <1>16, <1>17, <1>18, <1>19, <1>20, <1>21, <1>22

-----------------------------------------------------------------------------
(* The chain and the operation that runs *)

\* The four kinds of operation and what each carries.
LEMMA OperationKinds ==
  /\ Retrying \in Operations /\ \A c \in Calls : Copying(c) \in Operations
  /\ \A c \in Calls : Announcing(c) \in Operations /\ Announcing(c).op = "incoming"
  /\ \A c \in Calls, ok \in BOOLEAN :
       LET op == Finishing(c, ok) IN op \in Operations /\ op.op = "finish" /\ op.call = c
  /\ Retrying.op = "retry" /\ \A c : Copying(c).op = "copy" /\ Copying(c).call = c
  /\ \A op \in Operations :
       /\ op.op \in {"finish", "copy", "retry", "incoming"}
       /\ op.op = "finish" => op.call \in Calls /\ op.ok \in BOOLEAN
       /\ op.op = "copy" => op.call \in Calls /\ op = Copying(op.call)
       /\ op.op = "retry" => op = Retrying
       /\ op.op = "incoming" => op.call \in Calls
<1>1. \A op \in Operations :
        \/ op = Retrying
        \/ \E c \in Calls : op = Copying(c)
        \/ \E c \in Calls : op = Announcing(c)
        \/ \E c \in Calls, ok \in BOOLEAN : op = Finishing(c, ok)
  BY DEF Operations
<1>2. /\ Retrying \in Operations /\ \A c \in Calls : Copying(c) \in Operations
      /\ \A c \in Calls : Announcing(c) \in Operations
      /\ \A c \in Calls, ok \in BOOLEAN : Finishing(c, ok) \in Operations
  BY DEF Operations
<1>3. /\ Retrying.op = "retry" /\ \A c : Copying(c).op = "copy" /\ Copying(c).call = c
      /\ \A c : Announcing(c).op = "incoming" /\ Announcing(c).call = c
      /\ \A c, ok : LET op == Finishing(c, ok) IN op.op = "finish" /\ op.call = c /\ op.ok = ok
  BY DEF Retrying, Copying, Announcing, Finishing
<1>4. ASSUME NEW op \in Operations
      PROVE  /\ op.op \in {"finish", "copy", "retry", "incoming"}
             /\ op.op = "finish" => op.call \in Calls /\ op.ok \in BOOLEAN
             /\ op.op = "copy" => op.call \in Calls /\ op = Copying(op.call)
             /\ op.op = "retry" => op = Retrying
             /\ op.op = "incoming" => op.call \in Calls
  BY <1>1, <1>3
<1> QED
  BY <1>2, <1>3, <1>4

\* Queueing an operation keeps what is said of the chain.
LEMMA ChainGrows ==
  ASSUME IInv, NEW op \in Operations, chain' = Append(chain, op)
  PROVE  /\ TypeChain'
         /\ UNCHANGED <<work, awaited>> => InvAwaited'
         /\ /\ \A c \in Calls : recorder[c] = "closed" => recorder'[c] = "closed"
            /\ op.op = "finish" => recorder'[op.call] = "closed"
            => InvFinishing'
         /\ \A c : Queued(c) => Queued(c)'
         /\ \A c : op \in {Retrying, Copying(c)} => Queued(c)'
<1>1. chain \in Seq(Operations)
  BY DEF IInv, Types, TypeChain
<1>2. /\ chain' \in Seq(Operations) /\ Len(chain') = Len(chain) + 1
      /\ DOMAIN chain' = 1..(Len(chain) + 1)
      /\ \A i \in 1..Len(chain) : chain'[i] = chain[i]
      /\ chain'[Len(chain) + 1] = op
      /\ DOMAIN chain = 1..Len(chain) /\ Len(chain) \in Nat
  BY <1>1, AppendFacts
<1>3. UNCHANGED <<work, awaited>> => InvAwaited'
  BY <1>2 DEF IInv, InvAwaited
<1>4. ASSUME \A c \in Calls : recorder[c] = "closed" => recorder'[c] = "closed",
             op.op = "finish" => recorder'[op.call] = "closed"
      PROVE  InvFinishing'
  BY <1>1, <1>2, <1>4, OperationKinds DEF IInv, InvFinishing
<1>5. \A c : Queued(c) => Queued(c)'
  BY <1>2 DEF Queued
<1>6. \A c : op \in {Retrying, Copying(c)} => Queued(c)'
  <2>1. Len(chain) + 1 \in DOMAIN chain'
    BY <1>2
  <2> QED
    BY <1>2, <2>1 DEF Queued
<1> QED
  BY <1>2, <1>3, <1>4, <1>5, <1>6 DEF TypeChain

\* The end of an operation is one that stop() no longer awaits.
LEMMA Awaiting ==
  ASSUME IInv, work # Idle, UNCHANGED chain,
         EndOperation \/ (UNCHANGED awaited /\ work' # Idle)
  PROVE  InvAwaited'
<1>1. Len(chain) \in Nat
  BY AppendFacts DEF IInv, Types, TypeChain
<1> QED
  BY <1>1 DEF IInv, InvAwaited, EndOperation

\* A step that neither adds pending copies nor takes what covers them leaves them covered.
LEMMA StillCovered ==
  ASSUME IInv, UNCHANGED work, pending' \subseteq pending, timers \subseteq timers',
         \A c : Queued(c) => Queued(c)',
         gateway'.state = "running" /\ gateway'.supported =>
           gateway.state = "running" /\ gateway.supported
  PROVE  InvCovered'
  BY DEF IInv, InvCovered, Covered

\* A step that adds no receipt leaves those that are there true.
LEMMA StillReceived ==
  ASSUME IInv, receipts' = receipts, phone.published \subseteq phone'.published,
         \/ work' = Idle
         \/ work'.receipt # "stored"
         \/ work # Idle /\ work'.receipt = work.receipt /\ work'.call = work.call
  PROVE  InvReceipt'
  BY DEF IInv, InvReceipt

\* A step that moves no frame leaves the transfer as it is.
LEMMA SameTransfer ==
  ASSUME IInv, UNCHANGED wire, phone'.rx = phone.rx, gateway'.connected => gateway.connected,
         \/ work' = Idle
         \/ work'.step \notin {"stream", "commit"}
         \/ work # Idle /\ work'.step = work.step /\ work'.sent = work.sent
  PROVE  InvTransfer'
  BY DEF IInv, InvTransfer, Streams

\* A budget that is spent had something left.
LEMMA BudgetSpent ==
  ASSUME IInv, NEW f \in {"exports", "deletes", "copies", "faults"}, Available(f), Spend(f)
  PROVE  TypeBudget'
<1>1. budget[f] \in Nat /\ budget[f] > 0
  BY DEF IInv, Types, TypeBudget, Budget, Available
<1>2. budget[f] - 1 \in Nat
  BY <1>1
<1>3. budget' = [budget EXCEPT ![f] = budget[f] - 1]
  BY DEF Spend
<1> QED
  BY <1>2, <1>3 DEF IInv, Types, TypeBudget, Budget

\* So had the budget of the failures.
LEMMA FailureSpent ==
  ASSUME IInv, MayFail \/ UNCHANGED budget
  PROVE  TypeBudget'
  BY BudgetSpent DEF MayFail, IInv, Types, TypeBudget

\* A running operation that only goes on to another step.
LEMMA Moved ==
  ASSUME IInv, work # Idle, NEW s \in FinishSteps \cup CopySteps \cup {"next"},
         work' = [work EXCEPT !.step = s]
  PROVE  /\ work \in Works /\ work' \in Works /\ work' # Idle /\ work'.step = s
         /\ UNCHANGED <<work.call, work.todo, work.sent, work.receipt, work.op>>
<1>1. work \in Works
  BY DEF IInv, Types, TypeWork
<1>2. work' \in Works
  BY <1>1, WorkFields
<1>3. work'.step = s /\ UNCHANGED <<work.call, work.todo, work.sent, work.receipt, work.op>>
  BY <1>1 DEF Works
<1> QED
  BY <1>1, <1>2, <1>3, WorkFields

-----------------------------------------------------------------------------
(* Calls and their recordings *)

\* PhoneCall keeps the invariant.
LEMMA PhoneCallInv ==
  ASSUME IInv, NEW c \in Calls, PhoneCall(c)
  PROVE  IInv'
<1>1. /\ TypeDisk' /\ TypePending' /\ TypeWork' /\ TypeLink' /\ TypeDesktop' /\ TypeBudget'
      /\ InvWork' /\ InvManifest' /\ InvDeleter' /\ InvExporter' /\ DeletedStaysDeleted'
  BY Unchanged DEF PhoneCall, storeVars, desktopVars
<1>2. /\ phone' \in Phones /\ phone'.rx = phone.rx /\ phone'.published = phone.published
      /\ UNCHANGED <<pending, timers, work, awaited, wire, receipts, recorder, stored>>
  BY PhoneFields DEF PhoneCall, storeVars, IInv, Types, TypePhone
<1>3. gateway' \in Gateways /\ UNCHANGED <<gateway.state, gateway.connected, gateway.supported>>
  <2>1. gateway \in Gateways
    BY DEF IInv, Types, TypeGateway
  <2>2. [gateway EXCEPT !.call = c] \in Gateways
    BY <2>1, GatewayFields
  <2> QED
    BY <2>1, <2>2 DEF PhoneCall, Gateways
<1>4. UNCHANGED chain \/ (chain' = Append(chain, Announcing(c)) /\ UNCHANGED gateway)
  BY DEF PhoneCall, Queue
<1>5. TypeChain' /\ InvAwaited' /\ InvFinishing' /\ \A k : Queued(k) => Queued(k)'
  <2>1. CASE UNCHANGED chain
    BY <1>2, <2>1, Unchanged DEF Queued
  <2>2. CASE chain' = Append(chain, Announcing(c))
    BY <1>2, <2>2, ChainGrows, OperationKinds
  <2> QED
    BY <1>4, <2>1, <2>2
<1>6. TypeGateway'
  BY <1>3 DEF IInv, Types, TypeGateway
<1>7. TypePhone'
  BY <1>2 DEF IInv, Types, TypePhone
<1>8. TypeChain'
  BY <1>5
<1>9. InvAwaited'
  BY <1>5
<1>10. InvFinishing'
  BY <1>5
<1>11. InvReceipt'
  BY <1>2 DEF IInv, InvReceipt
<1>12. InvCovered'
  BY <1>2, <1>3, <1>5, StillCovered
<1>13. InvLink'
  BY <1>2, <1>3 DEF IInv, InvLink
<1>14. InvTransfer'
  BY <1>2, <1>3, SameTransfer
<1>15. StoredHonest'
  BY <1>2 DEF IInv, StoredHonest
<1>16. NoTimerLeft'
  BY <1>2, <1>3 DEF IInv, NoTimerLeft
<1> QED
  BY <1>1, <1>6, <1>7, <1>8, <1>9, <1>10,
     <1>11, <1>12, <1>13, <1>14, <1>15,
     <1>16 DEF IInv, Types

\* StartRecording keeps the invariant.
LEMMA StartRecordingInv ==
  ASSUME IInv, NEW c \in Calls, StartRecording(c)
  PROVE  IInv'
<1>1. /\ TypeGateway' /\ TypePending' /\ TypeChain' /\ TypeWork' /\ TypeLink' /\ TypePhone'
      /\ TypeDesktop' /\ TypeBudget' /\ InvAwaited' /\ InvReceipt' /\ InvCovered' /\ InvLink'
      /\ InvTransfer' /\ InvExporter' /\ StoredHonest' /\ NoTimerLeft'
  BY Unchanged DEF StartRecording, copyVars, linkVars, desktopVars
<1>2. /\ recorder[c] = "none" /\ recorder' = [recorder EXCEPT ![c] = "open"]
      /\ disk' = [disk EXCEPT ![c].dir = TRUE]
      /\ UNCHANGED <<exported, chain, work, deleter, deleted>>
  BY DEF StartRecording, Startable, copyVars, desktopVars
<1>3. disk \in [Calls -> Directories] /\ disk' \in [Calls -> Directories]
  BY <1>2, DiskUpdates DEF IInv, Types, TypeDisk
<1>4. /\ disk[c] = NoDirectory
      /\ disk'[c].manifest = "none" /\ \A k \in Calls \ {c} : disk'[k] = disk[k]
  BY <1>2, <1>3 DEF IInv, InvManifest, NoDirectory
<1>5. /\ recorder' \in [Calls -> {"none", "open", "closed"}]
      /\ recorder'[c] = "open" /\ \A k \in Calls \ {c} : recorder'[k] = recorder[k]
  BY <1>2 DEF IInv, Types, TypeDisk
<1>6. TypeDisk'
  BY <1>2, <1>3, <1>5 DEF IInv, Types, TypeDisk
<1>7. InvFinishing'
  BY <1>2, <1>5, OperationKinds DEF IInv, Types, InvFinishing, TypeChain
<1>8. InvWork'
  BY <1>2, <1>5 DEF IInv, InvWork
<1>9. InvManifest'
  BY <1>4, <1>5 DEF IInv, InvManifest
<1>10. InvDeleter'
  BY <1>2, <1>4, <1>5, Bounds DEF IInv, Types, InvDeleter, TypeDesktop, Deleters
<1>11. DeletedStaysDeleted'
  BY <1>2, <1>4 DEF IInv, Types, DeletedStaysDeleted, InvDeleter, TypeDesktop
<1> QED
  BY <1>1, <1>6, <1>7, <1>8, <1>9, <1>10,
     <1>11 DEF IInv, Types

\* StartFails keeps the invariant.
LEMMA StartFailsInv ==
  ASSUME IInv, NEW c \in Calls, StartFails(c)
  PROVE  IInv'
<1>1. /\ TypeGateway' /\ TypePending' /\ TypeChain' /\ TypeWork' /\ TypeLink' /\ TypePhone'
      /\ TypeDesktop' /\ InvAwaited' /\ InvReceipt' /\ InvCovered' /\ InvLink'
      /\ InvTransfer' /\ InvExporter' /\ StoredHonest' /\ NoTimerLeft'
  BY Unchanged DEF StartFails, copyVars, linkVars, desktopVars
<1>2. /\ recorder[c] = "none" /\ recorder' = [recorder EXCEPT ![c] = "closed"]
      /\ \E made \in BOOLEAN : disk' = [disk EXCEPT ![c].dir = made]
      /\ UNCHANGED <<exported, chain, work, deleter, deleted>>
  BY DEF StartFails, Startable, copyVars, desktopVars
<1>3. disk \in [Calls -> Directories] /\ disk' \in [Calls -> Directories]
  <2>1. disk \in [Calls -> Directories]
    BY DEF IInv, Types, TypeDisk
  <2>2. PICK made \in BOOLEAN : disk' = [disk EXCEPT ![c].dir = made]
    BY <1>2
  <2> QED
    BY <2>1, <2>2, DiskUpdates
<1>4. /\ disk[c] = NoDirectory
      /\ disk'[c].manifest = "none" /\ \A k \in Calls \ {c} : disk'[k] = disk[k]
  BY <1>2, <1>3 DEF IInv, InvManifest, NoDirectory
<1>5. /\ recorder' \in [Calls -> {"none", "open", "closed"}]
      /\ recorder'[c] = "closed" /\ \A k \in Calls \ {c} : recorder'[k] = recorder[k]
  BY <1>2 DEF IInv, Types, TypeDisk
<1>6. TypeDisk'
  BY <1>2, <1>3, <1>5 DEF IInv, Types, TypeDisk
<1>7. TypeBudget'
  BY FailureSpent DEF IInv, Types, TypeBudget, StartFails
<1>8. InvFinishing'
  BY <1>2, <1>5, OperationKinds DEF IInv, Types, InvFinishing, TypeChain
<1>9. InvWork'
  BY <1>2, <1>5 DEF IInv, InvWork
<1>10. InvManifest'
  BY <1>4, <1>5 DEF IInv, InvManifest
<1>11. InvDeleter'
  BY <1>2, <1>4, <1>5, Bounds DEF IInv, Types, InvDeleter, TypeDesktop, Deleters
<1>12. DeletedStaysDeleted'
  BY <1>2, <1>4 DEF IInv, Types, DeletedStaysDeleted, InvDeleter, TypeDesktop
<1> QED
  BY <1>1, <1>6, <1>7, <1>8, <1>9, <1>10,
     <1>11, <1>12 DEF IInv, Types

\* WriteRemote keeps the invariant.
LEMMA WriteRemoteInv ==
  ASSUME IInv, NEW c \in Calls, WriteRemote(c)
  PROVE  IInv'
<1>1. /\ TypeGateway' /\ TypePending' /\ TypeChain' /\ TypeWork' /\ TypeLink' /\ TypePhone'
      /\ TypeDesktop' /\ TypeBudget' /\ InvAwaited' /\ InvFinishing' /\ InvWork'
      /\ InvReceipt' /\ InvCovered' /\ InvLink' /\ InvTransfer' /\ InvExporter'
      /\ StoredHonest' /\ NoTimerLeft'
  BY Unchanged DEF WriteRemote, copyVars, linkVars, desktopVars
<1>2. /\ recorder[c] # "none"
      /\ disk' = [disk EXCEPT ![c].remote = disk[c].remote + 1]
      /\ UNCHANGED <<exported, recorder, deleter, deleted>>
  BY DEF WriteRemote, desktopVars
<1>3. disk \in [Calls -> Directories] /\ disk' \in [Calls -> Directories]
  <2>1. disk \in [Calls -> Directories] /\ disk[c].remote \in 0..MaxFrames
    BY DEF IInv, Types, TypeDisk, Directories
  <2>2. disk[c].remote + 1 \in 0..MaxFrames
    BY <2>1, Bounds DEF WriteRemote
  <2> QED
    BY <1>2, <2>1, <2>2, DiskUpdates
<1>4. /\ UNCHANGED <<disk[c].dir, disk[c].wav, disk[c].agent, disk[c].manifest>>
      /\ disk'[c].remote > 0 /\ \A k \in Calls \ {c} : disk'[k] = disk[k]
  BY <1>2, <1>3 DEF Directories
<1>5. TypeDisk'
  BY <1>2, <1>3 DEF IInv, Types, TypeDisk
<1>6. InvManifest'
  BY <1>2, <1>4 DEF IInv, InvManifest
<1>7. InvDeleter'
  BY <1>2, <1>4, Bounds DEF IInv, Types, InvDeleter, TypeDesktop, Deleters
<1>8. DeletedStaysDeleted'
  BY <1>2, <1>4 DEF IInv, DeletedStaysDeleted
<1> QED
  BY <1>1, <1>5, <1>6, <1>7, <1>8 DEF IInv, Types

\* WriteAgent keeps the invariant.
LEMMA WriteAgentInv ==
  ASSUME IInv, NEW c \in Calls, WriteAgent(c)
  PROVE  IInv'
<1>1. /\ TypeGateway' /\ TypePending' /\ TypeChain' /\ TypeWork' /\ TypeLink' /\ TypePhone'
      /\ TypeDesktop' /\ TypeBudget' /\ InvAwaited' /\ InvFinishing' /\ InvWork'
      /\ InvReceipt' /\ InvCovered' /\ InvLink' /\ InvTransfer' /\ InvExporter'
      /\ StoredHonest' /\ NoTimerLeft'
  BY Unchanged DEF WriteAgent, copyVars, linkVars, desktopVars
<1>2. /\ recorder[c] # "none"
      /\ disk' = [disk EXCEPT ![c].agent = Padded(disk[c]) + 1]
      /\ UNCHANGED <<exported, recorder, deleter, deleted>>
  BY DEF WriteAgent, desktopVars
<1>3. disk \in [Calls -> Directories] /\ Padded(disk[c]) \in Nat
  <2>1. disk[c] \in Directories /\ disk \in [Calls -> Directories]
    BY DEF IInv, Types, TypeDisk
  <2>2. disk[c].remote \in Nat /\ disk[c].agent \in Nat
    BY <2>1, Bounds DEF Directories
  <2> QED
    BY <2>1, <2>2 DEF Padded, MaxOf
<1>4. disk' \in [Calls -> Directories]
  <2>1. Padded(disk[c]) + 1 \in 0..MaxFrames
    BY <1>3, Bounds DEF WriteAgent
  <2> QED
    BY <1>2, <1>3, <2>1, DiskUpdates
<1>5. /\ UNCHANGED <<disk[c].dir, disk[c].wav, disk[c].remote, disk[c].manifest>>
      /\ disk'[c].agent > 0 /\ \A k \in Calls \ {c} : disk'[k] = disk[k]
  BY <1>2, <1>3, <1>4 DEF Directories
<1>6. TypeDisk'
  BY <1>2, <1>4, <1>3 DEF IInv, Types, TypeDisk
<1>7. InvManifest'
  BY <1>2, <1>5 DEF IInv, InvManifest
<1>8. InvDeleter'
  BY <1>2, <1>5, Bounds DEF IInv, Types, InvDeleter, TypeDesktop, Deleters
<1>9. DeletedStaysDeleted'
  BY <1>2, <1>5 DEF IInv, DeletedStaysDeleted
<1> QED
  BY <1>1, <1>6, <1>7, <1>8, <1>9 DEF IInv, Types

\* CallEnds keeps the invariant.
LEMMA CallEndsInv ==
  ASSUME IInv, NEW c \in Calls, CallEnds(c)
  PROVE  IInv'
<1>1. /\ TypePending' /\ TypeWork' /\ TypeLink' /\ TypeDesktop' /\ InvExporter'
      /\ DeletedStaysDeleted'
  BY Unchanged DEF CallEnds, desktopVars
<1>2. /\ phone' \in Phones /\ phone'.rx = phone.rx /\ phone'.published = phone.published
      /\ UNCHANGED <<disk, exported, pending, timers, work, awaited, wire, receipts, deleter, deleted,
                     stored>>
  BY PhoneFields DEF CallEnds, desktopVars, IInv, Types, TypePhone
<1>3. gateway' \in Gateways /\ UNCHANGED <<gateway.state, gateway.connected, gateway.supported>>
  <2>1. gateway \in Gateways /\ gateway.call \in Calls \cup {None}
    BY DEF IInv, Types, TypeGateway, Gateways
  <2>2. \A k \in Calls \cup {None} : [gateway EXCEPT !.call = k] \in Gateways
    BY <2>1, GatewayFields
  <2>3. \/ UNCHANGED gateway
        \/ \E k \in Calls \cup {None} : gateway' = [gateway EXCEPT !.call = k]
    BY <2>1 DEF CallEnds
  <2> QED
    BY <2>1, <2>2, <2>3 DEF Gateways
<1>4. \/ UNCHANGED <<recorder, chain, budget>>
      \/ /\ recorder[c] = "open" /\ recorder' = [recorder EXCEPT ![c] = "closed"]
         /\ \E ok \in BOOLEAN : chain' = Append(chain, Finishing(c, ok))
         /\ UNCHANGED budget \/ MayFail
  BY DEF CallEnds, Queue
<1>5. /\ recorder' \in [Calls -> {"none", "open", "closed"}]
      /\ \A k \in Calls : /\ recorder[k] = "closed" => recorder'[k] = "closed"
                          /\ recorder[k] = "none" <=> recorder'[k] = "none"
  BY <1>4 DEF IInv, Types, TypeDisk
<1>6. TypeChain' /\ InvAwaited' /\ InvFinishing' /\ \A k : Queued(k) => Queued(k)'
  <2>1. CASE UNCHANGED <<recorder, chain, budget>>
    BY <1>2, <2>1, Unchanged DEF Queued
  <2>2. ASSUME NEW ok \in BOOLEAN, chain' = Append(chain, Finishing(c, ok)),
               recorder' = [recorder EXCEPT ![c] = "closed"]
        PROVE  TypeChain' /\ InvAwaited' /\ InvFinishing' /\ \A k : Queued(k) => Queued(k)'
    <3>1. Finishing(c, ok) \in Operations /\ Finishing(c, ok).call = c
      BY OperationKinds
    <3>2. recorder'[c] = "closed"
      BY <2>2 DEF IInv, Types, TypeDisk
    <3> QED
      BY <1>2, <1>5, <2>2, <3>1, <3>2, ChainGrows
  <2> QED
    BY <1>4, <2>1, <2>2
<1>7. TypeDisk'
  BY <1>2, <1>5 DEF IInv, Types, TypeDisk
<1>8. TypeGateway'
  BY <1>3 DEF IInv, Types, TypeGateway
<1>9. TypePhone'
  BY <1>2 DEF IInv, Types, TypePhone
<1>10. TypeBudget'
  BY <1>4, FailureSpent
<1>11. TypeChain'
  BY <1>6
<1>12. InvAwaited'
  BY <1>6
<1>13. InvFinishing'
  BY <1>6
<1>14. InvWork'
  BY <1>2, <1>5 DEF IInv, InvWork
<1>15. InvManifest'
  BY <1>2, <1>5 DEF IInv, InvManifest
<1>16. InvReceipt'
  BY <1>2 DEF IInv, InvReceipt
<1>17. InvCovered'
  BY <1>2, <1>3, <1>6, StillCovered
<1>18. InvLink'
  BY <1>2, <1>3 DEF IInv, InvLink
<1>19. InvTransfer'
  BY <1>2, <1>3, SameTransfer
<1>20. InvDeleter'
  BY <1>2, <1>5, Bounds DEF IInv, Types, InvDeleter, TypeDesktop, Deleters
<1>21. StoredHonest'
  BY <1>2 DEF IInv, StoredHonest
<1>22. NoTimerLeft'
  BY <1>2, <1>3 DEF IInv, NoTimerLeft
<1> QED
  BY <1>1, <1>7, <1>8, <1>9, <1>10, <1>11,
     <1>12, <1>13, <1>14, <1>15, <1>16,
     <1>17, <1>18, <1>19, <1>20, <1>21,
     <1>22 DEF IInv, Types

-----------------------------------------------------------------------------
(* The link and the process *)

\* A link that goes closes the open recorder and starts none.
LEMMA RecordersClosed ==
  ASSUME IInv, recorder' = [c \in Calls |-> IF recorder[c] = "open" THEN "closed" ELSE recorder[c]]
  PROVE  /\ recorder' \in [Calls -> {"none", "open", "closed"}]
         /\ \A k \in Calls : /\ recorder[k] # "none" => recorder'[k] = "closed"
                             /\ recorder[k] = "none" <=> recorder'[k] = "none"
  BY DEF IInv, Types, TypeDisk

\* What is left of the gateway's record when its link goes.
LEMMA LinkGone ==
  ASSUME IInv, NEW s \in {"running", "stopping", "stopped", "down"}, LinkGoes(s)
  PROVE  /\ gateway' \in Gateways /\ gateway'.state = s
         /\ gateway'.connected = FALSE /\ gateway'.supported = FALSE
<1>1. gateway \in Gateways
  BY DEF IInv, Types, TypeGateway
<1>2. gateway' = [gateway EXCEPT !.state = s, !.connected = FALSE, !.supported = FALSE,
                                 !.call = None, !.copied = FALSE]
  BY DEF LinkGoes
<1> QED
  BY <1>1, <1>2, LostGateway, ZenonT(60)

\* A link that goes, lost or closed, keeps the invariant.
LEMMA LinkGoesInv ==
  ASSUME IInv, NEW s \in {"running", "stopping", "stopped", "down"}, LinkGoes(s),
         phone' = [phone EXCEPT !.rx = NoTransfer],
         \/ s = gateway.state /\ timers' = timers
         \/ s = "stopped" /\ timers' = {},
         UNCHANGED <<disk, exported, pending, work, awaited, desktopVars, stored>>, TypeBudget'
  PROVE  IInv'
<1>1. /\ TypeWork' /\ TypeDesktop' /\ InvExporter' /\ DeletedStaysDeleted'
  BY Unchanged DEF desktopVars
<1>2. /\ phone' \in Phones /\ phone'.rx = NoTransfer /\ phone'.published = phone.published
      /\ UNCHANGED <<disk, exported, pending, work, awaited, deleter, deleted, stored>>
  BY PhoneFields DEF desktopVars, IInv, Types, TypePhone
<1>3. /\ gateway' \in Gateways /\ gateway'.state = s
      /\ gateway'.connected = FALSE /\ gateway'.supported = FALSE
  BY LinkGone
<1>4. wire' = <<>> /\ receipts' = <<>>
  BY DEF LinkGoes
<1>5. timers' \subseteq timers /\ (s = "stopped" /\ s # gateway.state => timers' = {})
  OBVIOUS
<1>6. /\ recorder' \in [Calls -> {"none", "open", "closed"}]
      /\ \A k \in Calls : /\ recorder[k] # "none" => recorder'[k] = "closed"
                          /\ recorder[k] = "none" <=> recorder'[k] = "none"
  BY RecordersClosed DEF LinkGoes
<1>7. TypeChain' /\ InvAwaited' /\ InvFinishing'
  <2>1. CASE \A c \in Calls : recorder[c] # "open"
    <3>1. UNCHANGED chain
      BY <2>1 DEF LinkGoes
    <3>2. InvFinishing'
      BY <1>6, <3>1, OperationKinds DEF IInv, Types, TypeChain, InvFinishing
    <3> QED
      BY <1>2, <3>1, <3>2, Unchanged
  <2>2. CASE \E c \in Calls : recorder[c] = "open"
    <3>1. PICK c \in Calls : recorder[c] = "open" /\ chain' = Append(chain, Finishing(c, FALSE))
      BY <2>2 DEF LinkGoes
    <3>2. Finishing(c, FALSE) \in Operations /\ Finishing(c, FALSE).call = c
      BY OperationKinds
    <3> QED
      BY <1>2, <1>6, <3>1, <3>2, ChainGrows
  <2> QED
    BY <2>1, <2>2
<1>8. TypeDisk'
  BY <1>2, <1>6 DEF IInv, Types, TypeDisk
<1>9. TypeGateway'
  BY <1>3 DEF IInv, Types, TypeGateway
<1>10. TypePending'
  BY <1>2, <1>5 DEF IInv, Types, TypePending
<1>11. TypePhone'
  BY <1>2 DEF IInv, Types, TypePhone
<1>12. TypeLink'
  BY <1>4, Bounds DEF IInv, Types, TypeLink
<1>13. TypeBudget'
  OBVIOUS
<1>14. TypeChain'
  BY <1>7
<1>15. InvAwaited'
  BY <1>7
<1>16. InvFinishing'
  BY <1>7
<1>17. InvWork'
  BY <1>2, <1>6 DEF IInv, InvWork
<1>18. InvManifest'
  BY <1>2, <1>6 DEF IInv, InvManifest
<1>19. InvReceipt'
  BY <1>2, <1>4 DEF IInv, InvReceipt
<1>20. InvCovered'
  BY <1>3 DEF IInv, InvCovered
<1>21. InvLink'
  BY <1>2, <1>3, <1>4 DEF IInv, InvLink
<1>22. InvTransfer'
  BY <1>2, <1>3, <1>4, Bounds DEF IInv, InvTransfer, Streams, NoTransfer
<1>23. InvDeleter'
  BY <1>2, <1>6, Bounds DEF IInv, Types, InvDeleter, TypeDesktop, Deleters
<1>24. StoredHonest'
  BY <1>2 DEF IInv, StoredHonest
<1>25. NoTimerLeft'
  BY <1>2, <1>3, <1>5 DEF IInv, NoTimerLeft
<1> QED
  BY <1>1, <1>8, <1>9, <1>10, <1>11, <1>12,
     <1>13, <1>14, <1>15, <1>16, <1>17,
     <1>18, <1>19, <1>20, <1>21, <1>22,
     <1>23, <1>24, <1>25 DEF IInv, Types

\* A process that ends, by a crash or by an unhandled event, keeps the invariant.
LEMMA ProcessEndsInv ==
  ASSUME IInv, ProcessEnds, TypeBudget'
  PROVE  IInv'
<1>1. /\ phone' \in Phones /\ phone'.rx = NoTransfer /\ phone'.published = phone.published
      /\ UNCHANGED <<disk, exported, deleted, stored>>
  BY PhoneFields DEF ProcessEnds, IInv, Types, TypePhone
<1>2. /\ gateway' \in Gateways /\ gateway'.state = "down"
      /\ gateway'.connected = FALSE /\ gateway'.supported = FALSE
  BY DownGateway DEF ProcessEnds
<1>3. /\ wire' = <<>> /\ receipts' = <<>> /\ chain' = <<>> /\ pending' = {} /\ timers' = {}
      /\ work' = Idle /\ awaited' = 0
      /\ exporter' = [call |-> None, at |-> "none"] /\ deleter' = NoDeletion
  BY DEF ProcessEnds
<1>4. /\ recorder' \in [Calls -> {"none", "open", "closed"}]
      /\ \A k \in Calls : /\ recorder[k] # "none" => recorder'[k] = "closed"
                          /\ recorder[k] = "none" <=> recorder'[k] = "none"
  BY RecordersClosed DEF ProcessEnds
<1>5. /\ DeletedStaysDeleted'
  BY Unchanged, <1>1, <1>3
<1>6. TypeDisk'
  BY <1>1, <1>4 DEF IInv, Types, TypeDisk
<1>7. TypeGateway'
  BY <1>2 DEF IInv, Types, TypeGateway
<1>8. TypePending'
  BY <1>1, <1>3 DEF IInv, Types, TypePending
<1>9. TypeChain'
  BY <1>3 DEF IInv, Types, TypeChain
<1>10. TypeWork'
  BY <1>3 DEF IInv, Types, TypeWork
<1>11. TypePhone'
  BY <1>1 DEF IInv, Types, TypePhone
<1>12. TypeLink'
  BY <1>3, Bounds DEF IInv, Types, TypeLink
<1>13. TypeDesktop'
  BY <1>1, <1>3 DEF IInv, Types, TypeDesktop, Exporters, Deleters, NoDeletion
<1>14. TypeBudget'
  OBVIOUS
<1>15. InvAwaited'
  BY <1>3 DEF IInv, InvAwaited
<1>16. InvFinishing'
  BY <1>3 DEF IInv, InvFinishing
<1>17. InvWork'
  BY <1>3 DEF IInv, InvWork
<1>18. InvManifest'
  BY <1>1, <1>4 DEF IInv, InvManifest
<1>19. InvReceipt'
  BY <1>1, <1>3 DEF IInv, InvReceipt
<1>20. InvCovered'
  BY <1>2 DEF IInv, InvCovered
<1>21. InvLink'
  BY <1>1, <1>2, <1>3 DEF IInv, InvLink
<1>22. InvTransfer'
  BY <1>1, <1>2, <1>3, Bounds DEF IInv, InvTransfer, Streams, NoTransfer
<1>23. InvDeleter'
  BY <1>1, <1>3, <1>4 DEF IInv, Types, InvDeleter, NoDeletion, TypeDesktop
<1>24. InvExporter'
  BY <1>3 DEF IInv, InvExporter
<1>25. StoredHonest'
  BY <1>1 DEF IInv, StoredHonest
<1>26. NoTimerLeft'
  BY <1>2 DEF IInv, NoTimerLeft
<1> QED
  BY <1>5, <1>6, <1>7, <1>8, <1>9, <1>10,
     <1>11, <1>12, <1>13, <1>14, <1>15,
     <1>16, <1>17, <1>18, <1>19, <1>20, <1>21,
     <1>22, <1>23, <1>24, <1>25, <1>26 DEF IInv, Types

\* LinkLost keeps the invariant.
LEMMA LinkLostInv ==
  ASSUME IInv, LinkLost
  PROVE  IInv'
<1>1. gateway.state \in {"running", "stopping", "stopped", "down"}
  BY DEF IInv, Types, TypeGateway, Gateways
<1>2. TypeBudget'
  BY FailureSpent DEF LinkLost
<1> QED
  BY <1>1, <1>2, LinkGoesInv DEF LinkLost

\* Crash keeps the invariant.
LEMMA CrashInv ==
  ASSUME IInv, Crash
  PROVE  IInv'
<1>1. TypeBudget'
  BY FailureSpent DEF Crash
<1> QED
  BY <1>1, ProcessEndsInv DEF Crash

\* Capabilities keeps the invariant.
LEMMA CapabilitiesInv ==
  ASSUME IInv, Capabilities
  PROVE  IInv'
<1>1. /\ TypeDisk' /\ TypePending' /\ TypeWork' /\ TypeLink' /\ TypePhone' /\ TypeDesktop'
      /\ TypeBudget' /\ InvWork' /\ InvManifest' /\ InvReceipt' /\ InvDeleter'
      /\ InvExporter' /\ StoredHonest' /\ DeletedStaysDeleted'
  BY Unchanged DEF Capabilities, storeVars, linkVars, desktopVars
<1>2. UNCHANGED <<pending, timers, work, awaited, wire, receipts, phone, recorder>>
  BY DEF Capabilities, storeVars, linkVars
<1>3. gateway' \in Gateways /\ gateway'.state = "running" /\ gateway'.connected /\ gateway.connected
  BY SupportedGateway DEF Capabilities, OnLine, IInv, Types, TypeGateway
<1>4. IF pending # {} THEN chain' = Append(chain, Retrying) ELSE UNCHANGED chain
  BY DEF Capabilities, Queue
<1>5. TypeChain' /\ InvAwaited' /\ InvFinishing' /\ \A k \in pending' : Queued(k)'
  <2>1. CASE pending # {}
    BY <1>4, <1>2, <2>1, ChainGrows, OperationKinds
  <2>2. CASE pending = {}
    BY <1>4, <1>2, <2>2, Unchanged
  <2> QED
    BY <2>1, <2>2
<1>6. TypeGateway'
  BY <1>3 DEF IInv, Types, TypeGateway
<1>7. TypeChain'
  BY <1>5
<1>8. InvAwaited'
  BY <1>5
<1>9. InvFinishing'
  BY <1>5
<1>10. InvCovered'
  BY <1>5 DEF IInv, InvCovered, Covered
<1>11. InvLink'
  BY <1>2, <1>3 DEF IInv, InvLink
<1>12. InvTransfer'
  BY <1>2, <1>3, SameTransfer
<1>13. NoTimerLeft'
  BY <1>3 DEF IInv, NoTimerLeft
<1> QED
  BY <1>1, <1>6, <1>7, <1>8, <1>9, <1>10,
     <1>11, <1>12, <1>13 DEF IInv, Types

\* StopGateway keeps the invariant.
LEMMA StopGatewayInv ==
  ASSUME IInv, StopGateway
  PROVE  IInv'
<1>1. /\ TypeDisk' /\ TypePending' /\ TypeChain' /\ TypeWork' /\ TypeLink' /\ TypePhone'
      /\ TypeDesktop' /\ InvFinishing' /\ InvWork' /\ InvManifest' /\ InvReceipt'
      /\ InvDeleter' /\ InvExporter' /\ StoredHonest' /\ DeletedStaysDeleted'
  BY Unchanged DEF StopGateway, storeVars, copyVars, linkVars, desktopVars
<1>2. UNCHANGED <<pending, timers, chain, work, wire, receipts, phone>>
  BY DEF StopGateway, copyVars, linkVars
<1>3. gateway' \in Gateways /\ gateway'.state = "stopping"
      /\ UNCHANGED <<gateway.connected, gateway.supported>>
  <2>1. gateway \in Gateways /\ gateway' = [gateway EXCEPT !.state = "stopping"]
    BY DEF StopGateway, IInv, Types, TypeGateway
  <2>2. gateway' \in Gateways
    BY <2>1, GatewayFields
  <2> QED
    BY <2>1, <2>2 DEF Gateways
<1>4. Len(chain) \in Nat /\ awaited' = Len(chain) + (IF work = Idle THEN 0 ELSE 1)
  BY AppendFacts DEF StopGateway, IInv, Types, TypeChain
<1>5. TypeGateway'
  BY <1>3 DEF IInv, Types, TypeGateway
<1>6. TypeBudget'
  BY FailureSpent DEF IInv, Types, TypeBudget, StopGateway
<1>7. InvAwaited'
  BY <1>2, <1>4 DEF IInv, InvAwaited
<1>8. InvCovered'
  BY <1>3 DEF IInv, InvCovered
<1>9. InvLink'
  BY <1>2, <1>3 DEF IInv, InvLink
<1>10. InvTransfer'
  BY <1>2, <1>3, SameTransfer
<1>11. NoTimerLeft'
  BY <1>3 DEF IInv, NoTimerLeft
<1> QED
  BY <1>1, <1>5, <1>6, <1>7, <1>8, <1>9,
     <1>10, <1>11 DEF IInv, Types

\* GatewayStopped, when the link is down already.
LEMMA OffLineStopInv ==
  ASSUME IInv, GatewayStopped, ~OnLine
  PROVE  IInv'
<1>1. /\ TypeDisk' /\ TypeChain' /\ TypeWork' /\ TypeLink' /\ TypePhone' /\ TypeDesktop'
      /\ TypeBudget' /\ InvAwaited' /\ InvFinishing' /\ InvWork' /\ InvManifest'
      /\ InvReceipt' /\ InvDeleter' /\ InvExporter' /\ StoredHonest' /\ DeletedStaysDeleted'
  BY Unchanged DEF GatewayStopped, linkVars, desktopVars
<1>2. UNCHANGED <<pending, chain, work, wire, receipts, phone, stored>> /\ timers' = {}
  BY DEF GatewayStopped, linkVars
<1>3. gateway' \in Gateways /\ gateway'.state = "stopped"
      /\ UNCHANGED <<gateway.connected, gateway.supported>>
  <2>1. gateway \in Gateways /\ gateway' = [gateway EXCEPT !.state = "stopped"]
    BY DEF GatewayStopped, IInv, Types, TypeGateway
  <2>2. gateway' \in Gateways
    BY <2>1, GatewayFields
  <2> QED
    BY <2>1, <2>2 DEF Gateways
<1>4. ~gateway.connected
  BY DEF OnLine
<1>5. TypeGateway'
  BY <1>3 DEF IInv, Types, TypeGateway
<1>6. TypePending'
  BY <1>2 DEF IInv, Types, TypePending
<1>7. InvCovered'
  BY <1>3 DEF IInv, InvCovered
<1>8. InvLink'
  BY <1>2, <1>3, <1>4 DEF IInv, InvLink
<1>9. InvTransfer'
  BY <1>2, <1>3, SameTransfer
<1>10. NoTimerLeft'
  BY <1>2 DEF IInv, NoTimerLeft
<1> QED
  BY <1>1, <1>5, <1>6, <1>7, <1>8, <1>9,
     <1>10 DEF IInv, Types

\* GatewayStopped keeps the invariant.
LEMMA GatewayStoppedInv ==
  ASSUME IInv, GatewayStopped
  PROVE  IInv'
<1>1. CASE OnLine
  <2>1. TypeBudget'
    BY Unchanged DEF GatewayStopped
  <2> QED
    BY <1>1, <2>1, LinkGoesInv DEF GatewayStopped
<1>2. CASE ~OnLine
  BY <1>2, OffLineStopInv
<1> QED
  BY <1>1, <1>2

\* Reconnect keeps the invariant.
LEMMA ReconnectInv ==
  ASSUME IInv, Reconnect
  PROVE  IInv'
<1>1. /\ TypeDisk' /\ TypeLink' /\ TypePhone' /\ TypeDesktop' /\ TypeBudget' /\ InvManifest'
      /\ InvDeleter' /\ InvExporter' /\ StoredHonest' /\ DeletedStaysDeleted'
  BY Unchanged DEF Reconnect, storeVars, linkVars, desktopVars
<1>2. UNCHANGED <<wire, receipts, phone, stored>>
  BY DEF Reconnect, linkVars
<1>3. chain' = <<>> /\ pending' = {} /\ timers' = {} /\ work' = Idle /\ awaited' = 0
  BY DEF Reconnect
<1>4. /\ gateway' \in Gateways /\ gateway'.state = "running"
      /\ gateway'.connected /\ gateway'.supported = FALSE
  BY DEF Reconnect, NewGateway, Gateways
<1>5. wire = <<>> /\ phone.rx = NoTransfer
  BY DEF Reconnect, IInv, InvLink
<1>6. TypeGateway'
  BY <1>4 DEF IInv, Types, TypeGateway
<1>7. TypePending'
  BY <1>2, <1>3 DEF IInv, Types, TypePending
<1>8. TypeChain'
  BY <1>3 DEF IInv, Types, TypeChain
<1>9. TypeWork'
  BY <1>3 DEF IInv, Types, TypeWork
<1>10. InvAwaited'
  BY <1>3 DEF IInv, InvAwaited
<1>11. InvFinishing'
  BY <1>3 DEF IInv, InvFinishing
<1>12. InvWork'
  BY <1>3 DEF IInv, InvWork
<1>13. InvReceipt'
  BY <1>2, <1>3 DEF IInv, InvReceipt
<1>14. InvCovered'
  BY <1>4 DEF IInv, InvCovered
<1>15. InvLink'
  BY <1>2, <1>4 DEF IInv, InvLink
<1>16. InvTransfer'
  BY <1>2, <1>3, <1>5, Bounds DEF IInv, InvTransfer, Streams, NoTransfer
<1>17. NoTimerLeft'
  BY <1>4 DEF IInv, NoTimerLeft
<1> QED
  BY <1>1, <1>6, <1>7, <1>8, <1>9, <1>10,
     <1>11, <1>12, <1>13, <1>14, <1>15, <1>16,
     <1>17 DEF IInv, Types

-----------------------------------------------------------------------------
(* The chain *)

\* StartOperation keeps the invariant.
LEMMA StartOperationInv ==
  ASSUME IInv, StartOperation
  PROVE  IInv'
<1>1. /\ TypeDisk' /\ TypeLink' /\ TypePhone' /\ TypeDesktop' /\ TypeBudget' /\ InvManifest'
      /\ InvDeleter' /\ InvExporter' /\ StoredHonest' /\ DeletedStaysDeleted'
  BY Unchanged DEF StartOperation, storeVars, linkVars, desktopVars
<1>2. /\ chain # <<>> /\ chain' = Tail(chain) /\ work = Idle
      /\ UNCHANGED <<timers, wire, receipts, phone, recorder, stored>>
  BY DEF StartOperation, storeVars, linkVars
<1>3. /\ Head(chain) \in Operations /\ Head(chain) = chain[1]
      /\ Len(chain) \in Nat /\ Len(chain) > 0
      /\ Tail(chain) \in Seq(Operations) /\ Len(Tail(chain)) = Len(chain) - 1
      /\ DOMAIN chain = 1..Len(chain) /\ DOMAIN Tail(chain) = 1..(Len(chain) - 1)
      /\ \A i \in 1..(Len(chain) - 1) : Tail(chain)[i] = chain[i + 1]
  BY <1>2, TailFacts DEF IInv, Types, TypeChain
<1>4. PICK next \in Operations : next = Head(chain) /\ next = chain[1] /\ 1 \in DOMAIN chain
  BY <1>3
<1>5. \/ /\ next.op = "finish" /\ next.call \in Calls /\ recorder[next.call] = "closed"
         /\ work' \in Works /\ work'.step = "render" /\ work'.call = next.call /\ work'.todo = {}
         /\ UNCHANGED <<gateway, pending, awaited>>
      \/ /\ next.op = "copy" /\ next.call \in Calls /\ next = Copying(next.call)
         /\ work' \in Works /\ work'.step = "read" /\ work'.call = next.call
         /\ pending' = pending \cup {next.call} /\ UNCHANGED <<gateway, awaited>>
      \/ /\ next.op = "retry"
         /\ work' \in Works /\ work'.step = "next" /\ work'.todo = pending
         /\ UNCHANGED <<gateway, pending, awaited>>
      \/ /\ next.op = "incoming" /\ gateway' = [gateway EXCEPT !.call = next.call]
         /\ work' = Idle /\ awaited' = (IF awaited > 0 THEN awaited - 1 ELSE 0) /\ UNCHANGED pending
  <2>1. CASE next.op = "finish"
    <3>1. next.call \in Calls /\ next.ok \in BOOLEAN
      BY <2>1, OperationKinds
    <3>2. PICK w : w = Running("finish", next.call, "render", {})
      OBVIOUS
    <3>3. w \in Works /\ w.step = "render" /\ w.call = next.call /\ w.todo = {}
      BY <3>1, <3>2, RunningWork DEF FinishSteps
    <3>4. work' = [w EXCEPT !.ok = next.ok] /\ UNCHANGED <<gateway, pending, awaited>>
      BY <1>4, <2>1, <3>2 DEF StartOperation
    <3>5. work' \in Works
      BY <3>1, <3>3, <3>4, WorkFields
    <3>6. work'.step = "render" /\ work'.call = next.call /\ work'.todo = {}
      BY <3>3, <3>4 DEF Works
    <3>7. recorder[next.call] = "closed"
      BY <1>4, <2>1 DEF IInv, InvFinishing
    <3> QED
      BY <2>1, <3>1, <3>4, <3>5, <3>6, <3>7
  <2>2. CASE next.op = "copy"
    <3>1. next.call \in Calls /\ next = Copying(next.call)
      BY <2>2, OperationKinds
    <3>2. /\ work' = Running("copy", next.call, "read", {})
          /\ pending' = pending \cup {next.call} /\ UNCHANGED <<gateway, awaited>>
      BY <1>4, <2>2 DEF StartOperation
    <3> QED
      BY <2>2, <3>1, <3>2, RunningWork DEF CopySteps
  <2>3. CASE next.op = "retry"
    <3>1. work' = Running("retry", None, "next", pending) /\ UNCHANGED <<gateway, pending, awaited>>
      BY <1>4, <2>3 DEF StartOperation
    <3>2. pending \in SUBSET Calls
      BY DEF IInv, Types, TypePending
    <3> QED
      BY <2>3, <3>1, <3>2, RunningWork
  <2>4. CASE next.op = "incoming"
    BY <1>4, <2>4 DEF StartOperation, EndOperation
  <2> QED
    BY <2>1, <2>2, <2>3, <2>4, OperationKinds
<1>6. work' # Idle => work'.receipt = "none" /\ work'.sent = 0
  <2>1. CASE next.op = "finish"
    <3>1. next.call \in Calls /\ next.ok \in BOOLEAN
      BY <2>1, OperationKinds
    <3>2. PICK w : w = Running("finish", next.call, "render", {})
      OBVIOUS
    <3>3. w \in Works /\ w.receipt = "none" /\ w.sent = 0
      BY <3>1, <3>2, RunningWork DEF FinishSteps
    <3>4. work' = [w EXCEPT !.ok = next.ok]
      BY <1>4, <2>1, <3>2 DEF StartOperation
    <3> QED
      BY <3>3, <3>4 DEF Works
  <2>2. CASE next.op = "copy"
    BY <1>4, <2>2 DEF StartOperation, Running
  <2>3. CASE next.op = "retry"
    BY <1>4, <2>3 DEF StartOperation, Running
  <2> QED
    BY <1>5, <2>1, <2>2, <2>3
<1>7. gateway' \in Gateways /\ UNCHANGED <<gateway.state, gateway.connected, gateway.supported>>
  <2>1. gateway \in Gateways
    BY DEF IInv, Types, TypeGateway
  <2>2. CASE UNCHANGED gateway
    BY <2>1, <2>2
  <2>3. CASE next.op = "incoming"
    <3>1. gateway' = [gateway EXCEPT !.call = next.call] /\ next.call \in Calls
      BY <1>5, <2>3, OperationKinds
    <3>2. gateway' \in Gateways
      BY <2>1, <3>1, GatewayFields
    <3> QED
      BY <2>1, <3>1, <3>2 DEF Gateways
  <2> QED
    BY <1>5, <2>2, <2>3
<1>8. /\ pending \subseteq pending' /\ pending' \subseteq Calls
      /\ timers \subseteq pending /\ UNCHANGED <<timers, stored>> /\ stored \subseteq Calls
  BY <1>2, <1>5 DEF IInv, Types, TypePending
<1>9. ASSUME gateway.state = "running", gateway.supported, NEW k \in pending'
      PROVE  Covered(k)'
  <2>1. CASE next.op = "copy" /\ k = next.call
    BY <1>5, <2>1, WorkFields DEF Covered, CopySteps
  <2>2. CASE k \in pending /\ next # Copying(k) /\ next # Retrying
    <3>1. CASE k \in timers
      BY <1>2, <3>1 DEF Covered
    <3>2. CASE Queued(k)
      <4>1. PICK i \in 1..Len(chain) : chain[i] \in {Retrying, Copying(k)}
        BY <1>3, <3>2 DEF Queued
      <4>2. i # 1
        BY <1>4, <2>2, <4>1
      <4>3. i - 1 \in 1..(Len(chain) - 1) /\ chain'[i - 1] = chain[i]
        BY <1>3, <1>2, <4>1, <4>2
      <4> QED
        BY <1>3, <1>2, <4>1, <4>3 DEF Covered, Queued
    <3> QED
      BY <1>2, <1>9, <2>2, <3>1, <3>2 DEF IInv, InvCovered, Covered
  <2>3. CASE k \in pending /\ next = Retrying
    <3>1. next.op = "retry"
      BY <2>3, OperationKinds
    <3> QED
      BY <1>5, <2>3, <3>1, WorkFields DEF Covered
  <2>4. CASE next = Copying(k)
    <3>1. next.op = "copy" /\ next.call = k
      BY <2>4, OperationKinds
    <3> QED
      BY <2>1, <3>1
  <2> QED
    BY <1>5, <1>9, <2>1, <2>2, <2>3, <2>4
<1>10. TypeGateway'
  BY <1>7 DEF IInv, Types, TypeGateway
<1>11. TypePending'
  BY <1>8 DEF IInv, Types, TypePending
<1>12. TypeChain'
  BY <1>2, <1>3 DEF IInv, Types, TypeChain
<1>13. TypeWork'
  BY <1>5 DEF IInv, Types, TypeWork
<1>14. InvAwaited'
  <2>1. awaited \in Nat /\ awaited <= Len(chain) /\ Len(chain') = Len(chain) - 1
    BY <1>2, <1>3 DEF IInv, InvAwaited
  <2>2. CASE work' # Idle
    <3>1. UNCHANGED awaited
      BY <1>5, <2>2
    <3> QED
      BY <1>3, <2>1, <2>2, <3>1 DEF InvAwaited
  <2>3. CASE work' = Idle
    <3>1. awaited' = (IF awaited > 0 THEN awaited - 1 ELSE 0)
      BY <1>5, <2>3, WorkFields
    <3> QED
      BY <1>3, <2>1, <2>3, <3>1 DEF InvAwaited
  <2> QED
    BY <2>2, <2>3
<1>15. InvFinishing'
  BY <1>2, <1>3 DEF IInv, InvFinishing
<1>16. InvWork'
  BY <1>2, <1>5, <1>6, WorkFields DEF IInv, InvWork, FinishSteps, CopySteps
<1>17. InvReceipt'
  BY <1>2, <1>6 DEF IInv, InvReceipt
<1>18. InvCovered'
  BY <1>7, <1>9 DEF IInv, InvCovered
<1>19. InvLink'
  BY <1>2, <1>7 DEF IInv, InvLink
<1>20. InvTransfer'
  BY <1>2, <1>7, <1>5, SameTransfer
<1>21. NoTimerLeft'
  BY <1>2, <1>7 DEF IInv, NoTimerLeft
<1> QED
  BY <1>1, <1>10, <1>11, <1>12, <1>13, <1>14,
     <1>15, <1>16, <1>17, <1>18, <1>19, <1>20,
     <1>21 DEF IInv, Types


\* Render keeps the invariant.
LEMMA RenderInv ==
  ASSUME IInv, Render
  PROVE  IInv'
<1>1. /\ TypeGateway' /\ TypePending' /\ TypeChain' /\ TypeLink' /\ TypePhone'
      /\ TypeDesktop' /\ InvFinishing' /\ InvLink' /\ InvExporter' /\ StoredHonest'
      /\ NoTimerLeft'
  BY Unchanged DEF Render, linkVars, desktopVars
<1>2. /\ work # Idle /\ work.step = "render" /\ work' = [work EXCEPT !.step = "seal"]
      /\ UNCHANGED <<exported, recorder, gateway, pending, timers, chain, awaited, wire, receipts,
                     phone, deleter, deleted>>
  BY DEF Render, At, Goto, linkVars, desktopVars
<1>3. /\ work \in Works /\ work' \in Works /\ work' # Idle /\ work'.step = "seal"
      /\ UNCHANGED <<work.call, work.todo, work.sent, work.receipt, work.op>>
  BY <1>2, Moved DEF FinishSteps
<1>4. work.call \in Calls /\ recorder[work.call] = "closed" /\ work.todo = {}
  BY <1>2 DEF IInv, InvWork, FinishSteps
<1>5. /\ disk \in [Calls -> Directories] /\ disk[work.call] \in Directories
      /\ \A k \in Calls : /\ disk[k].remote \in 0..MaxFrames /\ disk[k].agent \in 0..MaxFrames
                          /\ disk[k].dir \in BOOLEAN
  BY <1>4 DEF IInv, Types, TypeDisk, Directories
<1>6. \/ UNCHANGED disk
      \/ \E b \in BOOLEAN :
           /\ disk' = [disk EXCEPT ![work.call].wav = b]
           /\ disk[work.call].dir /\ (disk[work.call].remote > 0 \/ disk[work.call].agent > 0) => b = TRUE
  <2>1. MaxOf(disk[work.call].remote, disk[work.call].agent) > 0 <=>
          disk[work.call].remote > 0 \/ disk[work.call].agent > 0
    BY <1>4, <1>5, Bounds DEF MaxOf
  <2> QED
    BY <1>5, <2>1 DEF Render
<1>7. disk' \in [Calls -> Directories]
  <2>1. CASE UNCHANGED disk
    BY <1>5, <2>1
  <2>2. ASSUME NEW b \in BOOLEAN, disk' = [disk EXCEPT ![work.call].wav = b]
        PROVE  disk' \in [Calls -> Directories]
    BY <1>4, <1>5, <2>2, DiskUpdates
  <2> QED
    BY <1>6, <2>1, <2>2
<1>8. \A k \in Calls :
        /\ UNCHANGED <<disk[k].dir, disk[k].remote, disk[k].agent, disk[k].manifest>>
        /\ disk[k].wav /\ disk[k].dir /\ disk[k].remote > 0 => disk'[k].wav
        /\ k # work.call => disk'[k] = disk[k]
  <2>1. CASE UNCHANGED disk
    BY <2>1
  <2>2. ASSUME NEW b \in BOOLEAN, disk' = [disk EXCEPT ![work.call].wav = b],
               disk[work.call].dir /\ (disk[work.call].remote > 0 \/ disk[work.call].agent > 0) => b = TRUE
        PROVE  \A k \in Calls :
                 /\ UNCHANGED <<disk[k].dir, disk[k].remote, disk[k].agent, disk[k].manifest>>
                 /\ disk[k].wav /\ disk[k].dir /\ disk[k].remote > 0 => disk'[k].wav
                 /\ k # work.call => disk'[k] = disk[k]
    BY <1>4, <1>5, <2>2 DEF Directories
  <2> QED
    BY <1>6, <2>1, <2>2
<1>9. TypeDisk'
  BY <1>2, <1>7 DEF IInv, Types, TypeDisk
<1>10. TypeWork'
  BY <1>3 DEF IInv, Types, TypeWork
<1>11. TypeBudget'
  BY FailureSpent DEF IInv, Types, TypeBudget, Render
<1>12. InvAwaited'
  BY <1>2, <1>3, Awaiting
<1>13. InvWork'
  BY <1>2, <1>3, <1>4 DEF IInv, InvWork, FinishSteps, CopySteps
<1>14. InvManifest'
  BY <1>2, <1>4, <1>8 DEF IInv, InvManifest
<1>15. InvReceipt'
  BY <1>2, <1>3 DEF IInv, InvReceipt
<1>16. InvCovered'
  BY <1>2, <1>3, <1>4 DEF IInv, InvCovered, Covered, Queued, FinishSteps, CopySteps
<1>17. InvTransfer'
  BY <1>2, <1>3, SameTransfer
<1>18. InvDeleter'
  BY <1>2, <1>8, Bounds DEF IInv, Types, InvDeleter, TypeDesktop, Deleters
<1>19. DeletedStaysDeleted'
  BY <1>2, <1>8 DEF IInv, Types, DeletedStaysDeleted, TypeDesktop
<1> QED
  BY <1>1, <1>9, <1>10, <1>11, <1>12, <1>13,
     <1>14, <1>15, <1>16, <1>17, <1>18,
     <1>19 DEF IInv, Types

\* Seal keeps the invariant.
LEMMA SealInv ==
  ASSUME IInv, Seal
  PROVE  IInv'
<1>1. /\ TypeGateway' /\ TypePending' /\ TypeChain' /\ TypeLink' /\ TypePhone'
      /\ TypeDesktop' /\ InvFinishing' /\ InvLink' /\ InvExporter' /\ StoredHonest'
      /\ NoTimerLeft'
  BY Unchanged DEF Seal, linkVars, desktopVars
<1>2. /\ work # Idle /\ work.step = "seal"
      /\ UNCHANGED <<exported, recorder, gateway, pending, timers, chain, wire, receipts,
                     phone, deleter, deleted>>
  BY DEF Seal, At, linkVars, desktopVars
<1>3. work \in Works /\ work.call \in Calls /\ recorder[work.call] = "closed" /\ work.todo = {}
  BY <1>2 DEF IInv, InvWork, FinishSteps, Types, TypeWork
<1>4. \/ /\ work' \in Works /\ work' # Idle /\ work'.step = "sums"
         /\ UNCHANGED <<awaited, work.call, work.todo, work.sent, work.receipt, work.op>>
      \/ work' = Idle /\ EndOperation
  <2>1. CASE EndOperation
    BY <2>1 DEF EndOperation
  <2>2. CASE work' = [work EXCEPT !.step = "sums"] /\ UNCHANGED awaited
    BY <1>2, <2>2, Moved DEF FinishSteps
  <2> QED
    BY <2>1, <2>2 DEF Seal, Goto
<1>5. \/ UNCHANGED disk
      \/ /\ disk[work.call].dir
         /\ \E m \in {"complete", "incomplete"} :
              /\ disk' = [disk EXCEPT ![work.call].manifest = m]
              /\ m = "complete" => disk[work.call].remote > 0 /\ disk[work.call].agent > 0
                                   /\ disk[work.call].wav
  BY DEF Seal, Complete
<1>6. disk \in [Calls -> Directories] /\ disk[work.call] \in Directories
  BY <1>3 DEF IInv, Types, TypeDisk
<1>7. disk' \in [Calls -> Directories]
  <2>1. CASE UNCHANGED disk
    BY <1>6, <2>1
  <2>2. ASSUME NEW m \in {"complete", "incomplete"}, disk' = [disk EXCEPT ![work.call].manifest = m]
        PROVE  disk' \in [Calls -> Directories]
    BY <1>3, <1>6, <2>2, DiskUpdates
  <2> QED
    BY <1>5, <2>1, <2>2
<1>8. \A k \in Calls :
        /\ UNCHANGED <<disk[k].dir, disk[k].remote, disk[k].agent, disk[k].wav>>
        /\ k # work.call => disk'[k] = disk[k]
        /\ disk'[k].manifest = "complete" =>
             \/ disk[k].manifest = "complete"
             \/ disk[k].dir /\ disk[k].wav /\ disk[k].remote > 0 /\ disk[k].agent > 0
  BY <1>3, <1>5, <1>6 DEF Directories
<1>9. TypeDisk'
  BY <1>2, <1>7 DEF IInv, Types, TypeDisk
<1>10. TypeWork'
  BY <1>4 DEF IInv, Types, TypeWork
<1>11. TypeBudget'
  BY FailureSpent DEF IInv, Types, TypeBudget, Seal
<1>12. InvAwaited'
  BY <1>2, <1>4, Awaiting
<1>13. InvWork'
  BY <1>2, <1>4, <1>3 DEF IInv, InvWork, FinishSteps, CopySteps
<1>14. InvManifest'
  BY <1>2, <1>3, <1>8 DEF IInv, InvManifest
<1>15. InvReceipt'
  BY <1>2, <1>4 DEF IInv, InvReceipt
<1>16. InvCovered'
  BY <1>2, <1>4, <1>3 DEF IInv, InvCovered, Covered, Queued, FinishSteps, CopySteps
<1>17. InvTransfer'
  BY <1>2, <1>4, SameTransfer
<1>18. InvDeleter'
  BY <1>2, <1>8, Bounds DEF IInv, Types, InvDeleter, TypeDesktop, Deleters
<1>19. DeletedStaysDeleted'
  BY <1>2, <1>8 DEF IInv, Types, DeletedStaysDeleted, TypeDesktop
<1> QED
  BY <1>1, <1>9, <1>10, <1>11, <1>12, <1>13,
     <1>14, <1>15, <1>16, <1>17, <1>18,
     <1>19 DEF IInv, Types

\* NextPending keeps the invariant.
LEMMA NextPendingInv ==
  ASSUME IInv, NextPending
  PROVE  IInv'
<1>1. /\ TypeDisk' /\ TypeGateway' /\ TypeChain' /\ TypeLink' /\ TypePhone' /\ TypeDesktop'
      /\ TypeBudget' /\ InvFinishing' /\ InvManifest' /\ InvLink' /\ InvDeleter'
      /\ InvExporter' /\ StoredHonest' /\ NoTimerLeft' /\ DeletedStaysDeleted'
  BY Unchanged DEF NextPending, storeVars, linkVars, desktopVars
<1>2. /\ work # Idle /\ work.step = "next"
      /\ UNCHANGED <<recorder, gateway, timers, chain, wire, receipts, phone, stored>>
  BY DEF NextPending, At, storeVars, linkVars
<1>3. /\ work \in Works /\ work.todo \subseteq Calls /\ pending \subseteq Calls /\ stored \subseteq Calls
      /\ timers \subseteq pending
  BY <1>2, WorkFields DEF IInv, Types, TypeWork, TypePending
<1>4. \/ /\ work.todo = {} \/ ~gateway.supported \/ ~OnLine
         /\ work' = Idle /\ EndOperation /\ UNCHANGED pending
      \/ \E k \in work.todo :
           /\ work' \in Works /\ work' # Idle /\ work'.step = "read" /\ work'.call = k
           /\ work'.todo = work.todo \ {k} /\ work'.sent = 0 /\ work'.receipt = "none"
           /\ pending' = pending \cup {k} /\ UNCHANGED awaited
  <2>1. CASE work.todo = {} \/ ~gateway.supported \/ ~OnLine
    BY <2>1 DEF NextPending, EndOperation
  <2>2. CASE ~(work.todo = {} \/ ~gateway.supported \/ ~OnLine)
    <3>1. PICK k \in work.todo : /\ work' = Copy([work EXCEPT !.todo = work.todo \ {k}], k)
                                 /\ pending' = pending \cup {k} /\ UNCHANGED awaited
      BY <2>2 DEF NextPending
    <3>2. PICK w : w = [work EXCEPT !.todo = work.todo \ {k}]
      OBVIOUS
    <3>3. w \in Works /\ w.todo = work.todo \ {k}
      <4>1. work.todo \ {k} \in SUBSET Calls
        BY <1>3
      <4>2. w \in Works
        BY <1>3, <3>2, <4>1, WorkFields
      <4> QED
        BY <1>3, <3>2, <4>2 DEF Works
    <3>4. k \in Calls /\ work' = Copy(w, k)
      BY <1>3, <3>1, <3>2
    <3>5. /\ work' \in Works /\ work'.step = "read" /\ work'.call = k
          /\ work'.todo = work.todo \ {k} /\ work'.sent = 0 /\ work'.receipt = "none"
      BY <3>3, <3>4, CopyWork
    <3> QED
      BY <3>1, <3>5, WorkFields
  <2> QED
    BY <2>1, <2>2
<1>5. TypePending'
  BY <1>2, <1>3, <1>4 DEF IInv, Types, TypePending
<1>6. TypeWork'
  BY <1>4 DEF IInv, Types, TypeWork
<1>7. InvAwaited'
  BY <1>2, <1>4, Awaiting
<1>8. InvWork'
  BY <1>2, <1>4, <1>3 DEF IInv, InvWork, FinishSteps, CopySteps
<1>9. InvReceipt'
  BY <1>2, <1>4 DEF IInv, InvReceipt
<1>10. InvCovered'
  <2>1. ASSUME gateway.state = "running", gateway.supported, NEW k \in pending'
        PROVE  Covered(k)'
    <3>1. OnLine
      BY <2>1 DEF IInv, InvLink, OnLine
    <3>2. CASE k \in pending
      <4>1. k \in timers \/ Queued(k) \/ k \in work.todo
        BY <1>2, <2>1, <3>2 DEF IInv, InvCovered, Covered, CopySteps
      <4> QED
        BY <1>2, <1>4, <2>1, <3>1, <4>1 DEF Covered, Queued, CopySteps
    <3>3. CASE k \notin pending
      BY <1>2, <1>4, <3>3 DEF Covered, CopySteps
    <3> QED
      BY <3>2, <3>3
  <2> QED
    BY <1>2, <2>1 DEF InvCovered
<1>11. InvTransfer'
  BY <1>2, <1>4, SameTransfer
<1> QED
  BY <1>1, <1>5, <1>6, <1>7, <1>8, <1>9,
     <1>10, <1>11 DEF IInv, Types

\* Finished keeps the invariant.
LEMMA FinishedInv ==
  ASSUME IInv, Finished
  PROVE  IInv'
<1>1. /\ TypeChain' /\ TypeLink' /\ TypePhone' /\ TypeDesktop' /\ InvFinishing'
      /\ InvExporter' /\ StoredHonest'
  BY Unchanged DEF Finished, linkVars, desktopVars
<1>2. /\ work # Idle /\ work.step = "sums"
      /\ UNCHANGED <<exported, recorder, timers, chain, wire, receipts, phone, deleter, deleted,
                     stored>>
  BY DEF Finished, At, linkVars, desktopVars
<1>3. work \in Works /\ work.call \in Calls /\ recorder[work.call] = "closed" /\ work.todo = {}
  BY <1>2 DEF IInv, InvWork, FinishSteps, Types, TypeWork
<1>4. /\ disk \in [Calls -> Directories] /\ disk[work.call] \in Directories
      /\ pending \subseteq Calls /\ stored \subseteq Calls /\ timers \subseteq pending
  BY <1>3 DEF IInv, Types, TypeDisk, TypePending
<1>5. gateway' \in Gateways /\ UNCHANGED <<gateway.state, gateway.connected, gateway.supported>>
  <2>1. gateway \in Gateways
    BY DEF IInv, Types, TypeGateway
  <2>2. UNCHANGED gateway \/ gateway' = [gateway EXCEPT !.copied = FALSE]
    BY DEF Finished
  <2>3. [gateway EXCEPT !.copied = FALSE] \in Gateways
    BY <2>1, GatewayFields
  <2> QED
    BY <2>1, <2>2, <2>3 DEF Gateways
<1>6. \/ /\ work' \in Works /\ work' # Idle /\ work'.step = "read" /\ work'.call = work.call
         /\ work'.sent = 0 /\ work'.receipt = "none"
         /\ pending' = pending \cup {work.call} /\ UNCHANGED awaited
      \/ /\ work' \in Works /\ work' # Idle /\ work'.step = "next" /\ work'.todo = pending
         /\ work'.receipt = work.receipt /\ work'.call = work.call
         /\ UNCHANGED <<pending, awaited>>
      \/ /\ work' = Idle /\ EndOperation
         /\ \/ UNCHANGED pending
            \/ ~gateway.supported /\ pending' = pending \cup {work.call}
  <2> DEFINE older == pending \ {work.call} # {}
             retry == [work EXCEPT !.step = "next", !.todo = pending]
  <2>1. \/ /\ work' = Copy([work EXCEPT !.older = older], work.call)
           /\ pending' = pending \cup {work.call} /\ UNCHANGED awaited
        \/ work' = retry /\ UNCHANGED <<pending, awaited>>
        \/ /\ EndOperation
           /\ \/ UNCHANGED pending
              \/ ~gateway.supported /\ pending' = pending \cup {work.call}
    BY DEF Finished
  <2>2. CASE /\ work' = Copy([work EXCEPT !.older = older], work.call)
             /\ pending' = pending \cup {work.call} /\ UNCHANGED awaited
    <3>1. PICK w : w = [work EXCEPT !.older = older]
      OBVIOUS
    <3>2. older \in BOOLEAN
      OBVIOUS
    <3> HIDE DEF older
    <3>3. w \in Works
      BY <1>3, <3>1, <3>2, WorkFields
    <3>4. work' = Copy(w, work.call)
      BY <2>2, <3>1
    <3>5. /\ work' \in Works /\ work'.step = "read" /\ work'.call = work.call
          /\ work'.sent = 0 /\ work'.receipt = "none"
      BY <1>3, <3>3, <3>4, CopyWork
    <3>6. work' # Idle
      BY <3>5, WorkFields
    <3> QED
      BY <2>2, <3>5, <3>6
  <2>3. CASE work' = retry /\ UNCHANGED <<pending, awaited>>
    <3>1. pending \in SUBSET Calls
      BY <1>4
    <3>2. /\ work' \in Works /\ work'.step = "next" /\ work'.todo = pending
          /\ work'.receipt = work.receipt /\ work'.call = work.call
      BY <1>3, <2>3, <3>1, NextWork, ZenonT(60)
    <3>3. work' # Idle
      BY <3>2, WorkFields
    <3> QED
      BY <2>3, <3>2, <3>3
  <2>4. CASE /\ EndOperation
             /\ \/ UNCHANGED pending
                \/ ~gateway.supported /\ pending' = pending \cup {work.call}
    BY <2>4 DEF EndOperation
  <2> QED
    BY <2>1, <2>2, <2>3, <2>4
<1>7. UNCHANGED disk \/ disk' = [disk EXCEPT ![work.call].sums = TRUE]
  BY DEF Finished
<1>8. disk' \in [Calls -> Directories]
  <2>1. [disk EXCEPT ![work.call].sums = TRUE] \in [Calls -> Directories]
    BY <1>3, <1>4, DiskUpdates
  <2> QED
    BY <1>7, <1>4, <2>1
<1>9. \A k \in Calls : UNCHANGED <<disk[k].dir, disk[k].remote, disk[k].agent, disk[k].wav,
                                   disk[k].manifest>>
                       /\ (k # work.call => disk'[k] = disk[k])
  <2>1. CASE UNCHANGED disk
    BY <2>1
  <2>2. CASE disk' = [disk EXCEPT ![work.call].sums = TRUE]
    BY <1>3, <1>4, <2>2 DEF Directories
  <2> QED
    BY <1>7, <2>1, <2>2
<1>10. TypeDisk'
  BY <1>2, <1>8 DEF IInv, Types, TypeDisk
<1>11. TypeGateway'
  BY <1>5 DEF IInv, Types, TypeGateway
<1>12. TypePending'
  BY <1>2, <1>3, <1>4, <1>6 DEF IInv, Types, TypePending
<1>13. TypeWork'
  BY <1>6 DEF IInv, Types, TypeWork
<1>14. TypeBudget'
  BY FailureSpent DEF IInv, Types, TypeBudget, Finished
<1>15. InvAwaited'
  BY <1>2, <1>6, Awaiting
<1>16. InvWork'
  BY <1>2, <1>6, <1>3 DEF IInv, InvWork, FinishSteps, CopySteps
<1>17. InvManifest'
  BY <1>2, <1>3, <1>9 DEF IInv, InvManifest
<1>18. InvReceipt'
  BY <1>2, <1>6 DEF IInv, InvReceipt
<1>19. InvCovered'
  <2>1. ASSUME gateway.state = "running", gateway.supported, NEW k \in pending'
        PROVE  Covered(k)'
    <3>1. k \in pending => k \in timers \/ Queued(k)
      BY <1>3, <1>2, <2>1 DEF IInv, InvCovered, Covered, CopySteps
    <3> QED
      BY <1>2, <1>6, <2>1, <3>1 DEF Covered, Queued, CopySteps
  <2> QED
    BY <1>5, <2>1 DEF InvCovered
<1>20. InvLink'
  BY <1>2, <1>5 DEF IInv, InvLink
<1>21. InvTransfer'
  BY <1>2, <1>5, <1>6, SameTransfer
<1>22. InvDeleter'
  BY <1>2, <1>9, Bounds DEF IInv, Types, InvDeleter, TypeDesktop, Deleters
<1>23. NoTimerLeft'
  BY <1>2, <1>5 DEF IInv, NoTimerLeft
<1>24. DeletedStaysDeleted'
  BY <1>2, <1>9 DEF IInv, Types, DeletedStaysDeleted, TypeDesktop
<1> QED
  BY <1>1, <1>10, <1>11, <1>12, <1>13, <1>14,
     <1>15, <1>16, <1>17, <1>18, <1>19, <1>20,
     <1>21, <1>22, <1>23, <1>24 DEF IInv, Types

-----------------------------------------------------------------------------
(* One copy *)

\* A copy that listens has a call and is not a retry that looks for its next one.
LEMMA CopyRuns ==
  ASSUME IInv, work # Idle, work.step \in CopySteps
  PROVE  /\ work \in Works /\ work.call \in Calls /\ work.todo \subseteq Calls
         /\ work.receipt = "stored" => work.call \in phone.published
  BY WorkFields DEF IInv, Types, TypeWork, InvWork, InvReceipt

\* What follows a copy covers what the operation still had to do.
LEMMA AfterCopyWork ==
  ASSUME IInv, work # Idle, work.step \in CopySteps, pending' \subseteq Calls,
         NEW older \in BOOLEAN, AfterCopy(older), UNCHANGED chain
  PROVE  /\ InvAwaited'
         /\ \/ /\ work' = Idle /\ work.todo = {}
            \/ /\ work' \in Works /\ work' # Idle /\ work'.step = "next"
               /\ work'.todo = work.todo \/ (work'.todo = pending' /\ work.todo = {})
               /\ work'.receipt = work.receipt /\ work'.call = work.call
<1>1. work \in Works /\ work.todo \in SUBSET Calls
  BY CopyRuns
<1>2. CASE work.op = "retry" \/ work.todo # {}
  <2>1. work' = [work EXCEPT !.step = "next"] /\ UNCHANGED awaited
    BY <1>2 DEF AfterCopy, Goto
  <2>2. /\ work' \in Works /\ work' # Idle /\ work'.step = "next"
        /\ UNCHANGED <<work.call, work.todo, work.sent, work.receipt, work.op>>
    BY <2>1, Moved
  <2> QED
    BY <2>1, <2>2, Awaiting
<1>3. CASE ~(work.op = "retry" \/ work.todo # {}) /\ older
  <2>1. /\ work' = [work EXCEPT !.step = "next", !.todo = pending', !.older = FALSE]
        /\ UNCHANGED awaited
    BY <1>3 DEF AfterCopy
  <2>2. /\ work' \in Works /\ work'.step = "next" /\ work'.todo = pending'
        /\ work'.receipt = work.receipt /\ work'.call = work.call
    BY <1>1, <2>1, NextWork
  <2>3. work' # Idle
    BY <2>2, WorkFields
  <2> QED
    BY <1>3, <2>1, <2>2, <2>3, Awaiting
<1>4. CASE ~(work.op = "retry" \/ work.todo # {}) /\ ~older
  <2>1. EndOperation
    BY <1>4 DEF AfterCopy
  <2> QED
    BY <1>4, <2>1, Awaiting DEF EndOperation
<1> QED
  BY <1>2, <1>3, <1>4

\* A copy that fails at any of its steps keeps the invariant.
LEMMA CopyFailedInv ==
  ASSUME IInv, work # Idle, work.step \in CopySteps, CopyFailed, Unsent, TypeBudget'
  PROVE  IInv'
<1>1. /\ TypeDisk' /\ TypeChain' /\ TypeLink' /\ TypePhone' /\ TypeDesktop' /\ InvFinishing'
      /\ InvManifest' /\ InvDeleter' /\ InvExporter' /\ DeletedStaysDeleted'
  BY Unchanged DEF CopyFailed, Unsent, storeVars, linkVars, desktopVars
<1>2. /\ UNCHANGED <<recorder, pending, stored, chain, wire, receipts, phone>>
      /\ timers' = IF MayRetry(work.call) THEN timers \cup {work.call} ELSE timers
      /\ AfterCopy(FALSE)
  BY DEF CopyFailed, Unsent, storeVars, linkVars
<1>3. /\ work \in Works /\ work.call \in Calls
      /\ work.receipt = "stored" => work.call \in phone.published
  BY CopyRuns
<1>4. gateway' \in Gateways /\ UNCHANGED <<gateway.state, gateway.connected, gateway.supported>>
  <2>1. gateway \in Gateways /\ gateway' = [gateway EXCEPT !.copied = FALSE]
    BY DEF CopyFailed, IInv, Types, TypeGateway
  <2>2. gateway' \in Gateways
    BY <2>1, GatewayFields
  <2> QED
    BY <2>1, <2>2 DEF Gateways
<1>5. pending \subseteq Calls /\ timers \subseteq pending /\ stored \subseteq Calls
  BY DEF IInv, Types, TypePending
<1>6. /\ InvAwaited'
      /\ \/ /\ work' = Idle /\ work.todo = {}
         \/ /\ work' \in Works /\ work' # Idle /\ work'.step = "next"
            /\ work'.todo = work.todo \/ (work'.todo = pending' /\ work.todo = {})
            /\ work'.receipt = work.receipt /\ work'.call = work.call
  BY <1>2, <1>5, AfterCopyWork
<1>7. TypeGateway'
  BY <1>4 DEF IInv, Types, TypeGateway
<1>8. TypePending'
  BY <1>2, <1>5 DEF IInv, Types, TypePending, MayRetry
<1>9. TypeWork'
  BY <1>6 DEF IInv, Types, TypeWork
<1>10. TypeBudget'
  OBVIOUS
<1>11. InvAwaited'
  BY <1>6
<1>12. InvWork'
  BY <1>6 DEF IInv, InvWork, FinishSteps, CopySteps
<1>13. InvReceipt'
  BY <1>2, <1>3, <1>6 DEF IInv, InvReceipt
<1>14. InvCovered'
  <2>1. ASSUME gateway.state = "running", gateway.supported, NEW k \in pending
        PROVE  Covered(k)'
    <3>1. CASE k = work.call
      BY <1>2, <2>1, <3>1 DEF Covered, MayRetry
    <3>2. CASE k # work.call
      BY <1>2, <1>6, <2>1, <3>2 DEF IInv, InvCovered, Covered, Queued
    <3> QED
      BY <3>1, <3>2
  <2> QED
    BY <1>2, <1>4, <2>1 DEF InvCovered
<1>15. InvLink'
  BY <1>2, <1>4 DEF IInv, InvLink
<1>16. InvTransfer'
  BY <1>2, <1>4, <1>6, SameTransfer
<1>17. StoredHonest'
  BY <1>2 DEF IInv, StoredHonest
<1>18. NoTimerLeft'
  BY <1>2, <1>4 DEF IInv, NoTimerLeft, MayRetry
<1> QED
  BY <1>1, <1>7, <1>8, <1>9, <1>10, <1>11,
     <1>12, <1>13, <1>14, <1>15, <1>16, <1>17,
     <1>18 DEF IInv, Types

\* A copy that its receipt settles keeps the invariant.
LEMMA CopyStoredInv ==
  ASSUME IInv, work # Idle, work.step \in CopySteps, work.receipt = "stored", CopyStored, Unsent,
         TypeBudget'
  PROVE  IInv'
<1>1. /\ TypeDisk' /\ TypeChain' /\ TypeLink' /\ TypePhone' /\ TypeDesktop' /\ InvFinishing'
      /\ InvManifest' /\ InvDeleter' /\ InvExporter' /\ DeletedStaysDeleted'
  BY Unchanged DEF CopyStored, Unsent, storeVars, linkVars, desktopVars
<1>2. /\ UNCHANGED <<recorder, chain, wire, receipts, phone>>
      /\ pending' = pending \ {work.call} /\ timers' = timers \ {work.call}
      /\ stored' = stored \cup {work.call}
      /\ AfterCopy(work.older /\ gateway.supported)
  BY DEF CopyStored, Unsent, storeVars, linkVars
<1>3. /\ work \in Works /\ work.call \in Calls /\ work.call \in phone.published
  BY CopyRuns
<1>4. gateway' \in Gateways /\ UNCHANGED <<gateway.state, gateway.connected, gateway.supported>>
  <2>1. gateway \in Gateways /\ gateway' = [gateway EXCEPT !.copied = TRUE]
    BY DEF CopyStored, IInv, Types, TypeGateway
  <2>2. gateway' \in Gateways
    BY <2>1, GatewayFields
  <2> QED
    BY <2>1, <2>2 DEF Gateways
<1>5. pending \subseteq Calls /\ timers \subseteq pending /\ stored \subseteq Calls
  BY DEF IInv, Types, TypePending
<1>6. /\ InvAwaited'
      /\ \/ /\ work' = Idle /\ work.todo = {}
         \/ /\ work' \in Works /\ work' # Idle /\ work'.step = "next"
            /\ work'.todo = work.todo \/ (work'.todo = pending' /\ work.todo = {})
            /\ work'.receipt = work.receipt /\ work'.call = work.call
  <2>1. (work.older /\ gateway.supported) \in BOOLEAN
    OBVIOUS
  <2>2. pending' \subseteq Calls
    BY <1>2, <1>5
  <2> QED
    BY <1>2, <2>1, <2>2, AfterCopyWork
<1>7. TypeGateway'
  BY <1>4 DEF IInv, Types, TypeGateway
<1>8. TypePending'
  BY <1>2, <1>5, <1>3 DEF IInv, Types, TypePending
<1>9. TypeWork'
  BY <1>6 DEF IInv, Types, TypeWork
<1>10. TypeBudget'
  OBVIOUS
<1>11. InvAwaited'
  BY <1>6
<1>12. InvWork'
  BY <1>6 DEF IInv, InvWork, FinishSteps, CopySteps
<1>13. InvReceipt'
  BY <1>2, <1>3, <1>6 DEF IInv, InvReceipt
<1>14. InvCovered'
  <2>1. ASSUME gateway.state = "running", gateway.supported, NEW k \in pending'
        PROVE  Covered(k)'
    BY <1>2, <1>6, <2>1 DEF IInv, InvCovered, Covered, Queued
  <2> QED
    BY <1>4, <2>1 DEF InvCovered
<1>15. InvLink'
  BY <1>2, <1>4 DEF IInv, InvLink
<1>16. InvTransfer'
  BY <1>2, <1>4, <1>6, SameTransfer
<1>17. StoredHonest'
  BY <1>2, <1>3 DEF IInv, StoredHonest
<1>18. NoTimerLeft'
  BY <1>2, <1>4 DEF IInv, NoTimerLeft
<1> QED
  BY <1>1, <1>7, <1>8, <1>9, <1>10, <1>11,
     <1>12, <1>13, <1>14, <1>15, <1>16, <1>17,
     <1>18 DEF IInv, Types

\* ReadRecording keeps the invariant.
LEMMA ReadRecordingInv ==
  ASSUME IInv, ReadRecording
  PROVE  IInv'
<1>1. work # Idle /\ work.step = "read" /\ UNCHANGED budget
  BY DEF ReadRecording, At
<1>2. TypeBudget'
  BY <1>1, Unchanged
<1>3. CASE ~Verifiable(work.call)
  BY <1>1, <1>2, <1>3, CopyFailedInv DEF ReadRecording, CopySteps
<1>4. CASE Verifiable(work.call)
  <2>1. work' = [work EXCEPT !.step = "begin"] /\ UNCHANGED <<gateway, pending, timers, stored, awaited>>
    BY <1>4 DEF ReadRecording, Goto
  <2>2. /\ work \in Works /\ work' \in Works /\ work' # Idle /\ work'.step = "begin"
        /\ UNCHANGED <<work.call, work.todo, work.sent, work.receipt, work.op>>
    BY <1>1, <2>1, Moved DEF CopySteps
  <2>3. UNCHANGED <<disk, exported, recorder, chain, wire, receipts, phone, exporter, deleter, deleted>>
    BY DEF ReadRecording, Unsent, storeVars, linkVars, desktopVars
  <2>4. TypeWork' /\ InvAwaited'
    BY <1>1, <2>1, <2>2, <2>3, Awaiting DEF TypeWork
  <2>5. InvWork'
    BY <1>1, <2>2, <2>3 DEF IInv, InvWork, FinishSteps, CopySteps
  <2>6. InvReceipt'
    BY <1>1, <2>2, <2>3 DEF IInv, InvReceipt
  <2>7. InvCovered'
    BY <1>1, <2>1, <2>2, <2>3 DEF IInv, InvCovered, Covered, Queued, CopySteps
  <2>8. InvTransfer'
    BY <2>1, <2>2, <2>3, SameTransfer
  <2> QED
    BY <1>1, <2>1, <2>3, <2>4, <2>5, <2>6, <2>7, <2>8, Unchanged DEF IInv, Types
<1> QED
  BY <1>3, <1>4

\* SendFails keeps the invariant.
LEMMA SendFailsInv ==
  ASSUME IInv, SendFails
  PROVE  IInv'
<1>1. work # Idle /\ work.step \in {"begin", "stream", "commit"} /\ CopyFailed /\ Unsent
  BY DEF SendFails, Sending, At
<1>2. TypeBudget'
  BY Unchanged DEF SendFails
<1> QED
  BY <1>1, <1>2, CopyFailedInv DEF CopySteps

\* ReceiptSettles keeps the invariant.
LEMMA ReceiptSettlesInv ==
  ASSUME IInv, ReceiptSettles
  PROVE  IInv'
<1>1. /\ work # Idle /\ work.step = "wait" /\ Unsent
      /\ \/ work.receipt = "stored" /\ CopyStored
         \/ CopyFailed
  BY DEF ReceiptSettles, At
<1>2. TypeBudget'
  BY Unchanged DEF ReceiptSettles
<1> QED
  BY <1>1, <1>2, CopyFailedInv, CopyStoredInv DEF CopySteps

\* ReceiptTimesOut keeps the invariant.
LEMMA ReceiptTimesOutInv ==
  ASSUME IInv, ReceiptTimesOut
  PROVE  IInv'
<1>1. work # Idle /\ work.step = "wait" /\ Unsent /\ CopyFailed
  BY DEF ReceiptTimesOut, TimesOut, At
<1>2. TypeBudget'
  BY FailureSpent DEF ReceiptTimesOut, TimesOut
<1> QED
  BY <1>1, <1>2, CopyFailedInv DEF CopySteps

\* SendTimesOut keeps the invariant.
LEMMA SendTimesOutInv ==
  ASSUME IInv, SendTimesOut
  PROVE  IInv'
<1>1. TypeBudget'
  BY FailureSpent DEF SendTimesOut
<1> QED
  BY <1>1, ProcessEndsInv DEF SendTimesOut

\* Send keeps the invariant.
LEMMA SendInv ==
  ASSUME IInv, Send
  PROVE  IInv'
<1>1. /\ TypeDisk' /\ TypeGateway' /\ TypePending' /\ TypeChain' /\ TypePhone'
      /\ TypeDesktop' /\ TypeBudget' /\ InvFinishing' /\ InvManifest' /\ InvDeleter'
      /\ InvExporter' /\ StoredHonest' /\ NoTimerLeft' /\ DeletedStaysDeleted'
  BY Unchanged DEF Send, storeVars, desktopVars
<1>2. /\ work # Idle /\ work.step \in {"begin", "stream", "commit"} /\ gateway.connected
      /\ Len(wire) < WireSize /\ wire' = Append(wire, [frame |-> work.step, call |-> work.call])
      /\ UNCHANGED <<recorder, gateway, pending, timers, chain, awaited, receipts, phone>>
  BY DEF Send, Sending, At, Refused, OnLine, storeVars
<1>3. work \in Works /\ work.call \in Calls /\ work.sent \in 0..Chunks
  BY <1>2, WorkFields DEF IInv, InvWork, Types, TypeWork, CopySteps
<1>4. /\ work.step = "begin" => work.sent = 0
      /\ work.step = "stream" => work.sent < Chunks
  BY <1>2, <1>3 DEF IInv, InvWork, InvTransfer
<1>5. /\ work' \in Works /\ work' # Idle
      /\ work'.call = work.call /\ work'.todo = work.todo /\ work'.receipt = work.receipt
      /\ \/ work.step = "begin" /\ work'.step = "stream" /\ work'.sent = work.sent
         \/ /\ work.step = "stream" /\ work'.sent = work.sent + 1
            /\ work'.step = IF work.sent + 1 = Chunks THEN "commit" ELSE "stream"
         \/ work.step = "commit" /\ work'.step = "wait"
  <2>1. CASE work.step = "begin"
    <3>1. work' = [work EXCEPT !.step = "stream"]
      BY <2>1 DEF Send, At, Goto
    <3> QED
      BY <1>2, <2>1, <3>1, Moved DEF CopySteps
  <2>2. CASE work.step = "stream"
    <3>1. PICK s : s = IF work.sent + 1 = Chunks THEN "commit" ELSE "stream"
      OBVIOUS
    <3>2. s \in CopySteps
      BY <3>1 DEF CopySteps
    <3>3. work' = [work EXCEPT !.sent = @ + 1, !.step = s]
      BY <2>2, <3>1 DEF Send, At, Goto
    <3>4. /\ work' \in Works /\ work'.call = work.call /\ work'.todo = work.todo
          /\ work'.receipt = work.receipt /\ work'.sent = work.sent + 1 /\ work'.step = s
      BY <1>3, <1>4, <2>2, <3>2, <3>3, SendingWork
    <3>5. work' # Idle
      BY <3>4, WorkFields
    <3> QED
      BY <2>2, <3>1, <3>4, <3>5
  <2>3. CASE work.step = "commit"
    <3>1. work' = [work EXCEPT !.step = "wait"]
      BY <2>3 DEF Send, At, Goto
    <3> QED
      BY <1>2, <2>3, <3>1, Moved DEF CopySteps
  <2> QED
    BY <1>2, <2>1, <2>2, <2>3
<1>6. /\ wire \in Seq(Frames) /\ wire' \in Seq(Frames) /\ Len(wire) \in Nat
      /\ Len(wire') = Len(wire) + 1 /\ \A i \in 1..Len(wire) : wire'[i] = wire[i]
      /\ wire'[Len(wire) + 1].frame = work.step
  <2>1. PICK m : m = [frame |-> work.step, call |-> work.call]
    OBVIOUS
  <2>2. m \in Frames /\ m.frame = work.step
    BY <1>2, <1>3, <2>1 DEF Frames
  <2>3. wire \in Seq(Frames) /\ wire' = Append(wire, m)
    BY <1>2, <2>1 DEF IInv, Types, TypeLink
  <2>4. wire'[Len(wire) + 1] = m
    BY <2>2, <2>3, AppendFacts
  <2> QED
    BY <2>2, <2>3, <2>4, AppendFacts
<1>7. TypeWork'
  BY <1>5 DEF IInv, Types, TypeWork
<1>8. TypeLink'
  BY <1>2, <1>6, Bounds DEF IInv, Types, TypeLink
<1>9. InvAwaited'
  BY <1>2, <1>5, Awaiting
<1>10. InvWork'
  BY <1>2, <1>3, <1>5 DEF IInv, InvWork, FinishSteps, CopySteps
<1>11. InvReceipt'
  BY <1>2, <1>5 DEF IInv, InvReceipt
<1>12. InvCovered'
  BY <1>2, <1>5 DEF IInv, InvCovered, Covered, Queued, CopySteps
<1>13. InvLink'
  BY <1>2 DEF IInv, InvLink
<1>14. InvTransfer'
  <2>0. PICK n \in Nat : n = Len(wire)
    BY <1>6
  <2>1. /\ n \in Nat /\ Len(wire') = n + 1 /\ wire'[n + 1].frame = work.step
        /\ \A i \in 1..n : wire'[i] = wire[i]
    BY <1>6, <2>0
  <2>2. /\ \A i \in 2..n : wire[i].frame # "begin" => wire[i - 1].frame # "commit"
        /\ \A j \in 1..n : Streams(1, j) => phone.rx.got + j <= Chunks
        /\ \A i, j \in 1..n : wire[i].frame = "begin" /\ Streams(i + 1, j) => j - i <= Chunks
        /\ work.step \in {"stream", "commit"} =>
             /\ n > 0 => wire[n].frame # "commit"
             /\ Streams(1, n) => phone.rx.got + n = work.sent
             /\ \A i \in 1..n : wire[i].frame = "begin" /\ Streams(i + 1, n) => n - i = work.sent
    BY <1>2, <2>0 DEF IInv, InvTransfer
  <2>3. /\ Chunks \in Nat /\ Chunks > 0 /\ phone.rx.got \in 0..Chunks /\ phone'.rx = phone.rx
    BY <1>2, Bounds, PhoneFields DEF IInv, Types, TypePhone
  <2>4. ASSUME NEW i \in Nat, NEW j \in 1..n, i > 0
        PROVE  Streams(i, j)' <=> Streams(i, j)
    BY <2>1, <2>4 DEF Streams
  <2>5. ASSUME NEW i \in 1..(n + 1)
        PROVE  Streams(i, n + 1)' <=> Streams(i, n) /\ work.step = "stream"
    <3>1. ASSUME NEW k \in i..n
          PROVE  wire'[k] = wire[k]
      BY <2>1
    <3>2. i..(n + 1) = (i..n) \cup {n + 1}
      BY <2>1
    <3> QED
      BY <2>1, <3>1, <3>2 DEF Streams
  <2>6. \A i \in 2..(n + 1) : wire'[i].frame # "begin" => wire'[i - 1].frame # "commit"
    BY <1>2, <2>1, <2>2
  <2>7. \A j \in 1..(n + 1) : Streams(1, j)' => phone'.rx.got + j <= Chunks
    <3>1. Streams(1, n + 1)' => phone.rx.got + (n + 1) <= Chunks
      BY <1>3, <1>4, <2>1, <2>2, <2>3, <2>5
    <3>2. ASSUME NEW j \in 1..n, Streams(1, j)'
          PROVE  phone.rx.got + j <= Chunks
      BY <2>2, <2>4, <3>2
    <3> QED
      BY <2>1, <2>3, <3>1, <3>2
  <2>8. ASSUME NEW i \in 1..(n + 1), NEW j \in 1..(n + 1), wire'[i].frame = "begin", Streams(i + 1, j)'
        PROVE  j - i <= Chunks
    <3>1. CASE j <= i
      BY <2>1, <2>3, <3>1
    <3>2. CASE i < j /\ j <= n
      BY <2>1, <2>2, <2>4, <2>8, <3>2
    <3>3. CASE i < j /\ j = n + 1
      <4>1. i \in 1..n /\ i + 1 \in 1..(n + 1) /\ wire[i].frame = "begin"
        BY <2>1, <2>8, <3>3
      <4>2. Streams(i + 1, n) /\ work.step = "stream"
        BY <2>5, <2>8, <3>3, <4>1
      <4>3. n - i = work.sent
        BY <2>2, <4>1, <4>2
      <4> QED
        BY <1>3, <1>4, <2>1, <2>3, <3>3, <4>2, <4>3
    <3> QED
      BY <2>1, <3>1, <3>2, <3>3
  <2>9. ASSUME work'.step \in {"stream", "commit"}
        PROVE  /\ work'.step = "stream" => work'.sent < Chunks
               /\ wire'[n + 1].frame # "commit"
               /\ Streams(1, n + 1)' => phone'.rx.got + (n + 1) = work'.sent
               /\ \A i \in 1..(n + 1) :
                    wire'[i].frame = "begin" /\ Streams(i + 1, n + 1)' => (n + 1) - i = work'.sent
    <3>1. CASE work.step = "begin"
      <4>1. \A i \in 1..n : ~Streams(i + 1, n + 1)'
        BY <2>1, <2>5, <3>1
      <4>2. ~Streams(1, n + 1)' /\ work'.sent = 0 /\ work'.step = "stream"
        BY <1>4, <1>5, <2>1, <2>5, <3>1
      <4> QED
        BY <2>1, <2>3, <3>1, <4>1, <4>2
    <3>2. CASE work.step = "stream"
      <4>1. Streams(1, n + 1)' => phone'.rx.got + (n + 1) = work'.sent
        BY <1>3, <1>5, <2>1, <2>2, <2>3, <2>5, <3>2, SMTT(30)
      <4>2. ASSUME NEW i \in 1..(n + 1), wire'[i].frame = "begin", Streams(i + 1, n + 1)'
            PROVE  (n + 1) - i = work'.sent
        <5>1. i \in 1..n /\ wire[i].frame = "begin"
          BY <2>1, <3>2, <4>2
        <5>2. i + 1 \in 1..(n + 1)
          BY <2>1, <5>1
        <5>3. Streams(i + 1, n)
          BY <2>5, <4>2, <5>2
        <5>4. n - i = work.sent
          BY <2>2, <3>2, <5>1, <5>3
        <5> QED
          BY <1>5, <2>1, <3>2, <5>1, <5>4
      <4>3. work'.step = "stream" => work'.sent < Chunks
        BY <1>3, <1>4, <1>5, <2>3, <3>2
      <4> QED
        BY <2>1, <3>2, <4>1, <4>2, <4>3
    <3> QED
      BY <1>5, <2>9, <3>1, <3>2
  <2>10. \A i, j \in 1..(n + 1) : wire'[i].frame = "begin" /\ Streams(i + 1, j)' => j - i <= Chunks
    BY <2>8
  <2> QED
    BY <2>1, <2>6, <2>7, <2>9, <2>10 DEF InvTransfer
<1> QED
  BY <1>1, <1>7, <1>8, <1>9, <1>10, <1>11,
     <1>12, <1>13, <1>14 DEF IInv, Types

\* Receive, when the gateway survives the receipt.
LEMMA ReceiptTakenInv ==
  ASSUME IInv, Receive, ~ProcessEnds
  PROVE  IInv'
<1>1. /\ TypeDisk' /\ TypeGateway' /\ TypePending' /\ TypeChain' /\ TypePhone'
      /\ TypeDesktop' /\ TypeBudget' /\ InvFinishing' /\ InvManifest' /\ InvDeleter'
      /\ InvExporter' /\ StoredHonest' /\ NoTimerLeft' /\ DeletedStaysDeleted'
  BY Unchanged DEF Receive, storeVars, desktopVars
<1>2. /\ receipts # <<>> /\ receipts' = Tail(receipts)
      /\ work' = IF ReceiptRead(Head(receipts))
                 THEN [work EXCEPT !.receipt = Head(receipts).event] ELSE work
      /\ UNCHANGED <<recorder, gateway, pending, timers, chain, awaited, wire, phone>>
  BY DEF Receive, storeVars
<1>3. /\ Head(receipts) \in Receipts /\ Head(receipts) = receipts[1] /\ 1 \in DOMAIN receipts
      /\ Tail(receipts) \in Seq(Receipts)
      /\ \A i \in DOMAIN Tail(receipts) : /\ i + 1 \in DOMAIN receipts
                                          /\ Tail(receipts)[i] = receipts[i + 1]
  <2>1. receipts \in Seq(Receipts)
    BY DEF IInv, Types, TypeLink
  <2> QED
    BY <1>2, <2>1, TailFacts
<1>4. \/ UNCHANGED work
      \/ /\ work \in Works /\ work' \in Works /\ work' # Idle
         /\ UNCHANGED <<work.call, work.step, work.todo, work.sent, work.op>>
         /\ work'.receipt = Head(receipts).event /\ Head(receipts).call = work.call
  <2>1. CASE ~ReceiptRead(Head(receipts))
    BY <1>2, <2>1
  <2>2. CASE ReceiptRead(Head(receipts))
    <3>1. work \in Works /\ Head(receipts).call = work.call
      BY <2>2 DEF ReceiptRead, Listening, Sending, At, IInv, Types, TypeWork
    <3>2. work' = [work EXCEPT !.receipt = Head(receipts).event]
      BY <1>2, <2>2
    <3>3. Head(receipts).event \in {"none", "stored", "failed"}
      BY <1>3 DEF Receipts
    <3>4. work' \in Works
      BY <3>1, <3>2, <3>3, WorkFields
    <3>5. /\ UNCHANGED <<work.call, work.step, work.todo, work.sent, work.op>>
          /\ work'.receipt = Head(receipts).event
      BY <3>1, <3>2 DEF Works
    <3> QED
      BY <3>1, <3>4, <3>5, WorkFields
  <2> QED
    BY <2>1, <2>2
<1>5. work' # Idle => work # Idle
  BY <1>4, WorkFields
<1>6. TypeWork'
  BY <1>4 DEF IInv, Types, TypeWork
<1>7. TypeLink'
  BY <1>2, <1>3 DEF IInv, Types, TypeLink
<1>8. InvAwaited'
  <2>1. CASE work = Idle
    BY <1>2, <1>4, <2>1, Unchanged, WorkFields
  <2>2. CASE work # Idle
    BY <1>2, <1>4, <2>2, Awaiting, Unchanged
  <2> QED
    BY <2>1, <2>2
<1>9. InvWork'
  BY <1>2, <1>4, <1>5 DEF IInv, InvWork
<1>10. InvReceipt'
  BY <1>2, <1>3, <1>4, <1>5 DEF IInv, InvReceipt
<1>11. InvCovered'
  BY <1>2, <1>4, <1>5, WorkFields DEF IInv, InvCovered, Covered, Queued
<1>12. InvLink'
  BY <1>2, <1>3 DEF IInv, InvLink
<1>13. InvTransfer'
  BY <1>2, <1>4, <1>5, SameTransfer, WorkFields, Unchanged
<1> QED
  BY <1>1, <1>6, <1>7, <1>8, <1>9, <1>10,
     <1>11, <1>12, <1>13 DEF IInv, Types

\* Receive keeps the invariant.
LEMMA ReceiveInv ==
  ASSUME IInv, Receive
  PROVE  IInv'
<1>1. TypeBudget'
  BY Unchanged DEF Receive
<1>2. CASE ProcessEnds
  BY <1>1, <1>2, ProcessEndsInv
<1>3. CASE ~ProcessEnds
  BY <1>3, ReceiptTakenInv
<1> QED
  BY <1>2, <1>3

\* TimerFires keeps the invariant.
LEMMA TimerFiresInv ==
  ASSUME IInv, NEW c \in Calls, TimerFires(c)
  PROVE  IInv'
<1>1. /\ TypeDisk' /\ TypeGateway' /\ TypeWork' /\ TypeLink' /\ TypePhone' /\ TypeDesktop'
      /\ TypeBudget' /\ InvWork' /\ InvManifest' /\ InvReceipt' /\ InvLink' /\ InvTransfer'
      /\ InvDeleter' /\ InvExporter' /\ StoredHonest' /\ DeletedStaysDeleted'
  BY Unchanged DEF TimerFires, storeVars, linkVars, desktopVars
<1>2. /\ timers' = timers \ {c}
      /\ UNCHANGED <<recorder, gateway, pending, work, awaited, stored>>
  BY DEF TimerFires, storeVars
<1>3. IF gateway.connected /\ gateway.supported THEN chain' = Append(chain, Copying(c))
                                                ELSE UNCHANGED chain
  BY DEF TimerFires, Queue, OnLine
<1>4. TypeChain' /\ InvAwaited' /\ InvFinishing' /\ \A k : Queued(k) => Queued(k)'
  <2>1. CASE UNCHANGED chain
    BY <1>2, <2>1, Unchanged DEF Queued
  <2>2. CASE chain' = Append(chain, Copying(c))
    BY <1>2, <2>2, ChainGrows, OperationKinds
  <2> QED
    BY <1>3, <2>1, <2>2
<1>5. TypePending'
  BY <1>2 DEF IInv, Types, TypePending
<1>6. TypeChain'
  BY <1>4
<1>7. InvAwaited'
  BY <1>4
<1>8. InvFinishing'
  BY <1>4
<1>9. InvCovered'
  <2>1. ASSUME gateway.state = "running", gateway.supported, NEW k \in pending
        PROVE  Covered(k)'
    <3>1. CASE k = c
      <4>1. gateway.connected
        BY <2>1 DEF IInv, InvLink
      <4>2. chain' = Append(chain, Copying(c))
        BY <1>3, <2>1, <4>1
      <4> QED
        BY <3>1, <4>2, ChainGrows, OperationKinds DEF Covered
    <3>2. CASE k # c
      BY <1>2, <1>4, <2>1, <3>2 DEF IInv, InvCovered, Covered
    <3> QED
      BY <3>1, <3>2
  <2> QED
    BY <1>2, <2>1 DEF InvCovered
<1>10. NoTimerLeft'
  BY <1>2 DEF IInv, NoTimerLeft
<1> QED
  BY <1>1, <1>5, <1>6, <1>7, <1>8, <1>9,
     <1>10 DEF IInv, Types

\* SyncRecording keeps the invariant.
LEMMA SyncRecordingInv ==
  ASSUME IInv, NEW c \in Calls, SyncRecording(c)
  PROVE  IInv'
<1>1. /\ TypeDisk' /\ TypeGateway' /\ TypePending' /\ TypeWork' /\ TypeLink' /\ TypePhone'
      /\ TypeDesktop' /\ InvWork' /\ InvManifest' /\ InvReceipt' /\ InvLink' /\ InvTransfer'
      /\ InvDeleter' /\ InvExporter' /\ StoredHonest' /\ NoTimerLeft' /\ DeletedStaysDeleted'
  BY Unchanged DEF SyncRecording, storeVars, linkVars, desktopVars
<1>2. UNCHANGED <<recorder, gateway, pending, timers, work, awaited>>
  BY DEF SyncRecording, storeVars
<1>3. TypeChain' /\ InvAwaited' /\ InvFinishing' /\ \A k : Queued(k) => Queued(k)'
  BY <1>2, ChainGrows, OperationKinds DEF SyncRecording, Queue
<1>4. TypeBudget'
  BY BudgetSpent DEF IInv, Types, TypeBudget, SyncRecording
<1>5. TypeChain'
  BY <1>3
<1>6. InvAwaited'
  BY <1>3
<1>7. InvFinishing'
  BY <1>3
<1>8. InvCovered'
  BY <1>2, <1>3, StillCovered
<1> QED
  BY <1>1, <1>4, <1>5, <1>6, <1>7, <1>8 DEF IInv, Types

-----------------------------------------------------------------------------
(* The phone *)

\* What the phone makes of the first frame of the wire.
LEMMA FrameTaken ==
  ASSUME IInv, wire # <<>>, wire' = Tail(wire), UNCHANGED <<work, gateway>>,
         NEW m, m = Head(wire),
         \/ m.frame \in {"begin", "commit"} /\ phone'.rx.got = 0
         \/ m.frame = "stream" /\ phone'.rx.got = phone.rx.got + 1
  PROVE  InvTransfer'
<1>1. PICK n \in Nat : n = Len(wire)
  BY AppendFacts DEF IInv, Types, TypeLink
<1>2. /\ n > 0 /\ Len(wire') = n - 1 /\ m = wire[1]
      /\ \A i \in 1..(n - 1) : wire'[i] = wire[i + 1]
  BY <1>1, TailFacts DEF IInv, Types, TypeLink
<1>3. Chunks \in Nat /\ phone.rx.got \in Nat
  <2>1. phone \in Phones
    BY DEF IInv, Types, TypePhone
  <2>2. phone.rx.got \in 0..Chunks
    BY <2>1, PhoneFields
  <2> QED
    BY <2>2, Bounds
<1>4. /\ \A i \in 2..n : wire[i].frame # "begin" => wire[i - 1].frame # "commit"
      /\ \A j \in 1..n : Streams(1, j) => phone.rx.got + j <= Chunks
      /\ \A i, j \in 1..n : wire[i].frame = "begin" /\ Streams(i + 1, j) => j - i <= Chunks
      /\ work # Idle /\ work.step \in {"stream", "commit"} /\ gateway.connected =>
           /\ work.step = "stream" => work.sent < Chunks
           /\ n > 0 => wire[n].frame # "commit"
           /\ Streams(1, n) => phone.rx.got + n = work.sent
           /\ \A i \in 1..n : wire[i].frame = "begin" /\ Streams(i + 1, n) => n - i = work.sent
  BY <1>1 DEF IInv, InvTransfer
<1>5. ASSUME NEW i \in Nat, i > 0, NEW j \in 0..(n - 1)
      PROVE  Streams(i, j)' <=> Streams(i + 1, j + 1)
  <2>1. ASSUME Streams(i, j)', NEW k \in (i + 1)..(j + 1)
        PROVE  wire[k].frame = "stream"
    <3>1. k - 1 \in i..j /\ k - 1 \in 1..(n - 1) /\ (k - 1) + 1 = k
      BY <1>2, <1>5
    <3> QED
      BY <1>2, <2>1, <3>1 DEF Streams
  <2>2. ASSUME Streams(i + 1, j + 1), NEW k \in i..j
        PROVE  wire'[k].frame = "stream"
    <3>1. k + 1 \in (i + 1)..(j + 1) /\ k \in 1..(n - 1)
      BY <1>2, <1>5
    <3> QED
      BY <1>2, <2>2, <3>1 DEF Streams
  <2> QED
    BY <2>1, <2>2 DEF Streams
\* The chunks at the head of the wire continue what the phone has got now.
<1>6. ASSUME NEW j \in 0..(n - 1), Streams(1, j)'
      PROVE  \/ j = 0 /\ m.frame = "commit"
             \/ m.frame = "begin" /\ Streams(2, j + 1) /\ phone'.rx.got = 0
             \/ m.frame = "stream" /\ Streams(1, j + 1) /\ phone'.rx.got = phone.rx.got + 1
  <2>1. Streams(2, j + 1)
    BY <1>5, <1>6
  <2>2. CASE m.frame = "stream"
    <3>1. 1..(j + 1) = {1} \cup 2..(j + 1)
      BY <1>6
    <3> QED
      BY <1>2, <2>1, <2>2, <3>1 DEF Streams
  <2>3. CASE m.frame = "commit" /\ j > 0
    <3>1. 2 \in 2..(j + 1) /\ 2 \in 2..n /\ 2 - 1 = 1
      BY <1>2, <1>6, <2>3
    <3>2. wire[2].frame = "stream"
      BY <2>1, <3>1 DEF Streams
    <3>3. wire[1].frame # "commit"
      BY <1>4, <3>1, <3>2
    <3> QED
      BY <1>2, <2>3, <3>3
  <2> QED
    BY <2>1, <2>2, <2>3
<1>7. \A i \in 2..(n - 1) : wire'[i].frame # "begin" => wire'[i - 1].frame # "commit"
  <2>1. ASSUME NEW i \in 2..(n - 1)
        PROVE  wire'[i].frame # "begin" => wire'[i - 1].frame # "commit"
    <3>1. i + 1 \in 2..n /\ i \in 1..(n - 1) /\ i - 1 \in 1..(n - 1) /\ (i + 1) - 1 = i /\ (i - 1) + 1 = i
      BY <1>2
    <3>2. wire[i + 1].frame # "begin" => wire[i].frame # "commit"
      BY <1>4, <3>1
    <3>3. wire'[i] = wire[i + 1] /\ wire'[i - 1] = wire[i]
      BY <1>2, <3>1
    <3> QED
      BY <3>2, <3>3
  <2> QED
    BY <2>1
<1>8. ASSUME NEW j \in 1..(n - 1), Streams(1, j)'
      PROVE  phone'.rx.got + j <= Chunks
  <2>1. CASE m.frame = "begin" /\ Streams(2, j + 1) /\ phone'.rx.got = 0
    <3>1. 1 \in 1..n /\ j + 1 \in 1..n /\ 1 + 1 = 2 /\ (j + 1) - 1 = j
      BY <1>2
    <3> QED
      BY <1>2, <1>3, <1>4, <2>1, <3>1
  <2>2. CASE m.frame = "stream" /\ Streams(1, j + 1) /\ phone'.rx.got = phone.rx.got + 1
    <3>1. phone.rx.got + (j + 1) <= Chunks
      BY <1>2, <1>4, <2>2
    <3> QED
      BY <1>3, <2>2, <3>1
  <2> QED
    BY <1>6, <1>8, <2>1, <2>2
<1>9. ASSUME NEW i \in 1..(n - 1), NEW j \in 1..(n - 1), wire'[i].frame = "begin", Streams(i + 1, j)'
      PROVE  j - i <= Chunks
  <2>1. wire[i + 1].frame = "begin" /\ Streams((i + 1) + 1, j + 1)
    BY <1>2, <1>5, <1>9
  <2>2. (j + 1) - (i + 1) <= Chunks
    BY <1>2, <1>4, <2>1
  <2> QED
    BY <1>3, <2>2
<1>10. ASSUME work # Idle, work.step \in {"stream", "commit"}, gateway.connected
       PROVE  /\ work.step = "stream" => work.sent < Chunks
              /\ n - 1 > 0 => wire'[n - 1].frame # "commit"
              /\ Streams(1, n - 1)' => phone'.rx.got + (n - 1) = work.sent
              /\ \A i \in 1..(n - 1) :
                   wire'[i].frame = "begin" /\ Streams(i + 1, n - 1)' => (n - 1) - i = work.sent
  <2>1. n - 1 > 0 => wire'[n - 1].frame # "commit"
    <3>1. n - 1 > 0 => n - 1 \in 1..(n - 1) /\ (n - 1) + 1 = n
      OBVIOUS
    <3> QED
      BY <1>2, <1>4, <1>10, <3>1
  <2>2. ASSUME Streams(1, n - 1)'
        PROVE  phone'.rx.got + (n - 1) = work.sent
    <3>1. n - 1 \in 0..(n - 1) /\ (n - 1) + 1 = n /\ 1 + 1 = 2
      BY <1>2
    <3>2. CASE n - 1 = 0 /\ m.frame = "commit"
      BY <1>2, <1>4, <1>10, <3>2
    <3>3. CASE m.frame = "begin" /\ Streams(2, n) /\ phone'.rx.got = 0
      BY <1>2, <1>4, <1>10, <3>1, <3>3
    <3>4. CASE m.frame = "stream" /\ Streams(1, n) /\ phone'.rx.got = phone.rx.got + 1
      <4>1. phone.rx.got + n = work.sent
        BY <1>4, <1>10, <3>4
      <4>2. \A a, b \in Nat : (a + 1) + (b - 1) = a + b
        OBVIOUS
      <4>3. (phone.rx.got + 1) + (n - 1) = phone.rx.got + n
        BY <1>1, <1>3, <4>2
      <4> QED
        BY <3>4, <4>1, <4>3
    <3> QED
      BY <1>6, <2>2, <3>1, <3>2, <3>3, <3>4
  <2>3. ASSUME NEW i \in 1..(n - 1), wire'[i].frame = "begin", Streams(i + 1, n - 1)'
        PROVE  (n - 1) - i = work.sent
    <3>1. i + 1 \in 1..n /\ n - 1 \in 0..(n - 1) /\ (n - 1) + 1 = n
      BY <1>2
    <3>2. wire[i + 1].frame = "begin" /\ Streams((i + 1) + 1, n)
      BY <1>2, <1>5, <2>3, <3>1
    <3>3. n - (i + 1) = work.sent
      BY <1>4, <1>10, <3>1, <3>2
    <3> QED
      BY <3>3
  <2> QED
    BY <1>4, <1>10, <2>1, <2>2, <2>3
<1> QED
  BY <1>2, <1>7, <1>8, <1>9, <1>10 DEF InvTransfer

\* PhoneReads, when the phone takes the frame.
LEMMA PhoneTakesInv ==
  ASSUME IInv, PhoneReads, wire' = Tail(wire), UNCHANGED <<gateway, chain, recorder>>,
         Taken(Head(wire))
  PROVE  IInv'
<1>1. /\ TypeDisk' /\ TypeGateway' /\ TypePending' /\ TypeChain' /\ TypeWork' /\ TypeDesktop'
      /\ InvAwaited' /\ InvFinishing' /\ InvWork' /\ InvManifest' /\ InvCovered'
      /\ InvDeleter' /\ InvExporter' /\ NoTimerLeft' /\ DeletedStaysDeleted'
  BY Unchanged DEF PhoneReads, desktopVars
<1>2. /\ wire # <<>> /\ UNCHANGED <<gateway, work, stored>>
  BY DEF PhoneReads
<1>3. /\ Head(wire) \in Frames /\ Head(wire) = wire[1] /\ Len(wire) \in Nat /\ Len(wire) > 0
      /\ Tail(wire) \in Seq(Frames) /\ Len(Tail(wire)) = Len(wire) - 1
      /\ wire \in Seq(Frames) /\ Len(wire) <= WireSize /\ receipts \in Seq(Receipts)
  BY <1>2, TailFacts DEF IInv, Types, TypeLink
<1>4. PICK m : m = Head(wire) /\ m \in Frames /\ m.frame \in {"begin", "stream", "commit"} /\ m.call \in Calls
  BY <1>3 DEF Frames
<1>5. phone \in Phones /\ phone.rx \in Transfers /\ phone.rx.got \in 0..Chunks
  BY PhoneFields DEF IInv, Types, TypePhone
<1>6. gateway.connected
  BY <1>2 DEF IInv, InvLink
<1>7. ~LinkGoes(gateway.state)
  <2>1. gateway \in Gateways /\ gateway.state \in {"running", "stopping", "stopped", "down"}
    BY DEF IInv, Types, TypeGateway, Gateways
  <2>2. LinkGoes(gateway.state) => gateway'.connected = FALSE
    BY <2>1, LinkGone
  <2> QED
    BY <1>6, <1>2, <2>1, <2>2
<1>8. \/ /\ m.frame = "begin"
         /\ phone' = [phone EXCEPT !.rx = [call |-> m.call, got |-> 0]]
         /\ UNCHANGED <<receipts, budget>>
      \/ /\ m.frame = "stream" /\ phone' = [phone EXCEPT !.rx.got = @ + 1]
         /\ UNCHANGED <<receipts, budget>>
      \/ /\ m.frame = "commit"
         /\ phone' = [phone EXCEPT !.rx = NoTransfer, !.published = @ \cup {m.call}]
         /\ receipts' = Append(receipts, [event |-> "stored", call |-> m.call])
         /\ UNCHANGED budget
      \/ /\ m.frame = "commit" /\ phone' = [phone EXCEPT !.rx = NoTransfer]
         /\ receipts' = Append(receipts, [event |-> "failed", call |-> m.call])
         /\ MayFail \/ UNCHANGED budget
  BY <1>7, <1>4 DEF PhoneReads
<1>9. /\ TypePhone' /\ TypeLink' /\ InvReceipt' /\ StoredHonest' /\ TypeBudget'
      /\ \/ m.frame \in {"begin", "commit"} /\ phone'.rx.got = 0
         \/ m.frame = "stream" /\ phone'.rx.got = phone.rx.got + 1
  <2>0. wire' \in Seq(Frames) /\ Len(wire') <= WireSize
    BY <1>3, Bounds
  <2>1. CASE m.frame = "begin"
    <3>1. /\ phone' = [phone EXCEPT !.rx = [call |-> m.call, got |-> 0]]
          /\ UNCHANGED <<receipts, budget>>
      BY <1>8, <2>1
    <3>2. PICK r \in Transfers : r = [call |-> m.call, got |-> 0] /\ r.got = 0
      <4>1. [call |-> m.call, got |-> 0] \in Transfers
        BY <1>4, Bounds DEF Transfers
      <4> QED
        BY <4>1
    <3>3. phone' = [phone EXCEPT !.rx = r]
      BY <3>1, <3>2
    <3>4. phone' \in Phones /\ phone'.rx = r /\ phone'.published = phone.published
      BY <1>5, <3>3, PhoneFields
    <3> QED
      BY <1>2, <1>3, <2>0, <2>1, <3>1, <3>2, <3>4, Unchanged
      DEF IInv, TypePhone, TypeLink, InvReceipt, StoredHonest
  <2>2. CASE m.frame = "stream"
    <3>1. phone' = [phone EXCEPT !.rx.got = @ + 1] /\ UNCHANGED <<receipts, budget>>
      BY <1>8, <2>2
    <3>2. phone.rx.got + 1 \in 0..Chunks
      <4>1. 1 \in 1..Len(wire) /\ Streams(1, 1)
        BY <1>3, <1>4, <2>2 DEF Streams
      <4>2. phone.rx.got + 1 <= Chunks
        BY <4>1 DEF IInv, InvTransfer
      <4> QED
        BY <1>5, <4>2, Bounds
    <3>3. PICK r : r = [phone.rx EXCEPT !.got = phone.rx.got + 1]
      OBVIOUS
    <3>4. r \in Transfers /\ r.got = phone.rx.got + 1
      BY <1>5, <3>2, <3>3 DEF Transfers
    <3>5. phone' = [phone EXCEPT !.rx = r]
      BY <3>1, <3>3
    <3>6. phone' \in Phones /\ phone'.rx = r /\ phone'.published = phone.published
      BY <1>5, <3>4, <3>5, PhoneFields
    <3> QED
      BY <1>2, <1>3, <2>0, <2>2, <3>1, <3>4, <3>6, Unchanged
      DEF IInv, TypePhone, TypeLink, InvReceipt, StoredHonest
  <2>3. CASE m.frame = "commit"
    <3>1. PICK r \in Receipts :
            /\ receipts' = Append(receipts, r)
            /\ phone' \in Phones /\ phone'.rx.got = 0
            /\ phone.published \subseteq phone'.published
            /\ r.event = "stored" => r.call \in phone'.published
            /\ MayFail \/ UNCHANGED budget
      <4>1. CASE /\ phone' = [phone EXCEPT !.rx = NoTransfer, !.published = @ \cup {m.call}]
                 /\ receipts' = Append(receipts, [event |-> "stored", call |-> m.call])
                 /\ UNCHANGED budget
        <5>1. PICK r : r = [event |-> "stored", call |-> m.call]
          OBVIOUS
        <5>2. r \in Receipts /\ r.call = m.call
          BY <1>4, <5>1 DEF Receipts
        <5>3. /\ phone' \in Phones /\ phone'.rx.got = 0
              /\ phone'.published = phone.published \cup {m.call}
          <6>1. NoTransfer \in Transfers /\ NoTransfer.got = 0
            BY <1>5, PhoneFields
          <6>2. m.call \in Calls
            BY <1>4
          <6>3. PICK a : a = [phone EXCEPT !.rx = NoTransfer]
            OBVIOUS
          <6>4. a \in Phones /\ a.rx = NoTransfer /\ a.published = phone.published
            BY <1>5, <6>1, <6>3, PhoneFields
          <6>5. phone' = [a EXCEPT !.published = phone.published \cup {m.call}]
            BY <4>1, <6>3, <6>4
          <6> QED
            BY <6>1, <6>2, <6>4, <6>5 DEF Phones
        <5> QED
          BY <4>1, <5>1, <5>2, <5>3
      <4>2. CASE /\ phone' = [phone EXCEPT !.rx = NoTransfer]
                 /\ receipts' = Append(receipts, [event |-> "failed", call |-> m.call])
                 /\ MayFail \/ UNCHANGED budget
        <5>1. PICK r : r = [event |-> "failed", call |-> m.call]
          OBVIOUS
        <5>2. r \in Receipts /\ r.event = "failed"
          BY <1>4, <5>1 DEF Receipts
        <5>3. phone' \in Phones /\ phone'.rx.got = 0 /\ phone'.published = phone.published
          BY <1>5, <4>2, PhoneFields
        <5> QED
          BY <4>2, <5>1, <5>2, <5>3
      <4> QED
        BY <1>8, <2>3, <4>1, <4>2
    <3>2. TypeBudget'
      BY <3>1, FailureSpent
    <3>3. receipts' \in Seq(Receipts) /\ \A i \in DOMAIN receipts' :
            receipts'[i] = r \/ (i \in DOMAIN receipts /\ receipts'[i] = receipts[i])
      BY <1>3, <3>1, AppendFacts
    <3>4. InvReceipt'
      BY <1>2, <3>1, <3>3 DEF IInv, InvReceipt
    <3> QED
      BY <1>2, <2>0, <2>3, <3>1, <3>2, <3>3, <3>4 DEF IInv, TypePhone, TypeLink, StoredHonest
  <2> QED
    BY <1>4, <2>1, <2>2, <2>3
<1>10. TypeLink'
  BY <1>9
<1>11. TypePhone'
  BY <1>9
<1>12. TypeBudget'
  BY <1>9
<1>13. InvReceipt'
  BY <1>9
<1>14. InvLink'
  BY <1>6, <1>2 DEF IInv, InvLink
<1>15. InvTransfer'
  BY <1>2, <1>4, <1>9, FrameTaken
<1>16. StoredHonest'
  BY <1>9
<1> QED
  BY <1>1, <1>10, <1>11, <1>12, <1>13, <1>14,
     <1>15, <1>16 DEF IInv, Types

\* PhoneReads keeps the invariant.
LEMMA PhoneReadsInv ==
  ASSUME IInv, PhoneReads
  PROVE  IInv'
<1>1. CASE Taken(Head(wire)) /\ wire' = Tail(wire) /\ UNCHANGED <<gateway, chain, recorder>>
  BY <1>1, PhoneTakesInv
<1>2. CASE /\ (~Taken(Head(wire)) /\ UNCHANGED budget) \/ (Head(wire).frame # "commit" /\ MayFail)
           /\ LinkGoes(gateway.state) /\ phone' = [phone EXCEPT !.rx = NoTransfer]
  <2>1. gateway.state \in {"running", "stopping", "stopped", "down"}
    BY DEF IInv, Types, TypeGateway, Gateways
  <2>2. TypeBudget'
    BY <1>2, FailureSpent
  <2>3. UNCHANGED <<disk, exported, pending, timers, work, awaited, desktopVars, stored>>
    BY DEF PhoneReads
  <2> QED
    BY <1>2, <2>1, <2>2, <2>3, LinkGoesInv
<1> QED
  BY <1>1, <1>2 DEF PhoneReads

-----------------------------------------------------------------------------
(* Exports and deletions *)

\* StartExport keeps the invariant.
LEMMA StartExportInv ==
  ASSUME IInv, NEW c \in Calls, StartExport(c)
  PROVE  IInv'
<1>1. /\ TypeDisk' /\ TypeGateway' /\ TypePending' /\ TypeChain' /\ TypeWork' /\ TypeLink'
      /\ TypePhone' /\ InvAwaited' /\ InvFinishing' /\ InvWork' /\ InvManifest'
      /\ InvReceipt' /\ InvCovered' /\ InvLink' /\ InvTransfer' /\ InvDeleter'
      /\ StoredHonest' /\ NoTimerLeft' /\ DeletedStaysDeleted'
  BY Unchanged DEF StartExport, storeVars, copyVars, linkVars
<1>2. exporter' = [call |-> c, at |-> "mkdir"] /\ UNCHANGED <<deleter, deleted>>
  BY DEF StartExport
<1>3. TypeDesktop'
  BY <1>2 DEF IInv, Types, TypeDesktop, Exporters
<1>4. TypeBudget'
  BY BudgetSpent DEF IInv, Types, TypeBudget, StartExport
<1>5. InvExporter'
  BY <1>2, Bounds DEF IInv, InvExporter
<1> QED
  BY <1>1, <1>3, <1>4, <1>5 DEF IInv, Types

\* ExportStep keeps the invariant.
LEMMA ExportStepInv ==
  ASSUME IInv, ExportStep
  PROVE  IInv'
<1>1. /\ TypeGateway' /\ TypePending' /\ TypeChain' /\ TypeWork' /\ TypeLink' /\ TypePhone'
      /\ TypeBudget' /\ InvAwaited' /\ InvFinishing' /\ InvWork' /\ InvManifest'
      /\ InvReceipt' /\ InvCovered' /\ InvLink' /\ InvTransfer' /\ StoredHonest'
      /\ NoTimerLeft'
  BY Unchanged DEF ExportStep, copyVars, linkVars
<1>2. /\ exporter.call # None
      /\ UNCHANGED <<disk, recorder, deleter, deleted>>
  BY DEF ExportStep
<1>3. PICK c \in Calls : c = exporter.call
  BY <1>2 DEF IInv, Types, TypeDesktop, Exporters
<1>4. /\ exporter.at \in {"mkdir", "copy", "compare", "unlink", "rename"}
      /\ exported \in [Calls -> Exports] /\ exported[c] \in Exports
  BY <1>2, <1>3 DEF IInv, InvExporter, Types, TypeDesktop, Exporters, TypeDisk
<1>5. \/ exporter' = [call |-> None, at |-> "none"]
      \/ /\ exporter' = [call |-> c, at |-> ExportOrder[exporter.at]]
         /\ exporter.at # "rename"
  BY <1>3, <1>4 DEF ExportStep, ExportOrder
<1>6. /\ exporter' \in Exporters
      /\ exporter'.call = None <=> exporter'.at = "none"
  BY <1>4, <1>5, Bounds DEF Exporters, ExportOrder
\* A file is made only of one that is there, a temporary one only of the recording's.
<1>7. \E e \in Exports :
        /\ exported' = [exported EXCEPT ![c] = e]
        /\ e.temp => exported[c].temp \/ disk[c].dir
        /\ e.file => exported[c].file \/ exported[c].temp
  <2>1. CASE ExportFinds(c)
    <3>1. PICK e : e = ExportMade(exporter.at, exported[c])
      OBVIOUS
    <3>2. exported' = [exported EXCEPT ![c] = e]
      BY <1>3, <2>1, <3>1 DEF ExportStep
    <3>3. CASE exporter.at = "mkdir"
      <4>1. e = [exported[c] EXCEPT !.dir = TRUE]
        BY <3>1, <3>3 DEF ExportMade
      <4>2. e \in Exports /\ e.temp = exported[c].temp /\ e.file = exported[c].file
        BY <1>4, <4>1 DEF Exports
      <4> QED
        BY <3>2, <4>2
    <3>4. CASE exporter.at = "copy"
      <4>1. e = [exported[c] EXCEPT !.temp = TRUE] /\ disk[c].dir
        BY <2>1, <3>1, <3>4 DEF ExportMade, ExportFinds
      <4>2. e \in Exports /\ e.file = exported[c].file
        BY <1>4, <4>1 DEF Exports
      <4> QED
        BY <3>2, <4>1, <4>2
    <3>5. CASE exporter.at = "compare"
      BY <1>4, <3>1, <3>2, <3>5 DEF ExportMade
    <3>6. CASE exporter.at = "unlink"
      <4>1. e = [exported[c] EXCEPT !.file = FALSE]
        BY <3>1, <3>6 DEF ExportMade
      <4>2. e \in Exports /\ e.temp = exported[c].temp /\ e.file = FALSE
        BY <1>4, <4>1 DEF Exports
      <4> QED
        BY <3>2, <4>2
    <3>7. CASE exporter.at = "rename"
      <4>1. PICK x : x = [exported[c] EXCEPT !.file = TRUE]
        OBVIOUS
      <4>2. x \in Exports
        BY <1>4, <4>1 DEF Exports
      <4>3. e = [x EXCEPT !.temp = FALSE] /\ exported[c].temp
        BY <2>1, <3>1, <3>7, <4>1 DEF ExportMade, ExportFinds
      <4>4. e \in Exports /\ e.temp = FALSE
        BY <4>2, <4>3 DEF Exports
      <4> QED
        BY <3>2, <4>3, <4>4
    <3> QED
      BY <1>4, <3>3, <3>4, <3>5, <3>6, <3>7
  <2>2. CASE ~ExportFinds(c)
    <3>1. PICK e : e = [exported[c] EXCEPT !.temp = FALSE]
      OBVIOUS
    <3>2. e \in Exports /\ e.temp = FALSE /\ e.file = exported[c].file
      BY <1>4, <3>1 DEF Exports
    <3>3. exported' = [exported EXCEPT ![c] = e]
      BY <1>3, <2>2, <3>1 DEF ExportStep
    <3> QED
      BY <3>2, <3>3
  <2> QED
    BY <2>1, <2>2
<1>8. /\ exported' \in [Calls -> Exports]
      /\ \A k \in Calls : ~disk[k].dir /\ ~exported[k].temp /\ ~exported[k].file =>
                            ~exported'[k].temp /\ ~exported'[k].file
  BY <1>4, <1>7
<1>9. TypeDisk'
  BY <1>2, <1>8 DEF IInv, Types, TypeDisk
<1>10. TypeDesktop'
  BY <1>2, <1>6 DEF IInv, Types, TypeDesktop
<1>11. InvDeleter'
  <2>1. deleter.call \in Calls \cup {None}
    BY DEF IInv, Types, TypeDesktop, Deleters
  <2>2. deleter.at = "audit" => ~disk[deleter.call].dir /\ deleter.call \in Calls
    BY <2>1 DEF IInv, InvDeleter
  <2> QED
    BY <1>2, <1>8, <2>2 DEF IInv, InvDeleter
<1>12. InvExporter'
  BY <1>6 DEF IInv, InvExporter
<1>13. DeletedStaysDeleted'
  BY <1>2, <1>8 DEF IInv, Types, DeletedStaysDeleted, TypeDesktop
<1> QED
  BY <1>1, <1>9, <1>10, <1>11, <1>12, <1>13 DEF IInv, Types

\* StartDelete keeps the invariant.
LEMMA StartDeleteInv ==
  ASSUME IInv, NEW c \in Calls, StartDelete(c)
  PROVE  IInv'
<1>1. /\ TypeDisk' /\ TypeGateway' /\ TypePending' /\ TypeChain' /\ TypeWork' /\ TypeLink'
      /\ TypePhone' /\ InvAwaited' /\ InvFinishing' /\ InvWork' /\ InvManifest'
      /\ InvReceipt' /\ InvCovered' /\ InvLink' /\ InvTransfer' /\ InvExporter'
      /\ StoredHonest' /\ NoTimerLeft' /\ DeletedStaysDeleted'
  BY Unchanged DEF StartDelete, storeVars, copyVars, linkVars
<1>2. /\ disk[c].dir /\ deleter' = [deleter EXCEPT !.call = c, !.at = "recording"]
      /\ UNCHANGED <<disk, exported, recorder, exporter, deleted>>
  BY DEF StartDelete, storeVars, DeletionOrder
<1>3. recorder[c] # "none"
  BY <1>2 DEF IInv, InvManifest, NoDirectory
<1>4. deleter' \in Deleters /\ deleter'.call = c /\ deleter'.at = "recording"
  <2>1. PICK a : a = [deleter EXCEPT !.call = c]
    OBVIOUS
  <2>2. a \in Deleters
    BY <2>1 DEF IInv, Types, TypeDesktop, Deleters
  <2>3. deleter' = [a EXCEPT !.at = "recording"]
    BY <1>2, <2>1
  <2>4. a.call = c
    BY <2>1 DEF IInv, Types, TypeDesktop, Deleters
  <2> QED
    BY <2>2, <2>3, <2>4 DEF Deleters
<1>5. TypeDesktop'
  BY <1>2, <1>4 DEF IInv, Types, TypeDesktop
<1>6. TypeBudget'
  BY BudgetSpent DEF IInv, Types, TypeBudget, StartDelete
<1>7. InvDeleter'
  BY <1>2, <1>4, <1>3, Bounds DEF IInv, InvDeleter
<1> QED
  BY <1>1, <1>5, <1>6, <1>7 DEF IInv, Types

\* DeleteStep keeps the invariant.
LEMMA DeleteStepInv ==
  ASSUME IInv, DeleteStep
  PROVE  IInv'
<1>1. /\ TypeGateway' /\ TypePending' /\ TypeChain' /\ TypeWork' /\ TypeLink' /\ TypePhone'
      /\ TypeBudget' /\ InvAwaited' /\ InvFinishing' /\ InvWork' /\ InvReceipt'
      /\ InvCovered' /\ InvLink' /\ InvTransfer' /\ InvExporter' /\ StoredHonest'
      /\ NoTimerLeft'
  BY Unchanged DEF DeleteStep, copyVars, linkVars
<1>2. /\ deleter.call # None /\ deleter.at # "audit"
      /\ UNCHANGED <<recorder, exporter, deleted>>
  BY DEF DeleteStep
<1>3. PICK c \in Calls : c = deleter.call
  BY <1>2 DEF IInv, Types, TypeDesktop, Deleters
<1>4. /\ deleter \in Deleters /\ deleter.at \in {"recording", "exports"}
      /\ disk \in [Calls -> Directories] /\ exported \in [Calls -> Exports]
      /\ deleted \subseteq Calls
  BY <1>2 DEF IInv, InvDeleter, Types, TypeDesktop, Deleters, TypeDisk
<1>5. \/ /\ deleter.at = "recording" /\ deleter' = [deleter EXCEPT !.at = "exports"]
         /\ disk' = [disk EXCEPT ![c] = NoDirectory] /\ UNCHANGED exported
      \/ /\ deleter.at = "exports" /\ deleter' = [deleter EXCEPT !.at = "audit"]
         /\ exported' = [exported EXCEPT ![c] = NoExport] /\ UNCHANGED disk
  BY <1>3, <1>4 DEF DeleteStep, DeletionOrder
<1>6. /\ deleter' \in Deleters /\ deleter'.call = c
      /\ \/ deleter.at = "recording" /\ deleter'.at = "exports"
         \/ deleter.at = "exports" /\ deleter'.at = "audit"
  <2>1. CASE deleter' = [deleter EXCEPT !.at = "exports"] /\ deleter.at = "recording"
    BY <1>4, <1>3, <2>1 DEF Deleters
  <2>2. CASE deleter' = [deleter EXCEPT !.at = "audit"] /\ deleter.at = "exports"
    BY <1>4, <1>3, <2>2 DEF Deleters
  <2> QED
    BY <1>5, <2>1, <2>2
<1>7. NoExport \in Exports /\ ~NoExport.temp /\ ~NoExport.file /\ ~NoDirectory.dir
      /\ NoDirectory.manifest = "none"
  BY DEF NoExport, Exports, NoDirectory
<1>8. disk' \in [Calls -> Directories] /\ exported' \in [Calls -> Exports]
  <2>1. [disk EXCEPT ![c] = NoDirectory] \in [Calls -> Directories]
    BY <1>4, DiskUpdates
  <2> QED
    BY <1>4, <1>5, <1>7, <2>1
<1>9. /\ \A k \in Calls \ {c} : disk'[k] = disk[k] /\ exported'[k] = exported[k]
      /\ disk'[c] = disk[c] \/ disk'[c] = NoDirectory
      /\ exported'[c] = exported[c] \/ exported'[c] = NoExport
      /\ deleter.at = "recording" => disk'[c] = NoDirectory
      /\ deleter.at = "exports" => exported'[c] = NoExport /\ disk'[c] = disk[c]
  BY <1>4, <1>5
<1>10. TypeDisk'
  BY <1>2, <1>8 DEF IInv, Types, TypeDisk
<1>11. TypeDesktop'
  BY <1>2, <1>6, <1>4 DEF IInv, Types, TypeDesktop
<1>12. InvManifest'
  BY <1>2, <1>9, <1>7 DEF IInv, InvManifest
<1>13. InvDeleter'
  BY <1>4, <1>3, <1>6, <1>2, <1>9, <1>7 DEF IInv, InvDeleter
<1>14. DeletedStaysDeleted'
  BY <1>4, <1>2, <1>9, <1>7 DEF IInv, DeletedStaysDeleted
<1> QED
  BY <1>1, <1>10, <1>11, <1>12, <1>13, <1>14 DEF IInv, Types

\* AuditDeletion keeps the invariant.
LEMMA AuditDeletionInv ==
  ASSUME IInv, AuditDeletion
  PROVE  IInv'
<1>1. /\ TypeDisk' /\ TypeGateway' /\ TypePending' /\ TypeChain' /\ TypeWork' /\ TypeLink'
      /\ TypePhone' /\ InvAwaited' /\ InvFinishing' /\ InvWork' /\ InvManifest'
      /\ InvReceipt' /\ InvCovered' /\ InvLink' /\ InvTransfer' /\ InvExporter'
      /\ StoredHonest' /\ NoTimerLeft'
  BY Unchanged DEF AuditDeletion, storeVars, copyVars, linkVars
<1>2. /\ deleter.call # None /\ deleter.at = "audit"
      /\ UNCHANGED <<disk, exported, recorder, exporter>>
  BY DEF AuditDeletion, storeVars
<1>3. PICK c \in Calls : c = deleter.call
  BY <1>2 DEF IInv, Types, TypeDesktop, Deleters
<1>4. /\ \E b \in BOOLEAN : deleter' = [call |-> None, at |-> "none", broken |-> b]
      /\ deleted' = deleted \/ deleted' = deleted \cup {c}
  BY <1>3 DEF AuditDeletion
<1>5. recorder[c] # "none" /\ ~disk[c].dir /\ ~exported[c].file /\ ~exported[c].temp
  BY <1>2, <1>3 DEF IInv, InvDeleter
<1>6. TypeDesktop'
  BY <1>3, <1>4, <1>2 DEF IInv, Types, TypeDesktop, Deleters
<1>7. TypeBudget'
  BY FailureSpent DEF IInv, Types, TypeBudget, AuditDeletion
<1>8. InvDeleter'
  BY <1>4, <1>2, <1>5 DEF IInv, InvDeleter
<1>9. DeletedStaysDeleted'
  BY <1>4, <1>2, <1>5 DEF IInv, DeletedStaysDeleted
<1> QED
  BY <1>1, <1>6, <1>7, <1>8, <1>9 DEF IInv, Types

-----------------------------------------------------------------------------
(* The theorems *)

\* The initial state satisfies the invariant.
LEMMA InitInv ==
  Init => IInv
<1> SUFFICES ASSUME Init PROVE IInv
  OBVIOUS
<1>1. NoDirectory \in Directories /\ NoExport \in Exports
  BY Bounds DEF NoDirectory, Directories, NoExport, Exports
<1>2. NoTransfer \in Transfers /\ NoTransfer.got = 0
  BY Bounds DEF NoTransfer, Transfers
<1>3. TypeDisk /\ TypeGateway /\ TypePending /\ TypeChain /\ TypeWork
  BY <1>1 DEF Init, TypeDisk, TypeGateway, TypePending, TypeChain, TypeWork, NewGateway, Gateways
<1>4. TypeLink /\ TypePhone /\ TypeDesktop
  BY <1>2, Bounds DEF Init, TypeLink, TypePhone, TypeDesktop, Phones, Exporters, Deleters, NoDeletion
<1>5. TypeBudget
  BY StoreAssumption DEF Init, Budgets, TypeBudget, Budget
<1>6. InvAwaited /\ InvFinishing /\ InvWork /\ InvManifest /\ InvReceipt /\ InvCovered /\ InvLink
  BY DEF Init, InvAwaited, InvFinishing, InvWork, InvManifest, InvReceipt, InvCovered, InvLink,
         NoDirectory, NewGateway
<1>7. InvTransfer
  <2>1. Len(wire) = 0 /\ work = Idle /\ phone.rx.got = 0
    BY <1>2 DEF Init
  <2> QED
    BY <2>1, Bounds DEF InvTransfer
<1>8. InvDeleter /\ InvExporter /\ StoredHonest /\ NoTimerLeft /\ DeletedStaysDeleted
  BY DEF Init, InvDeleter, InvExporter, StoredHonest, NoTimerLeft, DeletedStaysDeleted, NoDeletion
<1> QED
  BY <1>3, <1>4, <1>5, <1>6, <1>7, <1>8 DEF IInv, Types

\* Every step of the system keeps the invariant.
LEMMA NextInv ==
  IInv /\ [Next]_vars => IInv'
<1> SUFFICES ASSUME IInv, [Next]_vars PROVE IInv'
  OBVIOUS
<1>1. CASE CallStep
  BY <1>1, PhoneCallInv, CallEndsInv, StartRecordingInv, StartFailsInv, WriteRemoteInv, WriteAgentInv
  DEF CallStep
<1>2. CASE ChainStep
  <2>1. CASE CopyStep
    BY <2>1, ReadRecordingInv, SendInv, SendFailsInv, ReceiptSettlesInv, ReceiptTimesOutInv
    DEF CopyStep
  <2> QED
    BY <1>2, <2>1, StartOperationInv, RenderInv, SealInv, FinishedInv, NextPendingInv DEF ChainStep
<1>3. CASE SendTimesOut \/ Receive \/ PhoneReads
  BY <1>3, SendTimesOutInv, ReceiveInv, PhoneReadsInv
<1>4. CASE LinkStep
  BY <1>4, LinkLostInv, CrashInv, CapabilitiesInv, StopGatewayInv, GatewayStoppedInv, ReconnectInv
  DEF LinkStep
<1>5. CASE DesktopStep
  BY <1>5, ExportStepInv, DeleteStepInv, AuditDeletionInv, TimerFiresInv, SyncRecordingInv,
     StartExportInv, StartDeleteInv DEF DesktopStep
<1>6. CASE UNCHANGED vars
  BY <1>6, Unchanged DEF vars, storeVars, copyVars, linkVars, desktopVars, IInv, Types
<1> QED
  BY <1>1, <1>2, <1>3, <1>4, <1>5, <1>6 DEF Next

\* In every state of every behaviour the strengthened invariant holds.
THEOREM Inductive == Spec => []IInv
  BY InitInv, NextInv, PTL DEF Spec

\* The pending copies are covered also when the phone is there but the copy has just failed, a
\* listed recording can be played, a receipt tells the truth and a stopped gateway keeps no
\* timer: StoreInv, in every state.
THEOREM StoreSound == Spec => []StoreInv
<1>1. IInv => StoreInv
  <2> SUFFICES ASSUME IInv PROVE StoreInv
    OBVIOUS
  <2>1. TypeOK
    <3>1. /\ DOMAIN chain = 1..Len(chain) /\ Len(chain) \in Nat /\ Len(wire) \in Nat
          /\ \A i \in DOMAIN chain : chain[i] \in Operations
      BY DEF IInv, Types, TypeChain, TypeLink
    <3>2. awaited \in 0..Len(chain) + 1
      BY <3>1 DEF IInv, InvAwaited
    <3>3. Len(wire) \in 0..WireSize
      BY <3>1, Bounds DEF IInv, Types, TypeLink
    <3>4. phone.call \in Calls \cup {None} /\ phone.rx.got \in 0..Chunks
      BY PhoneFields DEF IInv, Types, TypePhone, Phones
    <3>5. /\ exporter.call \in Calls \cup {None} /\ deleter.call \in Calls \cup {None}
          /\ deleted \subseteq Calls
      BY DEF IInv, Types, TypeDesktop, Exporters, Deleters
    <3>6. \A f \in DOMAIN budget : budget[f] \in Nat
      BY DEF IInv, Types, TypeBudget, Budget
    <3>7. \A i \in DOMAIN chain : chain[i] \in
            {Retrying} \cup {Copying(c) : c \in Calls} \cup {Announcing(c) : c \in Calls}
                       \cup {Finishing(c, ok) : c \in Calls, ok \in BOOLEAN}
      BY <3>1 DEF Operations
    <3> QED
      BY <3>2, <3>3, <3>4, <3>5, <3>6, <3>7, SMTT(30)
      DEF TypeOK, IInv, Types, TypeDisk, TypeGateway, TypePending, Directories, Exports, Gateways
  <2>2. ListedPlayable
    BY DEF ListedPlayable, Listed, IInv, InvManifest
  <2>3. NeverStranded
    BY DEF NeverStranded, IInv, InvCovered, Covered, Queued
  <2> QED
    BY <2>1, <2>2, <2>3 DEF StoreInv, IInv
<1> QED
  BY Inductive, <1>1, PTL

\* What was reported as deleted is gone for good, in every state (DeletedStaysDeleted).
THEOREM Erased == Spec => []DeletedStaysDeleted
<1>1. IInv => DeletedStaysDeleted
  BY DEF IInv
<1> QED
  BY Inductive, <1>1, PTL

=============================================================================
