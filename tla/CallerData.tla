----------------------------- MODULE CallerData -----------------------------
(***************************************************************************)
(* What the daemon keeps of the phone's owner and callers: the mirror of   *)
(* the phone's contacts and call log (phone-data-sync.js), asked for when  *)
(* a connection's capabilities are heard and sent by the phone in pages    *)
(* (UsbGatewayService.kt, PhoneDataSnapshotEncoder.kt); and the memory of  *)
(* callers who consent (caller-memory.js), read when a call comes in and   *)
(* written when it has ended.                                              *)
(*                                                                         *)
(* Each connection has a gateway of its own, and that gateway its own      *)
(* promise chains; the two stores belong to the process.  They share only  *)
(* the coming and going of gateways, so one behaviour is about one of      *)
(* them: "scene".                                                          *)
(***************************************************************************)
EXTENDS Integers, Sequences, FiniteSets, SequencesExt

CONSTANTS
  Kinds,         \* contacts and the call log
  Offered,       \* the sets of kinds that phones have capabilities for
  PageCount,     \* pages of a snapshot
  Callers,       \* phone numbers with a record
  MaxItems,      \* MAX_ITEMS: calls kept of a caller
  MaxLinks,      \* bound: connections of the phone
  MaxEdits,      \* bound: changes of the phone's own data
  MaxCalls,      \* bound: calls
  MaxFaults      \* bound: reads, writes and processes that fail

ASSUME CallerDataAssumption ==
  /\ IsFiniteSet(Kinds) /\ Offered \subseteq SUBSET Kinds /\ Callers # {}
  /\ {PageCount, MaxItems, MaxLinks} \subseteq Nat \ {0}
  /\ {MaxEdits, MaxCalls, MaxFaults} \subseteq Nat

VARIABLES
  scene,      \* which store there is to see: "mirror" or "memory"
  link,       \* the connection that is up, 0 when there is none
  gateway,    \* [of, at]: the latest connection and how far its gateway is
  faults,     \* bound
  \* the mirror
  book,       \* version of the phone's data
  offers,     \* the kinds the phone can send
  wire,       \* frames from the phone that have not been read
  jobs,       \* phoneDataExecutor: [req, rows, page], no rows until they are read
  store,      \* PhoneDataStore: [support, connected, pending]
  work,       \* per gateway: phoneDataWork, its first operation running
  writing,    \* per gateway: the snapshot its first operation is writing, or none
  mirror,     \* on disk, per kind: [of, pages]
  missed,     \* history: kinds of which this connection could not write a snapshot
  \* the memory
  calls,      \* per call: [caller, of, at]
  lookups,    \* recordingWork of the gateway: [call, at]
  contexts,   \* callContexts of the gateway
  archive,    \* per gateway: callerMemoryWork, its first append running
  recordWork, \* [call, at, live, snap]: the store's queue
  auditWork,  \* entries that wait to be written
  audit,      \* [log, broken]
  records,    \* on disk, per caller: [consent, history]
  blocked,    \* callers whose record has an orphaned temporary file
  appended,   \* history per caller: the calls written to its record, in order
  told,       \* history: calls announced with what is remembered of the caller
  lost        \* history: calls whose append failed or whose process died

linkVars == <<scene, link, gateway>>
phoneVars == <<book, offers, jobs>>
mirrorVars == <<book, offers, wire, jobs, store, work, writing, mirror, missed>>
memoryVars == <<calls, lookups, contexts, archive, recordWork, auditWork, audit,
                records, blocked, appended, told, lost>>
vars == <<linkVars, faults, mirrorVars, memoryVars>>

Links == 1..MaxLinks
Calls == 1..MaxCalls
\* randomUUID: no two requests have the same id.  A connection's capabilities are heard twice
\* at most: announced by the phone, and asked for by the gateway.
Requests == [of : Links, nth : {1, 2}, kind : Kinds]
\* The rows of a page: the phone's data is cut into pages; what cannot be read is an empty page.
Pages(version) == [p \in 1..PageCount |-> [book |-> version, page |-> p]]
NoRows(version) == <<[book |-> version, page |-> 0]>>
Announced(nth) == [what |-> "capabilities", nth |-> nth]
PageFrame(job) == [what |-> "page", req |-> job.req, page |-> job.page, rows |-> job.rows[job.page],
                   final |-> job.page = Len(job.rows)]
NewStore == [support |-> [k \in Kinds |-> "unknown"], connected |-> TRUE, pending |-> {}]
NoWrite == <<>>

TypeOK ==
  /\ scene \in {"mirror", "memory"} /\ link \in 0..MaxLinks /\ faults \in 0..MaxFaults
  /\ gateway \in [of : 0..MaxLinks, at : {"none", "device", "connecting", "running", "stopping"}]
  /\ book \in 1..MaxEdits + 1 /\ offers \subseteq Kinds /\ missed \subseteq Kinds
  /\ \A job \in ToSet(jobs) : job.req \in Requests /\ job.page \in 1..PageCount
  /\ store.support \in [Kinds -> {"unknown", "yes", "no"}] /\ store.connected \in BOOLEAN
  /\ DOMAIN work = Links /\ \A g \in Links : writing[g] # NoWrite => work[g] # <<>>
  /\ calls \in [Calls -> [caller : Callers, of : 0..MaxLinks, at : {"new", "up", "over"}]]
  /\ lookups \in Seq([call : Calls, at : {"queued", "audit"}])
  /\ contexts \subseteq Calls /\ told \subseteq Calls /\ lost \subseteq Calls
  /\ records \in [Callers -> [consent : BOOLEAN, history : Seq(Calls)]]
  /\ blocked \subseteq Callers /\ audit.broken \in BOOLEAN
  \* only this connection's requests are pending, and of a snapshot only its first pages
  /\ \A p \in store.pending :
       /\ p.req \in Requests /\ p.req.of = link /\ store.support[p.req.kind] = "yes"
       /\ Len(p.rows) < PageCount
  \* one append of a gateway is at the store at a time
  /\ \A op \in ToSet(recordWork) : \E g \in Links : archive[g] # <<>> /\ Head(archive[g]) = op.call
  /\ \A caller \in Callers : Len(records[caller].history) <= MaxItems

Init ==
  /\ scene \in {"mirror", "memory"} /\ link = 0 /\ faults = 0
  /\ gateway = [of |-> 0, at |-> "none"]
  /\ book = 1 /\ offers \in (IF scene = "mirror" THEN Offered ELSE {{}})
  /\ wire = <<>> /\ jobs = <<>> /\ store = NewStore /\ missed = {}
  /\ work = [g \in Links |-> <<>>] /\ writing = [g \in Links |-> NoWrite]
  /\ mirror = [k \in Kinds |-> [of |-> 0, pages |-> <<>>]]
  /\ calls = [c \in Calls |-> [caller |-> CHOOSE caller \in Callers : TRUE, of |-> 0, at |-> "new"]]
  /\ lookups = <<>> /\ contexts = {} /\ archive = [g \in Links |-> <<>>]
  /\ recordWork = <<>> /\ auditWork = <<>> /\ audit = [log |-> {}, broken |-> FALSE]
  /\ records = [caller \in Callers |-> [consent |-> TRUE, history |-> <<>>]]
  /\ blocked = {} /\ appended = [caller \in Callers |-> <<>>] /\ told = {} /\ lost = {}

Fault == faults < MaxFaults /\ faults' = faults + 1

-----------------------------------------------------------------------------
(* The connection and its gateway *)

SetDisconnected(s) == [s EXCEPT !.connected = FALSE, !.pending = {}]

\* connectPhone authenticates a device; the phone announces its capabilities of its own accord.
Connect ==
  /\ gateway.at = "none" /\ gateway.of < MaxLinks
  /\ gateway' = [of |-> gateway.of + 1, at |-> "device"] /\ link' = gateway.of + 1
  /\ wire' = <<Announced(1)>> /\ missed' = {}
  /\ contexts' = {}
  /\ UNCHANGED <<scene, faults, phoneVars, store, work, writing, mirror, calls, lookups, archive,
                 recordWork, auditWork, audit, records, blocked, appended, told, lost>>

\* The gateway's constructor listens to the device; start() waits for the recording's health.
Bind ==
  /\ gateway.at = "device" /\ link # 0
  /\ gateway' = [gateway EXCEPT !.at = "connecting"]
  /\ UNCHANGED <<scene, link, faults, mirrorVars, memoryVars>>

\* start() asks for the capabilities, and runs.
Started ==
  /\ gateway.at = "connecting" /\ link # 0
  /\ gateway' = [gateway EXCEPT !.at = "running"]
  /\ wire' = Append(wire, Announced(2))
  /\ UNCHANGED <<scene, link, faults, phoneVars, store, work, writing, mirror, missed, memoryVars>>

\* The device's teardown: frames not yet read are dropped, the store is told when there is a
\* gateway to tell it, and a gateway that runs is stopped.
LinkLost ==
  /\ link # 0
  /\ link' = 0 /\ wire' = <<>>
  /\ gateway' = [gateway EXCEPT !.at = IF @ = "running" THEN "stopping" ELSE "none"]
  /\ store' = IF gateway.at = "device" THEN store ELSE SetDisconnected(store)
  /\ UNCHANGED <<scene, faults, phoneVars, work, writing, mirror, missed, memoryVars>>

\* mutant: stop() does not wait for phoneDataWork
SettledRecording(g) == lookups = <<>>

Settled(g) == lookups = <<>> /\ work[g] = <<>>

\* stop() has waited for recordingWork and phoneDataWork; it does not wait for callerMemoryWork.
Stopped ==
  /\ gateway.at = "stopping" /\ Settled(gateway.of)
  /\ gateway' = [gateway EXCEPT !.at = "none"]
  /\ UNCHANGED <<scene, link, faults, mirrorVars, memoryVars>>

\* The daemon dies, and is started again: only what is on disk is left.
Crash ==
  /\ gateway.of > 0 /\ Fault
  /\ link' = 0 /\ wire' = <<>> /\ gateway' = [gateway EXCEPT !.at = "none"]
  /\ store' = NewStore
  /\ work' = [g \in Links |-> <<>>] /\ writing' = [g \in Links |-> NoWrite]
  /\ lost' = lost \cup UNION {ToSet(archive[g]) : g \in Links}
  /\ lookups' = <<>> /\ contexts' = {} /\ archive' = [g \in Links |-> <<>>]
  /\ recordWork' = <<>> /\ auditWork' = <<>> /\ audit' = [audit EXCEPT !.broken = FALSE]
  /\ blocked' = {}
  /\ UNCHANGED <<scene, phoneVars, mirror, missed, calls, records, appended, told>>

-----------------------------------------------------------------------------
(* The mirror *)

\* A contact is edited, a call is made.
Edit ==
  /\ scene = "mirror" /\ book <= MaxEdits
  /\ book' = book + 1
  /\ UNCHANGED <<linkVars, faults, offers, wire, jobs, store, work, writing, mirror, missed,
                 memoryVars>>

\* setCapabilities, and a request for each kind the phone has.
Asked(nth) == {[of |-> gateway.of, nth |-> nth, kind |-> k] : k \in offers}

HearCapabilities ==
  /\ scene = "mirror" /\ wire # <<>> /\ Head(wire).what = "capabilities"
  /\ wire' = Tail(wire)
  /\ IF gateway.at = "device" THEN UNCHANGED <<store, work>>   \* nobody listens yet
     ELSE LET asked == Asked(Head(wire).nth) IN
          /\ store' = [support |-> [k \in Kinds |-> IF k \in offers THEN "yes" ELSE "no"],
                       connected |-> TRUE,
                       pending |-> {p \in store.pending : p.req.kind \in offers}
                                   \cup {[req |-> req, rows |-> <<>>] : req \in asked}]
          /\ work' = [work EXCEPT ![gateway.of] =
                        @ \o SetToSeq({[what |-> "send", req |-> req] : req \in asked})]
  /\ UNCHANGED <<linkVars, faults, phoneVars, writing, mirror, missed, memoryVars>>

HearPage ==
  /\ wire # <<>> /\ Head(wire).what = "page"
  /\ wire' = Tail(wire)
  /\ work' = [work EXCEPT ![gateway.of] = Append(@, Head(wire))]
  /\ UNCHANGED <<linkVars, faults, phoneVars, store, writing, mirror, missed, memoryVars>>

Runs(g, what) == work[g] # <<>> /\ Head(work[g]).what = what /\ writing[g] = NoWrite

\* A send to a device that is gone is rejected.
SendSettles(g) == TRUE

\* _sendControl refuses while start() has not ended; a request that is not sent stays pending.
SendRequest(g) ==
  /\ Runs(g, "send") /\ SendSettles(g)
  /\ work' = [work EXCEPT ![g] = Tail(@)]
  /\ jobs' = IF link = g /\ gateway.at = "running"
             THEN Append(jobs, [req |-> Head(work[g]).req, rows |-> <<>>, page |-> 1]) ELSE jobs
  /\ UNCHANGED <<linkVars, faults, book, offers, wire, store, writing, mirror, missed, memoryVars>>

\* The phone reads its rows, all at once, and cuts them into pages.  Rows that cannot be read
\* are taken for none: ContactRepository and CallHistoryRepository return an empty list.
ReadRows ==
  /\ jobs # <<>> /\ Head(jobs).rows = <<>>
  /\ \/ jobs' = <<[Head(jobs) EXCEPT !.rows = Pages(book)]>> \o Tail(jobs) /\ UNCHANGED faults
     \/ Fault /\ jobs' = <<[Head(jobs) EXCEPT !.rows = NoRows(book)]>> \o Tail(jobs)
  /\ UNCHANGED <<linkVars, book, offers, wire, store, work, writing, mirror, missed, memoryVars>>

\* sendEventForAuthenticatedGeneration: only to the connection that asked.
SendPage ==
  /\ jobs # <<>> /\ Head(jobs).rows # <<>>
  /\ LET job == Head(jobs) IN
     IF job.req.of # link THEN jobs' = Tail(jobs) /\ UNCHANGED wire
     ELSE /\ wire' = Append(wire, PageFrame(job))
          /\ jobs' = IF job.page = Len(job.rows) THEN Tail(jobs)
                     ELSE <<[job EXCEPT !.page = @ + 1]>> \o Tail(jobs)
  /\ UNCHANGED <<linkVars, faults, book, offers, store, work, writing, mirror, missed, memoryVars>>

Completes(page) == page.final

\* consume: a page that was asked for and is the next one; the last one is written to disk.
Expected(page) == {p \in store.pending : p.req = page.req /\ Len(p.rows) = page.page - 1}

TakePage(g) ==
  /\ Runs(g, "page")
  /\ LET page == Head(work[g])
         others == {p \in store.pending : p.req # page.req}
     IN \/ /\ Expected(page) = {}
           /\ store' = [store EXCEPT !.pending = others]
           /\ work' = [work EXCEPT ![g] = Tail(@)] /\ UNCHANGED writing
        \/ \E p \in Expected(page) :
             LET rows == Append(p.rows, page.rows) IN
             IF Completes(page)
             THEN /\ store' = [store EXCEPT !.pending = others]
                  /\ writing' = [writing EXCEPT ![g] = rows]
                  /\ UNCHANGED work
             ELSE /\ store' = [store EXCEPT !.pending = others \cup {[p EXCEPT !.rows = rows]}]
                  /\ work' = [work EXCEPT ![g] = Tail(@)] /\ UNCHANGED writing
  /\ UNCHANGED <<linkVars, faults, phoneVars, wire, mirror, missed, memoryVars>>

EndWrite(g) ==
  /\ writing' = [writing EXCEPT ![g] = NoWrite]
  /\ work' = [work EXCEPT ![g] = Tail(@)]
  /\ UNCHANGED <<linkVars, phoneVars, wire, store, memoryVars>>

\* durableAtomicJson: the temporary file takes the snapshot's place.
Rename(g) ==
  /\ writing[g] # NoWrite
  /\ LET req == Head(work[g]).req IN
     mirror' = [mirror EXCEPT ![req.kind] = [of |-> req.of, pages |-> writing[g]]]
  /\ EndWrite(g) /\ UNCHANGED <<faults, missed>>

\* The file cannot be written: the last good snapshot stays.
WriteFails(g) ==
  /\ writing[g] # NoWrite /\ Fault
  /\ missed' = IF g = link THEN missed \cup {Head(work[g]).req.kind} ELSE missed
  /\ EndWrite(g) /\ UNCHANGED mirror

\* #syncState, as it is shown for a kind.
SyncState(k) ==
  IF ~store.connected THEN "offline"
  ELSE IF store.support[k] = "no" THEN "unsupported"
  ELSE IF store.support[k] = "yes" /\ \E p \in store.pending : p.req.kind = k THEN "syncing"
  ELSE IF mirror[k].of = 0 THEN "never" ELSE "ready"

-----------------------------------------------------------------------------
(* The memory *)

Caller(c) == calls[c].caller
Entry(what, c) == [what |-> what, call |-> c]
\* #audit has come to its end for this entry, and has written it.
AuditEnded(entry) == entry \notin ToSet(auditWork)
Audited(entry) == AuditEnded(entry) /\ entry \in audit.log

\* A call comes in: its lookup takes its turn in recordingWork.
Rings(c) ==
  /\ scene = "memory" /\ link # 0 /\ gateway.at = "running"
  /\ calls[c].at = "new" /\ \A d \in 1..c - 1 : calls[d].at # "new"
  /\ \E caller \in Callers :
       calls' = [calls EXCEPT ![c] = [caller |-> caller, of |-> link, at |-> "up"]]
  /\ lookups' = Append(lookups, [call |-> c, at |-> "queued"])
  /\ UNCHANGED <<linkVars, faults, mirrorVars, contexts, archive, recordWork, auditWork, audit,
                 records, blocked, appended, told, lost>>

\* The call is announced, and is one whose end will be remembered.
Announce(c, found) ==
  /\ lookups' = Tail(lookups)
  /\ contexts' = contexts \cup {c}
  /\ told' = IF found THEN told \cup {c} ELSE told

\* resolve(): a record that consents is read, and its reading is audited.
LookUp ==
  /\ lookups # <<>> /\ Head(lookups).at = "queued"
  /\ LET c == Head(lookups).call IN
     IF records[Caller(c)].consent
     THEN /\ lookups' = <<[call |-> c, at |-> "audit"]>> \o Tail(lookups)
          /\ auditWork' = Append(auditWork, Entry("read", c))
          /\ UNCHANGED <<contexts, told>>
     ELSE Announce(c, FALSE) /\ UNCHANGED auditWork
  /\ UNCHANGED <<linkVars, faults, mirrorVars, calls, archive, recordWork, audit, records,
                 blocked, appended, lost>>

LookedUp ==
  /\ lookups # <<>> /\ Head(lookups).at = "audit"
  /\ LET c == Head(lookups).call IN
     AuditEnded(Entry("read", c)) /\ Announce(c, Audited(Entry("read", c)))
  /\ UNCHANGED <<linkVars, faults, mirrorVars, calls, archive, recordWork, auditWork, audit,
                 records, blocked, appended, lost>>

\* The end of a call is handled at once: a lookup that has yet to be made comes after it.
Ends(c) ==
  /\ calls[c].at = "up" /\ calls[c].of = link
  /\ calls' = [calls EXCEPT ![c].at = "over"]
  /\ contexts' = contexts \ {c}
  /\ archive' = IF c \in contexts THEN [archive EXCEPT ![link] = Append(@, c)] ELSE archive
  /\ UNCHANGED <<linkVars, faults, mirrorVars, lookups, recordWork, auditWork, audit, records,
                 blocked, appended, told, lost>>

\* callerMemoryWork begins its next append: the time of the call is compared with the consent's
\* end when the append has its turn, but it is the time of now.
BeginAppend(g) ==
  /\ archive[g] # <<>>
  /\ LET c == Head(archive[g]) IN
     /\ \A op \in ToSet(recordWork) : op.call # c
     /\ recordWork' = Append(recordWork, [call |-> c, at |-> "queued", snap |-> <<>>,
                                          live |-> records[Caller(c)].consent])
  /\ UNCHANGED <<linkVars, faults, mirrorVars, calls, lookups, contexts, archive, auditWork,
                 audit, records, blocked, appended, told, lost>>

\* mutant: reads and writes of the store are not put in line
MyTurnAlways(i) == TRUE

\* recordWork: one read and write of a record at a time.
MyTurn(i) == i = 1

\* mutant: what follows a failed append in its gateway's chain is passed over
SettleUncaught(i, ok) ==
  /\ recordWork' = RemoveAt(recordWork, i)
  /\ archive' = [g \in Links |->
                   IF recordWork[i].call \notin ToSet(archive[g]) THEN archive[g]
                   ELSE IF ok THEN Tail(archive[g]) ELSE <<>>]

\* The append is over, whether it has failed or not, and its gateway's chain goes on.
Settle(i, ok) ==
  /\ recordWork' = RemoveAt(recordWork, i)
  /\ archive' = [g \in Links |->
                   IF archive[g] # <<>> /\ Head(archive[g]) = recordWork[i].call
                   THEN Tail(archive[g]) ELSE archive[g]]

\* The record is read.  Without consent nothing is kept; an orphaned temporary file fails open().
ReadRecord(i) ==
  LET op == recordWork[i] IN
  /\ MyTurn(i) /\ op.at = "queued"
  /\ IF op.live /\ Caller(op.call) \notin blocked
     THEN /\ recordWork' = [recordWork EXCEPT ![i].at = "read",
                                              ![i].snap = records[Caller(op.call)].history]
          /\ UNCHANGED <<archive, lost>>
     ELSE Settle(i, ~op.live) /\ lost' = lost \cup {op.call}
  /\ UNCHANGED <<linkVars, faults, mirrorVars, calls, lookups, contexts, auditWork, audit,
                 records, blocked, appended, told>>

\* filter: the record without the call, should it hold it (it never holds a call twice).
Without(c, history) ==
  IF \E n \in DOMAIN history : history[n] = c
  THEN RemoveAt(history, CHOOSE n \in DOMAIN history : history[n] = c)
  ELSE history

\* The newest first, no call twice, and no more than the record holds.
Remembering(c, history) ==
  LET all == <<c>> \o Without(c, history)
  IN SubSeq(all, 1, IF Len(all) < MaxItems THEN Len(all) ELSE MaxItems)

WriteRecord(i) ==
  LET op == recordWork[i] IN
  /\ op.at = "read"
  /\ records' = [records EXCEPT ![Caller(op.call)].history = Remembering(op.call, op.snap)]
  /\ appended' = [appended EXCEPT ![Caller(op.call)] = Append(@, op.call)]
  /\ recordWork' = [recordWork EXCEPT ![i].at = "audit"]
  /\ auditWork' = Append(auditWork, Entry("append", op.call))
  /\ UNCHANGED <<linkVars, faults, mirrorVars, calls, lookups, contexts, archive, audit,
                 blocked, told, lost>>

\* atomicWrite leaves its temporary file, of a name this process will use again.
WriteRecordFails(i) ==
  LET op == recordWork[i] IN
  /\ op.at = "read" /\ Fault
  /\ blocked' = blocked \cup {Caller(op.call)}
  /\ lost' = lost \cup {op.call}
  /\ Settle(i, FALSE)
  /\ UNCHANGED <<linkVars, mirrorVars, calls, lookups, contexts, auditWork, audit, records,
                 appended, told>>

RecordAudited(i) ==
  LET entry == Entry("append", recordWork[i].call) IN
  /\ recordWork[i].at = "audit" /\ AuditEnded(entry)
  /\ Settle(i, Audited(entry))
  /\ UNCHANGED <<linkVars, faults, mirrorVars, calls, lookups, contexts, auditWork, audit,
                 records, blocked, appended, told, lost>>

\* The next entry is written; after one that could not be, none is.
WriteAudit ==
  /\ auditWork # <<>>
  /\ auditWork' = Tail(auditWork)
  /\ audit' = IF audit.broken THEN audit ELSE [audit EXCEPT !.log = @ \cup {Head(auditWork)}]
  /\ UNCHANGED <<linkVars, faults, mirrorVars, calls, lookups, contexts, archive, recordWork,
                 records, blocked, appended, told, lost>>

AuditFails ==
  /\ auditWork # <<>> /\ Fault
  /\ auditWork' = Tail(auditWork) /\ audit' = [audit EXCEPT !.broken = TRUE]
  /\ UNCHANGED <<linkVars, mirrorVars, calls, lookups, contexts, archive, recordWork,
                 records, blocked, appended, told, lost>>

\* A caller's consent comes to its end.
Expires(caller) ==
  /\ scene = "memory" /\ records[caller].consent
  /\ records' = [records EXCEPT ![caller].consent = FALSE]
  /\ UNCHANGED <<linkVars, faults, mirrorVars, calls, lookups, contexts, archive, recordWork,
                 auditWork, audit, blocked, appended, told, lost>>

-----------------------------------------------------------------------------
GatewayStep == Bind \/ Started \/ Stopped
PhoneStep == ReadRows \/ SendPage
ChainStep == \E g \in Links : SendRequest(g) \/ TakePage(g) \/ Rename(g)
HearStep == HearCapabilities \/ HearPage
LookUpStep == LookUp \/ LookedUp
AppendStep ==
  \/ \E g \in Links : BeginAppend(g)
  \/ \E i \in 1..Len(recordWork) : ReadRecord(i) \/ WriteRecord(i) \/ RecordAudited(i)

Next ==
  \/ Connect \/ GatewayStep \/ LinkLost \/ Crash
  \/ Edit \/ HearStep \/ PhoneStep \/ ChainStep
  \/ \E g \in Links : WriteFails(g)
  \/ \E c \in Calls : Rings(c) \/ Ends(c)
  \/ LookUpStep \/ AppendStep \/ WriteAudit \/ AuditFails
  \/ \E i \in 1..Len(recordWork) : WriteRecordFails(i)
  \/ \E caller \in Callers : Expires(caller)

\* Promise chains, the phone's executor and a connection that is up make progress.
Spec ==
  /\ Init /\ [][Next]_vars
  /\ WF_vars(GatewayStep) /\ WF_vars(HearStep) /\ WF_vars(PhoneStep) /\ WF_vars(ChainStep)
  /\ WF_vars(LookUpStep) /\ WF_vars(AppendStep) /\ WF_vars(WriteAudit)

-----------------------------------------------------------------------------
(* Properties *)

\* A mirror is one whole snapshot of the phone, whatever is lost or interrupted on the way, or
\* the empty one that the phone makes of rows it cannot read.
MirrorWhole ==
  \A k \in Kinds : mirror[k].of # 0 =>
    \E version \in 1..book : mirror[k].pages \in {Pages(version), NoRows(version)}

\* A mirror is never replaced by an older one: neither by an earlier request of the connection
\* nor by a page that an earlier connection's gateway is still writing.
NeverRegresses ==
  [][\A k \in Kinds : mirror[k].of # 0 => mirror'[k].pages[1].book >= mirror[k].pages[1].book]_vars

\* With a phone there, a kind it has and a status "ready", what is shown was read over this very
\* connection, unless its snapshot could not be written or is being written right now.
ReadyIsCurrent ==
  \A k \in offers :
    link # 0 /\ store.support[k] = "yes" /\ SyncState(k) = "ready" =>
      \/ mirror[k].of = link
      \/ k \in missed
      \/ writing[link] # NoWrite /\ Head(work[link]).req.kind = k

\* No append is lost to another: a record holds the calls that were last written to it.
HistoryKept ==
  \A caller \in Callers :
    LET n == Len(appended[caller]) IN
    records[caller].history =
      Reverse(SubSeq(appended[caller], IF n <= MaxItems THEN 1 ELSE n - MaxItems + 1, n))

\* Nobody is told what is remembered of a caller without a trace in the audit.
ToldAudited == \A c \in told : Entry("read", c) \in audit.log

\* While a connection lasts its snapshots arrive, though the phone's own announcement may come
\* before anybody listens or before a request can be sent.
Synced ==
  <>[](link # 0) => <>[](\A k \in offers : mirror[k].of = link \/ k \in missed)

\* A gateway that is stopped comes to its end, whatever of its work is left.
StopReturns == gateway.at = "stopping" ~> gateway.at # "stopping"

\* A call that is to be remembered is, or its own append has failed: not that of another.
Remembered ==
  \A c \in Calls :
    (\E g \in Links : c \in ToSet(archive[g])) ~> (c \in lost \/ c \in ToSet(appended[Caller(c)]))

\* In every state: its types, mirrors that are whole and whose status is true, and a memory of
\* the callers from which no append is missing and of which nobody is told in secret.
DataInv == TypeOK /\ MirrorWhole /\ ReadyIsCurrent /\ HistoryKept /\ ToldAudited

\* Snapshots arrive, calls are remembered and stop() returns, whatever of it fails.
DataLive == Synced /\ StopReturns /\ Remembered
=============================================================================
