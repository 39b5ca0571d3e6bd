---------------------------- MODULE CallerDataProofs ----------------------------
EXTENDS CallerData, SequenceTheorems, FiniteSetTheorems, TLAPS

-----------------------------------------------------------------------------
(* The memory of callers *)

Ops == [call : Calls, at : {"queued", "read", "audit"}, snap : Seq(Calls), live : BOOLEAN]

CallInv ==
  /\ calls \in [Calls -> [caller : Callers, of : 0..MaxLinks, at : {"new", "up", "over"}]]
  /\ lookups \in Seq([call : Calls, at : {"queued", "audit"}])
  /\ contexts \subseteq Calls /\ told \subseteq Calls /\ lost \subseteq Calls
  /\ audit = [log |-> audit.log, broken |-> audit.broken] /\ audit.broken \in BOOLEAN
  /\ ToldAudited
  /\ \A c \in Calls : calls[c].at = "up" => calls[c].of # 0

\* A call is in one chain, once.
ArchiveInv ==
  /\ archive \in [Links -> Seq(Calls)]
  /\ \A g, h \in Links : \A i \in DOMAIN archive[g], j \in DOMAIN archive[h] :
       archive[g][i] = archive[h][j] => g = h /\ i = j
  /\ \A g \in Links : \A i \in DOMAIN archive[g] : calls[archive[g][i]].at = "over"

\* The newest calls appended, the latest first.
Kept ==
  \A caller \in Callers :
    LET history == records[caller].history
        n == Len(appended[caller])
    IN /\ Len(history) = (IF n <= MaxItems THEN n ELSE MaxItems)
       /\ \A i \in 1..Len(history) : history[i] = appended[caller][n - i + 1]

\* The store's queue serves the heads of the chains; what it has read is still on disk.
QueueInv ==
  /\ recordWork \in Seq(Ops)
  /\ \A i, j \in DOMAIN recordWork : recordWork[i].call = recordWork[j].call => i = j
  /\ \A i \in DOMAIN recordWork :
       /\ \E g \in Links : archive[g] # <<>> /\ Head(archive[g]) = recordWork[i].call
       /\ recordWork[i].at # "queued" => i = 1
       /\ recordWork[i].at = "read" =>
            recordWork[i].snap = records[Caller(recordWork[i].call)].history

\* The append of a call waits for its audit.
Auditing(queue, c) == \E m \in DOMAIN queue : queue[m].call = c /\ queue[m].at = "audit"

\* A call that was appended is over, and leaves its chain once its entry is audited.
RecordInv ==
  /\ records \in [Callers -> [consent : BOOLEAN, history : Seq(Calls)]]
  /\ appended \in [Callers -> Seq(Calls)] /\ blocked \subseteq Callers
  /\ \A caller \in Callers : \A n \in DOMAIN appended[caller] :
       /\ calls[appended[caller][n]].at = "over"
       /\ \A g \in Links : \A i \in DOMAIN archive[g] : archive[g][i] = appended[caller][n] =>
            Auditing(recordWork, appended[caller][n])
  /\ Kept

MemoryInv == CallInv /\ ArchiveInv /\ QueueInv /\ RecordInv

\* The bounds are of their kinds.
LEMMA Bounds ==
  /\ PageCount \in Nat /\ PageCount >= 1 /\ MaxItems \in Nat /\ MaxItems >= 1
  /\ MaxLinks \in Nat /\ MaxLinks >= 1 /\ MaxEdits \in Nat /\ MaxCalls \in Nat /\ MaxFaults \in Nat
  /\ IsFiniteSet(Kinds) /\ Offered \subseteq SUBSET Kinds /\ Callers # {}
  <1>1. PageCount \in Nat \ {0} /\ MaxItems \in Nat \ {0} /\ MaxLinks \in Nat \ {0}
        /\ MaxEdits \in Nat /\ MaxCalls \in Nat /\ MaxFaults \in Nat
    BY CallerDataAssumption, Zenon
  <1>2. IsFiniteSet(Kinds) /\ Offered \subseteq SUBSET Kinds /\ Callers # {}
    BY CallerDataAssumption, Zenon
  <1> QED BY <1>1, <1>2

\* What is left of a sequence without its first element.
LEMMA Tails ==
  ASSUME NEW S, NEW s \in Seq(S), s # <<>>
  PROVE  /\ Tail(s) \in Seq(S) /\ Head(s) \in S /\ Head(s) = s[1]
         /\ Len(s) \in Nat /\ Len(s) >= 1 /\ Len(Tail(s)) = Len(s) - 1
         /\ DOMAIN s = 1..Len(s) /\ 1 \in DOMAIN s
         /\ \A i \in DOMAIN Tail(s) : Tail(s)[i] = s[i + 1] /\ i + 1 \in DOMAIN s /\ i + 1 # 1
                                      /\ i \in Nat
  <1>1. Len(s) \in Nat /\ Len(s) >= 1 /\ DOMAIN s = 1..Len(s)
    BY EmptySeq, LenProperties
  <1>2. Tail(s) \in Seq(S) /\ Len(Tail(s)) = Len(s) - 1
    BY HeadTailProperties
  <1>3. Head(s) \in S /\ Head(s) = s[1] /\ \A i \in 1..Len(Tail(s)) : Tail(s)[i] = s[i + 1]
    BY HeadTailProperties
  <1>4. DOMAIN Tail(s) = 1..Len(Tail(s))
    BY <1>2, LenProperties
  <1> QED BY <1>1, <1>2, <1>3, <1>4

\* What is added to a sequence comes last.
LEMMA Appends ==
  ASSUME NEW S, NEW s \in Seq(S), NEW e \in S
  PROVE  /\ Append(s, e) \in Seq(S) /\ Len(Append(s, e)) = Len(s) + 1 /\ Len(s) \in Nat
         /\ DOMAIN s = 1..Len(s) /\ DOMAIN Append(s, e) = 1..(Len(s) + 1)
         /\ \A i \in DOMAIN s : Append(s, e)[i] = s[i] /\ i \in DOMAIN Append(s, e)
         /\ Append(s, e)[Len(s) + 1] = e
         /\ \A i \in DOMAIN Append(s, e) : i \in DOMAIN s \/ i = Len(s) + 1
  BY AppendProperties, LenProperties

\* Without the first of a sequence its tail is left.
LEMMA TailLeft ==
  ASSUME NEW S, NEW s \in Seq(S), s # <<>>
  PROVE  RemoveAt(s, 1) = Tail(s)
  <1>1. Len(s) \in Nat /\ Len(s) >= 1
    BY EmptySeq, LenProperties
  <1>2. SubSeq(s, 1, 1 - 1) = << >>
    BY SubSeqEmpty
  <1>3. SubSeq(s, 1 + 1, Len(s)) = Tail(s)
    BY TailIsSubSeq
  <1>4. Tail(s) \in Seq(S)
    BY Tails
  <1> QED BY <1>2, <1>3, <1>4, ConcatEmptySeq DEF RemoveAt

\* What the memory's invariant speaks of does not change.
LEMMA MemoryStutter ==
  ASSUME MemoryInv, UNCHANGED memoryVars
  PROVE  MemoryInv'
  <1>1. /\ calls' = calls /\ lookups' = lookups /\ contexts' = contexts /\ archive' = archive
        /\ recordWork' = recordWork /\ audit' = audit /\ records' = records
        /\ blocked' = blocked /\ appended' = appended /\ told' = told /\ lost' = lost
    BY DEF memoryVars
  <1>2. CallInv'
    BY <1>1 DEF MemoryInv, CallInv, ToldAudited, Entry
  <1>3. ArchiveInv'
    BY <1>1 DEF MemoryInv, ArchiveInv
  <1>4. QueueInv'
    BY <1>1 DEF MemoryInv, QueueInv, Caller
  <1>5. RecordInv'
    BY <1>1 DEF MemoryInv, RecordInv, Kept, Auditing
  <1> QED BY <1>2, <1>3, <1>4, <1>5 DEF MemoryInv

\* At the start there is nothing to remember.
LEMMA MemoryInit ==
  ASSUME Init
  PROVE  MemoryInv
  <1>1. CallInv
    <2>1. (CHOOSE caller \in Callers : TRUE) \in Callers
      BY Bounds
    <2>2. 0 \in 0..MaxLinks
      BY Bounds
    <2> QED BY <2>1, <2>2 DEF Init, CallInv, ToldAudited
  <1>2. ArchiveInv
    <2>1. archive = [g \in Links |-> <<>>]
      BY DEF Init
    <2> QED BY <2>1 DEF ArchiveInv
  <1>3. QueueInv
    BY DEF Init, QueueInv
  <1>4. RecordInv
    <2>1. /\ records = [caller \in Callers |-> [consent |-> TRUE, history |-> <<>>]]
          /\ appended = [caller \in Callers |-> <<>>] /\ blocked = {}
      BY DEF Init
    <2>2. Kept
      <3> SUFFICES ASSUME NEW caller \in Callers
                   PROVE  LET history == records[caller].history
                              n == Len(appended[caller])
                          IN /\ Len(history) = (IF n <= MaxItems THEN n ELSE MaxItems)
                             /\ \A i \in 1..Len(history) :
                                  history[i] = appended[caller][n - i + 1]
        BY DEF Kept
      <3>1. records[caller].history = <<>> /\ appended[caller] = <<>>
        BY <2>1
      <3> QED BY <3>1, Bounds
    <2>3. records \in [Callers -> [consent : BOOLEAN, history : Seq(Calls)]]
      BY <2>1
    <2>4. appended \in [Callers -> Seq(Calls)]
      BY <2>1
    <2>5. \A caller \in Callers : DOMAIN appended[caller] = {}
      BY <2>1
    <2> QED BY <2>1, <2>2, <2>3, <2>4, <2>5 DEF RecordInv
  <1> QED BY <1>1, <1>2, <1>3, <1>4 DEF MemoryInv

\* The chains, the queue and the records are as they were; the calls that are over stay so.
LEMMA CallsMove ==
  ASSUME MemoryInv, CallInv', UNCHANGED <<archive, recordWork, records, blocked, appended>>,
         \A c \in Calls : calls[c].at = "over" =>
           calls'[c].at = "over" /\ calls'[c].caller = calls[c].caller
  PROVE  MemoryInv'
  <1>1. ArchiveInv'
    <2>1. \A g \in Links : \A i \in DOMAIN archive[g] : archive[g][i] \in Calls
      BY DEF MemoryInv, ArchiveInv
    <2> QED BY <2>1 DEF MemoryInv, ArchiveInv
  <1>2. QueueInv'
    <2>1. \A i \in DOMAIN recordWork : recordWork[i].call \in Calls /\ calls[recordWork[i].call].at = "over"
      <3> TAKE i \in DOMAIN recordWork
      <3>1. PICK g \in Links : archive[g] # <<>> /\ Head(archive[g]) = recordWork[i].call
        BY DEF MemoryInv, QueueInv
      <3>2. archive[g] \in Seq(Calls)
        BY DEF MemoryInv, ArchiveInv
      <3>3. Head(archive[g]) = archive[g][1] /\ 1 \in DOMAIN archive[g] /\ Head(archive[g]) \in Calls
        BY <3>1, <3>2, Tails
      <3> QED BY <3>1, <3>3 DEF MemoryInv, ArchiveInv
    <2>2. \A i \in DOMAIN recordWork : Caller(recordWork[i].call)' = Caller(recordWork[i].call)
      BY <2>1 DEF Caller
    <2> QED BY <2>2 DEF MemoryInv, QueueInv
  <1>3. RecordInv'
    <2>1. \A caller \in Callers : \A n \in DOMAIN appended[caller] : appended[caller][n] \in Calls
      BY DEF MemoryInv, RecordInv
    <2> QED BY <2>1 DEF MemoryInv, RecordInv, Kept, Auditing
  <1> QED BY <1>1, <1>2, <1>3 DEF MemoryInv

\* A call comes in.
LEMMA RingsMemory ==
  ASSUME MemoryInv, NEW c \in Calls, Rings(c), link \in 0..MaxLinks
  PROVE  MemoryInv'
  <1>1. PICK caller \in Callers : calls' = [calls EXCEPT ![c] = [caller |-> caller, of |-> link, at |-> "up"]]
    BY DEF Rings
  <1>2. link # 0 /\ calls[c].at = "new" /\ lookups' = Append(lookups, [call |-> c, at |-> "queued"])
    BY DEF Rings
  <1>3. UNCHANGED <<contexts, archive, recordWork, audit, records, blocked, appended, told, lost>>
    BY DEF Rings
  <1>4. CallInv'
    <2>1. calls' \in [Calls -> [caller : Callers, of : 0..MaxLinks, at : {"new", "up", "over"}]]
      BY <1>1 DEF MemoryInv, CallInv
    <2>2. lookups' \in Seq([call : Calls, at : {"queued", "audit"}])
      BY <1>2, Appends DEF MemoryInv, CallInv
    <2>3. \A d \in Calls : calls'[d].at = "up" => calls'[d].of # 0
      BY <1>1, <1>2 DEF MemoryInv, CallInv
    <2> QED BY <1>3, <2>1, <2>2, <2>3 DEF MemoryInv, CallInv, ToldAudited, Entry
  <1>5. \A d \in Calls : calls[d].at = "over" => calls'[d].at = "over" /\ calls'[d].caller = calls[d].caller
    BY <1>1, <1>2 DEF MemoryInv, CallInv
  <1> QED BY <1>3, <1>4, <1>5, CallsMove

\* A lookup is made, waits for its audit and is announced.
LEMMA LookUpMemory ==
  ASSUME MemoryInv, LookUpStep
  PROVE  MemoryInv'
  <1> DEFINE Steps == [call : Calls, at : {"queued", "audit"}]
  <1>1. /\ lookups # <<>> /\ UNCHANGED <<calls, archive, recordWork, records, blocked, appended, lost, audit>>
    BY DEF LookUpStep, LookUp, LookedUp
  <1>2. lookups \in Seq(Steps)
    BY DEF MemoryInv, CallInv
  <1>3. Head(lookups) \in Steps /\ Tail(lookups) \in Seq(Steps)
    BY <1>1, <1>2, Tails
  <1>4. \/ /\ lookups' = <<[call |-> Head(lookups).call, at |-> "audit"]>> \o Tail(lookups)
           /\ UNCHANGED <<contexts, told>>
        \/ \E found \in BOOLEAN : Announce(Head(lookups).call, found)
             /\ (found => Entry("read", Head(lookups).call) \in audit.log)
    <2>1. CASE LookUp
      BY <2>1 DEF LookUp
    <2>2. CASE LookedUp
      <3>1. Audited(Entry("read", Head(lookups).call)) \in BOOLEAN
        BY DEF Audited, AuditEnded
      <3> QED BY <2>2, <3>1 DEF LookedUp, Audited
    <2> QED BY <2>1, <2>2 DEF LookUpStep
  <1>5. lookups' \in Seq(Steps) /\ contexts' \subseteq Calls /\ told' \subseteq Calls /\ ToldAudited'
    <2>1. CASE /\ lookups' = <<[call |-> Head(lookups).call, at |-> "audit"]>> \o Tail(lookups)
               /\ UNCHANGED <<contexts, told>>
      <3>1. <<[call |-> Head(lookups).call, at |-> "audit"]>> \in Seq(Steps)
        BY <1>3
      <3>2. lookups' \in Seq(Steps)
        BY <1>3, <2>1, <3>1, ConcatProperties
      <3> QED BY <1>1, <2>1, <3>2 DEF MemoryInv, CallInv, ToldAudited, Entry
    <2>2. CASE \E found \in BOOLEAN : Announce(Head(lookups).call, found)
                 /\ (found => Entry("read", Head(lookups).call) \in audit.log)
      BY <1>1, <1>3, <2>2 DEF Announce, MemoryInv, CallInv, ToldAudited, Entry
    <2> QED BY <1>4, <2>1, <2>2
  <1>6. CallInv'
    BY <1>1, <1>5 DEF MemoryInv, CallInv
  <1> QED BY <1>1, <1>6, CallsMove

\* A call ends; if it was announced it is to be remembered.
LEMMA EndsMemory ==
  ASSUME MemoryInv, NEW c \in Calls, Ends(c), link \in 0..MaxLinks
  PROVE  MemoryInv'
  <1>1. /\ calls[c].at = "up" /\ calls[c].of = link /\ calls' = [calls EXCEPT ![c].at = "over"]
        /\ contexts' = contexts \ {c}
        /\ archive' = IF c \in contexts THEN [archive EXCEPT ![link] = Append(@, c)] ELSE archive
        /\ UNCHANGED <<lookups, recordWork, audit, records, blocked, appended, told, lost>>
    BY DEF Ends
  <1>2. link \in Links
    BY <1>1 DEF MemoryInv, CallInv, Links
  <1>3. /\ calls' \in [Calls -> [caller : Callers, of : 0..MaxLinks, at : {"new", "up", "over"}]]
        /\ \A d \in Calls : calls'[d].caller = calls[d].caller /\ calls'[d].of = calls[d].of
        /\ \A d \in Calls : calls'[d].at = (IF d = c THEN "over" ELSE calls[d].at)
    BY <1>1 DEF MemoryInv, CallInv
  <1>4. CallInv'
    BY <1>1, <1>3 DEF MemoryInv, CallInv, ToldAudited, Entry
  <1>5. CASE archive' = archive
    BY <1>1, <1>3, <1>4, <1>5, CallsMove
  <1>6. CASE archive' = [archive EXCEPT ![link] = Append(@, c)]
    <2> DEFINE a == archive[link]
    <2>1. a \in Seq(Calls) /\ archive'[link] = Append(a, c)
          /\ \A g \in Links : g # link => archive'[g] = archive[g]
      BY <1>2, <1>6 DEF MemoryInv, ArchiveInv
    <2>2. \A g \in Links : \A i \in DOMAIN archive'[g] :
            \/ i \in DOMAIN archive[g] /\ archive'[g][i] = archive[g][i]
            \/ g = link /\ i = Len(a) + 1 /\ archive'[g][i] = c /\ i \notin DOMAIN archive[g]
      <3> TAKE g \in Links
      <3> TAKE i \in DOMAIN archive'[g]
      <3>1. CASE g = link
        BY <2>1, <3>1, Appends
      <3> QED BY <2>1, <3>1
    <2>3. \A g \in Links : \A i \in DOMAIN archive[g] : archive[g][i] # c /\ archive[g][i] \in Calls
      BY <1>1 DEF MemoryInv, ArchiveInv
    <2>4. ArchiveInv'
      <3>1. archive' \in [Links -> Seq(Calls)]
        <4>1. Append(a, c) \in Seq(Calls)
          BY <2>1, Appends
        <4> QED BY <1>6, <4>1 DEF MemoryInv, ArchiveInv
      <3>2. \A g, h \in Links : \A i \in DOMAIN archive'[g], j \in DOMAIN archive'[h] :
              archive'[g][i] = archive'[h][j] => g = h /\ i = j
        <4> TAKE g, h \in Links
        <4> TAKE i \in DOMAIN archive'[g], j \in DOMAIN archive'[h]
        <4>1. \/ i \in DOMAIN archive[g] /\ archive'[g][i] = archive[g][i]
              \/ g = link /\ i = Len(a) + 1 /\ archive'[g][i] = c
          BY <2>2
        <4>2. \/ j \in DOMAIN archive[h] /\ archive'[h][j] = archive[h][j]
              \/ h = link /\ j = Len(a) + 1 /\ archive'[h][j] = c
          BY <2>2
        <4>3. i \in DOMAIN archive[g] /\ j \in DOMAIN archive[h] /\ archive[g][i] = archive[h][j] => g = h /\ i = j
          BY DEF MemoryInv, ArchiveInv
        <4>4. i \in DOMAIN archive[g] => archive[g][i] # c
          BY <2>3
        <4>5. j \in DOMAIN archive[h] => archive[h][j] # c
          BY <2>3
        <4> QED BY <4>1, <4>2, <4>3, <4>4, <4>5, Zenon
      <3>3. \A g \in Links : \A i \in DOMAIN archive'[g] : calls'[archive'[g][i]].at = "over"
        <4> TAKE g \in Links
        <4> TAKE i \in DOMAIN archive'[g]
        <4>1. i \in DOMAIN archive[g] => archive[g][i] \in Calls /\ calls[archive[g][i]].at = "over"
          BY <2>3 DEF MemoryInv, ArchiveInv
        <4>2. CASE i \in DOMAIN archive[g] /\ archive'[g][i] = archive[g][i]
          BY <1>3, <4>1, <4>2
        <4>3. CASE archive'[g][i] = c
          BY <1>3, <4>3
        <4> QED BY <2>2, <4>2, <4>3
      <3> QED BY <3>1, <3>2, <3>3 DEF ArchiveInv
    <2>5. QueueInv'
      <3>1. \A i \in DOMAIN recordWork :
              /\ \E g \in Links : archive'[g] # <<>> /\ Head(archive'[g]) = recordWork[i].call
              /\ recordWork[i].call \in Calls
        <4> TAKE i \in DOMAIN recordWork
        <4>1. PICK g \in Links : archive[g] # <<>> /\ Head(archive[g]) = recordWork[i].call
          BY DEF MemoryInv, QueueInv
        <4>2. recordWork[i].call \in Calls
          <5>1. archive[g] \in Seq(Calls)
            BY DEF MemoryInv, ArchiveInv
          <5> QED BY <4>1, <5>1, Tails
        <4>3. CASE g = link
          <5>1. a # <<>> /\ Append(a, c) # <<>> /\ Head(Append(a, c)) = Head(a)
            BY <2>1, <4>1, <4>3, AppendProperties, HeadTailProperties
          <5>2. archive'[g] # <<>> /\ Head(archive'[g]) = recordWork[i].call
            BY <2>1, <4>1, <4>3, <5>1
          <5> QED BY <4>2, <5>2, Zenon
        <4>4. CASE g # link
          <5>1. archive'[g] = archive[g]
            BY <2>1, <4>4
          <5> QED BY <4>1, <4>2, <5>1, Zenon
        <4> QED BY <4>3, <4>4
      <3>2. \A i \in DOMAIN recordWork : Caller(recordWork[i].call)' = Caller(recordWork[i].call)
        BY <1>1, <1>3, <3>1 DEF Caller
      <3> QED BY <1>1, <3>1, <3>2 DEF MemoryInv, QueueInv
    <2>6. RecordInv'
      <3>1. \A caller \in Callers : \A n \in DOMAIN appended[caller] :
              /\ appended[caller][n] \in Calls /\ calls'[appended[caller][n]].at = "over"
              /\ appended[caller][n] # c
        BY <1>1, <1>3 DEF MemoryInv, RecordInv
      <3>2. \A caller \in Callers : \A n \in DOMAIN appended[caller] :
              \A g \in Links : \A i \in DOMAIN archive'[g] : archive'[g][i] = appended[caller][n] =>
                i \in DOMAIN archive[g] /\ archive[g][i] = appended[caller][n]
                /\ archive[g][i] = archive'[g][i]
        BY <2>2, <3>1
      <3>3. \A caller \in Callers : \A n \in DOMAIN appended[caller] :
              \A g \in Links : \A i \in DOMAIN archive'[g] : archive'[g][i] = appended[caller][n] =>
                Auditing(recordWork, appended[caller][n])
        <4> TAKE caller \in Callers
        <4> TAKE n \in DOMAIN appended[caller]
        <4> TAKE g \in Links
        <4> TAKE i \in DOMAIN archive'[g]
        <4> HAVE archive'[g][i] = appended[caller][n]
        <4>1. i \in DOMAIN archive[g] /\ archive[g][i] = appended[caller][n]
              /\ archive[g][i] = archive'[g][i]
          BY <3>2
        <4>2. Auditing(recordWork, appended[caller][n])
          BY <4>1 DEF MemoryInv, RecordInv
        <4> QED BY <4>1, <4>2
      <3>4. \A d : Auditing(recordWork', d) = Auditing(recordWork, d)
        BY <1>1 DEF Auditing
      <3> QED BY <1>1, <3>1, <3>3, <3>4 DEF MemoryInv, RecordInv, Kept
    <2> QED BY <1>4, <2>4, <2>5, <2>6 DEF MemoryInv
  <1> QED BY <1>1, <1>5, <1>6

\* A chain gives its next append to the store.
LEMMA BeginMemory ==
  ASSUME MemoryInv, NEW g \in Links, BeginAppend(g)
  PROVE  MemoryInv'
  <1> DEFINE c == Head(archive[g])
             op == [call |-> c, at |-> "queued", snap |-> <<>>, live |-> records[Caller(c)].consent]
  <1>1. /\ archive[g] # <<>> /\ recordWork' = Append(recordWork, op)
        /\ \A m \in DOMAIN recordWork : recordWork[m].call # c
        /\ UNCHANGED <<calls, lookups, contexts, archive, audit, records, blocked, appended, told, lost>>
    BY DEF BeginAppend, ToSet
  <1>2. c \in Calls
    <2>1. archive[g] \in Seq(Calls)
      BY DEF MemoryInv, ArchiveInv
    <2> QED BY <1>1, <2>1, Tails
  <1>3. op \in Ops
    BY <1>2 DEF MemoryInv, CallInv, RecordInv, Ops, Caller
  <1>4. recordWork \in Seq(Ops)
    BY DEF MemoryInv, QueueInv
  <1>5. /\ recordWork' \in Seq(Ops) /\ DOMAIN recordWork = 1..Len(recordWork) /\ Len(recordWork) \in Nat
        /\ \A m \in DOMAIN recordWork : recordWork'[m] = recordWork[m] /\ m \in DOMAIN recordWork'
        /\ recordWork'[Len(recordWork) + 1] = op
        /\ \A m \in DOMAIN recordWork' : m \in DOMAIN recordWork \/ m = Len(recordWork) + 1
    BY <1>1, <1>3, <1>4, Appends
  <1> HIDE DEF op
  <1>6. op.call = c /\ op.at = "queued"
    BY DEF op
  <1> HIDE DEF c
  <1>7. CallInv' /\ ArchiveInv'
    BY <1>1 DEF MemoryInv, CallInv, ArchiveInv, ToldAudited, Entry
  <1>8. QueueInv'
    <2>1. \A m, n \in DOMAIN recordWork' : recordWork'[m].call = recordWork'[n].call => m = n
      <3> TAKE m, n \in DOMAIN recordWork'
      <3>1. m \in DOMAIN recordWork /\ n \in DOMAIN recordWork /\ recordWork[m].call = recordWork[n].call => m = n
        BY DEF MemoryInv, QueueInv
      <3> QED BY <1>1, <1>5, <1>6, <3>1
    <2>2. \A m \in DOMAIN recordWork' :
            /\ \E h \in Links : archive'[h] # <<>> /\ Head(archive'[h]) = recordWork'[m].call
            /\ recordWork'[m].at # "queued" => m = 1
            /\ recordWork'[m].at = "read" =>
                 recordWork'[m].snap = records[Caller(recordWork'[m].call)].history
      <3> TAKE m \in DOMAIN recordWork'
      <3>1. CASE m \in DOMAIN recordWork
        BY <1>1, <1>5, <3>1 DEF MemoryInv, QueueInv
      <3>2. CASE m = Len(recordWork) + 1
        BY <1>1, <1>5, <1>6, <3>2 DEF c
      <3> QED BY <1>5, <3>1, <3>2
    <2> QED BY <1>1, <1>5, <2>1, <2>2 DEF QueueInv, Caller
  <1>9. RecordInv'
    <2>1. \A d : Auditing(recordWork, d) => Auditing(recordWork', d)
      BY <1>5 DEF Auditing
    <2> QED BY <1>1, <2>1 DEF MemoryInv, RecordInv, Kept
  <1> QED BY <1>7, <1>8, <1>9 DEF MemoryInv

\* An append is over: the queue and the chain of the call go on.
LEMMA SettleMemory ==
  ASSUME MemoryInv, NEW i \in DOMAIN recordWork, NEW ok, Settle(i, ok), i = 1, lost' \subseteq Calls,
         blocked' \subseteq Callers, UNCHANGED <<calls, lookups, contexts, audit, records, appended, told>>
  PROVE  MemoryInv'
  <1> DEFINE c == recordWork[1].call
             rest == Tail(recordWork)
  <1>1. recordWork \in Seq(Ops) /\ recordWork # <<>> /\ 1 \in DOMAIN recordWork
    BY EmptySeq DEF MemoryInv, QueueInv
  <1>2. /\ rest \in Seq(Ops)
        /\ \A m \in DOMAIN rest : rest[m] = recordWork[m + 1] /\ m + 1 \in DOMAIN recordWork
                                  /\ m + 1 # 1 /\ m \in Nat
    BY <1>1, Tails
  <1>3. recordWork' = rest
    BY <1>1, TailLeft DEF Settle
  <1>4. archive' = [g \in Links |-> IF archive[g] # <<>> /\ Head(archive[g]) = c
                                    THEN Tail(archive[g]) ELSE archive[g]]
    BY DEF Settle
  <1>5. archive \in [Links -> Seq(Calls)]
    BY DEF MemoryInv, ArchiveInv
  \* where an element of a chain was before, the first is gone if it was the call
  <1>6. \A g \in Links :
          /\ archive'[g] \in Seq(Calls)
          /\ \A j \in DOMAIN archive'[g] :
               \E n \in DOMAIN archive[g] :
                 /\ archive'[g][j] = archive[g][n] /\ archive[g][n] # c
                 /\ n = (IF archive[g] # <<>> /\ Head(archive[g]) = c THEN j + 1 ELSE j)
                 /\ j \in Nat
    <2> TAKE g \in Links
    <2>1. CASE archive[g] # <<>> /\ Head(archive[g]) = c
      <3>1. archive'[g] = Tail(archive[g]) /\ archive[g] \in Seq(Calls)
        BY <1>4, <1>5, <2>1
      <3>2. /\ Tail(archive[g]) \in Seq(Calls) /\ archive[g][1] = c /\ 1 \in DOMAIN archive[g]
            /\ \A j \in DOMAIN Tail(archive[g]) : Tail(archive[g])[j] = archive[g][j + 1]
                 /\ j + 1 \in DOMAIN archive[g] /\ j + 1 # 1 /\ j \in Nat
        BY <2>1, <3>1, Tails
      <3>3. \A n \in DOMAIN archive[g] : n # 1 => archive[g][n] # c
        BY <3>2 DEF MemoryInv, ArchiveInv
      <3> QED BY <2>1, <3>1, <3>2, <3>3
    <2>2. CASE ~(archive[g] # <<>> /\ Head(archive[g]) = c)
      <3>1. archive'[g] = archive[g] /\ archive[g] \in Seq(Calls)
        BY <1>4, <1>5, <2>2
      <3>2. PICK h \in Links : archive[h] # <<>> /\ Head(archive[h]) = c
        BY <1>1 DEF MemoryInv, QueueInv
      <3>3. archive[h][1] = c /\ 1 \in DOMAIN archive[h]
        BY <1>5, <3>2, Tails
      <3>4. \A n \in DOMAIN archive[g] : archive[g][n] # c
        <4> TAKE n \in DOMAIN archive[g]
        <4>1. archive[g][n] = archive[h][1] => g = h
          BY <3>3 DEF MemoryInv, ArchiveInv
        <4> QED BY <2>2, <3>2, <3>3, <4>1
      <3>5. \A j \in DOMAIN archive[g] : j \in Nat
        BY <3>1, LenProperties
      <3> QED BY <2>2, <3>1, <3>4, <3>5
    <2> QED BY <2>1, <2>2
  <1> HIDE DEF c, rest
  <1>7. CallInv'
    BY DEF MemoryInv, CallInv, ToldAudited, Entry
  <1>8. ArchiveInv'
    <2>1. archive' \in [Links -> Seq(Calls)]
      BY <1>4, <1>6
    <2>2. \A g, h \in Links : \A j \in DOMAIN archive'[g], l \in DOMAIN archive'[h] :
            archive'[g][j] = archive'[h][l] => g = h /\ j = l
      <3> TAKE g, h \in Links
      <3> TAKE j \in DOMAIN archive'[g], l \in DOMAIN archive'[h]
      <3> HAVE archive'[g][j] = archive'[h][l]
      <3>1. PICK n \in DOMAIN archive[g] :
              /\ archive'[g][j] = archive[g][n]
              /\ n = (IF archive[g] # <<>> /\ Head(archive[g]) = c THEN j + 1 ELSE j) /\ j \in Nat
        BY <1>6
      <3>2. PICK m \in DOMAIN archive[h] :
              /\ archive'[h][l] = archive[h][m]
              /\ m = (IF archive[h] # <<>> /\ Head(archive[h]) = c THEN l + 1 ELSE l) /\ l \in Nat
        BY <1>6
      <3>3. g = h /\ n = m
        <4>1. archive[g][n] = archive[h][m] => g = h /\ n = m
          BY DEF MemoryInv, ArchiveInv
        <4> QED BY <3>1, <3>2, <4>1
      <3>4. j = l
        BY <3>1, <3>2, <3>3
      <3> QED BY <3>3, <3>4
    <2>3. \A g \in Links : \A j \in DOMAIN archive'[g] : calls'[archive'[g][j]].at = "over"
      <3> TAKE g \in Links
      <3> TAKE j \in DOMAIN archive'[g]
      <3>1. PICK n \in DOMAIN archive[g] : archive'[g][j] = archive[g][n]
        BY <1>6
      <3> QED BY <3>1 DEF MemoryInv, ArchiveInv
    <2> QED BY <2>1, <2>2, <2>3 DEF ArchiveInv
  <1>9. QueueInv'
    <2>1. \A m, n \in DOMAIN rest : rest[m].call = rest[n].call => m = n
      <3> TAKE m, n \in DOMAIN rest
      <3>1. recordWork[m + 1].call = recordWork[n + 1].call => m + 1 = n + 1
        BY <1>2 DEF MemoryInv, QueueInv
      <3> QED BY <1>2, <3>1
    <2>2. \A m \in DOMAIN rest :
            /\ \E g \in Links : archive'[g] # <<>> /\ Head(archive'[g]) = rest[m].call
            /\ rest[m].at = "queued"
      <3> TAKE m \in DOMAIN rest
      <3>1. rest[m] = recordWork[m + 1] /\ m + 1 \in DOMAIN recordWork /\ m + 1 # 1
        BY <1>2
      <3>2. PICK g \in Links : archive[g] # <<>> /\ Head(archive[g]) = rest[m].call
        BY <3>1 DEF MemoryInv, QueueInv
      <3>3. rest[m].call # c /\ rest[m].at = "queued"
        <4>1. recordWork[m + 1].call = recordWork[1].call => m + 1 = 1
          BY <1>1, <3>1 DEF MemoryInv, QueueInv
        <4>2. recordWork[m + 1].at = "queued"
          BY <3>1 DEF MemoryInv, QueueInv
        <4> QED BY <3>1, <4>1, <4>2 DEF c
      <3>4. archive'[g] = archive[g]
        BY <1>4, <3>2, <3>3
      <3> QED BY <3>2, <3>3, <3>4
    <2> QED BY <1>2, <1>3, <2>1, <2>2 DEF QueueInv
  <1>10. RecordInv'
    <2>1. \A caller \in Callers : \A n \in DOMAIN appended[caller] :
            \A g \in Links : \A j \in DOMAIN archive'[g] : archive'[g][j] # appended[caller][n]
      <3> TAKE caller \in Callers
      <3> TAKE n \in DOMAIN appended[caller]
      <3> TAKE g \in Links
      <3> TAKE j \in DOMAIN archive'[g]
      <3>1. PICK m \in DOMAIN archive[g] : archive'[g][j] = archive[g][m] /\ archive[g][m] # c
        BY <1>6
      <3>2. archive[g][m] = appended[caller][n] => Auditing(recordWork, appended[caller][n])
        BY DEF MemoryInv, RecordInv
      <3>3. \A d : Auditing(recordWork, d) => d = c
        BY DEF Auditing, c, MemoryInv, QueueInv
      <3> QED BY <3>1, <3>2, <3>3
    <2> QED BY <2>1 DEF MemoryInv, RecordInv, Kept
  <1> QED BY <1>7, <1>8, <1>9, <1>10 DEF MemoryInv

\* The record of a call is read, or the append is over.
LEMMA ReadMemory ==
  ASSUME MemoryInv, NEW i \in 1..Len(recordWork), ReadRecord(i)
  PROVE  MemoryInv'
  <1>1. recordWork \in Seq(Ops) /\ DOMAIN recordWork = 1..Len(recordWork) /\ recordWork[i] \in Ops
    BY LenProperties, ElementOfSeq DEF MemoryInv, QueueInv
  <1> DEFINE op == recordWork[i]
  <1>2. op.call \in Calls /\ i = 1 /\ op.at = "queued"
    BY <1>1 DEF ReadRecord, MyTurn, Ops
  <1>3. CASE Settle(i, ~op.live) /\ lost' = lost \cup {op.call}
    <2>1. lost' \subseteq Calls
      BY <1>2, <1>3 DEF MemoryInv, CallInv
    <2>2. blocked' \subseteq Callers /\ UNCHANGED <<calls, lookups, contexts, audit, records, appended, told>>
      BY DEF ReadRecord, MemoryInv, RecordInv
    <2> QED BY <1>1, <1>2, <1>3, <2>1, <2>2, SettleMemory
  <1>4. CASE recordWork' = [recordWork EXCEPT ![i].at = "read",
                                              ![i].snap = records[Caller(op.call)].history]
             /\ UNCHANGED <<archive, lost>>
    <2> DEFINE next == [op EXCEPT !.at = "read", !.snap = records[Caller(op.call)].history]
    <2>1. UNCHANGED <<calls, lookups, contexts, audit, records, blocked, appended, told>>
      BY DEF ReadRecord
    <2>2. next \in Ops /\ next.call = op.call /\ next.at = "read"
          /\ next.snap = records[Caller(op.call)].history
      <3>1. Caller(op.call) \in Callers
        BY <1>2 DEF Caller, MemoryInv, CallInv
      <3>2. records[Caller(op.call)].history \in Seq(Calls)
        BY <3>1 DEF MemoryInv, RecordInv
      <3> QED BY <1>1, <3>2 DEF Ops
    <2>3. recordWork' = [recordWork EXCEPT ![i] = next]
      BY <1>1, <1>4
    <2> HIDE DEF next
    <2>4. /\ recordWork' \in Seq(Ops) /\ DOMAIN recordWork' = DOMAIN recordWork
          /\ \A m \in DOMAIN recordWork : recordWork'[m] = IF m = i THEN next ELSE recordWork[m]
      BY <1>1, <2>2, <2>3, ExceptSeq
    <2>5. CallInv' /\ ArchiveInv'
      BY <1>4, <2>1 DEF MemoryInv, CallInv, ArchiveInv, ToldAudited, Entry
    <2>6. QueueInv'
      <3>1. \A m \in DOMAIN recordWork : recordWork'[m].call = recordWork[m].call
        BY <2>2, <2>4
      <3>2. \A m, n \in DOMAIN recordWork' : recordWork'[m].call = recordWork'[n].call => m = n
        BY <2>4, <3>1 DEF MemoryInv, QueueInv
      <3>3. \A m \in DOMAIN recordWork' :
              /\ \E g \in Links : archive'[g] # <<>> /\ Head(archive'[g]) = recordWork'[m].call
              /\ recordWork'[m].at # "queued" => m = 1
              /\ recordWork'[m].at = "read" =>
                   recordWork'[m].snap = records[Caller(recordWork'[m].call)].history
        <4> TAKE m \in DOMAIN recordWork'
        <4>1. CASE m = i
          <5>1. recordWork'[m] = next /\ m \in DOMAIN recordWork /\ m = 1
            BY <1>1, <1>2, <2>4, <4>1
          <5>2. \E g \in Links : archive'[g] # <<>> /\ Head(archive'[g]) = recordWork[m].call
            BY <1>4, <5>1 DEF MemoryInv, QueueInv
          <5> QED BY <2>2, <3>1, <4>1, <5>1, <5>2
        <4>2. CASE m # i
          <5>1. recordWork'[m] = recordWork[m] /\ m \in DOMAIN recordWork
            BY <2>4, <4>2
          <5>2. /\ \E g \in Links : archive[g] # <<>> /\ Head(archive[g]) = recordWork[m].call
                /\ recordWork[m].at # "queued" => m = 1
                /\ recordWork[m].at = "read" =>
                     recordWork[m].snap = records[Caller(recordWork[m].call)].history
            BY <5>1 DEF MemoryInv, QueueInv
          <5> QED BY <1>4, <5>1, <5>2
        <4> QED BY <4>1, <4>2
      <3> QED BY <2>1, <2>4, <3>2, <3>3 DEF QueueInv, Caller
    <2>7. RecordInv'
      <3>1. \A d : Auditing(recordWork, d) => Auditing(recordWork', d)
        BY <1>2, <2>4 DEF Auditing
      <3> QED BY <1>4, <2>1, <3>1 DEF MemoryInv, RecordInv, Kept
    <2> QED BY <2>5, <2>6, <2>7 DEF MemoryInv
  <1> QED BY <1>3, <1>4 DEF ReadRecord

\* A call that the record does not hold is put in front, and the oldest falls off the end.
LEMMA Remembers ==
  ASSUME NEW c \in Calls, NEW h \in Seq(Calls), NEW a \in Seq(Calls),
         Len(h) = (IF Len(a) <= MaxItems THEN Len(a) ELSE MaxItems),
         \A i \in 1..Len(h) : h[i] = a[Len(a) - i + 1],
         \A n \in DOMAIN a : a[n] # c
  PROVE  LET r == Remembering(c, h)
             b == Append(a, c)
         IN /\ r \in Seq(Calls)
            /\ Len(r) = (IF Len(b) <= MaxItems THEN Len(b) ELSE MaxItems)
            /\ \A i \in 1..Len(r) : r[i] = b[Len(b) - i + 1]
  <1>1. /\ Len(h) \in Nat /\ DOMAIN h = 1..Len(h) /\ Len(a) \in Nat /\ DOMAIN a = 1..Len(a)
        /\ Len(h) <= Len(a)
    BY LenProperties, Bounds
  <1>2. \A i \in DOMAIN h : h[i] # c
    BY <1>1
  <1>3. Without(c, h) = h
    BY <1>2 DEF Without
  <1> DEFINE all == <<c>> \o h
             size == IF Len(all) < MaxItems THEN Len(all) ELSE MaxItems
             r == Remembering(c, h)
             b == Append(a, c)
  <1>4. /\ all \in Seq(Calls) /\ Len(all) = Len(h) + 1
        /\ \A i \in 1..Len(all) : all[i] = IF i = 1 THEN c ELSE h[i - 1]
    <2>1. <<c>> \in Seq(Calls) /\ Len(<<c>>) = 1 /\ <<c>>[1] = c
      OBVIOUS
    <2>2. /\ all \in Seq(Calls) /\ Len(all) = Len(<<c>>) + Len(h)
          /\ \A i \in 1..Len(<<c>>) + Len(h) :
               all[i] = IF i <= Len(<<c>>) THEN <<c>>[i] ELSE h[i - Len(<<c>>)]
      BY <2>1, ConcatProperties
    <2> HIDE DEF all
    <2>3. Len(all) = Len(h) + 1
      <3>1. Len(all) = Len(<<c>>) + Len(h)
        BY <2>2, LenProperties
      <3> QED BY <1>1, <2>1, <3>1
    <2>4. ASSUME NEW i \in 1..Len(all)
          PROVE  all[i] = IF i = 1 THEN c ELSE h[i - 1]
      <3>1. i \in 1..Len(<<c>>) + Len(h)
        BY <1>1, <2>1, <2>3
      <3>2. all[i] = IF i <= Len(<<c>>) THEN <<c>>[i] ELSE h[i - Len(<<c>>)]
        BY <2>2, <3>1
      <3>3. i <= Len(<<c>>) <=> i = 1
        BY <1>1, <2>1, <2>3
      <3>4. CASE i = 1
        BY <2>1, <3>2, <3>3, <3>4
      <3>5. CASE i # 1
        BY <2>1, <3>2, <3>3, <3>5
      <3> QED BY <3>4, <3>5
    <2> QED BY <2>2, <2>3, <2>4
  <1>5. r = SubSeq(all, 1, size)
    BY <1>3 DEF Remembering
  <1> HIDE DEF all, r
  <1>6. size \in Nat /\ size >= 1 /\ size <= Len(all)
    BY <1>1, <1>4, Bounds
  <1>7. \A i \in 1..size : all[i] \in Calls
    BY <1>4, <1>6, ElementOfSeq
  <1>8. r \in Seq(Calls) /\ Len(r) = size /\ \A i \in 1..size : r[i] = all[i]
    <2>1. /\ SubSeq(all, 1, size) \in Seq(Calls)
          /\ Len(SubSeq(all, 1, size)) = IF 1 <= size THEN size - 1 + 1 ELSE 0
          /\ \A i \in 1..size - 1 + 1 : SubSeq(all, 1, size)[i] = all[1 + i - 1]
      <3> HIDE DEF size
      <3> QED BY <1>6, <1>7, SubSeqProperties
    <2> HIDE DEF size
    <2> QED BY <1>5, <1>6, <2>1
  <1>9. /\ Len(b) = Len(a) + 1 /\ b[Len(a) + 1] = c
        /\ \A i \in 1..Len(a) : b[i] = a[i]
    BY <1>1, Appends
  <1> HIDE DEF b
  <1>10. Len(r) = (IF Len(b) <= MaxItems THEN Len(b) ELSE MaxItems)
    BY <1>1, <1>4, <1>8, <1>9, Bounds
  <1>11. \A i \in 1..Len(r) : r[i] = b[Len(b) - i + 1]
    <2> TAKE i \in 1..Len(r)
    <2>1. r[i] = IF i = 1 THEN c ELSE h[i - 1]
      BY <1>4, <1>6, <1>8
    <2>2. CASE i = 1
      BY <1>1, <1>9, <2>1, <2>2
    <2>3. CASE i # 1
      <3>1. i - 1 \in 1..Len(h) /\ i \in Nat
        BY <1>1, <1>4, <1>6, <1>8, <2>3
      <3>2. h[i - 1] = a[Len(a) - (i - 1) + 1]
        BY <3>1
      <3>3. Len(a) - (i - 1) + 1 \in 1..Len(a) /\ Len(a) - (i - 1) + 1 = Len(b) - i + 1
        BY <1>1, <1>9, <3>1
      <3> QED BY <1>9, <2>1, <2>3, <3>2, <3>3
    <2> QED BY <2>2, <2>3
  <1> QED BY <1>8, <1>10, <1>11 DEF b, r

\* The record of a call is written.
LEMMA WriteMemory ==
  ASSUME MemoryInv, NEW i \in 1..Len(recordWork), WriteRecord(i)
  PROVE  MemoryInv'
  <1> DEFINE op == recordWork[i]
             c == op.call
             caller == Caller(c)
             next == [op EXCEPT !.at = "audit"]
             r == Remembering(c, op.snap)
             b == Append(appended[caller], c)
  <1>1. recordWork \in Seq(Ops) /\ DOMAIN recordWork = 1..Len(recordWork) /\ op \in Ops /\ i \in DOMAIN recordWork
    BY LenProperties, ElementOfSeq DEF MemoryInv, QueueInv
  <1>2. /\ op.at = "read" /\ records' = [records EXCEPT ![caller].history = r]
        /\ appended' = [appended EXCEPT ![caller] = b]
        /\ recordWork' = [recordWork EXCEPT ![i].at = "audit"]
        /\ UNCHANGED <<calls, lookups, contexts, archive, audit, blocked, told, lost>>
    BY DEF WriteRecord
  <1>3. c \in Calls /\ i = 1 /\ caller \in Callers /\ op.snap = records[caller].history
        /\ calls[c].at = "over"
    <2>1. c \in Calls
      BY <1>1 DEF Ops
    <2>2. i = 1 /\ op.snap = records[caller].history
      BY <1>1, <1>2 DEF MemoryInv, QueueInv
    <2>3. PICK g \in Links : archive[g] # <<>> /\ Head(archive[g]) = c
      BY <1>1 DEF MemoryInv, QueueInv
    <2>4. archive[g] \in Seq(Calls)
      BY DEF MemoryInv, ArchiveInv
    <2>5. 1 \in DOMAIN archive[g] /\ archive[g][1] = c
      BY <2>3, <2>4, Tails
    <2> QED BY <2>1, <2>2, <2>5 DEF Caller, MemoryInv, CallInv, ArchiveInv
  <1>4. \A d : Auditing(recordWork, d) => d # c
    BY <1>1, <1>2 DEF Auditing, MemoryInv, QueueInv
  <1>5. \A other \in Callers : \A n \in DOMAIN appended[other] : appended[other][n] # c
    <2> TAKE other \in Callers
    <2> TAKE n \in DOMAIN appended[other]
    <2>1. PICK g \in Links : archive[g] # <<>> /\ Head(archive[g]) = c
      BY <1>1 DEF MemoryInv, QueueInv
    <2>2. archive[g] \in Seq(Calls)
      BY DEF MemoryInv, ArchiveInv
    <2>3. 1 \in DOMAIN archive[g] /\ archive[g][1] = c
      BY <2>1, <2>2, Tails
    <2>4. archive[g][1] = appended[other][n] => Auditing(recordWork, appended[other][n])
      BY <2>3 DEF MemoryInv, RecordInv
    <2> QED BY <1>4, <2>3, <2>4
  <1>6. /\ records \in [Callers -> [consent : BOOLEAN, history : Seq(Calls)]]
        /\ appended \in [Callers -> Seq(Calls)]
    BY DEF MemoryInv, RecordInv
  <1>7. /\ r \in Seq(Calls) /\ b \in Seq(Calls)
        /\ Len(r) = (IF Len(b) <= MaxItems THEN Len(b) ELSE MaxItems)
        /\ \A k \in 1..Len(r) : r[k] = b[Len(b) - k + 1]
    <2>1. op.snap \in Seq(Calls) /\ appended[caller] \in Seq(Calls)
      BY <1>3, <1>6
    <2>2. /\ Len(op.snap) = (IF Len(appended[caller]) <= MaxItems THEN Len(appended[caller]) ELSE MaxItems)
          /\ \A k \in 1..Len(op.snap) : op.snap[k] = appended[caller][Len(appended[caller]) - k + 1]
      BY <1>3 DEF MemoryInv, RecordInv, Kept
    <2>3. \A n \in DOMAIN appended[caller] : appended[caller][n] # c
      BY <1>3, <1>5
    <2>4. b \in Seq(Calls)
      BY <1>3, <2>1, Appends
    <2> HIDE DEF op, c, caller
    <2> QED BY <1>3, <2>1, <2>2, <2>3, <2>4, Remembers
  <1>8. /\ DOMAIN b = 1..(Len(appended[caller]) + 1)
        /\ \A n \in DOMAIN b : b[n] = c \/ (n \in DOMAIN appended[caller] /\ b[n] = appended[caller][n])
    <2>1. appended[caller] \in Seq(Calls)
      BY <1>3, <1>6
    <2> HIDE DEF caller, c
    <2>2. /\ DOMAIN Append(appended[caller], c) = 1..(Len(appended[caller]) + 1)
          /\ \A n \in DOMAIN appended[caller] : Append(appended[caller], c)[n] = appended[caller][n]
          /\ Append(appended[caller], c)[Len(appended[caller]) + 1] = c
          /\ \A n \in DOMAIN Append(appended[caller], c) :
               n \in DOMAIN appended[caller] \/ n = Len(appended[caller]) + 1
      BY <1>3, <2>1, Appends
    <2> QED BY <2>2
  <1>9. next \in Ops /\ next.call = c /\ next.at = "audit"
    BY <1>1 DEF Ops
  <1>10. /\ recordWork' \in Seq(Ops) /\ DOMAIN recordWork' = DOMAIN recordWork
         /\ \A m \in DOMAIN recordWork : recordWork'[m] = IF m = i THEN next ELSE recordWork[m]
    <2>1. recordWork' = [recordWork EXCEPT ![i] = next]
      BY <1>1, <1>2
    <2> HIDE DEF next
    <2> QED BY <1>1, <1>9, <2>1, ExceptSeq
  <1>11. /\ records' \in [Callers -> [consent : BOOLEAN, history : Seq(Calls)]]
         /\ records'[caller].history = r /\ \A d \in Callers : d # caller => records'[d] = records[d]
    <2> HIDE DEF r, caller
    <2> QED BY <1>2, <1>3, <1>6, <1>7
  <1>12. /\ appended' \in [Callers -> Seq(Calls)] /\ appended'[caller] = b
         /\ \A d \in Callers : d # caller => appended'[d] = appended[d]
    <2> HIDE DEF b, caller
    <2> QED BY <1>2, <1>3, <1>6, <1>7
  <1> HIDE DEF r, b, caller, next
  <1>13. CallInv' /\ ArchiveInv'
    BY <1>2 DEF MemoryInv, CallInv, ArchiveInv, ToldAudited, Entry
  <1>14. QueueInv'
    <2>1. \A m \in DOMAIN recordWork : recordWork'[m].call = recordWork[m].call
      BY <1>9, <1>10
    <2>2. \A m, n \in DOMAIN recordWork' : recordWork'[m].call = recordWork'[n].call => m = n
      BY <1>10, <2>1 DEF MemoryInv, QueueInv
    <2>3. \A m \in DOMAIN recordWork' :
            /\ \E g \in Links : archive'[g] # <<>> /\ Head(archive'[g]) = recordWork'[m].call
            /\ recordWork'[m].at # "queued" => m = 1
            /\ recordWork'[m].at # "read"
      <3> TAKE m \in DOMAIN recordWork'
      <3>1. \E g \in Links : archive'[g] # <<>> /\ Head(archive'[g]) = recordWork'[m].call
        BY <1>2, <1>10, <2>1 DEF MemoryInv, QueueInv
      <3>2. recordWork[m].at # "queued" => m = 1
        BY <1>10 DEF MemoryInv, QueueInv
      <3> QED BY <1>3, <1>9, <1>10, <3>1, <3>2
    <2> QED BY <1>10, <2>2, <2>3 DEF QueueInv
  <1>15. RecordInv'
    <2>1. \A d : Auditing(recordWork, d) => Auditing(recordWork', d)
      BY <1>9, <1>10 DEF Auditing
    <2>2. Auditing(recordWork', c)
      BY <1>1, <1>9, <1>10 DEF Auditing
    <2>3. \A other \in Callers : \A n \in DOMAIN appended'[other] :
            /\ calls'[appended'[other][n]].at = "over"
            /\ \A g \in Links : \A j \in DOMAIN archive'[g] : archive'[g][j] = appended'[other][n] =>
                 Auditing(recordWork', appended'[other][n])
      <3> TAKE other \in Callers
      <3> TAKE n \in DOMAIN appended'[other]
      <3>1. CASE appended'[other][n] = c
        BY <1>2, <1>3, <2>2, <3>1
      <3>2. CASE n \in DOMAIN appended[other] /\ appended'[other][n] = appended[other][n]
        <4>1. /\ calls[appended[other][n]].at = "over"
              /\ \A g \in Links : \A j \in DOMAIN archive[g] : archive[g][j] = appended[other][n] =>
                   Auditing(recordWork, appended[other][n])
          BY <3>2 DEF MemoryInv, RecordInv
        <4> QED BY <1>2, <2>1, <3>2, <4>1
      <3>3. appended'[other][n] = c \/ (n \in DOMAIN appended[other] /\ appended'[other][n] = appended[other][n])
        BY <1>8, <1>12
      <3> QED BY <3>1, <3>2, <3>3
    <2>4. Kept'
      <3> SUFFICES ASSUME NEW other \in Callers
                   PROVE  LET history == records'[other].history
                              n == Len(appended'[other])
                          IN /\ Len(history) = (IF n <= MaxItems THEN n ELSE MaxItems)
                             /\ \A k \in 1..Len(history) :
                                  history[k] = appended'[other][n - k + 1]
        BY DEF Kept
      <3>1. CASE other = caller
        BY <1>7, <1>11, <1>12, <3>1
      <3>2. CASE other # caller
        <4>1. LET history == records[other].history
                  n == Len(appended[other])
              IN /\ Len(history) = (IF n <= MaxItems THEN n ELSE MaxItems)
                 /\ \A k \in 1..Len(history) : history[k] = appended[other][n - k + 1]
          BY DEF MemoryInv, RecordInv, Kept
        <4> QED BY <1>11, <1>12, <3>2, <4>1
      <3> QED BY <3>1, <3>2
    <2> QED BY <1>2, <1>11, <1>12, <2>3, <2>4 DEF MemoryInv, RecordInv
  <1> QED BY <1>13, <1>14, <1>15 DEF MemoryInv

\* An append ends: its record could not be written, or its audit is over.
LEMMA EndMemory ==
  ASSUME MemoryInv, NEW i \in 1..Len(recordWork), WriteRecordFails(i) \/ RecordAudited(i)
  PROVE  MemoryInv'
  <1>1. recordWork \in Seq(Ops) /\ DOMAIN recordWork = 1..Len(recordWork) /\ recordWork[i] \in Ops
    BY LenProperties, ElementOfSeq DEF MemoryInv, QueueInv
  <1>2. recordWork[i].at # "queued"
    BY DEF WriteRecordFails, RecordAudited
  <1>3. i = 1 /\ recordWork[i].call \in Calls
    BY <1>1, <1>2 DEF MemoryInv, QueueInv, Ops
  <1>4. /\ lost' \subseteq Calls
        /\ UNCHANGED <<calls, lookups, contexts, audit, records, appended, told>>
    BY <1>3 DEF WriteRecordFails, RecordAudited, MemoryInv, CallInv
  <1>5. CASE WriteRecordFails(i)
    <2>1. Settle(i, FALSE) /\ blocked' = blocked \cup {Caller(recordWork[i].call)}
      BY <1>5 DEF WriteRecordFails
    <2>2. Caller(recordWork[i].call) \in Callers
      BY <1>3 DEF Caller, MemoryInv, CallInv
    <2>3. blocked' \subseteq Callers
      BY <2>1, <2>2 DEF MemoryInv, RecordInv
    <2> QED BY <1>1, <1>3, <1>4, <2>1, <2>3, SettleMemory
  <1>6. CASE RecordAudited(i)
    <2>1. \E ok : Settle(i, ok)
      BY <1>6 DEF RecordAudited
    <2>2. blocked' \subseteq Callers
      BY <1>6 DEF RecordAudited, MemoryInv, RecordInv
    <2> QED BY <1>1, <1>3, <1>4, <2>1, <2>2, SettleMemory
  <1> QED BY <1>5, <1>6

\* An entry is written to the audit, or cannot be.
LEMMA AuditMemory ==
  ASSUME MemoryInv, WriteAudit \/ AuditFails
  PROVE  MemoryInv'
  <1>1. UNCHANGED <<calls, lookups, contexts, archive, recordWork, records, blocked, appended, told, lost>>
    BY DEF WriteAudit, AuditFails
  <1>2. /\ audit' = [log |-> audit'.log, broken |-> audit'.broken] /\ audit'.broken \in BOOLEAN
        /\ \A e \in audit.log : e \in audit'.log
    <2>1. audit = [log |-> audit.log, broken |-> audit.broken] /\ audit.broken \in BOOLEAN
      BY DEF MemoryInv, CallInv
    <2>2. CASE WriteAudit
      BY <2>1, <2>2 DEF WriteAudit
    <2>3. CASE AuditFails
      BY <2>1, <2>3 DEF AuditFails
    <2> QED BY <2>2, <2>3
  <1>3. CallInv'
    BY <1>1, <1>2 DEF MemoryInv, CallInv, ToldAudited, Entry
  <1>4. \A c \in Calls : calls[c].at = "over" => calls'[c].at = "over" /\ calls'[c].caller = calls[c].caller
    BY <1>1
  <1> QED BY <1>1, <1>3, <1>4, CallsMove

\* A consent comes to its end.
LEMMA ExpiresMemory ==
  ASSUME MemoryInv, NEW caller \in Callers, Expires(caller)
  PROVE  MemoryInv'
  <1>1. /\ records' = [records EXCEPT ![caller].consent = FALSE]
        /\ UNCHANGED <<calls, lookups, contexts, archive, recordWork, audit, blocked, appended, told, lost>>
    BY DEF Expires
  <1>2. /\ records' \in [Callers -> [consent : BOOLEAN, history : Seq(Calls)]]
        /\ \A d \in Callers : records'[d].history = records[d].history
    BY <1>1 DEF MemoryInv, RecordInv
  <1>3. CallInv' /\ ArchiveInv'
    BY <1>1 DEF MemoryInv, CallInv, ArchiveInv, ToldAudited, Entry
  <1>4. QueueInv'
    <2>1. \A i \in DOMAIN recordWork : Caller(recordWork[i].call) \in Callers
      <3> TAKE i \in DOMAIN recordWork
      <3>1. recordWork[i] \in Ops
        BY LenProperties, ElementOfSeq DEF MemoryInv, QueueInv
      <3> QED BY <3>1 DEF Ops, Caller, MemoryInv, CallInv
    <2>2. \A i \in DOMAIN recordWork :
            /\ \E g \in Links : archive[g] # <<>> /\ Head(archive[g]) = recordWork[i].call
            /\ recordWork[i].at # "queued" => i = 1
            /\ recordWork[i].at = "read" =>
                 recordWork[i].snap = records'[Caller(recordWork[i].call)].history
      BY <1>2, <2>1 DEF MemoryInv, QueueInv
    <2>3. \A i \in DOMAIN recordWork : Caller(recordWork[i].call)' = Caller(recordWork[i].call)
      BY <1>1 DEF Caller
    <2> QED BY <1>1, <2>2, <2>3 DEF MemoryInv, QueueInv
  <1>5. RecordInv'
    <2>1. Kept'
      <3> SUFFICES ASSUME NEW other \in Callers
                   PROVE  LET history == records'[other].history
                              n == Len(appended'[other])
                          IN /\ Len(history) = (IF n <= MaxItems THEN n ELSE MaxItems)
                             /\ \A k \in 1..Len(history) :
                                  history[k] = appended'[other][n - k + 1]
        BY DEF Kept
      <3>1. LET history == records[other].history
                n == Len(appended[other])
            IN /\ Len(history) = (IF n <= MaxItems THEN n ELSE MaxItems)
               /\ \A k \in 1..Len(history) : history[k] = appended[other][n - k + 1]
        BY DEF MemoryInv, RecordInv, Kept
      <3> QED BY <1>1, <1>2, <3>1
    <2> QED BY <1>1, <1>2, <2>1 DEF MemoryInv, RecordInv
  <1> QED BY <1>3, <1>4, <1>5 DEF MemoryInv

\* The daemon dies, and what was not written is lost.
LEMMA CrashMemory ==
  ASSUME MemoryInv, Crash
  PROVE  MemoryInv'
  <1>1. /\ lost' = lost \cup UNION {ToSet(archive[g]) : g \in Links}
        /\ lookups' = <<>> /\ contexts' = {} /\ archive' = [g \in Links |-> <<>>]
        /\ recordWork' = <<>> /\ audit' = [audit EXCEPT !.broken = FALSE] /\ blocked' = {}
        /\ UNCHANGED <<calls, records, appended, told>>
    BY DEF Crash
  <1>2. lost' \subseteq Calls
    <2>1. \A g \in Links : ToSet(archive[g]) \subseteq Calls
      BY DEF ToSet, MemoryInv, ArchiveInv
    <2> QED BY <1>1, <2>1 DEF MemoryInv, CallInv
  <1>3. /\ audit' = [log |-> audit'.log, broken |-> audit'.broken] /\ audit'.log = audit.log
        /\ audit'.broken \in BOOLEAN
    BY <1>1 DEF MemoryInv, CallInv
  <1>4. CallInv'
    <2>1. lookups' \in Seq([call : Calls, at : {"queued", "audit"}])
      BY <1>1
    <2> QED BY <1>1, <1>2, <1>3, <2>1 DEF MemoryInv, CallInv, ToldAudited, Entry
  <1>5. ArchiveInv'
    BY <1>1 DEF ArchiveInv
  <1>6. QueueInv'
    BY <1>1 DEF QueueInv
  <1>7. RecordInv'
    <2>1. \A g \in Links : DOMAIN archive'[g] = {}
      BY <1>1
    <2>2. Kept'
      BY <1>1 DEF MemoryInv, RecordInv, Kept
    <2> QED BY <1>1, <2>1, <2>2 DEF MemoryInv, RecordInv
  <1> QED BY <1>4, <1>5, <1>6, <1>7 DEF MemoryInv

\* A connection comes with a gateway of its own.
LEMMA ConnectMemory ==
  ASSUME MemoryInv, Connect
  PROVE  MemoryInv'
  <1>1. /\ contexts' = {}
        /\ UNCHANGED <<calls, lookups, archive, recordWork, audit, records, blocked, appended, told, lost>>
    BY DEF Connect
  <1>2. CallInv'
    BY <1>1 DEF MemoryInv, CallInv, ToldAudited, Entry
  <1> QED BY <1>1, <1>2, CallsMove

\* Every step keeps the invariant of the memory.
LEMMA MemoryNext ==
  ASSUME MemoryInv, link \in 0..MaxLinks, [Next]_vars
  PROVE  MemoryInv'
  <1>1. CASE Connect
    BY <1>1, ConnectMemory
  <1>2. CASE Crash
    BY <1>2, CrashMemory
  <1>3. CASE \E c \in Calls : Rings(c) \/ Ends(c)
    BY <1>3, RingsMemory, EndsMemory
  <1>4. CASE LookUpStep
    BY <1>4, LookUpMemory
  <1>5. CASE AppendStep \/ (\E i \in 1..Len(recordWork) : WriteRecordFails(i))
    BY <1>5, BeginMemory, ReadMemory, WriteMemory, EndMemory DEF AppendStep
  <1>6. CASE WriteAudit \/ AuditFails
    BY <1>6, AuditMemory
  <1>7. CASE \E caller \in Callers : Expires(caller)
    BY <1>7, ExpiresMemory
  <1>8. CASE UNCHANGED memoryVars
    BY <1>8, MemoryStutter
  <1>9. CASE UNCHANGED vars
    BY <1>9, MemoryStutter DEF vars
  <1>10. CASE GatewayStep \/ LinkLost \/ Edit \/ HearStep \/ PhoneStep \/ ChainStep
              \/ (\E g \in Links : WriteFails(g))
    <2>1. UNCHANGED memoryVars
      BY <1>10 DEF GatewayStep, Bind, Started, Stopped, LinkLost, Edit, HearStep, HearCapabilities,
         HearPage, PhoneStep, ReadRows, SendPage, ChainStep, SendRequest, TakePage, Rename,
         WriteFails, EndWrite
    <2> QED BY <2>1, MemoryStutter
  <1> QED BY <1>1, <1>2, <1>3, <1>4, <1>5, <1>6, <1>7, <1>9, <1>10 DEF Next

-----------------------------------------------------------------------------
(* Sequences in which pages come between other things *)

IsPage(x) == x.what = "page"

\* A page goes on with the snapshot of the one before it, or begins one that is no older.
Follows(f, h) ==
  /\ f.rows.book <= h.rows.book
  /\ IF f.final THEN h.page = 1
     ELSE h.req = f.req /\ h.page = f.page + 1 /\ h.rows.book = f.rows.book

\* The first page, the last one, none, and one after the other.
Leads(q, f) ==
  \E i \in DOMAIN q : q[i] = f /\ IsPage(f) /\ \A m \in DOMAIN q : m < i => ~IsPage(q[m])
Trails(q, f) ==
  \E i \in DOMAIN q : q[i] = f /\ IsPage(f) /\ \A m \in DOMAIN q : m > i => ~IsPage(q[m])
Void(q) == \A i \in DOMAIN q : ~IsPage(q[i])
Chained(q) ==
  \A i, j \in DOMAIN q :
    i < j /\ IsPage(q[i]) /\ IsPage(q[j]) /\ (\A m \in DOMAIN q : i < m /\ m < j => ~IsPage(q[m]))
      => Follows(q[i], q[j])

\* Sequences with the same pages, as far as these can tell.
Same(q, r) ==
  /\ Void(q) = Void(r) /\ Chained(q) = Chained(r)
  /\ \A f : Leads(q, f) = Leads(r, f) /\ Trails(q, f) = Trails(r, f)

\* Where the elements of two joined sequences are.
LEMMA Joins ==
  ASSUME NEW S, NEW a \in Seq(S), NEW b \in Seq(S), NEW c, c = a \o b
  PROVE  /\ c \in Seq(S) /\ Len(a) \in Nat /\ Len(b) \in Nat /\ Len(c) = Len(a) + Len(b)
         /\ DOMAIN a = 1..Len(a) /\ DOMAIN b = 1..Len(b) /\ DOMAIN c = 1..Len(c)
         /\ \A i \in DOMAIN a : c[i] = a[i] /\ i \in DOMAIN c
         /\ \A i \in DOMAIN b : c[Len(a) + i] = b[i] /\ Len(a) + i \in DOMAIN c
         /\ \A i \in DOMAIN c : i \in DOMAIN a \/ (i > Len(a) /\ i - Len(a) \in DOMAIN b
                                                    /\ Len(a) + (i - Len(a)) = i)
  <1>1. /\ c \in Seq(S) /\ Len(c) = Len(a) + Len(b)
        /\ \A i \in 1..Len(a) + Len(b) : c[i] = IF i <= Len(a) THEN a[i] ELSE b[i - Len(a)]
    BY ConcatProperties
  <1>2. /\ Len(a) \in Nat /\ Len(b) \in Nat /\ DOMAIN a = 1..Len(a) /\ DOMAIN b = 1..Len(b)
        /\ DOMAIN c = 1..Len(c)
    BY <1>1, LenProperties
  <1>3. \A i \in DOMAIN b : c[Len(a) + i] = b[i] /\ Len(a) + i \in DOMAIN c
    <2> TAKE i \in DOMAIN b
    <2>1. Len(a) + i \in 1..Len(a) + Len(b) /\ ~(Len(a) + i <= Len(a)) /\ (Len(a) + i) - Len(a) = i
      BY <1>2
    <2> QED BY <1>1, <1>2, <2>1
  <1> QED BY <1>1, <1>2, <1>3

\* No page in two joined sequences.
LEMMA JoinVoid ==
  ASSUME NEW S, NEW a \in Seq(S), NEW b \in Seq(S)
  PROVE  Void(a \o b) <=> Void(a) /\ Void(b)
  <1>1. PICK c : c = a \o b
    OBVIOUS
  <1>2. /\ \A i \in DOMAIN a : c[i] = a[i] /\ i \in DOMAIN c
        /\ \A i \in DOMAIN b : c[Len(a) + i] = b[i] /\ Len(a) + i \in DOMAIN c
        /\ \A i \in DOMAIN c : i \in DOMAIN a \/ (i - Len(a) \in DOMAIN b /\ Len(a) + (i - Len(a)) = i)
    BY <1>1, Joins
  <1>3. Void(c) => Void(a) /\ Void(b)
    BY <1>2 DEF Void
  <1>4. Void(a) /\ Void(b) => Void(c)
    <2> SUFFICES ASSUME Void(a), Void(b), NEW i \in DOMAIN c
                 PROVE  ~IsPage(c[i])
      BY DEF Void
    <2>1. CASE i \in DOMAIN a
      BY <1>2, <2>1 DEF Void
    <2>2. CASE i - Len(a) \in DOMAIN b /\ Len(a) + (i - Len(a)) = i
      <3>1. c[i] = b[i - Len(a)]
        BY <1>2, <2>2
      <3> QED BY <2>2, <3>1 DEF Void
    <2> QED BY <1>2, <2>1, <2>2
  <1> QED BY <1>1, <1>3, <1>4

\* The first page of two joined sequences.
LEMMA JoinLeads ==
  ASSUME NEW S, NEW a \in Seq(S), NEW b \in Seq(S), NEW f
  PROVE  Leads(a \o b, f) <=> Leads(a, f) \/ (Void(a) /\ Leads(b, f))
  <1>1. PICK c : c = a \o b
    OBVIOUS
  <1>2. /\ c \in Seq(S) /\ Len(a) \in Nat /\ Len(b) \in Nat /\ Len(c) = Len(a) + Len(b)
        /\ DOMAIN a = 1..Len(a) /\ DOMAIN b = 1..Len(b) /\ DOMAIN c = 1..Len(c)
        /\ \A i \in DOMAIN a : c[i] = a[i] /\ i \in DOMAIN c
        /\ \A i \in DOMAIN b : c[Len(a) + i] = b[i] /\ Len(a) + i \in DOMAIN c
        /\ \A i \in DOMAIN c : i \in DOMAIN a \/ (i > Len(a) /\ i - Len(a) \in DOMAIN b
                                                   /\ Len(a) + (i - Len(a)) = i)
    BY <1>1, Joins
  <1>3. ASSUME Leads(c, f)
        PROVE  Leads(a, f) \/ (Void(a) /\ Leads(b, f))
    <2>1. PICK i \in DOMAIN c : c[i] = f /\ IsPage(f) /\ \A m \in DOMAIN c : m < i => ~IsPage(c[m])
      BY <1>3 DEF Leads
    <2>2. CASE i \in DOMAIN a
      BY <1>2, <2>1, <2>2 DEF Leads
    <2>3. CASE i > Len(a) /\ i - Len(a) \in DOMAIN b /\ Len(a) + (i - Len(a)) = i
      <3>1. Void(a)
        BY <1>2, <2>1, <2>3 DEF Void
      <3>2. b[i - Len(a)] = f
        BY <1>2, <2>1, <2>3
      <3>3. \A m \in DOMAIN b : m < i - Len(a) => ~IsPage(b[m])
        <4> TAKE m \in DOMAIN b
        <4>1. m < i - Len(a) => Len(a) + m < i
          BY <1>2, <2>3
        <4> QED BY <1>2, <2>1, <4>1
      <3> QED BY <2>1, <2>3, <3>1, <3>2, <3>3 DEF Leads
    <2> QED BY <1>2, <2>2, <2>3
  <1>4. ASSUME Leads(a, f)
        PROVE  Leads(c, f)
    <2>1. PICK i \in DOMAIN a : a[i] = f /\ IsPage(f) /\ \A m \in DOMAIN a : m < i => ~IsPage(a[m])
      BY <1>4 DEF Leads
    <2>2. \A m \in DOMAIN c : m < i => m \in DOMAIN a
      BY <1>2
    <2> QED BY <1>2, <2>1, <2>2 DEF Leads
  <1>5. ASSUME Void(a), Leads(b, f)
        PROVE  Leads(c, f)
    <2>1. PICK i \in DOMAIN b : b[i] = f /\ IsPage(f) /\ \A m \in DOMAIN b : m < i => ~IsPage(b[m])
      BY <1>5 DEF Leads
    <2>2. \A m \in DOMAIN c : m < Len(a) + i => ~IsPage(c[m])
      <3> TAKE m \in DOMAIN c
      <3>1. CASE m \in DOMAIN a
        BY <1>2, <1>5, <3>1 DEF Void
      <3>2. CASE m > Len(a) /\ m - Len(a) \in DOMAIN b /\ Len(a) + (m - Len(a)) = m
        <4>1. m < Len(a) + i => m - Len(a) < i
          BY <1>2, <3>2
        <4> QED BY <1>2, <2>1, <3>2, <4>1
      <3> QED BY <1>2, <3>1, <3>2
    <2> QED BY <1>2, <2>1, <2>2 DEF Leads
  <1> QED BY <1>1, <1>3, <1>4, <1>5

\* The last page of two joined sequences.
LEMMA JoinTrails ==
  ASSUME NEW S, NEW a \in Seq(S), NEW b \in Seq(S), NEW f
  PROVE  Trails(a \o b, f) <=> Trails(b, f) \/ (Void(b) /\ Trails(a, f))
  <1>1. PICK c : c = a \o b
    OBVIOUS
  <1>2. /\ c \in Seq(S) /\ Len(a) \in Nat /\ Len(b) \in Nat /\ Len(c) = Len(a) + Len(b)
        /\ DOMAIN a = 1..Len(a) /\ DOMAIN b = 1..Len(b) /\ DOMAIN c = 1..Len(c)
        /\ \A i \in DOMAIN a : c[i] = a[i] /\ i \in DOMAIN c
        /\ \A i \in DOMAIN b : c[Len(a) + i] = b[i] /\ Len(a) + i \in DOMAIN c
        /\ \A i \in DOMAIN c : i \in DOMAIN a \/ (i > Len(a) /\ i - Len(a) \in DOMAIN b
                                                   /\ Len(a) + (i - Len(a)) = i)
    BY <1>1, Joins
  <1>3. ASSUME Trails(c, f)
        PROVE  Trails(b, f) \/ (Void(b) /\ Trails(a, f))
    <2>1. PICK i \in DOMAIN c : c[i] = f /\ IsPage(f) /\ \A m \in DOMAIN c : m > i => ~IsPage(c[m])
      BY <1>3 DEF Trails
    <2>2. CASE i \in DOMAIN a
      <3>1. \A m \in DOMAIN b : Len(a) + m > i
        BY <1>2, <2>2
      <3>2. Void(b)
        BY <1>2, <2>1, <3>1 DEF Void
      <3> QED BY <1>2, <2>1, <2>2, <3>2 DEF Trails
    <2>3. CASE i > Len(a) /\ i - Len(a) \in DOMAIN b /\ Len(a) + (i - Len(a)) = i
      <3>1. b[i - Len(a)] = f
        BY <1>2, <2>1, <2>3
      <3>2. \A m \in DOMAIN b : m > i - Len(a) => ~IsPage(b[m])
        <4> TAKE m \in DOMAIN b
        <4>1. m > i - Len(a) => Len(a) + m > i
          BY <1>2, <2>3
        <4> QED BY <1>2, <2>1, <4>1
      <3> QED BY <2>1, <2>3, <3>1, <3>2 DEF Trails
    <2> QED BY <1>2, <2>2, <2>3
  <1>4. ASSUME Trails(b, f)
        PROVE  Trails(c, f)
    <2>1. PICK i \in DOMAIN b : b[i] = f /\ IsPage(f) /\ \A m \in DOMAIN b : m > i => ~IsPage(b[m])
      BY <1>4 DEF Trails
    <2>2. \A m \in DOMAIN c : m > Len(a) + i => ~IsPage(c[m])
      <3> TAKE m \in DOMAIN c
      <3> HAVE m > Len(a) + i
      <3>1. m - Len(a) \in DOMAIN b /\ Len(a) + (m - Len(a)) = m /\ m - Len(a) > i
        BY <1>2
      <3> QED BY <1>2, <2>1, <3>1
    <2> QED BY <1>2, <2>1, <2>2 DEF Trails
  <1>5. ASSUME Void(b), Trails(a, f)
        PROVE  Trails(c, f)
    <2>1. PICK i \in DOMAIN a : a[i] = f /\ IsPage(f) /\ \A m \in DOMAIN a : m > i => ~IsPage(a[m])
      BY <1>5 DEF Trails
    <2>2. \A m \in DOMAIN c : m > i => ~IsPage(c[m])
      BY <1>2, <1>5, <2>1 DEF Void
    <2> QED BY <1>2, <2>1, <2>2 DEF Trails
  <1> QED BY <1>1, <1>3, <1>4, <1>5

\* One page after the other in two joined sequences, and from the one to the other.
LEMMA JoinChained ==
  ASSUME NEW S, NEW a \in Seq(S), NEW b \in Seq(S)
  PROVE  Chained(a \o b) <=>
           /\ Chained(a) /\ Chained(b)
           /\ \A f, h : Trails(a, f) /\ Leads(b, h) => Follows(f, h)
  <1>1. PICK c : c = a \o b
    OBVIOUS
  <1>2. /\ c \in Seq(S) /\ Len(a) \in Nat /\ Len(b) \in Nat /\ Len(c) = Len(a) + Len(b)
        /\ DOMAIN a = 1..Len(a) /\ DOMAIN b = 1..Len(b) /\ DOMAIN c = 1..Len(c)
        /\ \A i \in DOMAIN a : c[i] = a[i] /\ i \in DOMAIN c
        /\ \A i \in DOMAIN b : c[Len(a) + i] = b[i] /\ Len(a) + i \in DOMAIN c
        /\ \A i \in DOMAIN c : i \in DOMAIN a \/ (i > Len(a) /\ i - Len(a) \in DOMAIN b
                                                   /\ Len(a) + (i - Len(a)) = i)
    BY <1>1, Joins
  <1>3. ASSUME Chained(c)
        PROVE  Chained(a)
    <2> SUFFICES ASSUME NEW i \in DOMAIN a, NEW j \in DOMAIN a, i < j, IsPage(a[i]), IsPage(a[j]),
                        \A m \in DOMAIN a : i < m /\ m < j => ~IsPage(a[m])
                 PROVE  Follows(a[i], a[j])
      BY DEF Chained
    <2>1. \A m \in DOMAIN c : i < m /\ m < j => ~IsPage(c[m])
      BY <1>2
    <2>2. i \in DOMAIN c /\ j \in DOMAIN c /\ c[i] = a[i] /\ c[j] = a[j]
      BY <1>2
    <2> QED BY <1>3, <2>1, <2>2 DEF Chained
  <1>4. ASSUME Chained(c)
        PROVE  Chained(b)
    <2> SUFFICES ASSUME NEW i \in DOMAIN b, NEW j \in DOMAIN b, i < j, IsPage(b[i]), IsPage(b[j]),
                        \A m \in DOMAIN b : i < m /\ m < j => ~IsPage(b[m])
                 PROVE  Follows(b[i], b[j])
      BY DEF Chained
    <2> DEFINE x == Len(a) + i
               y == Len(a) + j
    <2>1. \A m \in DOMAIN c : x < m /\ m < y => ~IsPage(c[m])
      <3> TAKE m \in DOMAIN c
      <3> HAVE x < m /\ m < y
      <3>1. m - Len(a) \in DOMAIN b /\ Len(a) + (m - Len(a)) = m /\ i < m - Len(a) /\ m - Len(a) < j
        BY <1>2
      <3> QED BY <1>2, <3>1
    <2>2. x \in DOMAIN c /\ y \in DOMAIN c /\ c[x] = b[i] /\ c[y] = b[j] /\ x < y
      BY <1>2
    <2> HIDE DEF x, y
    <2> QED BY <1>4, <2>1, <2>2 DEF Chained
  <1>5. ASSUME Chained(c), NEW f, NEW h, Trails(a, f), Leads(b, h)
        PROVE  Follows(f, h)
    <2>1. PICK i \in DOMAIN a : a[i] = f /\ IsPage(f) /\ \A m \in DOMAIN a : m > i => ~IsPage(a[m])
      BY <1>5 DEF Trails
    <2>2. PICK j \in DOMAIN b : b[j] = h /\ IsPage(h) /\ \A m \in DOMAIN b : m < j => ~IsPage(b[m])
      BY <1>5 DEF Leads
    <2> DEFINE y == Len(a) + j
    <2>3. \A m \in DOMAIN c : i < m /\ m < y => ~IsPage(c[m])
      <3> TAKE m \in DOMAIN c
      <3> HAVE i < m /\ m < y
      <3>1. CASE m \in DOMAIN a
        BY <1>2, <2>1, <3>1
      <3>2. CASE m > Len(a) /\ m - Len(a) \in DOMAIN b /\ Len(a) + (m - Len(a)) = m
        <4>1. m - Len(a) < j
          BY <1>2, <3>2
        <4> QED BY <1>2, <2>2, <3>2, <4>1
      <3> QED BY <1>2, <3>1, <3>2
    <2>4. i \in DOMAIN c /\ y \in DOMAIN c /\ c[i] = f /\ c[y] = h /\ i < y
      BY <1>2, <2>1, <2>2
    <2> HIDE DEF y
    <2> QED BY <1>5, <2>1, <2>2, <2>3, <2>4 DEF Chained
  <1>6. ASSUME Chained(a), Chained(b), \A f, h : Trails(a, f) /\ Leads(b, h) => Follows(f, h)
        PROVE  Chained(c)
    <2> SUFFICES ASSUME NEW i \in DOMAIN c, NEW j \in DOMAIN c, i < j, IsPage(c[i]), IsPage(c[j]),
                        \A m \in DOMAIN c : i < m /\ m < j => ~IsPage(c[m])
                 PROVE  Follows(c[i], c[j])
      BY DEF Chained
    <2>1. CASE j \in DOMAIN a
      <3>1. i \in DOMAIN a
        BY <1>2, <2>1
      <3>2. \A m \in DOMAIN a : i < m /\ m < j => ~IsPage(a[m])
        BY <1>2
      <3> QED BY <1>2, <1>6, <2>1, <3>1, <3>2 DEF Chained
    <2>2. CASE i > Len(a) /\ i - Len(a) \in DOMAIN b /\ Len(a) + (i - Len(a)) = i
      <3> DEFINE x == i - Len(a)
                 y == j - Len(a)
      <3>1. x \in DOMAIN b /\ y \in DOMAIN b /\ x < y /\ Len(a) + x = i /\ Len(a) + y = j
        BY <1>2, <2>2
      <3>2. \A m \in DOMAIN b : x < m /\ m < y => ~IsPage(b[m])
        <4> TAKE m \in DOMAIN b
        <4> HAVE x < m /\ m < y
        <4>1. i < Len(a) + m /\ Len(a) + m < j
          BY <1>2, <3>1, SMTT(30)
        <4> QED BY <1>2, <4>1
      <3> HIDE DEF x, y
      <3>3. c[i] = b[x] /\ c[j] = b[y]
        BY <1>2, <3>1
      <3> QED BY <1>6, <3>1, <3>2, <3>3 DEF Chained
    <2>3. CASE i \in DOMAIN a /\ j > Len(a) /\ j - Len(a) \in DOMAIN b /\ Len(a) + (j - Len(a)) = j
      <3> DEFINE y == j - Len(a)
      <3>1. Trails(a, c[i])
        <4>1. \A m \in DOMAIN a : m > i => ~IsPage(a[m])
          BY <1>2, <2>3
        <4> QED BY <1>2, <2>3, <4>1 DEF Trails
      <3>2. Leads(b, c[j])
        <4>1. \A m \in DOMAIN b : m < y => ~IsPage(b[m])
          <5> TAKE m \in DOMAIN b
          <5> HAVE m < y
          <5>1. i < Len(a) + m /\ Len(a) + m < j
            BY <1>2, <2>3
          <5> QED BY <1>2, <5>1
        <4>2. y \in DOMAIN b /\ b[y] = c[j]
          BY <1>2, <2>3
        <4> HIDE DEF y
        <4> QED BY <4>1, <4>2 DEF Leads
      <3> QED BY <1>6, <3>1, <3>2
    <2> QED BY <1>2, <2>1, <2>2, <2>3
  <1> QED BY <1>1, <1>3, <1>4, <1>5, <1>6

\* What is in between and is no page makes no difference.
LEMMA Skips ==
  ASSUME NEW S, NEW a \in Seq(S), NEW n \in Seq(S), NEW b \in Seq(S), Void(n)
  PROVE  Same((a \o n) \o b, a \o b)
  <1>1. a \o n \in Seq(S)
    BY ConcatProperties
  <1>2. \A f : ~Leads(n, f) /\ ~Trails(n, f)
    BY DEF Leads, Trails, Void
  <1>3. Chained(n)
    BY DEF Chained, Void
  <1>4. Void((a \o n) \o b) = Void(a \o b)
    <2>1. Void((a \o n) \o b) <=> Void(a \o n) /\ Void(b)
      BY <1>1, JoinVoid
    <2>2. Void(a \o n) <=> Void(a) /\ Void(n)
      BY JoinVoid
    <2>3. Void(a \o b) <=> Void(a) /\ Void(b)
      BY JoinVoid
    <2>4. Void((a \o n) \o b) \in BOOLEAN /\ Void(a \o b) \in BOOLEAN
      BY DEF Void
    <2> QED BY <2>1, <2>2, <2>3, <2>4
  <1>5. ASSUME NEW f
        PROVE  Leads((a \o n) \o b, f) = Leads(a \o b, f)
    <2>1. Leads((a \o n) \o b, f) <=> Leads(a \o n, f) \/ (Void(a \o n) /\ Leads(b, f))
      BY <1>1, JoinLeads, ZenonT(60)
    <2>2. Leads(a \o n, f) <=> Leads(a, f) \/ (Void(a) /\ Leads(n, f))
      BY JoinLeads
    <2>3. Leads(a \o b, f) <=> Leads(a, f) \/ (Void(a) /\ Leads(b, f))
      BY JoinLeads
    <2>4. Void(a \o n) <=> Void(a) /\ Void(n)
      BY JoinVoid
    <2>5. Leads((a \o n) \o b, f) \in BOOLEAN /\ Leads(a \o b, f) \in BOOLEAN
      BY DEF Leads
    <2> QED BY <1>2, <2>1, <2>2, <2>3, <2>4, <2>5
  <1>6. ASSUME NEW f
        PROVE  Trails((a \o n) \o b, f) = Trails(a \o b, f)
    <2>1. Trails((a \o n) \o b, f) <=> Trails(b, f) \/ (Void(b) /\ Trails(a \o n, f))
      BY <1>1, JoinTrails
    <2>2. Trails(a \o n, f) <=> Trails(n, f) \/ (Void(n) /\ Trails(a, f))
      BY JoinTrails
    <2>3. Trails(a \o b, f) <=> Trails(b, f) \/ (Void(b) /\ Trails(a, f))
      BY JoinTrails
    <2>4. Trails((a \o n) \o b, f) \in BOOLEAN /\ Trails(a \o b, f) \in BOOLEAN
      BY DEF Trails
    <2> QED BY <1>2, <2>1, <2>2, <2>3, <2>4
  <1>7. Chained((a \o n) \o b) = Chained(a \o b)
    <2>1. Chained((a \o n) \o b) <=> /\ Chained(a \o n) /\ Chained(b)
                                     /\ \A f, h : Trails(a \o n, f) /\ Leads(b, h) => Follows(f, h)
      BY <1>1, JoinChained
    <2>2. Chained(a \o n) <=> /\ Chained(a) /\ Chained(n)
                              /\ \A f, h : Trails(a, f) /\ Leads(n, h) => Follows(f, h)
      BY JoinChained
    <2>3. Chained(a \o b) <=> /\ Chained(a) /\ Chained(b)
                              /\ \A f, h : Trails(a, f) /\ Leads(b, h) => Follows(f, h)
      BY JoinChained
    <2>4. \A f : Trails(a \o n, f) <=> Trails(n, f) \/ (Void(n) /\ Trails(a, f))
      BY JoinTrails
    <2>5. Chained((a \o n) \o b) \in BOOLEAN /\ Chained(a \o b) \in BOOLEAN
      BY DEF Chained
    <2>6. Chained((a \o n) \o b) <=> Chained(a \o b)
      BY <1>2, <1>3, <2>1, <2>2, <2>3, <2>4
    <2> QED BY <2>5, <2>6
  <1> QED BY <1>4, <1>5, <1>6, <1>7 DEF Same

\* A thing by itself.
LEMMA Alone ==
  ASSUME NEW x
  PROVE  /\ Chained(<<x>>) /\ Chained(<<>>) /\ Void(<<>>)
         /\ Void(<<x>>) <=> ~IsPage(x)
         /\ IsPage(x) => Leads(<<x>>, x) /\ Trails(<<x>>, x)
         /\ \A f : Leads(<<x>>, f) \/ Trails(<<x>>, f) => f = x /\ IsPage(x)
         /\ \A f : ~Leads(<<>>, f) /\ ~Trails(<<>>, f)
  <1>1. DOMAIN <<x>> = {1} /\ <<x>>[1] = x /\ DOMAIN <<>> = {}
    OBVIOUS
  <1>2. Chained(<<x>>) /\ Chained(<<>>)
    BY <1>1 DEF Chained
  <1>3. Void(<<>>) /\ (Void(<<x>>) <=> ~IsPage(x))
    BY <1>1 DEF Void
  <1>4. IsPage(x) => Leads(<<x>>, x) /\ Trails(<<x>>, x)
    BY <1>1 DEF Leads, Trails
  <1>5. \A f : Leads(<<x>>, f) \/ Trails(<<x>>, f) => f = x /\ IsPage(x)
    BY <1>1 DEF Leads, Trails
  <1>6. \A f : ~Leads(<<>>, f) /\ ~Trails(<<>>, f)
    BY <1>1 DEF Leads, Trails
  <1> QED BY <1>2, <1>3, <1>4, <1>5, <1>6

-----------------------------------------------------------------------------
(* The mirror of the phone *)

Cells == [book : 1..MaxEdits + 1, page : 0..PageCount]
Frames == [what : {"page"}, req : Requests, page : 1..PageCount, rows : Cells, final : BOOLEAN]
Sends == [what : {"send"}, req : Requests]
News == [what : {"capabilities"}, nth : {1, 2}]
Items == Frames \cup Sends \cup News
Jobs == [req : Requests, rows : Seq(Cells), page : 1..PageCount]
Asks == [req : Requests, rows : Seq(Cells)]

\* A page of data that the phone has had: one of a snapshot, or the only one of an empty one.
WellMade(f) ==
  /\ f.rows.book <= book
  /\ IF f.rows.page = 0 THEN f.page = 1 /\ f.final
     ELSE f.rows.page = f.page /\ f.final = (f.page = PageCount)

Whole(rows) == \E version \in 1..book : rows \in {Pages(version), NoRows(version)}

\* What a mirror shows is no newer than a version.
NoNewer(version) == \A k \in Kinds : mirror[k].of # 0 => mirror[k].pages[1].book <= version

\* The pages that a job has yet to send.
FrameAt(job, n) == [what |-> "page", req |-> job.req, page |-> n, rows |-> job.rows[n],
                    final |-> n = Len(job.rows)]
Rest(job) == [i \in 1..(Len(job.rows) - job.page + 1) |-> FrameAt(job, job.page + i - 1)]

\* The way of a page: from the job of the phone over the wire to the gateway's chain, and out
\* of it once it has been taken.
Coming ==
  IF jobs # <<>> /\ Head(jobs).req.of = link /\ Head(jobs).rows # <<>>
  THEN Rest(Head(jobs)) ELSE <<>>
Queue(g) == IF writing[g] = NoWrite THEN work[g] ELSE Tail(work[g])
Flow == (Queue(link) \o wire) \o Coming

\* The rows before a page of its snapshot.
Before(f) == [i \in 1..(f.page - 1) |-> [book |-> f.rows.book, page |-> i]]

LinkInv ==
  /\ scene \in {"mirror", "memory"} /\ link \in 0..MaxLinks /\ faults \in 0..MaxFaults
  /\ gateway \in [of : 0..MaxLinks, at : {"none", "device", "connecting", "running", "stopping"}]
  /\ link \in {0, gateway.of}
  /\ link # 0 <=> gateway.at \in {"device", "connecting", "running"}

\* Only the first job has read its rows; none is of a connection to come.
PhoneInv ==
  /\ book \in 1..MaxEdits + 1 /\ offers \subseteq Kinds /\ missed \subseteq Kinds
  /\ jobs \in Seq(Jobs)
  /\ \A i \in DOMAIN jobs :
       /\ jobs[i].rows = <<>> => jobs[i].page = 1
       /\ jobs[i].rows # <<>> => i = 1 /\ Whole(jobs[i].rows) /\ jobs[i].page <= Len(jobs[i].rows)
       /\ jobs[i].req.of <= gateway.of
       /\ gateway.at \in {"device", "connecting"} => jobs[i].req.of # gateway.of

Wired(x) ==
  /\ x.what # "send"
  /\ IsPage(x) => gateway.at = "running" /\ x.req.of = link /\ WellMade(x)

Worked(g, x) ==
  /\ x.what # "capabilities" /\ x.req.of = g
  /\ IsPage(x) => g = gateway.of /\ gateway.at \in {"running", "stopping"} /\ WellMade(x)

\* Pages are in the chain of the latest gateway only, and are of its own connection.
ChainInv ==
  /\ wire \in Seq(Items) /\ \A i \in DOMAIN wire : Wired(wire[i])
  /\ link = 0 => wire = <<>>
  /\ work \in [Links -> Seq(Items)]
  /\ \A g \in Links : \A i \in DOMAIN work[g] : Worked(g, work[g][i])
  /\ \A g \in Links : g > gateway.of => work[g] = <<>>
  /\ DOMAIN writing = Links
  /\ \A g \in Links : writing[g] # NoWrite =>
       /\ work[g] # <<>> /\ IsPage(Head(work[g]))
       /\ Whole(writing[g]) /\ NoNewer(writing[g][1].book)

\* The pages on their way are whole snapshots in a row, but for the beginning of the first,
\* which is what the store has of it; none is older than what was written before.
Complete(q) == \A f : Trails(q, f) => f.final
Awaited(f) ==
  /\ \A p \in store.pending : p.rows = (IF p.req = f.req THEN Before(f) ELSE <<>>)
  /\ NoNewer(f.rows.book)
  /\ writing[link] # NoWrite => writing[link][1].book <= f.rows.book
FlowInv ==
  link # 0 =>
    /\ Chained(Flow) /\ Complete(Flow)
    /\ Void(Flow) => \A p \in store.pending : p.rows = <<>>
    /\ \A f : Leads(Flow, f) => Awaited(f)

\* The requests of this connection that are on their way, or their pages.
InUse ==
  {r \in Requests : \/ \E i \in DOMAIN wire : IsPage(wire[i]) /\ wire[i].req = r
                    \/ link # 0 /\ \E i \in DOMAIN work[link] : work[link][i].req = r
                    \/ r.of = link /\ \E i \in DOMAIN jobs : jobs[i].req = r}

\* Nothing was asked for after capabilities that have not been heard.
HeardInv ==
  /\ \A i, j \in DOMAIN wire : ~IsPage(wire[i]) /\ wire[i] = wire[j] => i = j
  /\ \A i \in DOMAIN wire : ~IsPage(wire[i]) => \A r \in InUse : r.nth # wire[i].nth
  /\ gateway.at \in {"device", "connecting"} =>
       /\ \A r \in InUse : r.nth # 2
       /\ \A i \in DOMAIN wire : wire[i] = Announced(1)

\* A kind that a connection has is being asked for, or written, or its mirror is of this
\* connection.
StoreInv ==
  /\ store = [support |-> store.support, connected |-> store.connected, pending |-> store.pending]
  /\ store.support \in [Kinds -> {"unknown", "yes", "no"}] /\ store.connected \in BOOLEAN
  /\ store.pending \subseteq Asks
  /\ \A p \in store.pending :
       p.req.of = link /\ store.support[p.req.kind] = "yes" /\ Len(p.rows) < PageCount
  /\ gateway.at \in {"none", "device", "stopping"} =>
       /\ store.pending = {}
       /\ store.connected => \A k \in Kinds : store.support[k] = "unknown"
  /\ link # 0 /\ store.connected => \A k \in Kinds : store.support[k] = "yes" =>
       \/ \E p \in store.pending : p.req.kind = k
       \/ mirror[k].of = link \/ k \in missed
       \/ writing[link] # NoWrite /\ Head(work[link]).req.kind = k

MirrorInv ==
  /\ mirror \in [Kinds -> [of : 0..MaxLinks, pages : Seq(Cells)]]
  /\ MirrorWhole

PhoneDataInv ==
  LinkInv /\ PhoneInv /\ ChainInv /\ FlowInv /\ HeardInv /\ StoreInv /\ MirrorInv

-----------------------------------------------------------------------------
(* Snapshots and their pages *)

\* What a snapshot is made of.
LEMMA SnapshotIs ==
  ASSUME book \in 1..MaxEdits + 1, NEW rows, Whole(rows)
  PROVE  /\ rows \in Seq(Cells) /\ rows # <<>> /\ Len(rows) \in 1..PageCount
         /\ rows[1].book \in 1..book
         /\ \A n \in 1..Len(rows) :
              /\ rows[n] \in Cells /\ rows[n].book = rows[1].book
              /\ IF rows[n].page = 0 THEN n = 1 /\ Len(rows) = 1
                 ELSE rows[n].page = n /\ Len(rows) = PageCount
  <1>1. PICK v \in 1..book : rows \in {Pages(v), NoRows(v)}
    BY DEF Whole
  <1>2. v \in 1..MaxEdits + 1 /\ v \in Nat
    BY <1>1, Bounds
  <1>3. CASE rows = Pages(v)
    <2>1. rows = [p \in 1..PageCount |-> [book |-> v, page |-> p]]
      BY <1>3 DEF Pages
    <2>2. \A n \in 1..PageCount : [book |-> v, page |-> n] \in Cells
      BY <1>2, Bounds DEF Cells
    <2>3. rows \in Seq(Cells) /\ Len(rows) = PageCount /\ DOMAIN rows = 1..PageCount
      BY <2>1, <2>2, Bounds
    <2>4. \A n \in 1..PageCount : rows[n] = [book |-> v, page |-> n]
      BY <2>1
    <2>5. 1 \in 1..PageCount /\ rows # <<>>
      BY <2>3, Bounds
    <2>6. \A n \in 1..PageCount : n # 0
      BY Bounds
    <2> QED BY <1>2, <2>2, <2>3, <2>4, <2>5, <2>6, Bounds
  <1>4. CASE rows = NoRows(v)
    <2>1. rows = <<[book |-> v, page |-> 0]>>
      BY <1>4 DEF NoRows
    <2>2. [book |-> v, page |-> 0] \in Cells
      BY <1>2, Bounds DEF Cells
    <2>3. rows \in Seq(Cells) /\ Len(rows) = 1 /\ rows[1] = [book |-> v, page |-> 0]
      BY <2>1, <2>2
    <2> QED BY <1>2, <2>1, <2>2, <2>3, Bounds
  <1> QED BY <1>1, <1>3, <1>4

\* A snapshot stays one when the phone's data changes.
LEMMA WholeStays ==
  ASSUME NEW b \in Nat, book \in Nat, b >= book, NEW rows, Whole(rows)
  PROVE  \E version \in 1..b : rows \in {Pages(version), NoRows(version)}
  <1>1. PICK v \in 1..book : rows \in {Pages(v), NoRows(v)}
    BY DEF Whole
  <1>2. v \in 1..b
    OBVIOUS
  <1> QED BY <1>1, <1>2

\* A page of a job is one of its snapshot.
LEMMA FrameIs ==
  ASSUME book \in 1..MaxEdits + 1, NEW job \in Jobs, Whole(job.rows), NEW i \in 1..Len(job.rows)
  PROVE  FrameAt(job, i) \in Frames /\ WellMade(FrameAt(job, i))
  <1> DEFINE n == Len(job.rows)
  <1>1. /\ n \in 1..PageCount /\ job.req \in Requests /\ job.rows[1].book \in 1..book
        /\ job.rows[i] \in Cells /\ job.rows[i].book = job.rows[1].book
        /\ IF job.rows[i].page = 0 THEN i = 1 /\ n = 1 ELSE job.rows[i].page = i /\ n = PageCount
    BY SnapshotIs DEF Jobs
  <1>2. i \in 1..PageCount
    BY <1>1, Bounds
  <1>3. FrameAt(job, i) \in Frames
    BY <1>1, <1>2 DEF FrameAt, Frames
  <1>4. /\ FrameAt(job, i).rows = job.rows[i] /\ FrameAt(job, i).page = i
        /\ FrameAt(job, i).final = (i = n)
    BY DEF FrameAt
  <1>5. job.rows[i].book <= book
    BY <1>1
  <1> QED BY <1>1, <1>2, <1>3, <1>4, <1>5 DEF WellMade

\* A job's pages are pages in a row, the first the one to be sent and the last the final one.
LEMMA RestIs ==
  ASSUME book \in 1..MaxEdits + 1, NEW job \in Jobs, Whole(job.rows), job.page <= Len(job.rows)
  PROVE  /\ Rest(job) \in Seq(Items) /\ ~Void(Rest(job)) /\ Chained(Rest(job))
         /\ PageFrame(job) \in Frames /\ WellMade(PageFrame(job)) /\ IsPage(PageFrame(job))
         /\ \A f : Leads(Rest(job), f) <=> f = PageFrame(job)
         /\ \A f : Trails(Rest(job), f) => f.final
         /\ \A f \in Frames : f.page = job.page /\ f.rows.book = job.rows[1].book =>
              Before(f) = Before(PageFrame(job))
  <1> DEFINE n == Len(job.rows)
             m == job.page
             r == Rest(job)
  <1>1. /\ n \in 1..PageCount /\ m \in 1..PageCount /\ m <= n /\ job.req \in Requests
        /\ job.rows[1].book \in 1..book
        /\ \A i \in 1..n :
              /\ job.rows[i] \in Cells /\ job.rows[i].book = job.rows[1].book
              /\ IF job.rows[i].page = 0 THEN i = 1 /\ n = 1
                 ELSE job.rows[i].page = i /\ n = PageCount
    <2>1. job.req \in Requests /\ m \in 1..PageCount
      BY DEF Jobs
    <2> QED BY <2>1, SnapshotIs
  <1>2. \A i \in 1..n : FrameAt(job, i) \in Frames /\ WellMade(FrameAt(job, i))
    BY FrameIs
  <1>3. n \in Nat /\ m \in Nat /\ n - m + 1 \in Nat /\ n - m + 1 >= 1 /\ n >= 1 /\ m >= 1
    BY <1>1, Bounds
  <1>4. /\ r \in Seq(Frames) /\ Len(r) = n - m + 1 /\ DOMAIN r = 1..(n - m + 1)
        /\ \A i \in 1..(n - m + 1) : r[i] = FrameAt(job, m + i - 1) /\ m + i - 1 \in 1..n
    <2>1. r = [i \in 1..(n - m + 1) |-> FrameAt(job, m + i - 1)]
      BY DEF Rest
    <2>2. \A i \in 1..(n - m + 1) : m + i - 1 \in 1..n
      BY <1>3
    <2>3. \A i \in 1..(n - m + 1) : FrameAt(job, m + i - 1) \in Frames
      BY <1>2, <2>2
    <2> HIDE DEF r, n, m
    <2>4. r \in [1..(n - m + 1) -> Frames]
      BY <2>1, <2>3
    <2>5. r \in Seq(Frames)
      BY <1>3, <2>4
    <2> QED BY <1>3, <2>1, <2>2, <2>5, LenProperties
  <1>5. PageFrame(job) = FrameAt(job, m)
    BY DEF PageFrame, FrameAt
  <1>6. \A i \in DOMAIN r : IsPage(r[i])
    BY <1>4 DEF FrameAt, IsPage
  <1> HIDE DEF r
  <1>7. r[1] = PageFrame(job) /\ 1 \in DOMAIN r
    BY <1>3, <1>4, <1>5
  <1>8. Chained(r)
    <2> SUFFICES ASSUME NEW i \in DOMAIN r, NEW j \in DOMAIN r, i < j,
                        \A l \in DOMAIN r : i < l /\ l < j => ~IsPage(r[l])
                 PROVE  Follows(r[i], r[j])
      BY DEF Chained
    <2>1. j = i + 1
      <3>1. i + 1 \in DOMAIN r /\ i < i + 1
        BY <1>3, <1>4, SMTT(30)
      <3>2. ~(i + 1 < j)
        BY <1>6, <3>1
      <3> QED BY <1>3, <1>4, <3>2
    <2> DEFINE a == m + i - 1
    <2>2. a \in 1..n /\ a + 1 \in 1..n /\ r[i] = FrameAt(job, a) /\ r[j] = FrameAt(job, a + 1)
      <3>1. m + j - 1 = a + 1
        BY <1>3, <1>4, <2>1, SMTT(30)
      <3> QED BY <1>4, <3>1
    <2>3. r[i].final = FALSE /\ r[i].rows = job.rows[a] /\ r[j].rows = job.rows[a + 1]
          /\ r[i].req = r[j].req /\ r[j].page = r[i].page + 1
      <3>1. \A l : /\ FrameAt(job, l).final = (l = n) /\ FrameAt(job, l).rows = job.rows[l]
                   /\ FrameAt(job, l).req = job.req /\ FrameAt(job, l).page = l
        BY DEF FrameAt
      <3> HIDE DEF n, m, a
      <3>2. a # n
        BY <1>3, <2>2
      <3>3. FrameAt(job, a).final = (a = n)
        BY <3>1, Zenon
      <3>4. FrameAt(job, a).final = FALSE
        BY <3>2, <3>3, Zenon
      <3>5. r[j].page = r[i].page + 1
        <4>1. FrameAt(job, a).page = a /\ FrameAt(job, a + 1).page = a + 1
          BY <3>1, Zenon
        <4> QED BY <2>2, <4>1, Zenon
      <3>6. /\ FrameAt(job, a).rows = job.rows[a]
            /\ FrameAt(job, a + 1).rows = job.rows[a + 1]
            /\ FrameAt(job, a).req = job.req /\ FrameAt(job, a + 1).req = job.req
        BY <3>1, Zenon
      <3> QED BY <2>2, <3>4, <3>5, <3>6
    <2>4. job.rows[a].book = job.rows[1].book /\ job.rows[a + 1].book = job.rows[1].book
      BY <1>1, <2>2
    <2>5. job.rows[1].book \in Nat
      BY <1>1
    <2> QED BY <2>3, <2>4, <2>5 DEF Follows
  <1>9. \A f : Leads(r, f) <=> f = PageFrame(job)
    <2>1. \A i \in DOMAIN r : (\A l \in DOMAIN r : l < i => ~IsPage(r[l])) => i = 1
      <3> SUFFICES ASSUME NEW i \in DOMAIN r, i # 1, \A l \in DOMAIN r : l < i => ~IsPage(r[l])
                   PROVE  FALSE
        OBVIOUS
      <3>1. 1 < i
        BY <1>3, <1>4
      <3> QED BY <1>6, <1>7, <3>1
    <2>2. \A f : Leads(r, f) => f = PageFrame(job)
      BY <1>7, <2>1 DEF Leads
    <2>3. \A l \in DOMAIN r : ~(l < 1)
      BY <1>3, <1>4
    <2>4. Leads(r, PageFrame(job))
      BY <1>6, <1>7, <2>3 DEF Leads
    <2> QED BY <2>2, <2>4
  <1>10. \A f : Trails(r, f) => f.final
    <2> SUFFICES ASSUME NEW i \in DOMAIN r, \A l \in DOMAIN r : l > i => ~IsPage(r[l])
                 PROVE  r[i].final
      BY DEF Trails
    <2>1. i = n - m + 1
      <3>1. n - m + 1 \in DOMAIN r
        BY <1>3, <1>4
      <3>2. ~(n - m + 1 > i)
        BY <1>6, <3>1
      <3> QED BY <1>3, <1>4, <3>2
    <2>2. r[i] = FrameAt(job, n)
      <3>1. m + i - 1 = n
        BY <1>3, <2>1
      <3> QED BY <1>4, <3>1
    <2>3. FrameAt(job, n).final = (n = Len(job.rows))
      BY DEF FrameAt
    <2> QED BY <2>2, <2>3
  <1>11. r \in Seq(Items)
    BY <1>4, SeqMonotonic DEF Items
  <1>12. ~Void(r)
    BY <1>6, <1>7 DEF Void
  <1>13. PageFrame(job) \in Frames /\ WellMade(PageFrame(job)) /\ IsPage(PageFrame(job))
    <2>1. m \in 1..n
      BY <1>1, <1>3
    <2>2. FrameAt(job, m) \in Frames /\ WellMade(FrameAt(job, m))
      BY <1>2, <2>1
    <2>3. FrameAt(job, m).what = "page"
      BY DEF FrameAt
    <2> HIDE DEF m, n
    <2> QED BY <1>5, <2>2, <2>3 DEF IsPage
  <1>14. \A f \in Frames : f.page = m /\ f.rows.book = job.rows[1].book =>
           Before(f) = Before(PageFrame(job))
    <2>1. PageFrame(job).page = m /\ PageFrame(job).rows.book = job.rows[1].book
      BY <1>1, <1>3, <1>5 DEF FrameAt
    <2> QED BY <2>1 DEF Before
  <1> QED BY <1>8, <1>9, <1>10, <1>11, <1>12, <1>13, <1>14 DEF r

\* When a page has been sent the others are left.
LEMMA RestLess ==
  ASSUME book \in 1..MaxEdits + 1, NEW job \in Jobs, Whole(job.rows), job.page <= Len(job.rows)
  PROVE  Rest(job) = <<PageFrame(job)>> \o
           (IF job.page = Len(job.rows) THEN <<>> ELSE Rest([job EXCEPT !.page = @ + 1]))
  <1> DEFINE n == Len(job.rows)
             m == job.page
             next == [job EXCEPT !.page = @ + 1]
             rest == IF m = n THEN <<>> ELSE Rest(next)
             r == Rest(job)
             s == <<PageFrame(job)>>
  <1>1. n \in 1..PageCount /\ m \in 1..PageCount /\ m <= n
    <2>1. m \in 1..PageCount
      BY DEF Jobs
    <2> QED BY <2>1, SnapshotIs
  <1>2. n \in Nat /\ m \in Nat /\ n >= 1 /\ m >= 1
    BY <1>1, Bounds
  <1>3. PageFrame(job) = FrameAt(job, m)
    BY DEF PageFrame, FrameAt
  <1>4. r = [i \in 1..(n - m + 1) |-> FrameAt(job, m + i - 1)]
    BY DEF Rest
  <1>5. CASE m = n
    <2>1. n - m + 1 = 1 /\ \A i \in 1..1 : m + i - 1 = m
      BY <1>2, <1>5
    <2>2. r = [i \in 1..1 |-> FrameAt(job, m)]
      BY <1>4, <2>1
    <2>3. <<FrameAt(job, m)>> = [i \in 1..1 |-> FrameAt(job, m)]
      OBVIOUS
    <2>4. s \in Seq({PageFrame(job)})
      OBVIOUS
    <2>5. s \o <<>> = s
      BY <2>4, ConcatEmptySeq
    <2> HIDE DEF r, s
    <2> QED BY <1>3, <1>5, <2>2, <2>3, <2>5 DEF s, r
  <1>6. CASE m # n
    <2>1. next.rows = job.rows /\ next.req = job.req /\ next.page = m + 1
      BY DEF Jobs
    <2>2. \A i : FrameAt(next, i) = FrameAt(job, i)
      BY <2>1 DEF FrameAt
    <2>3. Rest(next) = [i \in 1..(n - (m + 1) + 1) |-> FrameAt(job, (m + 1) + i - 1)]
      <3> HIDE DEF next
      <3> QED BY <2>1, <2>2 DEF Rest
    <2> DEFINE T == {FrameAt(job, i) : i \in 1..n}
               t == Rest(next)
    <2>4. t \in Seq(T) /\ Len(t) = n - m /\ DOMAIN t = 1..(n - m)
          /\ \A i \in 1..(n - m) : t[i] = FrameAt(job, m + i)
      <3>1. \A i \in 1..(n - m) : (m + 1) + i - 1 = m + i /\ m + i \in 1..n
        BY <1>1, <1>2
      <3>2. n - (m + 1) + 1 = n - m /\ n - m \in Nat
        BY <1>1, <1>2
      <3>3. t = [i \in 1..(n - m) |-> FrameAt(job, m + i)]
        BY <2>3, <3>1, <3>2
      <3>4. \A i \in 1..(n - m) : FrameAt(job, m + i) \in T
        BY <3>1
      <3> HIDE DEF t, T, n, m
      <3>5. t \in [1..(n - m) -> T]
        BY <3>3, <3>4
      <3>6. t \in Seq(T)
        BY <3>2, <3>5
      <3> QED BY <3>2, <3>3, <3>6, LenProperties
    <2>5. r \in Seq(T) /\ Len(r) = n - m + 1 /\ DOMAIN r = 1..(n - m + 1)
          /\ \A i \in 1..(n - m + 1) : r[i] = FrameAt(job, m + i - 1)
      <3>1. \A i \in 1..(n - m + 1) : m + i - 1 \in 1..n
        BY <1>1, <1>2
      <3>2. n - m + 1 \in Nat
        BY <1>1, <1>2
      <3>4. \A i \in 1..(n - m + 1) : FrameAt(job, m + i - 1) \in T
        BY <3>1
      <3> HIDE DEF r, T, n, m
      <3>5. r \in [1..(n - m + 1) -> T]
        BY <1>4, <3>4
      <3>6. r \in Seq(T)
        BY <3>2, <3>5
      <3> QED BY <1>4, <3>2, <3>6, LenProperties
    <2>6. s \in Seq(T) /\ Len(s) = 1 /\ s[1] = FrameAt(job, m)
      <3>1. FrameAt(job, m) \in T
        BY <1>1, <1>2
      <3> QED BY <1>3, <3>1
    <2> HIDE DEF t, T, r, s, next
    <2>7. /\ s \o t \in Seq(T) /\ Len(s \o t) = Len(s) + Len(t)
          /\ \A i \in 1..Len(s) + Len(t) : (s \o t)[i] = IF i <= Len(s) THEN s[i] ELSE t[i - Len(s)]
      <3>1. s \in Seq(T) /\ t \in Seq(T)
        BY <2>4, <2>6
      <3> HIDE DEF n, m
      <3> QED BY <3>1, ConcatProperties
    <2>8. \A i \in 1..Len(r) : r[i] = (s \o t)[i]
      <3> TAKE i \in 1..Len(r)
      <3>1. i \in 1..(n - m + 1) /\ i \in 1..Len(s) + Len(t)
        BY <1>1, <1>2, <2>4, <2>5, <2>6
      <3>2. CASE i = 1
        <4>1. m + i - 1 = m
          BY <1>2, <3>2
        <4> QED BY <2>5, <2>6, <2>7, <3>1, <3>2, <4>1
      <3>3. CASE i # 1
        <4>1. i - 1 \in 1..(n - m) /\ m + (i - 1) = m + i - 1 /\ ~(i <= 1)
          BY <1>1, <1>2, <3>1, <3>3
        <4> QED BY <2>4, <2>5, <2>6, <2>7, <3>1, <4>1
      <3> QED BY <3>2, <3>3
    <2>9. Len(r) = Len(s \o t)
      BY <1>1, <1>2, <2>4, <2>5, <2>6, <2>7
    <2>10. r = s \o t
      BY <2>5, <2>7, <2>8, <2>9, SeqEqual
    <2> QED BY <1>6, <2>10 DEF r, s, t, next
  <1> QED BY <1>5, <1>6

-----------------------------------------------------------------------------
(* The mirror's invariant: what does not concern it, and the start *)

\* The sequences that a page passes through.
LEMMA WaysAre ==
  ASSUME PhoneDataInv
  PROVE  /\ wire \in Seq(Items) /\ Coming \in Seq(Items) /\ jobs \in Seq(Jobs)
         /\ \A g \in Links : work[g] \in Seq(Items) /\ Queue(g) \in Seq(Items)
         /\ link # 0 => link = gateway.of /\ link \in Links /\ Queue(link) \in Seq(Items)
                        /\ Queue(link) \o wire \in Seq(Items) /\ Flow \in Seq(Items)
  <1>1. wire \in Seq(Items) /\ jobs \in Seq(Jobs) /\ book \in 1..MaxEdits + 1
    BY DEF PhoneDataInv, ChainInv, PhoneInv
  <1>2. Coming \in Seq(Items)
    <2>1. CASE jobs # <<>> /\ Head(jobs).req.of = link /\ Head(jobs).rows # <<>>
      <3>1. Head(jobs) \in Jobs /\ Head(jobs) = jobs[1] /\ 1 \in DOMAIN jobs
        BY <1>1, <2>1, Tails
      <3>2. Whole(Head(jobs).rows) /\ Head(jobs).page <= Len(Head(jobs).rows)
        BY <2>1, <3>1 DEF PhoneDataInv, PhoneInv
      <3>3. Rest(Head(jobs)) \in Seq(Items)
        BY <1>1, <3>1, <3>2, RestIs
      <3> QED BY <2>1, <3>3 DEF Coming
    <2>2. CASE ~(jobs # <<>> /\ Head(jobs).req.of = link /\ Head(jobs).rows # <<>>)
      BY <2>2, EmptySeq DEF Coming
    <2> QED BY <2>1, <2>2
  <1>3. \A g \in Links : work[g] \in Seq(Items) /\ Queue(g) \in Seq(Items)
    <2> TAKE g \in Links
    <2>1. work[g] \in Seq(Items) /\ (writing[g] # NoWrite => work[g] # <<>>)
      BY DEF PhoneDataInv, ChainInv
    <2> QED BY <2>1, Tails DEF Queue
  <1>4. link # 0 => link = gateway.of /\ link \in Links
    BY Bounds DEF PhoneDataInv, LinkInv, Links
  <1>5. link # 0 => Queue(link) \o wire \in Seq(Items)
    BY <1>1, <1>3, <1>4, ConcatProperties
  <1>6. link # 0 => Flow \in Seq(Items)
    BY <1>2, <1>5, ConcatProperties DEF Flow
  <1> QED BY <1>1, <1>2, <1>3, <1>4, <1>5, <1>6

\* What is seen of two ways is the same when their pages are.
LEMMA FlowStays ==
  ASSUME FlowInv, link' = link, link # 0 => Same(Flow', Flow),
         store'.pending = store.pending, mirror' = mirror,
         link # 0 => writing'[link] = writing[link]
  PROVE  FlowInv'
  <1> SUFFICES ASSUME link # 0
               PROVE  FlowInv'
    BY DEF FlowInv
  <1>1. Chained(Flow) /\ Complete(Flow) /\ (Void(Flow) => \A p \in store.pending : p.rows = <<>>)
        /\ \A f : Leads(Flow, f) => Awaited(f)
    BY DEF FlowInv
  <1>2. /\ Void(Flow') = Void(Flow) /\ Chained(Flow') = Chained(Flow)
        /\ \A f : Leads(Flow', f) = Leads(Flow, f) /\ Trails(Flow', f) = Trails(Flow, f)
    BY DEF Same
  <1>3. Chained(Flow')
    BY <1>1, <1>2
  <1>4. Complete(Flow')
    BY <1>1, <1>2 DEF Complete
  <1>5. \A f : Awaited(f) => Awaited(f)'
    BY DEF Awaited, NoNewer
  <1>6. \A f : Leads(Flow', f) => Awaited(f)'
    BY <1>1, <1>2, <1>5
  <1> QED BY <1>1, <1>2, <1>3, <1>4, <1>6 DEF FlowInv

\* Where no pages come nothing is seen of them.
LEMMA FlowVoid ==
  ASSUME link' # 0 => Void(Flow'), \A p \in store'.pending : p.rows = <<>>
  PROVE  FlowInv'
  <1> SUFFICES ASSUME link' # 0
               PROVE  FlowInv'
    BY DEF FlowInv
  <1>1. Void(Flow')
    OBVIOUS
  <1>2. Chained(Flow')
    BY <1>1 DEF Void, Chained
  <1>3. \A f : ~Leads(Flow', f) /\ ~Trails(Flow', f)
    BY <1>1 DEF Void, Leads, Trails
  <1> QED BY <1>1, <1>2, <1>3 DEF FlowInv, Complete

\* Steps of the memory leave the mirror alone.
LEMMA MirrorStutter ==
  ASSUME PhoneDataInv, UNCHANGED <<linkVars, mirrorVars>>, faults' \in 0..MaxFaults
  PROVE  PhoneDataInv'
  <1>1. /\ scene' = scene /\ link' = link /\ gateway' = gateway /\ book' = book /\ offers' = offers
        /\ wire' = wire /\ jobs' = jobs /\ store' = store /\ work' = work /\ writing' = writing
        /\ mirror' = mirror /\ missed' = missed
    BY DEF linkVars, mirrorVars
  <1>2. LinkInv'
    BY <1>1 DEF PhoneDataInv, LinkInv
  <1>3. PhoneInv'
    BY <1>1 DEF PhoneDataInv, PhoneInv, Whole
  <1>4. ChainInv'
    BY <1>1 DEF PhoneDataInv, ChainInv, Wired, Worked, WellMade, Whole, NoNewer
  <1>5. FlowInv'
    BY <1>1 DEF PhoneDataInv, FlowInv, Flow, Queue, Coming, Awaited, NoNewer
  <1>6. HeardInv'
    BY <1>1 DEF PhoneDataInv, HeardInv, InUse
  <1>7. StoreInv'
    BY <1>1 DEF PhoneDataInv, StoreInv
  <1>8. MirrorInv'
    BY <1>1 DEF PhoneDataInv, MirrorInv, MirrorWhole
  <1> QED BY <1>2, <1>3, <1>4, <1>5, <1>6, <1>7, <1>8 DEF PhoneDataInv

\* At the start nothing has been asked for.
LEMMA MirrorInit ==
  ASSUME Init
  PROVE  PhoneDataInv
  <1>1. LinkInv
    BY Bounds DEF Init, LinkInv
  <1>2. PhoneInv
    <2>1. offers \subseteq Kinds /\ missed = {} /\ book = 1 /\ jobs = <<>>
      BY Bounds DEF Init
    <2>2. jobs \in Seq(Jobs) /\ DOMAIN jobs = {}
      BY <2>1, EmptySeq
    <2> QED BY <2>1, <2>2, Bounds DEF PhoneInv
  <1>3. ChainInv
    <2>1. /\ wire = <<>> /\ work = [g \in Links |-> <<>>] /\ writing = [g \in Links |-> NoWrite]
      BY DEF Init
    <2>2. wire \in Seq(Items) /\ <<>> \in Seq(Items) /\ DOMAIN wire = {}
      BY <2>1, EmptySeq
    <2>3. work \in [Links -> Seq(Items)] /\ DOMAIN writing = Links
      BY <2>1, <2>2
    <2>4. \A g \in Links : work[g] = <<>> /\ writing[g] = NoWrite
      BY <2>1
    <2> QED BY <2>1, <2>2, <2>3, <2>4 DEF ChainInv
  <1>4. FlowInv
    BY DEF Init, FlowInv
  <1>5. HeardInv
    <2>1. DOMAIN wire = {} /\ gateway.at = "none"
      BY DEF Init
    <2> QED BY <2>1 DEF HeardInv
  <1>6. StoreInv
    BY DEF Init, NewStore, StoreInv
  <1>7. MirrorInv
    <2>1. mirror = [k \in Kinds |-> [of |-> 0, pages |-> <<>>]] /\ 0 \in 0..MaxLinks
      BY Bounds DEF Init
    <2>2. <<>> \in Seq(Cells)
      BY EmptySeq
    <2>3. \A k \in Kinds : mirror[k].of = 0
      BY <2>1
    <2> QED BY <2>1, <2>2, <2>3 DEF MirrorInv, MirrorWhole
  <1> QED BY <1>1, <1>2, <1>3, <1>4, <1>5, <1>6, <1>7 DEF PhoneDataInv

-----------------------------------------------------------------------------
(* The connection and its gateway *)

\* The gateway's state is one of its kind.
LEMMA GatewayIs ==
  ASSUME PhoneDataInv
  PROVE  /\ gateway = [of |-> gateway.of, at |-> gateway.at] /\ gateway.of \in 0..MaxLinks
         /\ gateway.of \in Int /\ link \in 0..MaxLinks /\ link \in {0, gateway.of}
         /\ link # 0 <=> gateway.at \in {"device", "connecting", "running"}
         /\ \A at : [gateway EXCEPT !.at = at] = [of |-> gateway.of, at |-> at]
  BY Bounds DEF PhoneDataInv, LinkInv

\* Before a gateway runs no page comes to it.
LEMMA NoPageYet ==
  ASSUME PhoneDataInv, gateway.at \in {"none", "device", "connecting"}
  PROVE  /\ \A i \in DOMAIN wire : ~IsPage(wire[i])
         /\ \A g \in Links : writing[g] = NoWrite /\ \A i \in DOMAIN work[g] : ~IsPage(work[g][i])
         /\ link # 0 => Void(Flow) /\ \A p \in store.pending : p.rows = <<>>
  <1>1. \A i \in DOMAIN wire : ~IsPage(wire[i])
    BY DEF PhoneDataInv, ChainInv, Wired
  <1>2. \A g \in Links : \A i \in DOMAIN work[g] : ~IsPage(work[g][i])
    BY DEF PhoneDataInv, ChainInv, Worked
  <1>3. \A g \in Links : writing[g] = NoWrite
    <2> TAKE g \in Links
    <2>1. writing[g] # NoWrite => work[g] # <<>> /\ IsPage(Head(work[g]))
      BY DEF PhoneDataInv, ChainInv
    <2>2. work[g] # <<>> => Head(work[g]) = work[g][1] /\ 1 \in DOMAIN work[g]
      BY WaysAre, Tails
    <2> QED BY <1>2, <2>1, <2>2
  <1>4. ASSUME link # 0
        PROVE  Void(Flow)
    <2>1. link \in Links /\ link = gateway.of /\ gateway.at \in {"device", "connecting"}
      BY <1>4, WaysAre DEF PhoneDataInv, LinkInv
    <2>2. Coming = <<>>
      <3>1. jobs # <<>> => Head(jobs).req.of # gateway.of
        <4>1. jobs # <<>> => Head(jobs) = jobs[1] /\ 1 \in DOMAIN jobs
          BY WaysAre, Tails
        <4> QED BY <2>1, <4>1 DEF PhoneDataInv, PhoneInv
      <3> QED BY <2>1, <3>1 DEF Coming
    <2>3. Void(Queue(link)) /\ Void(wire) /\ Void(Coming)
      BY <1>1, <1>2, <1>3, <2>1, <2>2, Alone DEF Void, Queue
    <2>4. Void(Queue(link) \o wire)
      BY <1>4, <2>3, WaysAre, JoinVoid
    <2> QED BY <1>4, <2>3, <2>4, WaysAre, JoinVoid DEF Flow
  <1>5. link # 0 => \A p \in store.pending : p.rows = <<>>
    BY <1>4 DEF PhoneDataInv, FlowInv
  <1> QED BY <1>1, <1>2, <1>3, <1>4, <1>5

\* The phone's data changes; what was read of it does not.
LEMMA EditMirror ==
  ASSUME PhoneDataInv, Edit
  PROVE  PhoneDataInv'
  <1>1. /\ scene' = scene /\ link' = link /\ gateway' = gateway /\ faults' = faults /\ offers' = offers
        /\ wire' = wire /\ jobs' = jobs /\ store' = store /\ work' = work /\ writing' = writing
        /\ mirror' = mirror /\ missed' = missed /\ book' = book + 1 /\ book <= MaxEdits
    BY DEF Edit, linkVars
  <1>2. book \in 1..MaxEdits + 1 /\ book \in Nat /\ book' \in 1..MaxEdits + 1 /\ book' \in Nat
        /\ book' >= book
    BY <1>1, Bounds DEF PhoneDataInv, PhoneInv
  <1>3. \A rows : Whole(rows) => Whole(rows)'
    BY <1>2, WholeStays DEF Whole
  <1>4. LinkInv'
    BY <1>1 DEF PhoneDataInv, LinkInv
  <1>5. PhoneInv'
    BY <1>1, <1>2, <1>3 DEF PhoneDataInv, PhoneInv
  <1>6. ChainInv'
    <2>1. \A f : f.rows.book \in Nat /\ WellMade(f) => WellMade(f)'
      BY <1>1, <1>2 DEF WellMade
    <2>2. \A x \in Items : IsPage(x) => x.rows.book \in Nat
      BY Bounds DEF Items, Frames, Sends, News, Cells, IsPage
    <2>3. \A x \in Items : Wired(x) => Wired(x)'
      BY <1>1, <2>1, <2>2 DEF Wired
    <2>4. \A g \in Links : \A x \in Items : Worked(g, x) => Worked(g, x)'
      BY <1>1, <2>1, <2>2 DEF Worked
    <2>5. \A i \in DOMAIN wire : wire[i] \in Items
      BY WaysAre, LenProperties
    <2>6. \A g \in Links : \A i \in DOMAIN work[g] : work[g][i] \in Items
      BY WaysAre, LenProperties
    <2>7. \A v : NoNewer(v) => NoNewer(v)'
      BY <1>1 DEF NoNewer
    <2> QED BY <1>1, <1>3, <2>3, <2>4, <2>5, <2>6, <2>7 DEF PhoneDataInv, ChainInv
  <1>7. FlowInv'
    BY <1>1 DEF PhoneDataInv, FlowInv, Flow, Queue, Coming, Awaited, NoNewer
  <1>8. HeardInv'
    BY <1>1 DEF PhoneDataInv, HeardInv, InUse
  <1>9. StoreInv'
    BY <1>1 DEF PhoneDataInv, StoreInv
  <1>10. MirrorInv'
    <2>1. \A k \in Kinds : mirror[k].of # 0 => Whole(mirror[k].pages)
      BY DEF PhoneDataInv, MirrorInv, MirrorWhole, Whole
    <2>2. \A k \in Kinds : mirror'[k].of # 0 => Whole(mirror[k].pages)'
      BY <1>1, <1>3, <2>1
    <2>3. MirrorWhole'
      BY <1>1, <2>2 DEF MirrorWhole, Whole
    <2> QED BY <1>1, <2>3 DEF PhoneDataInv, MirrorInv
  <1> QED BY <1>4, <1>5, <1>6, <1>7, <1>8, <1>9, <1>10 DEF PhoneDataInv

\* A connection begins with a gateway of its own.
LEMMA ConnectMirror ==
  ASSUME PhoneDataInv, Connect
  PROVE  PhoneDataInv'
  <1>1. /\ scene' = scene /\ faults' = faults /\ offers' = offers /\ book' = book
        /\ jobs' = jobs /\ store' = store /\ work' = work /\ writing' = writing /\ mirror' = mirror
        /\ gateway.at = "none" /\ gateway.of < MaxLinks
        /\ gateway' = [of |-> gateway.of + 1, at |-> "device"] /\ link' = gateway.of + 1
        /\ wire' = <<Announced(1)>> /\ missed' = {}
    BY DEF Connect, phoneVars
  <1>2. /\ gateway'.of = gateway.of + 1 /\ gateway'.at = "device" /\ link' \in Links /\ link' # 0
        /\ gateway.of < link' /\ gateway.of \in Nat /\ link = 0 /\ link' \in 0..MaxLinks
        /\ gateway'.of \in 0..MaxLinks /\ gateway'.of = link'
    BY <1>1, GatewayIs, Bounds DEF Links
  <1>3. /\ Announced(1) \in Items /\ ~IsPage(Announced(1)) /\ Announced(1).what = "capabilities"
        /\ Announced(1).nth = 1
    BY DEF Announced, Items, News, IsPage
  <1>4. wire' \in Seq(Items) /\ DOMAIN wire' = {1} /\ wire'[1] = Announced(1)
    BY <1>1, <1>3
  <1>5. work[link'] = <<>>
    BY <1>2 DEF PhoneDataInv, ChainInv
  <1>6. \A i \in DOMAIN jobs : jobs[i].req.of # link'
    <2>1. \A i \in DOMAIN jobs : jobs[i].req.of <= gateway.of
      BY DEF PhoneDataInv, PhoneInv
    <2>2. \A i \in DOMAIN jobs : jobs[i].req.of \in Int
      <3>1. \A i \in DOMAIN jobs : jobs[i] \in Jobs
        BY WaysAre, LenProperties
      <3> QED BY <3>1, Bounds DEF Jobs, Requests, Links
    <2> QED BY <1>2, <2>1, <2>2
  <1>7. LinkInv'
    BY <1>1, <1>2 DEF PhoneDataInv, LinkInv
  <1>8. PhoneInv'
    <2>1. \A i \in DOMAIN jobs : jobs[i].req.of <= gateway'.of
      <3>1. \A i \in DOMAIN jobs : jobs[i].req.of <= gateway.of
        BY DEF PhoneDataInv, PhoneInv
      <3>2. \A i \in DOMAIN jobs : jobs[i].req.of \in Int
        <4>1. \A i \in DOMAIN jobs : jobs[i] \in Jobs
          BY WaysAre, LenProperties
        <4> QED BY <4>1, Bounds DEF Jobs, Requests, Links
      <3> QED BY <1>2, <3>1, <3>2
    <2> QED BY <1>1, <1>2, <1>6, <2>1 DEF PhoneDataInv, PhoneInv, Whole
  <1>9. ChainInv'
    <2>1. (\A i \in DOMAIN wire : Wired(wire[i]))'
      <3>1. Wired(Announced(1))'
        BY <1>3 DEF Wired
      <3> QED BY <1>4, <3>1
    <2>2. \A g \in Links : writing[g] = NoWrite /\ \A i \in DOMAIN work[g] : ~IsPage(work[g][i])
      BY <1>1, NoPageYet
    <2>3. (\A g \in Links : \A i \in DOMAIN work[g] : Worked(g, work[g][i]))'
      <3>1. \A g \in Links : \A x : Worked(g, x) /\ ~IsPage(x) => Worked(g, x)'
        BY DEF Worked
      <3>2. \A g \in Links : \A i \in DOMAIN work[g] : Worked(g, work[g][i])
        BY DEF PhoneDataInv, ChainInv
      <3> QED BY <1>1, <2>2, <3>1, <3>2
    <2>4. \A g \in Links : g > gateway'.of => work[g] = <<>>
      <3>1. \A g \in Links : g > gateway'.of => g > gateway.of
        BY <1>2, Bounds DEF Links
      <3> QED BY <3>1 DEF PhoneDataInv, ChainInv
    <2> QED BY <1>1, <1>2, <1>4, <2>1, <2>2, <2>3, <2>4 DEF PhoneDataInv, ChainInv
  <1>10. store.pending = {}
    BY <1>1 DEF PhoneDataInv, StoreInv
  <1>11. FlowInv'
    <2>1. writing[link'] = NoWrite
      BY <1>1, <1>2, NoPageYet
    <2>2. Queue(link)' = <<>>
      BY <1>1, <1>5, <2>1 DEF Queue
    <2>3. Coming' = <<>>
      <3>1. jobs # <<>> => Head(jobs).req.of # link'
        <4>1. jobs # <<>> => Head(jobs) = jobs[1] /\ 1 \in DOMAIN jobs
          BY WaysAre, Tails
        <4> QED BY <1>6, <4>1
      <3> QED BY <1>1, <3>1 DEF Coming
    <2>4. Void(<<>>) /\ Void(wire') /\ <<>> \in Seq(Items)
      BY <1>3, <1>4, Alone, EmptySeq DEF Void
    <2>5. Void(<<>> \o wire') /\ <<>> \o wire' \in Seq(Items)
      BY <1>4, <2>4, JoinVoid, ConcatProperties
    <2>6. Void((<<>> \o wire') \o <<>>)
      BY <2>4, <2>5, JoinVoid
    <2>7. Flow' = (<<>> \o wire') \o <<>>
      BY <2>2, <2>3 DEF Flow
    <2> QED BY <1>1, <1>10, <2>6, <2>7, FlowVoid
  <1>12. HeardInv'
    <2>1. InUse' = {}
      BY <1>1, <1>3, <1>4, <1>5, <1>6 DEF InUse
    <2> QED BY <1>3, <1>4, <2>1 DEF HeardInv
  <1>13. StoreInv'
    BY <1>1, <1>2, <1>10 DEF PhoneDataInv, StoreInv
  <1>14. MirrorInv'
    BY <1>1 DEF PhoneDataInv, MirrorInv, MirrorWhole
  <1> QED BY <1>7, <1>8, <1>9, <1>11, <1>12, <1>13, <1>14 DEF PhoneDataInv

\* A step of the gateway that changes nothing but how far it is.
LEMMA GatewayMoves ==
  ASSUME PhoneDataInv, scene' = scene, link' = link, faults' = faults, UNCHANGED mirrorVars,
         NEW at \in {"none", "connecting"}, gateway' = [gateway EXCEPT !.at = at],
         \/ at = "connecting" /\ gateway.at = "device"
         \/ at = "none" /\ gateway.at = "stopping" /\ work[gateway.of] = <<>>
  PROVE  PhoneDataInv'
  <1>1. /\ book' = book /\ offers' = offers /\ wire' = wire /\ jobs' = jobs /\ store' = store
        /\ work' = work /\ writing' = writing /\ mirror' = mirror /\ missed' = missed
    BY DEF mirrorVars
  <1>2. gateway' = [of |-> gateway.of, at |-> at]
    BY GatewayIs
  <1>3. gateway'.of = gateway.of /\ gateway'.at = at
    BY <1>2
  <1>4. /\ \A i \in DOMAIN wire : ~IsPage(wire[i])
        /\ \A g \in Links : \A i \in DOMAIN work[g] : ~IsPage(work[g][i])
    <2>1. CASE gateway.at = "device"
      BY <2>1, NoPageYet
    <2>2. CASE gateway.at = "stopping" /\ work[gateway.of] = <<>>
      <3>1. \A i \in DOMAIN wire : ~IsPage(wire[i])
        BY <2>2 DEF PhoneDataInv, ChainInv, Wired
      <3>2. \A g \in Links : \A i \in DOMAIN work[g] : ~IsPage(work[g][i])
        <4>1. \A g \in Links : \A i \in DOMAIN work[g] : IsPage(work[g][i]) => g = gateway.of
          BY DEF PhoneDataInv, ChainInv, Worked
        <4>2. DOMAIN <<>> = {}
          OBVIOUS
        <4> QED BY <2>2, <4>1, <4>2
      <3> QED BY <3>1, <3>2
    <2> QED BY <2>1, <2>2
  <1>5. LinkInv'
    <2>1. gateway' \in [of : 0..MaxLinks, at : {"none", "device", "connecting", "running", "stopping"}]
      BY <1>2, GatewayIs
    <2> QED BY <1>1, <1>3, <2>1 DEF PhoneDataInv, LinkInv
  <1>6. PhoneInv'
    BY <1>1, <1>3 DEF PhoneDataInv, PhoneInv, Whole
  <1>7. ChainInv'
    <2>1. (\A i \in DOMAIN wire : Wired(wire[i]))'
      <3>1. \A x : Wired(x) /\ ~IsPage(x) => Wired(x)'
        BY DEF Wired
      <3> QED BY <1>1, <1>4, <3>1 DEF PhoneDataInv, ChainInv
    <2>2. (\A g \in Links : \A i \in DOMAIN work[g] : Worked(g, work[g][i]))'
      <3>1. \A g \in Links : \A x : Worked(g, x) /\ ~IsPage(x) => Worked(g, x)'
        BY DEF Worked
      <3>2. \A g \in Links : \A i \in DOMAIN work[g] : Worked(g, work[g][i])
        BY DEF PhoneDataInv, ChainInv
      <3> QED BY <1>1, <1>4, <3>1, <3>2
    <2> QED BY <1>1, <1>3, <2>1, <2>2 DEF PhoneDataInv, ChainInv, Whole, NoNewer
  <1>8. FlowInv'
    BY <1>1 DEF PhoneDataInv, FlowInv, Flow, Queue, Coming, Awaited, NoNewer
  <1>9. HeardInv'
    BY <1>1, <1>3 DEF PhoneDataInv, HeardInv, InUse
  <1>10. StoreInv'
    BY <1>1, <1>3 DEF PhoneDataInv, StoreInv
  <1>11. MirrorInv'
    BY <1>1 DEF PhoneDataInv, MirrorInv, MirrorWhole
  <1> QED BY <1>5, <1>6, <1>7, <1>8, <1>9, <1>10, <1>11 DEF PhoneDataInv

\* Who listens hears of the phone what start() has asked for.
LEMMA StartedMirror ==
  ASSUME PhoneDataInv, Started
  PROVE  PhoneDataInv'
  <1>1. /\ scene' = scene /\ faults' = faults /\ link' = link /\ link # 0
        /\ book' = book /\ offers' = offers /\ jobs' = jobs /\ store' = store
        /\ work' = work /\ writing' = writing /\ mirror' = mirror /\ missed' = missed
        /\ gateway.at = "connecting" /\ gateway' = [gateway EXCEPT !.at = "running"]
        /\ wire' = Append(wire, Announced(2))
    BY DEF Started, phoneVars
  <1>2. gateway' = [of |-> gateway.of, at |-> "running"]
    BY <1>1, GatewayIs
  <1>3. gateway'.of = gateway.of /\ gateway'.at = "running"
    BY <1>2
  <1>4. /\ Announced(2) \in Items /\ ~IsPage(Announced(2)) /\ Announced(2).what = "capabilities"
        /\ Announced(2).nth = 2 /\ Announced(2) # Announced(1)
    BY DEF Announced, Items, News, IsPage
  <1>5. /\ wire' \in Seq(Items) /\ Len(wire) \in Nat /\ wire \in Seq(Items)
        /\ DOMAIN wire = 1..Len(wire) /\ DOMAIN wire' = 1..(Len(wire) + 1)
        /\ \A i \in DOMAIN wire : wire'[i] = wire[i]
        /\ wire'[Len(wire) + 1] = Announced(2)
        /\ \A i \in DOMAIN wire' : i \in DOMAIN wire \/ i = Len(wire) + 1
    BY <1>1, <1>4, WaysAre, Appends
  <1>6. /\ \A i \in DOMAIN wire : ~IsPage(wire[i])
        /\ \A g \in Links : \A i \in DOMAIN work[g] : ~IsPage(work[g][i])
        /\ Void(Flow) /\ \A p \in store.pending : p.rows = <<>>
    BY <1>1, NoPageYet
  <1>7. LinkInv'
    <2>1. gateway' \in [of : 0..MaxLinks, at : {"none", "device", "connecting", "running", "stopping"}]
      BY <1>2, GatewayIs
    <2> QED BY <1>1, <1>3, <2>1 DEF PhoneDataInv, LinkInv
  <1>8. PhoneInv'
    BY <1>1, <1>3 DEF PhoneDataInv, PhoneInv, Whole
  <1>9. ChainInv'
    <2>1. (\A i \in DOMAIN wire : Wired(wire[i]))'
      <3>1. \A x : Wired(x) /\ ~IsPage(x) => Wired(x)'
        BY DEF Wired
      <3>2. Wired(Announced(2))'
        BY <1>4 DEF Wired
      <3>3. \A i \in DOMAIN wire : Wired(wire[i])
        BY DEF PhoneDataInv, ChainInv
      <3> QED BY <1>5, <1>6, <3>1, <3>2, <3>3
    <2>2. (\A g \in Links : \A i \in DOMAIN work[g] : Worked(g, work[g][i]))'
      <3>1. \A g \in Links : \A x : Worked(g, x) /\ ~IsPage(x) => Worked(g, x)'
        BY DEF Worked
      <3>2. \A g \in Links : \A i \in DOMAIN work[g] : Worked(g, work[g][i])
        BY DEF PhoneDataInv, ChainInv
      <3> QED BY <1>1, <1>6, <3>1, <3>2
    <2> QED BY <1>1, <1>3, <1>5, <2>1, <2>2 DEF PhoneDataInv, ChainInv, Whole, NoNewer
  <1>10. FlowInv'
    <2>1. Queue(link)' = Queue(link) /\ Coming' = Coming
      BY <1>1 DEF Queue, Coming
    <2>2. /\ Queue(link) \in Seq(Items) /\ Coming \in Seq(Items) /\ Queue(link) \o wire \in Seq(Items)
      BY <1>1, WaysAre
    <2>3. Void(Queue(link)) /\ Void(Coming)
      BY <1>5, <1>6, <2>2, JoinVoid DEF Flow
    <2>4. Void(wire')
      BY <1>4, <1>5, <1>6 DEF Void
    <2>5. Void(Queue(link) \o wire') /\ Queue(link) \o wire' \in Seq(Items)
      BY <1>5, <2>2, <2>3, <2>4, JoinVoid, ConcatProperties
    <2>6. Void((Queue(link) \o wire') \o Coming)
      BY <2>2, <2>3, <2>5, JoinVoid
    <2>7. Flow' = (Queue(link) \o wire') \o Coming
      BY <1>1, <2>1 DEF Flow
    <2> QED BY <1>1, <1>6, <2>6, <2>7, FlowVoid
  <1>11. HeardInv'
    <2>1. InUse' = InUse
      <3>1. \A i \in DOMAIN wire' : ~IsPage(wire'[i])
        BY <1>4, <1>5, <1>6
      <3> QED BY <1>1, <1>6, <3>1 DEF InUse
    <2>2. /\ \A i, j \in DOMAIN wire : wire[i] = wire[j] => i = j
          /\ \A i \in DOMAIN wire : \A r \in InUse : r.nth # wire[i].nth
          /\ \A r \in InUse : r.nth # 2
          /\ \A i \in DOMAIN wire : wire[i] = Announced(1)
      BY <1>1, <1>6 DEF PhoneDataInv, HeardInv
    <2>3. \A i, j \in DOMAIN wire' : wire'[i] = wire'[j] => i = j
      BY <1>4, <1>5, <2>2
    <2>4. \A i \in DOMAIN wire' : \A r \in InUse' : r.nth # wire'[i].nth
      BY <1>4, <1>5, <2>1, <2>2
    <2> QED BY <1>3, <2>3, <2>4 DEF HeardInv
  <1>12. StoreInv'
    BY <1>1, <1>3 DEF PhoneDataInv, StoreInv
  <1>13. MirrorInv'
    BY <1>1 DEF PhoneDataInv, MirrorInv, MirrorWhole
  <1> QED BY <1>7, <1>8, <1>9, <1>10, <1>11, <1>12, <1>13 DEF PhoneDataInv

\* A connection is lost: what was on the wire is, and nothing is awaited any more.
LEMMA LinkLostMirror ==
  ASSUME PhoneDataInv, LinkLost
  PROVE  PhoneDataInv'
  <1> DEFINE at == IF gateway.at = "running" THEN "stopping" ELSE "none"
  <1>1. /\ scene' = scene /\ faults' = faults /\ link' = 0 /\ link # 0
        /\ book' = book /\ offers' = offers /\ jobs' = jobs /\ wire' = <<>>
        /\ store' = IF gateway.at = "device" THEN store ELSE SetDisconnected(store)
        /\ work' = work /\ writing' = writing /\ mirror' = mirror /\ missed' = missed
        /\ gateway' = [gateway EXCEPT !.at = IF gateway.at = "running" THEN "stopping" ELSE "none"]
    BY DEF LinkLost, phoneVars
  <1>2. gateway' = [of |-> gateway.of, at |-> at]
    BY <1>1, GatewayIs
  <1>3. gateway'.of = gateway.of /\ gateway'.at = at /\ at \in {"stopping", "none"}
    BY <1>2
  <1>4. at = "none" => \A g \in Links : \A i \in DOMAIN work[g] : ~IsPage(work[g][i])
    <2>1. at = "none" => gateway.at \in {"device", "connecting"}
      BY <1>1, GatewayIs
    <2> QED BY <2>1, NoPageYet
  <1>5. LinkInv'
    <2>1. gateway' \in [of : 0..MaxLinks, at : {"none", "device", "connecting", "running", "stopping"}]
      BY <1>2, <1>3, GatewayIs
    <2>2. 0 \in 0..MaxLinks
      BY Bounds
    <2> QED BY <1>1, <1>3, <2>1, <2>2 DEF PhoneDataInv, LinkInv
  <1>6. PhoneInv'
    BY <1>1, <1>3 DEF PhoneDataInv, PhoneInv, Whole
  <1>7. ChainInv'
    <2>1. wire' \in Seq(Items) /\ DOMAIN wire' = {}
      BY <1>1, EmptySeq
    <2>2. (\A g \in Links : \A i \in DOMAIN work[g] : Worked(g, work[g][i]))'
      <3>1. gateway.at \in {"device", "connecting", "running"}
        BY <1>1, GatewayIs
      <3>2. \A g \in Links : \A x : Worked(g, x) /\ (at = "none" => ~IsPage(x)) => Worked(g, x)'
        BY <1>1, <1>3 DEF Worked, WellMade
      <3>3. \A g \in Links : \A i \in DOMAIN work[g] : Worked(g, work[g][i])
        BY DEF PhoneDataInv, ChainInv
      <3> HIDE DEF at
      <3> QED BY <1>1, <1>4, <3>2, <3>3
    <2> QED BY <1>1, <1>3, <2>1, <2>2 DEF PhoneDataInv, ChainInv, Whole, NoNewer
  <1>8. FlowInv'
    BY <1>1 DEF FlowInv
  <1>9. HeardInv'
    <2>1. DOMAIN wire' = {}
      BY <1>1
    <2> QED BY <1>3, <2>1 DEF HeardInv
  <1>10. StoreInv'
    <2>1. CASE gateway.at = "device"
      BY <1>1, <1>3, <2>1 DEF PhoneDataInv, StoreInv
    <2>2. CASE gateway.at # "device"
      <3>1. store = [support |-> store.support, connected |-> store.connected,
                     pending |-> store.pending]
        BY DEF PhoneDataInv, StoreInv
      <3>2. store' = [support |-> store.support, connected |-> FALSE, pending |-> {}]
        BY <1>1, <2>2, <3>1 DEF SetDisconnected
      <3>3. store'.support = store.support /\ store'.connected = FALSE /\ store'.pending = {}
        BY <3>2
      <3>4. store.support \in [Kinds -> {"unknown", "yes", "no"}]
        BY DEF PhoneDataInv, StoreInv
      <3> QED BY <3>2, <3>3, <3>4 DEF StoreInv
    <2> QED BY <2>1, <2>2
  <1>11. MirrorInv'
    BY <1>1 DEF PhoneDataInv, MirrorInv, MirrorWhole
  <1> QED BY <1>5, <1>6, <1>7, <1>8, <1>9, <1>10, <1>11 DEF PhoneDataInv

\* The daemon dies, and what it had in memory with it.
LEMMA CrashMirror ==
  ASSUME PhoneDataInv, Crash
  PROVE  PhoneDataInv'
  <1>1. /\ scene' = scene /\ faults < MaxFaults /\ faults' = faults + 1 /\ link' = 0
        /\ book' = book /\ offers' = offers /\ jobs' = jobs /\ wire' = <<>> /\ store' = NewStore
        /\ work' = [g \in Links |-> <<>>] /\ writing' = [g \in Links |-> NoWrite]
        /\ mirror' = mirror /\ missed' = missed
        /\ gateway' = [gateway EXCEPT !.at = "none"]
    BY DEF Crash, Fault, phoneVars
  <1>2. gateway' = [of |-> gateway.of, at |-> "none"]
    BY <1>1, GatewayIs
  <1>3. gateway'.of = gateway.of /\ gateway'.at = "none"
    BY <1>2
  <1>4. LinkInv'
    <2>1. gateway' \in [of : 0..MaxLinks, at : {"none", "device", "connecting", "running", "stopping"}]
      BY <1>2, <1>3, GatewayIs
    <2>2. 0 \in 0..MaxLinks /\ faults' \in 0..MaxFaults
      BY <1>1, Bounds DEF PhoneDataInv, LinkInv
    <2> QED BY <1>1, <1>3, <2>1, <2>2 DEF PhoneDataInv, LinkInv
  <1>5. PhoneInv'
    BY <1>1, <1>3 DEF PhoneDataInv, PhoneInv, Whole
  <1>6. ChainInv'
    <2>1. wire' \in Seq(Items) /\ DOMAIN wire' = {} /\ <<>> \in Seq(Items) /\ DOMAIN <<>> = {}
      BY <1>1, EmptySeq
    <2>2. work' \in [Links -> Seq(Items)] /\ DOMAIN writing' = Links
      BY <1>1, <2>1
    <2>3. \A g \in Links : work'[g] = <<>> /\ writing'[g] = NoWrite
      BY <1>1
    <2>4. (\A g \in Links : \A i \in DOMAIN work[g] : Worked(g, work[g][i]))'
      BY <2>1, <2>3
    <2> QED BY <1>1, <2>1, <2>2, <2>3, <2>4 DEF ChainInv
  <1>7. FlowInv'
    BY <1>1 DEF FlowInv
  <1>8. HeardInv'
    <2>1. DOMAIN wire' = {}
      BY <1>1
    <2> QED BY <1>3, <2>1 DEF HeardInv
  <1>9. StoreInv'
    BY <1>1, <1>3 DEF NewStore, StoreInv
  <1>10. MirrorInv'
    BY <1>1 DEF PhoneDataInv, MirrorInv, MirrorWhole
  <1> QED BY <1>4, <1>5, <1>6, <1>7, <1>8, <1>9, <1>10 DEF PhoneDataInv

-----------------------------------------------------------------------------
(* The way of a page *)

\* A sequence is its first element and what is left of it.
LEMMA HeadFirst ==
  ASSUME NEW S, NEW s \in Seq(S), s # <<>>
  PROVE  s = <<Head(s)>> \o Tail(s) /\ <<Head(s)>> \in Seq(S)
  <1>1. /\ Tail(s) \in Seq(S) /\ Head(s) \in S /\ Head(s) = s[1]
        /\ Len(s) \in Nat /\ Len(s) >= 1 /\ Len(Tail(s)) = Len(s) - 1
        /\ DOMAIN Tail(s) = 1..Len(Tail(s))
        /\ \A i \in DOMAIN Tail(s) : Tail(s)[i] = s[i + 1]
    BY Tails, LenProperties
  <1> DEFINE h == <<Head(s)>>
             t == Tail(s)
  <1>2. h \in Seq(S) /\ Len(h) = 1 /\ h[1] = s[1]
    BY <1>1
  <1> HIDE DEF h, t
  <1>3. t \in Seq(S) /\ Len(t) = Len(s) - 1 /\ \A i \in 1..Len(t) : t[i] = s[i + 1]
    BY <1>1 DEF t
  <1>4. /\ h \o t \in Seq(S) /\ Len(h \o t) = Len(h) + Len(t)
        /\ \A i \in 1..Len(h) + Len(t) : (h \o t)[i] = IF i <= Len(h) THEN h[i] ELSE t[i - Len(h)]
    <2>1. h \in Seq(S) /\ t \in Seq(S)
      BY <1>2, <1>3
    <2> QED BY <2>1, ConcatProperties
  <1>5. \A i \in 1..Len(s) : s[i] = (h \o t)[i]
    <2> TAKE i \in 1..Len(s)
    <2>1. i \in 1..Len(h) + Len(t)
      BY <1>1, <1>2, <1>3
    <2>2. CASE i = 1
      BY <1>2, <1>4, <2>1, <2>2
    <2>3. CASE i # 1
      <3>1. i - 1 \in 1..Len(t) /\ (i - 1) + 1 = i /\ ~(i <= 1)
        BY <1>1, <1>3, <2>3
      <3> QED BY <1>2, <1>3, <1>4, <2>1, <3>1
    <2> QED BY <2>2, <2>3
  <1>6. Len(s) = Len(h \o t)
    BY <1>1, <1>2, <1>3, <1>4
  <1>7. s = h \o t
    BY <1>4, <1>5, <1>6, SeqEqual
  <1> QED BY <1>2, <1>7 DEF h, t

\* What is added to a sequence is joined to it.
LEMMA AppendJoins ==
  ASSUME NEW S, NEW s \in Seq(S), NEW e \in S
  PROVE  Append(s, e) = s \o <<e>> /\ <<e>> \in Seq(S)
  <1> DEFINE h == <<e>>
             t == Append(s, e)
  <1>1. h \in Seq(S) /\ Len(h) = 1 /\ h[1] = e
    OBVIOUS
  <1>2. /\ t \in Seq(S) /\ Len(t) = Len(s) + 1 /\ Len(s) \in Nat /\ DOMAIN s = 1..Len(s)
        /\ \A i \in DOMAIN s : t[i] = s[i]
        /\ t[Len(s) + 1] = e
    BY Appends
  <1> HIDE DEF h, t
  <1>3. /\ s \o h \in Seq(S) /\ Len(s \o h) = Len(s) + Len(h)
        /\ \A i \in 1..Len(s) + Len(h) : (s \o h)[i] = IF i <= Len(s) THEN s[i] ELSE h[i - Len(s)]
    BY <1>1, ConcatProperties
  <1>4. \A i \in 1..Len(t) : t[i] = (s \o h)[i]
    <2> TAKE i \in 1..Len(t)
    <2>1. i \in 1..Len(s) + Len(h)
      BY <1>1, <1>2
    <2>2. CASE i = Len(s) + 1
      <3>1. i - Len(s) = 1 /\ ~(i <= Len(s))
        BY <1>2, <2>2
      <3> QED BY <1>1, <1>2, <1>3, <2>1, <2>2, <3>1
    <2>3. CASE i # Len(s) + 1
      <3>1. i \in 1..Len(s) /\ i <= Len(s)
        BY <1>2, <2>3
      <3> QED BY <1>2, <1>3, <2>1, <3>1
    <2> QED BY <2>2, <2>3
  <1>5. Len(t) = Len(s \o h)
    BY <1>1, <1>2, <1>3
  <1>6. t = s \o h
    BY <1>2, <1>3, <1>4, <1>5, SeqEqual
  <1> QED BY <1>1, <1>6 DEF h, t

\* What leads or trails a sequence is in it.
LEMMA InIt ==
  ASSUME NEW q, NEW f, Leads(q, f) \/ Trails(q, f)
  PROVE  IsPage(f) /\ \E i \in DOMAIN q : q[i] = f
  BY DEF Leads, Trails

\* A page on its way is a well made one of this connection, and its request is in use.
LEMMA FlowUses ==
  ASSUME PhoneDataInv, link # 0, NEW f, Leads(Flow, f) \/ Trails(Flow, f)
  PROVE  f \in Frames /\ IsPage(f) /\ WellMade(f) /\ f.req.of = link /\ f.req \in InUse
  <1>1. /\ link = gateway.of /\ link \in Links /\ Queue(link) \in Seq(Items) /\ wire \in Seq(Items)
        /\ Coming \in Seq(Items) /\ Queue(link) \o wire \in Seq(Items) /\ jobs \in Seq(Jobs)
        /\ work[link] \in Seq(Items)
    BY WaysAre
  <1>2. Leads(Coming, f) \/ Trails(Coming, f) \/ Leads(wire, f) \/ Trails(wire, f)
        \/ Leads(Queue(link), f) \/ Trails(Queue(link), f)
    <2>1. \A S : \A a, b \in Seq(S) :
            Leads(a \o b, f) \/ Trails(a \o b, f) => Leads(a, f) \/ Leads(b, f) \/ Trails(a, f) \/ Trails(b, f)
      BY JoinLeads, JoinTrails
    <2>2. \/ Leads(Queue(link) \o wire, f) \/ Trails(Queue(link) \o wire, f)
          \/ Leads(Coming, f) \/ Trails(Coming, f)
      BY <1>1, <2>1 DEF Flow
    <2> QED BY <1>1, <2>1, <2>2
  <1>3. CASE Leads(Queue(link), f) \/ Trails(Queue(link), f)
    <2>1. IsPage(f) /\ \E i \in DOMAIN work[link] : work[link][i] = f
      <3>1. PICK i \in DOMAIN Queue(link) : IsPage(f) /\ Queue(link)[i] = f
        BY <1>3, InIt
      <3>2. CASE writing[link] = NoWrite
        BY <3>1, <3>2 DEF Queue
      <3>3. CASE writing[link] # NoWrite
        <4>1. work[link] # <<>>
          BY <1>1, <3>3 DEF PhoneDataInv, ChainInv
        <4>2. Queue(link) = Tail(work[link])
          BY <3>3 DEF Queue
        <4>3. Tail(work[link])[i] = work[link][i + 1] /\ i + 1 \in DOMAIN work[link]
          BY <1>1, <3>1, <4>1, <4>2, Tails
        <4> QED BY <3>1, <4>2, <4>3
      <3> QED BY <3>2, <3>3
    <2>2. Worked(link, f) /\ f \in Items
      BY <1>1, <2>1, LenProperties DEF PhoneDataInv, ChainInv
    <2>3. f \in Frames /\ f.req.of = link /\ WellMade(f)
      BY <2>1, <2>2 DEF Worked, Items, Sends, News, IsPage
    <2>4. f.req \in InUse
      BY <2>1, <2>3 DEF InUse, Frames
    <2> QED BY <2>1, <2>3, <2>4
  <1>4. CASE Leads(wire, f) \/ Trails(wire, f)
    <2>1. IsPage(f) /\ \E i \in DOMAIN wire : wire[i] = f
      BY <1>4, InIt
    <2>2. Wired(f) /\ f \in Items
      BY <1>1, <2>1, LenProperties DEF PhoneDataInv, ChainInv
    <2>3. f \in Frames /\ f.req.of = link /\ WellMade(f)
      BY <2>1, <2>2 DEF Wired, Items, Sends, News, IsPage
    <2>4. f.req \in InUse
      BY <2>1, <2>3 DEF InUse, Frames
    <2> QED BY <2>1, <2>3, <2>4
  <1>5. CASE Leads(Coming, f) \/ Trails(Coming, f)
    <2>1. IsPage(f) /\ \E i \in DOMAIN Coming : Coming[i] = f
      BY <1>5, InIt
    <2>2. jobs # <<>> /\ Head(jobs).req.of = link /\ Head(jobs).rows # <<>>
          /\ Coming = Rest(Head(jobs))
      BY <2>1 DEF Coming
    <2>3. Head(jobs) \in Jobs /\ Head(jobs) = jobs[1] /\ 1 \in DOMAIN jobs
      BY <1>1, <2>2, Tails
    <2>4. Whole(Head(jobs).rows) /\ Head(jobs).page <= Len(Head(jobs).rows)
          /\ book \in 1..MaxEdits + 1
      BY <2>2, <2>3 DEF PhoneDataInv, PhoneInv
    <2> DEFINE job == Head(jobs)
    <2>5. PICK n \in 1..Len(job.rows) : f = FrameAt(job, n)
      <3> HIDE DEF job
      <3>1. /\ Len(job.rows) \in 1..PageCount /\ job.page \in 1..PageCount
        BY <2>3, <2>4, SnapshotIs DEF job, Jobs
      <3>2. Rest(job) = [i \in 1..(Len(job.rows) - job.page + 1) |-> FrameAt(job, job.page + i - 1)]
        BY DEF Rest
      <3>3. PICK i \in 1..(Len(job.rows) - job.page + 1) : f = FrameAt(job, job.page + i - 1)
        BY <2>1, <2>2, <3>2 DEF job
      <3>4. job.page + i - 1 \in 1..Len(job.rows)
        BY <3>1, Bounds
      <3> QED BY <3>3, <3>4
    <2>6. f \in Frames /\ WellMade(f)
      BY <2>3, <2>4, <2>5, FrameIs
    <2>7. f.req = job.req
      BY <2>5 DEF FrameAt
    <2>8. f.req \in InUse /\ f.req.of = link
      BY <2>2, <2>3, <2>6, <2>7 DEF InUse, Frames
    <2> QED BY <2>1, <2>6, <2>8
  <1> QED BY <1>2, <1>3, <1>4, <1>5

\* A finite set has an enumeration.
LEMMA Listed ==
  ASSUME NEW S, IsFiniteSet(S)
  PROVE  SetToSeq(S) \in Seq(S)
  <1> DEFINE n == Cardinality(S)
             P(f) == f \in [1..n -> S] /\ IsInjective(f)
  <1>1. n \in Nat /\ ExistsBijection(1..n, S)
    BY FS_CardinalityType
  <1>2. PICK f \in Bijection(1..n, S) : TRUE
    BY <1>1 DEF ExistsBijection
  <1>3. f \in [1..n -> S] /\ IsInjective(f)
    BY <1>2 DEF Bijection, Injection
  <1>4. SetToSeq(S) \in [1..n -> S]
    BY <1>3 DEF SetToSeq
  <1> QED BY <1>1, <1>4

\* The first element of two joined sequences is that of the first.
LEMMA TailJoins ==
  ASSUME NEW S, NEW a \in Seq(S), NEW b \in Seq(S), a # <<>>
  PROVE  Tail(a \o b) = Tail(a) \o b /\ Head(a \o b) = Head(a) /\ a \o b # <<>>
  <1> DEFINE u == a \o b
             h == <<Head(a)>>
  <1>1. /\ u \in Seq(S) /\ Len(a) \in Nat /\ Len(b) \in Nat /\ Len(u) = Len(a) + Len(b)
        /\ \A i \in DOMAIN a : u[i] = a[i]
    BY Joins
  <1>2. Tail(a) \in Seq(S) /\ Head(a) = a[1] /\ 1 \in DOMAIN a /\ Len(a) >= 1
    BY Tails
  <1>3. u # <<>>
    BY <1>1, <1>2
  <1> HIDE DEF u, h
  <1>4. Head(u) = u[1] /\ Tail(u) \in Seq(S)
    BY <1>1, <1>3, Tails
  <1>5. Head(u) = Head(a)
    BY <1>1, <1>2, <1>4
  <1>6. a = h \o Tail(a) /\ h \in Seq(S)
    BY HeadFirst DEF h
  <1>7. u = h \o Tail(u)
    BY <1>1, <1>3, <1>5, HeadFirst DEF h
  <1>8. u = h \o (Tail(a) \o b)
    <2>1. (h \o Tail(a)) \o b = h \o (Tail(a) \o b)
      BY <1>2, <1>6, ConcatAssociative, SMTT(30)
    <2> QED BY <1>6, <2>1 DEF u
  <1>9. Tail(a) \o b \in Seq(S)
    BY <1>2, ConcatProperties
  <1>10. Tail(u) = Tail(a) \o b
    BY <1>4, <1>6, <1>7, <1>8, <1>9, ConcatSimplifications
  <1> QED BY <1>3, <1>5, <1>10 DEF u

\* What comes to a gateway's chain comes last, whatever is being written.
LEMMA QueueGrows ==
  ASSUME PhoneDataInv, NEW g \in Links, NEW n \in Seq(Items), work'[g] = work[g] \o n,
         writing' = writing
  PROVE  Queue(g)' = Queue(g) \o n /\ (writing[g] # NoWrite => Head(work'[g]) = Head(work[g]))
  <1>1. work[g] \in Seq(Items) /\ (writing[g] # NoWrite => work[g] # <<>>)
    BY WaysAre DEF PhoneDataInv, ChainInv
  <1>2. CASE writing[g] = NoWrite
    BY <1>2 DEF Queue
  <1>3. CASE writing[g] # NoWrite
    <2>1. Tail(work[g] \o n) = Tail(work[g]) \o n /\ Head(work[g] \o n) = Head(work[g])
      BY <1>1, <1>3, TailJoins
    <2> QED BY <1>3, <2>1 DEF Queue
  <1> QED BY <1>2, <1>3

\* A page that is heard is the next of the chain: its way goes on.
LEMMA HearPageMirror ==
  ASSUME PhoneDataInv, HearPage
  PROVE  PhoneDataInv'
  <1> DEFINE h == Head(wire)
  <1>1. /\ scene' = scene /\ faults' = faults /\ link' = link /\ gateway' = gateway
        /\ book' = book /\ offers' = offers /\ jobs' = jobs /\ store' = store
        /\ writing' = writing /\ mirror' = mirror /\ missed' = missed
        /\ wire # <<>> /\ IsPage(h) /\ wire' = Tail(wire)
        /\ work' = [work EXCEPT ![gateway.of] = Append(@, h)]
    BY DEF HearPage, linkVars, phoneVars, IsPage
  <1>2. /\ wire \in Seq(Items) /\ wire' \in Seq(Items) /\ h \in Items /\ h = wire[1] /\ 1 \in DOMAIN wire
        /\ \A i \in DOMAIN wire' : wire'[i] = wire[i + 1] /\ i + 1 \in DOMAIN wire /\ i + 1 # 1
    BY <1>1, WaysAre, Tails
  <1>3. link # 0 /\ link = gateway.of /\ link \in Links /\ gateway.at = "running"
        /\ h.req.of = link /\ WellMade(h)
    <2>1. Wired(h)
      BY <1>2 DEF PhoneDataInv, ChainInv
    <2>2. link # 0
      BY <1>1 DEF PhoneDataInv, ChainInv
    <2> QED BY <1>1, <2>1, <2>2, WaysAre DEF Wired
  <1>4. work \in [Links -> Seq(Items)] /\ work[link] \in Seq(Items)
    BY <1>3, WaysAre DEF PhoneDataInv, ChainInv
  <1>5. /\ work' \in [Links -> Seq(Items)] /\ work'[link] = Append(work[link], h)
        /\ \A g \in Links \ {link} : work'[g] = work[g]
    <2>1. Append(work[link], h) \in Seq(Items)
      BY <1>2, <1>4, Appends
    <2> QED BY <1>1, <1>3, <1>4, <2>1
  <1>6. work'[link] = work[link] \o <<h>> /\ <<h>> \in Seq(Items)
    BY <1>2, <1>4, <1>5, AppendJoins
  <1>7. /\ Len(work[link]) \in Nat /\ DOMAIN work[link] = 1..Len(work[link])
        /\ \A i \in DOMAIN work[link] : work'[link][i] = work[link][i] /\ i \in DOMAIN work'[link]
        /\ work'[link][Len(work[link]) + 1] = h /\ Len(work[link]) + 1 \in DOMAIN work'[link]
        /\ \A i \in DOMAIN work'[link] : i \in DOMAIN work[link] \/ i = Len(work[link]) + 1
    BY <1>2, <1>4, <1>5, Appends
  <1>8. Queue(link)' = Queue(link) \o <<h>>
        /\ (writing[link] # NoWrite => Head(work'[link]) = Head(work[link]))
    <2>1. \A g \in Links : g = link => (Queue(g)' = Queue(g) \o <<h>>
              /\ (writing[g] # NoWrite => Head(work'[g]) = Head(work[g])))
      BY <1>1, <1>3, <1>6, QueueGrows
    <2> QED BY <1>1, <1>3, <2>1 DEF Queue
  <1> HIDE DEF h
  <1>9. LinkInv'
    BY <1>1 DEF PhoneDataInv, LinkInv
  <1>10. PhoneInv'
    BY <1>1 DEF PhoneDataInv, PhoneInv, Whole
  <1>11. ChainInv'
    <2>1. \A x : Wired(x) => Wired(x)'
      BY <1>1 DEF Wired, WellMade
    <2>2. (\A i \in DOMAIN wire : Wired(wire[i]))'
      BY <1>2, <2>1 DEF PhoneDataInv, ChainInv
    <2>3. \A g \in Links : \A x : Worked(g, x) => Worked(g, x)'
      BY <1>1 DEF Worked, WellMade
    <2>4. \A g \in Links : \A x : g = link /\ x = h => Worked(g, x)'
      BY <1>1, <1>3 DEF Worked, WellMade, IsPage
    <2>5. \A g \in Links : \A i \in DOMAIN work[g] : Worked(g, work[g][i])
      BY DEF PhoneDataInv, ChainInv
    <2>6. (\A g \in Links : \A i \in DOMAIN work[g] : Worked(g, work[g][i]))'
      BY <1>3, <1>5, <1>7, <2>3, <2>4, <2>5
    <2>7. \A g \in Links : g > gateway'.of => work'[g] = <<>>
      <3>1. \A g \in Links : g > gateway.of => g # link /\ work[g] = <<>>
        BY <1>3, GatewayIs, Bounds DEF PhoneDataInv, ChainInv, Links
      <3> QED BY <1>1, <1>5, <3>1
    <2>8. \A g \in Links : writing[g] # NoWrite => work'[g] # <<>> /\ Head(work'[g]) = Head(work[g])
      <3>1. \A g \in Links : writing[g] # NoWrite => work[g] # <<>>
        BY DEF PhoneDataInv, ChainInv
      <3>2. work'[link] # <<>>
        BY <1>7
      <3> QED BY <1>3, <1>5, <1>8, <3>1, <3>2
    <2>9. \A rows, v : /\ Whole(rows) => Whole(rows)'
                       /\ NoNewer(v) => NoNewer(v)'
      BY <1>1 DEF Whole, NoNewer
    <2> QED BY <1>1, <1>2, <1>3, <1>5, <2>2, <2>6, <2>7, <2>8, <2>9 DEF PhoneDataInv, ChainInv
  <1>12. FlowInv'
    <2>1. Flow' = Flow
      <3>1. /\ Queue(link) \in Seq(Items) /\ Coming \in Seq(Items) /\ Coming' = Coming
            /\ Queue(link)' = Queue(link) \o <<h>>
        BY <1>1, <1>3, <1>8, WaysAre DEF Coming
      <3>2. wire = <<h>> \o wire'
        BY <1>1, <1>2, HeadFirst DEF h
      <3>3. (Queue(link) \o <<h>>) \o wire' = Queue(link) \o (<<h>> \o wire')
        BY <1>2, <1>6, <3>1, ConcatAssociative, SMTT(30)
      <3>4. (Queue(link) \o <<h>>) \o wire' = Queue(link) \o wire
        BY <3>2, <3>3
      <3> QED BY <1>1, <3>1, <3>4 DEF Flow
    <2>2. Same(Flow', Flow)
      BY <2>1 DEF Same
    <2> QED BY <1>1, <2>2, FlowStays DEF PhoneDataInv
  <1>13. HeardInv'
    <2>1. InUse' \subseteq InUse
      <3>1. \A i \in DOMAIN work'[link] : work'[link][i].req \in Requests =>
              \/ \E m \in DOMAIN work[link] : work[link][m].req = work'[link][i].req
              \/ IsPage(wire[1]) /\ wire[1].req = work'[link][i].req
        BY <1>1, <1>2, <1>7
      <3>2. \A i \in DOMAIN wire' : IsPage(wire'[i]) =>
              \E m \in DOMAIN wire : IsPage(wire[m]) /\ wire[m].req = wire'[i].req
        BY <1>2
      <3> QED BY <1>1, <1>2, <3>1, <3>2 DEF InUse
    <2>2. \A i, j \in DOMAIN wire' : ~IsPage(wire'[i]) /\ wire'[i] = wire'[j] => i = j
      <3>1. \A i, j \in DOMAIN wire' : ~IsPage(wire'[i]) /\ wire'[i] = wire'[j] => i + 1 = j + 1
        BY <1>2 DEF PhoneDataInv, HeardInv
      <3>2. DOMAIN wire' \subseteq Int
        BY <1>2, LenProperties
      <3> QED BY <3>1, <3>2
    <2>3. \A i \in DOMAIN wire' : ~IsPage(wire'[i]) => \A r \in InUse' : r.nth # wire'[i].nth
      BY <1>2, <2>1 DEF PhoneDataInv, HeardInv
    <2>4. gateway'.at \notin {"device", "connecting"}
      BY <1>1, <1>3
    <2> QED BY <2>2, <2>3, <2>4 DEF HeardInv
  <1>14. StoreInv'
    BY <1>1, <1>3, <1>8 DEF PhoneDataInv, StoreInv
  <1>15. MirrorInv'
    BY <1>1 DEF PhoneDataInv, MirrorInv, MirrorWhole
  <1> QED BY <1>9, <1>10, <1>11, <1>12, <1>13, <1>14, <1>15 DEF PhoneDataInv

\* What a page's place in a chain depends on.
LEMMA SameSight ==
  ASSUME link' = link, gateway' = gateway, book' = book, mirror' = mirror
  PROVE  /\ \A x : Wired(x) => Wired(x)'
         /\ \A g \in Links : \A x : Worked(g, x) => Worked(g, x)'
         /\ \A rows : Whole(rows) => Whole(rows)'
         /\ \A v : NoNewer(v) => NoNewer(v)'
  BY DEF Wired, Worked, WellMade, Whole, NoNewer

\* What comes between and is no page makes no difference, wherever it comes.
LEMMA SkipsBefore ==
  ASSUME NEW S, NEW q \in Seq(S), NEW n \in Seq(S), NEW w \in Seq(S), NEW c \in Seq(S), Void(n)
  PROVE  Same(((q \o n) \o w) \o c, (q \o w) \o c)
  <1>1. q \o n \in Seq(S) /\ w \o c \in Seq(S)
    BY ConcatProperties
  <1>2. \A x \in Seq(S) : (x \o w) \o c = x \o (w \o c)
    BY ConcatAssociative, SMTT(30)
  <1>3. Same((q \o n) \o (w \o c), q \o (w \o c))
    BY <1>1, Skips
  <1>4. ((q \o n) \o w) \o c = (q \o n) \o (w \o c) /\ (q \o w) \o c = q \o (w \o c)
    BY <1>1, <1>2, Zenon
  <1> QED BY <1>3, <1>4, Zenon

\* What the gateway makes of capabilities: nothing before it listens; else a request for each
\* kind, and nothing else in its chain or awaited.
LEMMA HeardAsks ==
  ASSUME PhoneDataInv, HearCapabilities, NEW n, n = Head(wire).nth
  PROVE  /\ link = gateway.of /\ link \in Links /\ n \in {1, 2}
         /\ \A g \in Links \ {link} : work'[g] = work[g]
         /\ work' \in [Links -> Seq(Items)]
         /\ \A p \in store'.pending : p \in store.pending \/
              (p.rows = <<>> /\ p.req \in Requests /\ p.req.of = link /\ p.req.nth = n)
         /\ \E sends \in Seq(Items) :
              /\ work'[link] = work[link] \o sends
              /\ \A i \in DOMAIN sends : /\ sends[i].what = "send" /\ sends[i].req \in Requests
                                         /\ sends[i].req.of = link /\ sends[i].req.nth = n
  <1>1. /\ wire # <<>> /\ Head(wire).what = "capabilities"
        /\ \/ gateway.at = "device" /\ store' = store /\ work' = work
           \/ /\ gateway.at # "device"
              /\ store' = [support |-> [k \in Kinds |-> IF k \in offers THEN "yes" ELSE "no"],
                           connected |-> TRUE,
                           pending |-> {p \in store.pending : p.req.kind \in offers}
                                       \cup {[req |-> req, rows |-> <<>>] : req \in Asked(n)}]
              /\ work' = [work EXCEPT ![gateway.of] =
                            @ \o SetToSeq({[what |-> "send", req |-> req] : req \in Asked(n)})]
    BY DEF HearCapabilities
  <1>2. link # 0 /\ link = gateway.of /\ link \in Links
    <2>1. link # 0
      BY <1>1 DEF PhoneDataInv, ChainInv
    <2> QED BY <2>1, WaysAre
  <1>3. n \in {1, 2}
    <2>1. Head(wire) \in Items
      BY <1>1, WaysAre, Tails
    <2> QED BY <1>1, <2>1 DEF Items, Frames, Sends, News
  <1>4. work \in [Links -> Seq(Items)] /\ work[link] \in Seq(Items)
    BY <1>2, WaysAre DEF PhoneDataInv, ChainInv
  <1>5. CASE gateway.at = "device" /\ store' = store /\ work' = work
    <2>1. work[link] = work[link] \o <<>> /\ <<>> \in Seq(Items) /\ DOMAIN <<>> = {}
      BY <1>4, EmptySeq, ConcatEmptySeq
    <2> QED BY <1>2, <1>3, <1>4, <1>5, <2>1
  <1>6. CASE gateway.at # "device"
    <2> DEFINE sent == {[what |-> "send", req |-> req] : req \in Asked(n)}
               sends == SetToSeq(sent)
    <2>1. \A req \in Asked(n) : req \in Requests /\ req.of = link /\ req.nth = n /\ req.kind \in offers
      BY <1>2, <1>3 DEF Asked, Requests, PhoneDataInv, PhoneInv
    <2>2. IsFiniteSet(sent)
      <3>1. IsFiniteSet(offers)
        BY Bounds, FS_Subset DEF PhoneDataInv, PhoneInv
      <3> DEFINE f == [k \in offers |->
                         [what |-> "send", req |-> [of |-> gateway.of, nth |-> n, kind |-> k]]]
      <3>2. f \in [offers -> sent] /\ \A x \in sent : \E k \in offers : f[k] = x
        BY DEF Asked
      <3>3. f \in Surjection(offers, sent)
        <4> HIDE DEF f, sent
        <4> QED BY <3>2 DEF Surjection
      <3> HIDE DEF f, sent
      <3> QED BY <3>1, <3>3, FS_Surjection
    <2>3. sends \in Seq(sent)
      BY <2>2, Listed
    <2>4. \A x \in sent : x \in Items /\ x.what = "send" /\ x.req \in Requests
                          /\ x.req.of = link /\ x.req.nth = n
      BY <2>1 DEF Items, Sends
    <2>5. sends \in Seq(Items) /\ \A i \in DOMAIN sends : sends[i] \in sent
      <3> HIDE DEF sent, sends
      <3> QED BY <2>3, <2>4, SeqMonotonic, LenProperties
    <2>6. \A i \in DOMAIN sends : /\ sends[i].what = "send" /\ sends[i].req \in Requests
                                  /\ sends[i].req.of = link /\ sends[i].req.nth = n
      BY <2>4, <2>5
    <2>7. /\ work' = [work EXCEPT ![link] = @ \o sends]
          /\ store'.pending = {p \in store.pending : p.req.kind \in offers}
                              \cup {[req |-> req, rows |-> <<>>] : req \in Asked(n)}
      <3>1. work' = [work EXCEPT ![gateway.of] = @ \o sends]
        BY <1>1, <1>6
      <3>2. store'.pending = {p \in store.pending : p.req.kind \in offers}
                             \cup {[req |-> req, rows |-> <<>>] : req \in Asked(n)}
        BY <1>1, <1>6
      <3> QED BY <1>2, <3>1, <3>2
    <2>8. \A p \in store'.pending : p \in store.pending \/
              (p.rows = <<>> /\ p.req \in Requests /\ p.req.of = link /\ p.req.nth = n)
      BY <2>1, <2>7
    <2> HIDE DEF sends
    <2>9. work[link] \o sends \in Seq(Items)
      BY <1>4, <2>5, ConcatProperties
    <2>10. work' \in [Links -> Seq(Items)] /\ work'[link] = work[link] \o sends
           /\ \A g \in Links \ {link} : work'[g] = work[g]
      BY <1>2, <1>4, <2>7, <2>9
    <2> QED BY <1>2, <1>3, <2>5, <2>6, <2>8, <2>10
  <1> QED BY <1>1, <1>5, <1>6

\* Capabilities are heard, and what they make the gateway ask for is new.
LEMMA HearCapabilitiesMirror ==
  ASSUME PhoneDataInv, HearCapabilities
  PROVE  PhoneDataInv'
  <1> DEFINE n == Head(wire).nth
             h == Head(wire)
  <1>1. /\ scene' = scene /\ faults' = faults /\ link' = link /\ gateway' = gateway
        /\ book' = book /\ offers' = offers /\ jobs' = jobs
        /\ writing' = writing /\ mirror' = mirror /\ missed' = missed
        /\ wire # <<>> /\ h.what = "capabilities" /\ wire' = Tail(wire)
    BY DEF HearCapabilities, linkVars, phoneVars
  <1>2. /\ wire \in Seq(Items) /\ wire' \in Seq(Items) /\ h \in Items /\ h = wire[1] /\ 1 \in DOMAIN wire
        /\ \A i \in DOMAIN wire' : wire'[i] = wire[i + 1] /\ i + 1 \in DOMAIN wire /\ i + 1 # 1
    BY <1>1, WaysAre, Tails
  <1>3. /\ link = gateway.of /\ link \in Links /\ n \in {1, 2}
        /\ \A g \in Links \ {link} : work'[g] = work[g]
        /\ work' \in [Links -> Seq(Items)]
        /\ \A p \in store'.pending : p \in store.pending \/
              (p.rows = <<>> /\ p.req \in Requests /\ p.req.of = link /\ p.req.nth = n)
    BY HeardAsks
  <1>4. PICK sends \in Seq(Items) :
              /\ work'[link] = work[link] \o sends
              /\ \A i \in DOMAIN sends : /\ sends[i].what = "send" /\ sends[i].req \in Requests
                                         /\ sends[i].req.of = link /\ sends[i].req.nth = n
    BY HeardAsks
  <1>5. ~IsPage(h) /\ link # 0 /\ work[link] \in Seq(Items)
        /\ gateway.at \in {"device", "connecting", "running"}
    <2>1. link # 0
      BY <1>1 DEF PhoneDataInv, ChainInv
    <2> QED BY <1>1, <2>1, WaysAre, GatewayIs DEF IsPage
  <1>6. /\ Len(work[link]) \in Nat /\ DOMAIN work[link] \subseteq DOMAIN work'[link]
        /\ \A i \in DOMAIN work[link] : work'[link][i] = work[link][i] /\ i \in DOMAIN work'[link]
        /\ \A i \in DOMAIN work'[link] : i \in DOMAIN work[link] \/
             (i - Len(work[link]) \in DOMAIN sends /\ work'[link][i] = sends[i - Len(work[link])])
    <2>1. \A c : c = work[link] \o sends =>
            /\ Len(work[link]) \in Nat
            /\ \A i \in DOMAIN work[link] : c[i] = work[link][i] /\ i \in DOMAIN c
            /\ \A i \in DOMAIN sends : c[Len(work[link]) + i] = sends[i]
            /\ \A i \in DOMAIN c : i \in DOMAIN work[link] \/
                 (i - Len(work[link]) \in DOMAIN sends /\ Len(work[link]) + (i - Len(work[link])) = i)
      BY <1>5, Joins
    <2>2. /\ Len(work[link]) \in Nat
          /\ \A i \in DOMAIN work[link] : work'[link][i] = work[link][i] /\ i \in DOMAIN work'[link]
          /\ \A i \in DOMAIN sends : work'[link][Len(work[link]) + i] = sends[i]
          /\ \A i \in DOMAIN work'[link] : i \in DOMAIN work[link] \/
               (i - Len(work[link]) \in DOMAIN sends /\ Len(work[link]) + (i - Len(work[link])) = i)
      BY <1>4, <2>1
    <2> QED BY <2>2
  <1>7. Queue(link)' = Queue(link) \o sends
        /\ (writing[link] # NoWrite => Head(work'[link]) = Head(work[link]))
    <2>1. \A g \in Links : g = link => (Queue(g)' = Queue(g) \o sends
              /\ (writing[g] # NoWrite => Head(work'[g]) = Head(work[g])))
      BY <1>1, <1>3, <1>4, QueueGrows
    <2> QED BY <1>1, <1>3, <2>1 DEF Queue
  <1> HIDE DEF h, n
  <1>8. LinkInv'
    BY <1>1 DEF PhoneDataInv, LinkInv
  <1>9. PhoneInv'
    BY <1>1 DEF PhoneDataInv, PhoneInv, Whole
  <1>10. ChainInv'
    <2>1. /\ \A x : Wired(x) => Wired(x)'
          /\ \A g \in Links : \A x : Worked(g, x) => Worked(g, x)'
          /\ \A rows : Whole(rows) => Whole(rows)'
          /\ \A v : NoNewer(v) => NoNewer(v)'
      BY <1>1, SameSight
    <2>2. (\A i \in DOMAIN wire : Wired(wire[i]))'
      BY <1>2, <2>1 DEF PhoneDataInv, ChainInv
    <2>3. \A g \in Links : \A x : g = link /\ x.what = "send" /\ x.req.of = g => Worked(g, x)'
      BY DEF Worked, IsPage
    <2>4. \A g \in Links : \A i \in DOMAIN work[g] : Worked(g, work[g][i])
      BY DEF PhoneDataInv, ChainInv
    <2>5. (\A g \in Links : \A i \in DOMAIN work[g] : Worked(g, work[g][i]))'
      <3> SUFFICES ASSUME NEW g \in Links, NEW i \in DOMAIN work'[g]
                   PROVE  \A x : x = work'[g][i] => Worked(g, x)'
        OBVIOUS
      <3>1. CASE g # link
        BY <1>3, <2>1, <2>4, <3>1
      <3>2. CASE g = link
        <4>1. i \in DOMAIN work'[link] /\ work'[g][i] = work'[link][i]
          BY <3>2
        <4>2. CASE i \in DOMAIN work[link]
          <5>1. Worked(g, work[g][i]) /\ work'[g][i] = work[g][i]
            BY <1>6, <2>4, <3>2, <4>1, <4>2
          <5> QED BY <2>1, <5>1
        <4>3. CASE i - Len(work[link]) \in DOMAIN sends
                   /\ work'[link][i] = sends[i - Len(work[link])]
          <5>1. work'[g][i].what = "send" /\ work'[g][i].req.of = g
            BY <1>4, <3>2, <4>1, <4>3
          <5> QED BY <2>3, <3>2, <5>1
        <4> QED BY <1>6, <4>1, <4>2, <4>3
      <3> QED BY <3>1, <3>2
    <2>6. \A g \in Links : g > gateway'.of => work'[g] = <<>>
      <3>1. \A g \in Links : g > gateway.of => g # link /\ work[g] = <<>>
        BY <1>3, GatewayIs, Bounds DEF PhoneDataInv, ChainInv, Links
      <3> QED BY <1>1, <1>3, <3>1
    <2>7. \A g \in Links : writing[g] # NoWrite => work'[g] # <<>> /\ Head(work'[g]) = Head(work[g])
      <3>1. \A g \in Links : writing[g] # NoWrite => work[g] # <<>>
        BY DEF PhoneDataInv, ChainInv
      <3>2. work[link] # <<>> => work'[link] # <<>>
        <4>1. work[link] # <<>> => 1 \in DOMAIN work[link]
          BY <1>5, Tails
        <4> QED BY <1>6, <4>1
      <3> QED BY <1>3, <1>7, <3>1, <3>2
    <2> QED BY <1>1, <1>2, <1>3, <1>5, <2>1, <2>2, <2>5, <2>6, <2>7 DEF PhoneDataInv, ChainInv
  <1>11. FlowInv'
    <2>1. /\ Queue(link) \in Seq(Items) /\ Coming \in Seq(Items) /\ Coming' = Coming
          /\ <<h>> \in Seq(Items) /\ Void(<<h>>) /\ Void(sends)
      <3>1. Void(<<h>>)
        BY <1>5, Alone
      <3>2. Void(sends)
        BY <1>4 DEF Void, IsPage
      <3>3. <<h>> \in Seq(Items)
        BY <1>2
      <3>4. Coming' = Coming
        BY <1>1 DEF Coming
      <3> QED BY <1>5, <3>1, <3>2, <3>3, <3>4, WaysAre
    <2>2. Flow = ((Queue(link) \o <<h>>) \o wire') \o Coming
      <3>1. wire = <<h>> \o wire'
        BY <1>1, <1>2, HeadFirst DEF h
      <3>2. (Queue(link) \o <<h>>) \o wire' = Queue(link) \o (<<h>> \o wire')
        BY <1>2, <2>1, ConcatAssociative, SMTT(30)
      <3> QED BY <3>1, <3>2 DEF Flow
    <2>3. Flow' = ((Queue(link) \o sends) \o wire') \o Coming
      BY <1>1, <1>7, <2>1 DEF Flow
    <2>4. Same(Flow, (Queue(link) \o wire') \o Coming)
      BY <1>2, <2>1, <2>2, SkipsBefore
    <2>5. Same(Flow', (Queue(link) \o wire') \o Coming)
      BY <1>2, <1>4, <2>1, <2>3, SkipsBefore
    <2>6. /\ Void(Flow') = Void(Flow) /\ Chained(Flow') = Chained(Flow)
          /\ \A f : Leads(Flow', f) = Leads(Flow, f) /\ Trails(Flow', f) = Trails(Flow, f)
      BY <2>4, <2>5 DEF Same
    <2>7. Chained(Flow) /\ Complete(Flow) /\ (Void(Flow) => \A p \in store.pending : p.rows = <<>>)
          /\ \A f : Leads(Flow, f) => Awaited(f)
      BY <1>5 DEF PhoneDataInv, FlowInv
    <2>8. Complete(Flow')
      BY <2>6, <2>7 DEF Complete
    <2>9. \A f : Leads(Flow, f) => f.req.nth # n
      <3>1. \A f : Leads(Flow, f) => f.req \in InUse
        BY <1>5, FlowUses
      <3>2. \A r \in InUse : r.nth # n
        BY <1>2, <1>5 DEF PhoneDataInv, HeardInv, n, h
      <3> QED BY <3>1, <3>2
    <2>10. \A f : Leads(Flow, f) => Awaited(f)'
      <3> SUFFICES ASSUME NEW f, Leads(Flow, f)
                   PROVE  Awaited(f)'
        OBVIOUS
      <3>1. Awaited(f) /\ f.req.nth # n
        BY <2>7, <2>9
      <3>2. \A p \in store'.pending : p.rows = (IF p.req = f.req THEN Before(f) ELSE <<>>)
        BY <1>3, <3>1 DEF Awaited
      <3> QED BY <1>1, <3>1, <3>2 DEF Awaited, NoNewer
    <2>11. Void(Flow') => \A p \in store'.pending : p.rows = <<>>
      BY <1>3, <2>6, <2>7
    <2>12. Chained(Flow')
      BY <2>6, <2>7
    <2>13. \A f : Leads(Flow', f) => Awaited(f)'
      BY <2>6, <2>10
    <2> QED BY <2>8, <2>11, <2>12, <2>13 DEF FlowInv
  <1>12. HeardInv'
    <2>1. \A r \in InUse' : r \in InUse \/ r.nth = n
      <3>1. \A i \in DOMAIN work'[link] : work'[link][i].req.nth = n \/
              \E m \in DOMAIN work[link] : work[link][m].req = work'[link][i].req
        BY <1>4, <1>6
      <3>2. \A i \in DOMAIN wire' : IsPage(wire'[i]) =>
              \E m \in DOMAIN wire : IsPage(wire[m]) /\ wire[m].req = wire'[i].req
        BY <1>2
      <3> QED BY <1>1, <3>1, <3>2 DEF InUse
    <2>2. \A i, j \in DOMAIN wire : ~IsPage(wire[i]) /\ wire[i] = wire[j] => i = j
      BY DEF PhoneDataInv, HeardInv
    <2>3. \A i, j \in DOMAIN wire' : ~IsPage(wire'[i]) /\ wire'[i] = wire'[j] => i = j
      <3>1. \A i, j \in DOMAIN wire' : ~IsPage(wire'[i]) /\ wire'[i] = wire'[j] => i + 1 = j + 1
        BY <1>2, <2>2
      <3>2. DOMAIN wire' \subseteq Int
        BY <1>2, LenProperties
      <3> QED BY <3>1, <3>2
    <2>4. \A i \in DOMAIN wire' : ~IsPage(wire'[i]) => wire'[i].nth # n
      <3> SUFFICES ASSUME NEW i \in DOMAIN wire', ~IsPage(wire'[i]), wire'[i].nth = n
                   PROVE  FALSE
        OBVIOUS
      <3>1. wire'[i] \in Items /\ wire'[i].what # "send"
        BY <1>2, LenProperties DEF PhoneDataInv, ChainInv, Wired
      <3>2. wire'[i] = [what |-> "capabilities", nth |-> n]
        BY <3>1 DEF Items, Frames, Sends, News, IsPage
      <3>3. h = [what |-> "capabilities", nth |-> n]
        BY <1>1, <1>2 DEF Items, Frames, Sends, News, n, h
      <3> QED BY <1>2, <2>2, <3>2, <3>3
    <2>5. \A i \in DOMAIN wire' : ~IsPage(wire'[i]) => \A r \in InUse' : r.nth # wire'[i].nth
      <3>1. \A i \in DOMAIN wire' : ~IsPage(wire'[i]) => \A r \in InUse : r.nth # wire'[i].nth
        BY <1>2 DEF PhoneDataInv, HeardInv
      <3> QED BY <2>1, <2>4, <3>1
    <2>6. gateway.at \in {"device", "connecting"} =>
            /\ \A r \in InUse' : r.nth # 2
            /\ \A i \in DOMAIN wire' : wire'[i] = Announced(1)
      <3> SUFFICES ASSUME gateway.at \in {"device", "connecting"}
                   PROVE  /\ \A r \in InUse' : r.nth # 2
                          /\ \A i \in DOMAIN wire' : wire'[i] = Announced(1)
        OBVIOUS
      <3>1. (\A r \in InUse : r.nth # 2) /\ \A i \in DOMAIN wire : wire[i] = Announced(1)
        BY DEF PhoneDataInv, HeardInv
      <3>2. n = 1
        BY <1>2, <3>1 DEF n, h, Announced
      <3> QED BY <1>2, <2>1, <3>1, <3>2
    <2> QED BY <1>1, <2>3, <2>5, <2>6 DEF HeardInv
  <1>13. StoreInv'
    <2>1. CASE gateway.at = "device"
      <3>1. store' = store
        BY <2>1 DEF HearCapabilities
      <3> QED BY <1>1, <2>1, <3>1 DEF PhoneDataInv, StoreInv
    <2>2. CASE gateway.at # "device"
      <3> DEFINE support == [k \in Kinds |-> IF k \in offers THEN "yes" ELSE "no"]
                 pending == {p \in store.pending : p.req.kind \in offers}
                            \cup {[req |-> req, rows |-> <<>>] : req \in Asked(n)}
      <3>1. store' = [support |-> support, connected |-> TRUE, pending |-> pending]
        BY <2>2 DEF HearCapabilities, n
      <3>2. store'.support = support /\ store'.connected = TRUE /\ store'.pending = pending
        BY <3>1
      <3>3. \A req \in Asked(n) : req \in Requests /\ req.of = link /\ req.kind \in offers
        BY <1>3 DEF Asked, Requests, PhoneDataInv, PhoneInv
      <3>4. \A p \in pending : /\ p \in Asks /\ p.req.of = link /\ support[p.req.kind] = "yes"
                               /\ Len(p.rows) < PageCount
        <4> TAKE p \in pending
        <4>1. CASE p \in store.pending /\ p.req.kind \in offers
          BY <4>1 DEF PhoneDataInv, StoreInv, PhoneInv
        <4>2. CASE \E req \in Asked(n) : p = [req |-> req, rows |-> <<>>]
          <5>1. PICK req \in Asked(n) : p = [req |-> req, rows |-> <<>>]
            BY <4>2
          <5>2. <<>> \in Seq(Cells) /\ Len(<<>>) = 0
            BY EmptySeq
          <5>3. p.req = req /\ p.rows = <<>> /\ p \in Asks
            BY <3>3, <5>1, <5>2 DEF Asks
          <5>4. req.kind \in Kinds
            BY <3>3 DEF Requests
          <5> QED BY <3>3, <5>2, <5>3, <5>4, Bounds
        <4> QED BY <4>1, <4>2
      <3>5. \A k \in Kinds : support[k] = "yes" => \E p \in pending : p.req.kind = k
        <4> SUFFICES ASSUME NEW k \in Kinds, k \in offers
                     PROVE  \E p \in pending : p.req.kind = k
          OBVIOUS
        <4>1. [of |-> gateway.of, nth |-> n, kind |-> k] \in Asked(n)
          BY DEF Asked
        <4>2. [req |-> [of |-> gateway.of, nth |-> n, kind |-> k], rows |-> <<>>] \in pending
          BY <4>1
        <4> QED BY <4>2
      <3>6. support \in [Kinds -> {"unknown", "yes", "no"}]
        OBVIOUS
      <3>7. gateway.at \notin {"none", "device", "stopping"}
        BY <1>5, <2>2
      <3> HIDE DEF support, pending
      <3> QED BY <1>1, <3>1, <3>2, <3>4, <3>5, <3>6, <3>7 DEF StoreInv
    <2> QED BY <2>1, <2>2
  <1>14. MirrorInv'
    BY <1>1 DEF PhoneDataInv, MirrorInv, MirrorWhole
  <1> QED BY <1>8, <1>9, <1>10, <1>11, <1>12, <1>13, <1>14 DEF PhoneDataInv

\* A sequence with another first element.
LEMMA HeadReplaced ==
  ASSUME NEW S, NEW s \in Seq(S), s # <<>>, NEW e \in S
  PROVE  /\ <<e>> \o Tail(s) \in Seq(S) /\ <<e>> \o Tail(s) # <<>> /\ Head(<<e>> \o Tail(s)) = e
         /\ DOMAIN (<<e>> \o Tail(s)) = DOMAIN s /\ 1 \in DOMAIN s /\ Head(s) = s[1]
         /\ \A i \in DOMAIN s : (<<e>> \o Tail(s))[i] = IF i = 1 THEN e ELSE s[i]
  <1> DEFINE h == <<e>>
             t == Tail(s)
             u == h \o t
  <1>1. /\ t \in Seq(S) /\ Head(s) = s[1] /\ Len(s) \in Nat /\ Len(s) >= 1 /\ Len(t) = Len(s) - 1
        /\ DOMAIN s = 1..Len(s) /\ 1 \in DOMAIN s /\ DOMAIN t = 1..Len(t)
        /\ \A i \in DOMAIN t : t[i] = s[i + 1]
    BY Tails, LenProperties
  <1>2. h \in Seq(S) /\ Len(h) = 1 /\ h[1] = e /\ DOMAIN h = {1}
    OBVIOUS
  <1> HIDE DEF h, t
  <1>3. /\ u \in Seq(S) /\ Len(u) = Len(h) + Len(t) /\ DOMAIN u = 1..Len(u)
        /\ \A i \in DOMAIN h : u[i] = h[i]
        /\ \A i \in DOMAIN t : u[Len(h) + i] = t[i]
    <2>1. h \in Seq(S) /\ t \in Seq(S)
      BY <1>1, <1>2
    <2>2. u \in Seq(S) /\ u = h \o t
      BY <2>1, ConcatProperties
    <2> HIDE DEF u
    <2> QED BY <2>1, <2>2, Joins
  <1> HIDE DEF u
  <1>4. DOMAIN u = DOMAIN s /\ u # <<>>
    BY <1>1, <1>2, <1>3
  <1>5. u[1] = e /\ Head(u) = e
    <2>1. u[1] = e
      BY <1>2, <1>3
    <2> QED BY <1>3, <1>4, <2>1, Tails
  <1>6. \A i \in DOMAIN s : u[i] = IF i = 1 THEN e ELSE s[i]
    <2> TAKE i \in DOMAIN s
    <2>1. CASE i = 1
      BY <1>5, <2>1
    <2>2. CASE i # 1
      <3>1. i - 1 \in DOMAIN t /\ Len(h) + (i - 1) = i /\ (i - 1) + 1 = i
        BY <1>1, <1>2, <2>2
      <3> QED BY <1>1, <1>3, <2>2, <3>1, SMTT(30)
    <2> QED BY <2>1, <2>2
  <1> QED BY <1>1, <1>3, <1>4, <1>5, <1>6 DEF u, h, t

\* Two sequences, joined: a name under which the provers take them for what they are.
Joined(a, b) == a \o b

\* It makes no difference which are joined first.
LEMMA JoinsAnyhow ==
  ASSUME NEW S, NEW a \in Seq(S), NEW b \in Seq(S), NEW c \in Seq(S)
  PROVE  Joined(a, b) \in Seq(S) /\ Joined(Joined(a, b), c) = Joined(a, Joined(b, c))
  <1>1. (a \o b) \o c = a \o (b \o c)
    BY ConcatAssociative
  <1>2. a \o b \in Seq(S)
    BY ConcatProperties
  <1> QED BY <1>1, <1>2 DEF Joined

\* What comes first of three comes first of all.
LEMMA TakesFirst ==
  ASSUME NEW S, NEW n \in Seq(S), NEW t \in Seq(S), NEW w \in Seq(S), NEW c \in Seq(S)
  PROVE  /\ Joined(Joined(Joined(n, t), w), c) = Joined(n, Joined(Joined(t, w), c))
         /\ Joined(Joined(t, w), c) \in Seq(S)
  <1>1. Joined(t, w) \in Seq(S)
    BY JoinsAnyhow
  <1>2. Joined(Joined(n, t), w) = Joined(n, Joined(t, w))
    BY JoinsAnyhow
  <1>3. /\ Joined(Joined(n, Joined(t, w)), c) = Joined(n, Joined(Joined(t, w), c))
        /\ Joined(Joined(t, w), c) \in Seq(S)
    BY <1>1, JoinsAnyhow
  <1> QED BY <1>2, <1>3

\* What comes first and is no page makes no difference.
LEMMA SkipsFirst ==
  ASSUME NEW S, NEW n \in Seq(S), NEW b \in Seq(S), Void(n)
  PROVE  Same(n \o b, b)
  <1>1. <<>> \in Seq(S) /\ <<>> \o n = n /\ <<>> \o b = b
    BY EmptySeq, ConcatEmptySeq
  <1>2. \A a \in Seq(S) : Same((a \o n) \o b, a \o b)
    BY Skips
  <1>3. Same((<<>> \o n) \o b, <<>> \o b)
    BY <1>1, <1>2, Zenon
  <1> QED BY <1>1, <1>3

\* A request is sent, or it is not; its place in the chain is free.
LEMMA SendRequestMirror ==
  ASSUME PhoneDataInv, NEW g \in Links, SendRequest(g)
  PROVE  PhoneDataInv'
  <1> DEFINE s == Head(work[g])
             job == [req |-> s.req, rows |-> <<>>, page |-> 1]
  <1>1. /\ scene' = scene /\ faults' = faults /\ link' = link /\ gateway' = gateway
        /\ book' = book /\ offers' = offers /\ wire' = wire /\ store' = store
        /\ writing' = writing /\ mirror' = mirror /\ missed' = missed
        /\ work[g] # <<>> /\ s.what = "send" /\ writing[g] = NoWrite
        /\ work' = [work EXCEPT ![g] = Tail(@)]
        /\ jobs' = IF link = g /\ gateway.at = "running" THEN Append(jobs, job) ELSE jobs
    BY DEF SendRequest, Runs, linkVars
  <1>2. /\ work \in [Links -> Seq(Items)] /\ work[g] \in Seq(Items)
        /\ Tail(work[g]) \in Seq(Items) /\ s \in Items /\ s = work[g][1] /\ 1 \in DOMAIN work[g]
        /\ \A i \in DOMAIN Tail(work[g]) : Tail(work[g])[i] = work[g][i + 1] /\ i + 1 \in DOMAIN work[g]
    BY <1>1, WaysAre, Tails DEF PhoneDataInv, ChainInv
  <1>3. /\ work' \in [Links -> Seq(Items)] /\ work'[g] = Tail(work[g])
        /\ \A h \in Links \ {g} : work'[h] = work[h]
    BY <1>1, <1>2
  <1>4. s.req \in Requests /\ s.req.of = g /\ ~IsPage(s)
    <2>1. Worked(g, s)
      BY <1>2 DEF PhoneDataInv, ChainInv
    <2> QED BY <1>1, <1>2, <2>1 DEF Worked, Items, Frames, Sends, News, IsPage
  <1>5. job \in Jobs /\ job.rows = <<>> /\ job.page = 1 /\ job.req = s.req
    <2>1. <<>> \in Seq(Cells) /\ 1 \in 1..PageCount
      BY EmptySeq, Bounds
    <2> QED BY <1>4, <2>1 DEF Jobs
  <1> HIDE DEF s, job
  <1>6. jobs \in Seq(Jobs)
    BY WaysAre
  <1>7. /\ jobs' \in Seq(Jobs) /\ \A i \in DOMAIN jobs : jobs'[i] = jobs[i] /\ i \in DOMAIN jobs'
        /\ \A i \in DOMAIN jobs' : i \in DOMAIN jobs \/
             (jobs'[i] = job /\ link = g /\ gateway.at = "running")
    BY <1>1, <1>5, <1>6, Appends
  <1>8. LinkInv'
    BY <1>1 DEF PhoneDataInv, LinkInv
  <1>9. PhoneInv'
    <2>1. \A i \in DOMAIN jobs :
            /\ jobs[i].rows = <<>> => jobs[i].page = 1
            /\ jobs[i].rows # <<>> => i = 1 /\ Whole(jobs[i].rows) /\ jobs[i].page <= Len(jobs[i].rows)
            /\ jobs[i].req.of <= gateway.of
            /\ gateway.at \in {"device", "connecting"} => jobs[i].req.of # gateway.of
      BY DEF PhoneDataInv, PhoneInv
    <2>2. link = g => g <= gateway.of
      BY GatewayIs, Bounds DEF Links
    <2>3. \A rows : Whole(rows) => Whole(rows)'
      BY <1>1, SameSight
    <2>4. (\A i \in DOMAIN jobs :
            /\ jobs[i].rows = <<>> => jobs[i].page = 1
            /\ jobs[i].rows # <<>> => i = 1 /\ Whole(jobs[i].rows) /\ jobs[i].page <= Len(jobs[i].rows)
            /\ jobs[i].req.of <= gateway.of
            /\ gateway.at \in {"device", "connecting"} => jobs[i].req.of # gateway.of)'
      BY <1>1, <1>4, <1>5, <1>7, <2>1, <2>2, <2>3
    <2> QED BY <1>1, <1>7, <2>4 DEF PhoneDataInv, PhoneInv
  <1>10. ChainInv'
    <2>1. /\ \A x : Wired(x) => Wired(x)'
          /\ \A h \in Links : \A x : Worked(h, x) => Worked(h, x)'
          /\ \A rows : Whole(rows) => Whole(rows)'
          /\ \A v : NoNewer(v) => NoNewer(v)'
      BY <1>1, SameSight
    <2>2. (\A i \in DOMAIN wire : Wired(wire[i]))'
      BY <1>1, <2>1 DEF PhoneDataInv, ChainInv
    <2>3. \A h \in Links : \A i \in DOMAIN work[h] : Worked(h, work[h][i])
      BY DEF PhoneDataInv, ChainInv
    <2>4. (\A h \in Links : \A i \in DOMAIN work[h] : Worked(h, work[h][i]))'
      <3> SUFFICES ASSUME NEW h \in Links, NEW i \in DOMAIN work'[h]
                   PROVE  \A x : x = work'[h][i] => Worked(h, x)'
        OBVIOUS
      <3>1. PICK m \in DOMAIN work[h] : work'[h][i] = work[h][m]
        BY <1>2, <1>3
      <3> QED BY <2>1, <2>3, <3>1
    <2>5. \A h \in Links : h > gateway'.of => work'[h] = <<>>
      <3>1. \A h \in Links : h > gateway.of => work[h] = <<>>
        BY DEF PhoneDataInv, ChainInv
      <3> QED BY <1>1, <1>3, <3>1
    <2>6. \A h \in Links : writing[h] # NoWrite => h # g /\ work'[h] = work[h]
      BY <1>1, <1>3
    <2> QED BY <1>1, <1>3, <2>1, <2>2, <2>4, <2>5, <2>6 DEF PhoneDataInv, ChainInv
  <1>11. FlowInv'
    <2> SUFFICES ASSUME link # 0
                 PROVE  FlowInv'
      BY <1>1 DEF FlowInv
    <2>1. /\ link \in Links /\ Queue(link) \in Seq(Items) /\ wire \in Seq(Items) /\ Coming \in Seq(Items)
      BY WaysAre
    <2>2. Coming' = Coming
      <3>1. CASE jobs' = jobs
        BY <1>1, <3>1 DEF Coming
      <3>2. CASE jobs' = Append(jobs, job) /\ jobs = <<>>
        <4>1. Head(jobs') = job
          BY <3>2
        <4> QED BY <1>1, <1>5, <3>2, <4>1 DEF Coming
      <3>3. CASE jobs' = Append(jobs, job) /\ jobs # <<>>
        <4>1. Head(jobs) = jobs[1] /\ 1 \in DOMAIN jobs
          BY <1>6, <3>3, Tails
        <4>2. jobs' # <<>> /\ Head(jobs') = jobs'[1]
          <5>1. 1 \in DOMAIN jobs'
            BY <1>7, <4>1
          <5>2. jobs' # <<>>
            BY <5>1
          <5> QED BY <1>7, <5>2, Tails
        <4>3. Head(jobs') = Head(jobs)
          BY <1>7, <4>1, <4>2
        <4> QED BY <1>1, <3>3, <4>2, <4>3 DEF Coming
      <3> QED BY <1>1, <3>1, <3>2, <3>3
    <2>3. Same(Flow', Flow)
      <3>1. CASE g # link
        <4>1. Queue(link)' = Queue(link)
          BY <1>1, <1>3, <2>1, <3>1 DEF Queue
        <4>2. Flow' = Flow
          BY <1>1, <2>2, <4>1 DEF Flow
        <4> QED BY <4>2 DEF Same
      <3>2. CASE g = link
        <4>1. Queue(link) = work[g] /\ Queue(link)' = Tail(work[g])
          BY <1>1, <1>3, <3>2 DEF Queue
        <4>2. work[g] = <<s>> \o Tail(work[g]) /\ <<s>> \in Seq(Items)
          BY <1>1, <1>2, HeadFirst DEF s
        <4>3. Void(<<s>>)
          BY <1>4, Alone
        <4>4. Flow = ((<<s>> \o Tail(work[g])) \o wire) \o Coming
          BY <4>1, <4>2 DEF Flow
        <4>5. Flow' = (Tail(work[g]) \o wire) \o Coming
          BY <1>1, <2>2, <4>1 DEF Flow
        <4>6. Flow = <<s>> \o Flow' /\ Flow' \in Seq(Items)
          <5>1. PICK n, t, w, c : n = <<s>> /\ t = Tail(work[g]) /\ w = wire /\ c = Coming
            OBVIOUS
          <5>2. n \in Seq(Items) /\ t \in Seq(Items) /\ w \in Seq(Items) /\ c \in Seq(Items)
            BY <1>2, <2>1, <4>2, <5>1
          <5>3. /\ Joined(Joined(Joined(n, t), w), c) = Joined(n, Joined(Joined(t, w), c))
                /\ Joined(Joined(t, w), c) \in Seq(Items)
            BY <5>2, TakesFirst
          <5>4. ((n \o t) \o w) \o c = n \o ((t \o w) \o c) /\ (t \o w) \o c \in Seq(Items)
            BY <5>3 DEF Joined
          <5> QED BY <4>2, <4>4, <4>5, <5>1, <5>4
        <4>7. Same(Flow, Flow')
          BY <4>2, <4>3, <4>6, SkipsFirst
        <4> QED BY <4>7 DEF Same
      <3> QED BY <3>1, <3>2
    <2> QED BY <1>1, <2>3, FlowStays DEF PhoneDataInv
  <1>12. HeardInv'
    <2>1. InUse' \subseteq InUse
      <3>1. \A i \in DOMAIN jobs' : \A r : jobs'[i].req = r /\ r.of = link =>
              \/ \E m \in DOMAIN jobs : jobs[m].req = r
              \/ link = g /\ work[link][1].req = r /\ 1 \in DOMAIN work[link]
        BY <1>2, <1>5, <1>7 DEF s
      <3>2. link # 0 => \A i \in DOMAIN work'[link] :
              \E m \in DOMAIN work[link] : work[link][m].req = work'[link][i].req
        <4>1. link # 0 => link \in Links
          BY WaysAre
        <4> SUFFICES ASSUME link # 0, NEW i \in DOMAIN work'[link]
                     PROVE  \E m \in DOMAIN work[link] : work[link][m].req = work'[link][i].req
          OBVIOUS
        <4>2. CASE link = g
          BY <1>2, <1>3, <4>2
        <4>3. CASE link # g
          BY <1>3, <4>1, <4>3
        <4> QED BY <4>2, <4>3
      <3>3. link = g => link # 0
        BY Bounds DEF Links
      <3> QED BY <1>1, <3>1, <3>2, <3>3 DEF InUse
    <2> QED BY <1>1, <2>1 DEF PhoneDataInv, HeardInv
  <1>13. StoreInv'
    <2>1. link # 0 /\ writing[link] # NoWrite => work'[link] = work[link]
      <3>1. link # 0 => link \in Links
        BY WaysAre
      <3> QED BY <1>1, <1>3, <3>1
    <2> QED BY <1>1, <2>1 DEF PhoneDataInv, StoreInv
  <1>14. MirrorInv'
    BY <1>1 DEF PhoneDataInv, MirrorInv, MirrorWhole
  <1> QED BY <1>8, <1>9, <1>10, <1>11, <1>12, <1>13, <1>14 DEF PhoneDataInv

\* The phone reads its rows: pages of a new snapshot come after all that are on their way.
LEMMA ReadRowsMirror ==
  ASSUME PhoneDataInv, ReadRows
  PROVE  PhoneDataInv'
  <1> DEFINE old == Head(jobs)
  <1>1. /\ scene' = scene /\ link' = link /\ gateway' = gateway
        /\ book' = book /\ offers' = offers /\ wire' = wire /\ store' = store /\ work' = work
        /\ writing' = writing /\ mirror' = mirror /\ missed' = missed
        /\ jobs # <<>> /\ old.rows = <<>>
    BY DEF ReadRows, linkVars
  <1>2. faults' \in 0..MaxFaults
    <2>1. faults' = faults \/ (faults < MaxFaults /\ faults' = faults + 1)
      BY DEF ReadRows, Fault
    <2> QED BY <2>1, Bounds DEF PhoneDataInv, LinkInv
  <1>3. PICK rows : /\ rows \in {Pages(book), NoRows(book)}
                    /\ jobs' = <<[old EXCEPT !.rows = rows]>> \o Tail(jobs)
    BY DEF ReadRows
  <1>4. book \in 1..MaxEdits + 1 /\ book \in Nat /\ book \in 1..book /\ jobs \in Seq(Jobs)
    BY Bounds, WaysAre DEF PhoneDataInv, PhoneInv
  <1>5. Whole(rows)
    BY <1>3, <1>4 DEF Whole
  <1>6. rows \in Seq(Cells) /\ rows # <<>> /\ Len(rows) \in 1..PageCount /\ rows[1].book = book
    <2>1. rows \in Seq(Cells) /\ rows # <<>> /\ Len(rows) \in 1..PageCount
      BY <1>4, <1>5, SnapshotIs
    <2>2. Pages(book)[1].book = book
      <3>1. 1 \in 1..PageCount
        BY Bounds
      <3> QED BY <3>1 DEF Pages
    <2>3. NoRows(book)[1].book = book
      BY DEF NoRows
    <2> QED BY <1>3, <2>1, <2>2, <2>3
  <1> DEFINE job == [old EXCEPT !.rows = rows]
  <1>7. old \in Jobs /\ old = jobs[1] /\ 1 \in DOMAIN jobs
    BY <1>1, <1>4, Tails
  <1>8. old.page = 1 /\ old.req.of <= gateway.of
        /\ (gateway.at \in {"device", "connecting"} => old.req.of # gateway.of)
    BY <1>1, <1>7 DEF PhoneDataInv, PhoneInv
  <1>9. job \in Jobs /\ job.rows = rows /\ job.page = 1 /\ job.req = old.req
    <2>1. job = [req |-> old.req, rows |-> rows, page |-> old.page]
      BY <1>7 DEF Jobs
    <2> QED BY <1>6, <1>7, <1>8, <2>1 DEF Jobs
  <1> HIDE DEF old, job
  <1>10. jobs' = <<job>> \o Tail(jobs)
    BY <1>3 DEF job
  <1>11. /\ jobs' \in Seq(Jobs) /\ jobs' # <<>> /\ Head(jobs') = job /\ DOMAIN jobs' = DOMAIN jobs
         /\ \A i \in DOMAIN jobs : jobs'[i] = IF i = 1 THEN job ELSE jobs[i]
    BY <1>1, <1>4, <1>9, <1>10, HeadReplaced
  <1>12. LinkInv'
    BY <1>1, <1>2 DEF PhoneDataInv, LinkInv
  <1>13. PhoneInv'
    <2>1. \A r : Whole(r) => Whole(r)'
      BY <1>1, SameSight
    <2>2. \A i \in DOMAIN jobs :
            /\ jobs[i].rows = <<>> => jobs[i].page = 1
            /\ jobs[i].rows # <<>> => i = 1 /\ Whole(jobs[i].rows) /\ jobs[i].page <= Len(jobs[i].rows)
            /\ jobs[i].req.of <= gateway.of
            /\ gateway.at \in {"device", "connecting"} => jobs[i].req.of # gateway.of
      BY DEF PhoneDataInv, PhoneInv
    <2>3. job.page <= Len(job.rows) /\ Whole(job.rows) /\ job.rows # <<>>
          /\ job.req.of <= gateway.of
          /\ (gateway.at \in {"device", "connecting"} => job.req.of # gateway.of)
      BY <1>5, <1>6, <1>8, <1>9, Bounds
    <2>4. (\A i \in DOMAIN jobs :
            /\ jobs[i].rows = <<>> => jobs[i].page = 1
            /\ jobs[i].rows # <<>> => i = 1 /\ Whole(jobs[i].rows) /\ jobs[i].page <= Len(jobs[i].rows)
            /\ jobs[i].req.of <= gateway.of
            /\ gateway.at \in {"device", "connecting"} => jobs[i].req.of # gateway.of)'
      <3> SUFFICES ASSUME NEW i \in DOMAIN jobs
                   PROVE  \A j : j = jobs'[i] =>
                            /\ j.rows = <<>> => j.page = 1
                            /\ j.rows # <<>> => i = 1 /\ Whole(j.rows)' /\ j.page <= Len(j.rows)
                            /\ j.req.of <= gateway.of
                            /\ gateway.at \in {"device", "connecting"} => j.req.of # gateway.of
        BY <1>1, <1>11
      <3>1. CASE i = 1
        BY <1>11, <2>1, <2>3, <3>1
      <3>2. CASE i # 1
        BY <1>11, <2>1, <2>2, <3>2
      <3> QED BY <3>1, <3>2
    <2> QED BY <1>1, <1>11, <2>4 DEF PhoneDataInv, PhoneInv
  <1>14. ChainInv'
    <2>1. /\ \A x : Wired(x) => Wired(x)'
          /\ \A h \in Links : \A x : Worked(h, x) => Worked(h, x)'
          /\ \A r : Whole(r) => Whole(r)'
          /\ \A v : NoNewer(v) => NoNewer(v)'
      BY <1>1, SameSight
    <2> QED BY <1>1, <2>1 DEF PhoneDataInv, ChainInv
  <1>15. FlowInv'
    <2> SUFFICES ASSUME link # 0
                 PROVE  FlowInv'
      BY <1>1 DEF FlowInv
    <2>1. /\ link \in Links /\ Queue(link) \o wire \in Seq(Items) /\ Queue(link)' = Queue(link)
      BY <1>1, WaysAre DEF Queue
    <2>2. Coming = <<>>
      BY <1>1 DEF Coming, old
    <2> DEFINE way == Queue(link) \o wire
    <2>3. Flow = way
      BY <2>1, <2>2, ConcatEmptySeq DEF Flow
    <2>4. CASE job.req.of # link
      <3>1. Coming' = <<>>
        BY <1>1, <1>11, <2>4 DEF Coming
      <3>2. Flow' = way \o <<>>
        BY <1>1, <2>1, <3>1 DEF Flow
      <3>3. Flow' = Flow
        BY <2>1, <2>3, <3>2, ConcatEmptySeq
      <3>4. Same(Flow', Flow)
        BY <3>3 DEF Same
      <3> QED BY <1>1, <3>4, FlowStays DEF PhoneDataInv
    <2>5. CASE job.req.of = link
      <3>1. Coming' = Rest(job)
        BY <1>1, <1>6, <1>9, <1>11, <2>5 DEF Coming
      <3>2. Flow' = way \o Rest(job)
        BY <1>1, <2>1, <3>1 DEF Flow
      <3> HIDE DEF way
      <3>3. way \in Seq(Items)
        BY <2>1 DEF way
      <3>4. job.page <= Len(job.rows) /\ Whole(job.rows)
        BY <1>5, <1>6, <1>9, Bounds
      <3>5. /\ Rest(job) \in Seq(Items) /\ ~Void(Rest(job)) /\ Chained(Rest(job))
            /\ \A f : Leads(Rest(job), f) <=> f = PageFrame(job)
            /\ \A f : Trails(Rest(job), f) => f.final
        BY <1>4, <1>9, <3>4, RestIs
      <3>6. PageFrame(job).page = 1 /\ PageFrame(job).rows.book = book
        <4>1. PageFrame(job).page = job.page /\ PageFrame(job).rows = job.rows[job.page]
          BY DEF PageFrame
        <4> QED BY <1>6, <1>9, <4>1
      <3>7. Chained(way) /\ Complete(way) /\ (Void(way) => \A p \in store.pending : p.rows = <<>>)
            /\ \A f : Leads(way, f) => Awaited(f)
        BY <2>3 DEF PhoneDataInv, FlowInv
      <3>8. \A f : Trails(way, f) => f.final /\ f.rows.book <= book
        <4>1. \A f : Trails(way, f) => f.final
          BY <3>7 DEF Complete
        <4>2. \A f : Trails(way, f) => WellMade(f)
          BY <2>3, FlowUses
        <4> QED BY <4>1, <4>2 DEF WellMade
      <3>9. \A f, h : Trails(way, f) /\ Leads(Rest(job), h) => Follows(f, h)
        BY <3>5, <3>6, <3>8 DEF Follows
      <3>10. Chained(Flow')
        <4>1. Chained(way \o Rest(job))
          BY <3>3, <3>5, <3>7, <3>9, JoinChained
        <4> QED BY <3>2, <4>1
      <3>11. Complete(Flow')
        <4>1. \A f : Trails(way \o Rest(job), f) => Trails(Rest(job), f)
          BY <3>3, <3>5, JoinTrails
        <4> QED BY <3>2, <3>5, <4>1 DEF Complete
      <3>12. ~Void(Flow')
        <4>1. ~Void(way \o Rest(job))
          BY <3>3, <3>5, JoinVoid
        <4> QED BY <3>2, <4>1
      <3>13. \A f : Leads(Flow', f) => Leads(way, f) \/ (Void(way) /\ f = PageFrame(job))
        <4>1. \A f : Leads(way \o Rest(job), f) => Leads(way, f) \/ (Void(way) /\ Leads(Rest(job), f))
          BY <3>3, <3>5, JoinLeads
        <4> QED BY <3>2, <3>5, <4>1
      <3>14. \A f : Awaited(f) => Awaited(f)'
        BY <1>1 DEF Awaited, NoNewer
      <3>15. \A f : Void(way) /\ f = PageFrame(job) => Awaited(f)'
        <4> SUFFICES ASSUME NEW f, Void(way), f = PageFrame(job)
                     PROVE  Awaited(f)
          BY <3>14
        <4>1. \A p \in store.pending : p.rows = <<>>
          BY <3>7
        <4>2. f.page = 1 /\ f.rows.book = book
          BY <3>6
        <4>3. Before(f) = <<>>
          BY <4>2 DEF Before
        <4>4. \A r : Whole(r) => r[1].book <= book
          BY <1>4, SnapshotIs
        <4>5. NoNewer(book)
          <5>1. \A k \in Kinds : mirror[k].of # 0 => Whole(mirror[k].pages)
            BY DEF PhoneDataInv, MirrorInv, MirrorWhole, Whole
          <5> QED BY <4>4, <5>1 DEF NoNewer
        <4>6. writing[link] # NoWrite => writing[link][1].book <= book
          BY <2>1, <4>4 DEF PhoneDataInv, ChainInv
        <4> QED BY <4>1, <4>2, <4>3, <4>5, <4>6 DEF Awaited
      <3>16. \A f : Leads(Flow', f) => Awaited(f)'
        BY <3>7, <3>13, <3>14, <3>15
      <3> QED BY <3>10, <3>11, <3>12, <3>16 DEF FlowInv
    <2> QED BY <2>4, <2>5
  <1>16. HeardInv'
    <2>1. \A i \in DOMAIN jobs : jobs'[i].req = jobs[i].req
      BY <1>7, <1>9, <1>11
    <2>2. InUse' = InUse
      BY <1>1, <1>11, <2>1 DEF InUse
    <2> QED BY <1>1, <2>2 DEF PhoneDataInv, HeardInv
  <1>17. StoreInv'
    BY <1>1 DEF PhoneDataInv, StoreInv
  <1>18. MirrorInv'
    BY <1>1 DEF PhoneDataInv, MirrorInv, MirrorWhole
  <1> QED BY <1>12, <1>13, <1>14, <1>15, <1>16, <1>17, <1>18 DEF PhoneDataInv

\* Of the jobs that are left none has read its rows.
LEMMA NextJob ==
  ASSUME PhoneDataInv, jobs # <<>>
  PROVE  /\ Tail(jobs) \in Seq(Jobs)
         /\ \A i \in DOMAIN Tail(jobs) : /\ Tail(jobs)[i] = jobs[i + 1] /\ i + 1 \in DOMAIN jobs
                                         /\ Tail(jobs)[i].rows = <<>>
         /\ Tail(jobs) # <<>> => Head(Tail(jobs)).rows = <<>>
  <1>1. /\ jobs \in Seq(Jobs) /\ Tail(jobs) \in Seq(Jobs)
        /\ \A i \in DOMAIN Tail(jobs) : Tail(jobs)[i] = jobs[i + 1] /\ i + 1 \in DOMAIN jobs /\ i + 1 # 1
    BY WaysAre, Tails
  <1>2. \A i \in DOMAIN Tail(jobs) : Tail(jobs)[i].rows = <<>>
    BY <1>1 DEF PhoneDataInv, PhoneInv
  <1>3. Tail(jobs) # <<>> => Head(Tail(jobs)) = Tail(jobs)[1] /\ 1 \in DOMAIN Tail(jobs)
    BY <1>1, Tails
  <1> QED BY <1>1, <1>2, <1>3

\* The phone's executor goes on: the jobs it has left are as they were, but for the page.
LEMMA JobsLeft ==
  ASSUME PhoneDataInv, jobs # <<>>, link' = link, gateway' = gateway, book' = book,
         mirror' = mirror, offers' = offers, missed' = missed,
         \/ jobs' = Tail(jobs)
         \/ /\ Head(jobs).rows # <<>> /\ Head(jobs).page < Len(Head(jobs).rows)
            /\ jobs' = <<[Head(jobs) EXCEPT !.page = @ + 1]>> \o Tail(jobs)
  PROVE  /\ PhoneInv'
         /\ \A i \in DOMAIN jobs' : \E m \in DOMAIN jobs : jobs'[i].req = jobs[m].req
  <1> DEFINE old == Head(jobs)
             job == [old EXCEPT !.page = @ + 1]
  <1>1. /\ jobs \in Seq(Jobs) /\ old \in Jobs /\ old = jobs[1] /\ 1 \in DOMAIN jobs
    BY WaysAre, Tails
  <1>2. \A i \in DOMAIN jobs :
          /\ jobs[i].rows = <<>> => jobs[i].page = 1
          /\ jobs[i].rows # <<>> => i = 1 /\ Whole(jobs[i].rows) /\ jobs[i].page <= Len(jobs[i].rows)
          /\ jobs[i].req.of <= gateway.of
          /\ gateway.at \in {"device", "connecting"} => jobs[i].req.of # gateway.of
    BY DEF PhoneDataInv, PhoneInv
  <1>3. \A r : Whole(r) => Whole(r)'
    BY SameSight
  <1>4. CASE jobs' = Tail(jobs)
    <2>1. /\ jobs' \in Seq(Jobs)
          /\ \A i \in DOMAIN jobs' : \E m \in DOMAIN jobs : jobs'[i] = jobs[m]
          /\ \A i \in DOMAIN jobs' : jobs'[i].rows = <<>>
      <3>1. /\ Tail(jobs) \in Seq(Jobs)
            /\ \A i \in DOMAIN Tail(jobs) : /\ Tail(jobs)[i] = jobs[i + 1] /\ i + 1 \in DOMAIN jobs
                                            /\ Tail(jobs)[i].rows = <<>>
        BY NextJob
      <3> QED BY <1>4, <3>1
    <2>2. (\A i \in DOMAIN jobs :
            /\ jobs[i].rows = <<>> => jobs[i].page = 1
            /\ jobs[i].rows # <<>> => i = 1 /\ Whole(jobs[i].rows) /\ jobs[i].page <= Len(jobs[i].rows)
            /\ jobs[i].req.of <= gateway.of
            /\ gateway.at \in {"device", "connecting"} => jobs[i].req.of # gateway.of)'
      BY <1>2, <2>1
    <2> QED BY <2>1, <2>2 DEF PhoneDataInv, PhoneInv
  <1>5. CASE /\ old.rows # <<>> /\ old.page < Len(old.rows) /\ jobs' = <<job>> \o Tail(jobs)
    <2>1. Whole(old.rows) /\ Len(old.rows) \in 1..PageCount /\ old.page \in 1..PageCount
      <3>1. Whole(old.rows) /\ book \in 1..MaxEdits + 1
        BY <1>1, <1>2, <1>5 DEF PhoneDataInv, PhoneInv
      <3> QED BY <1>1, <3>1, SnapshotIs DEF Jobs
    <2>2. job \in Jobs /\ job.rows = old.rows /\ job.page = old.page + 1 /\ job.req = old.req
      <3> HIDE DEF old
      <3>3. old = [req |-> old.req, rows |-> old.rows, page |-> old.page]
        BY <1>1 DEF Jobs
      <3>1. job = [req |-> old.req, rows |-> old.rows, page |-> old.page + 1]
        BY <3>3
      <3>2. old.page + 1 \in 1..PageCount
        BY <1>5, <2>1, Bounds
      <3> QED BY <1>1, <3>1, <3>2 DEF Jobs
    <2> HIDE DEF job, old
    <2>3. job.page <= Len(job.rows)
      BY <1>5, <2>1, <2>2, Bounds
    <2>4. /\ jobs' \in Seq(Jobs) /\ DOMAIN jobs' = DOMAIN jobs
          /\ \A i \in DOMAIN jobs : jobs'[i] = IF i = 1 THEN job ELSE jobs[i]
      BY <1>1, <1>5, <2>2, HeadReplaced
    <2>5. (\A i \in DOMAIN jobs :
            /\ jobs[i].rows = <<>> => jobs[i].page = 1
            /\ jobs[i].rows # <<>> => i = 1 /\ Whole(jobs[i].rows) /\ jobs[i].page <= Len(jobs[i].rows)
            /\ jobs[i].req.of <= gateway.of
            /\ gateway.at \in {"device", "connecting"} => jobs[i].req.of # gateway.of)'
      <3> SUFFICES ASSUME NEW i \in DOMAIN jobs
                   PROVE  \A j : j = jobs'[i] =>
                            /\ j.rows = <<>> => j.page = 1
                            /\ j.rows # <<>> => i = 1 /\ Whole(j.rows)' /\ j.page <= Len(j.rows)
                            /\ j.req.of <= gateway.of
                            /\ gateway.at \in {"device", "connecting"} => j.req.of # gateway.of
        BY <2>4
      <3>1. CASE i = 1
        BY <1>1, <1>2, <1>3, <1>5, <2>1, <2>2, <2>3, <2>4, <3>1
      <3>2. CASE i # 1
        BY <1>2, <1>3, <2>4, <3>2
      <3> QED BY <3>1, <3>2
    <2>6. \A i \in DOMAIN jobs' : jobs'[i].req = jobs[i].req
      BY <1>1, <2>2, <2>4
    <2>7. PhoneInv'
      BY <2>4, <2>5 DEF PhoneDataInv, PhoneInv
    <2> QED BY <2>4, <2>6, <2>7
  <1> QED BY <1>4, <1>5

\* A page that is sent comes last of those on the wire: its way goes on.
LEMMA SendPageMirror ==
  ASSUME PhoneDataInv, SendPage
  PROVE  PhoneDataInv'
  <1> DEFINE job == Head(jobs)
             next == [job EXCEPT !.page = @ + 1]
             f == PageFrame(job)
  <1>1. /\ scene' = scene /\ faults' = faults /\ link' = link /\ gateway' = gateway
        /\ book' = book /\ offers' = offers /\ store' = store /\ work' = work
        /\ writing' = writing /\ mirror' = mirror /\ missed' = missed
        /\ jobs # <<>> /\ job.rows # <<>>
        /\ \/ job.req.of # link /\ jobs' = Tail(jobs) /\ wire' = wire
           \/ /\ job.req.of = link
              /\ wire' = Append(wire, f)
              /\ jobs' = IF job.page = Len(job.rows) THEN Tail(jobs) ELSE <<next>> \o Tail(jobs)
    BY DEF SendPage, linkVars
  <1>2. /\ jobs \in Seq(Jobs) /\ job \in Jobs /\ job = jobs[1] /\ 1 \in DOMAIN jobs
    BY <1>1, WaysAre, Tails
  <1>3. Whole(job.rows) /\ job.page <= Len(job.rows) /\ book \in 1..MaxEdits + 1
    BY <1>1, <1>2 DEF PhoneDataInv, PhoneInv
  <1>4. Len(job.rows) \in 1..PageCount /\ job.page \in 1..PageCount
    BY <1>2, <1>3, SnapshotIs DEF Jobs
  <1>5. f \in Frames /\ WellMade(f) /\ IsPage(f) /\ f.req = job.req
    <2>1. f.req = job.req
      BY DEF PageFrame
    <2> QED BY <1>2, <1>3, <2>1, RestIs
  <1>6. PhoneInv' /\ \A i \in DOMAIN jobs' : \E m \in DOMAIN jobs : jobs'[i].req = jobs[m].req
    <2>1. job.page # Len(job.rows) => job.page < Len(job.rows)
      BY <1>3, <1>4, Bounds
    <2> QED BY <1>1, <2>1, JobsLeft
  <1>7. /\ wire \in Seq(Items) /\ wire' \in Seq(Items) /\ Len(wire) \in Nat /\ DOMAIN wire = 1..Len(wire)
        /\ \A i \in DOMAIN wire : wire'[i] = wire[i] /\ i \in DOMAIN wire'
        /\ \A i \in DOMAIN wire' : i \in DOMAIN wire \/ (wire'[i] = f /\ job.req.of = link)
    <2>1. f \in Items /\ wire \in Seq(Items)
      BY <1>5, WaysAre DEF Items
    <2> HIDE DEF f
    <2>2. CASE wire' = wire
      BY <2>1, <2>2, LenProperties
    <2>3. CASE job.req.of = link /\ wire' = Append(wire, f)
      BY <2>1, <2>3, Appends
    <2> QED BY <1>1, <2>2, <2>3
  <1> HIDE DEF f, next
  <1>8. LinkInv'
    BY <1>1 DEF PhoneDataInv, LinkInv
  <1>9. job.req.of = link => gateway.at = "running" /\ link # 0 /\ link \in Links
    <2>1. job.req.of \in Links
      BY <1>2 DEF Jobs, Requests
    <2>2. job.req.of = link => link # 0
      BY <2>1, Bounds DEF Links
    <2>3. link # 0 => link = gateway.of /\ gateway.at \in {"device", "connecting", "running"}
      BY GatewayIs
    <2>4. gateway.at \in {"device", "connecting"} => job.req.of # gateway.of
      BY <1>2 DEF PhoneDataInv, PhoneInv
    <2> QED BY <2>1, <2>2, <2>3, <2>4
  <1>10. ChainInv'
    <2>1. /\ \A x : Wired(x) => Wired(x)'
          /\ \A h \in Links : \A x : Worked(h, x) => Worked(h, x)'
          /\ \A r : Whole(r) => Whole(r)'
          /\ \A v : NoNewer(v) => NoNewer(v)'
      BY <1>1, SameSight
    <2>2. \A x : x = f /\ job.req.of = link => Wired(x)
      BY <1>5, <1>9 DEF Wired, Frames
    <2>3. \A i \in DOMAIN wire : Wired(wire[i])
      BY DEF PhoneDataInv, ChainInv
    <2>4. (\A i \in DOMAIN wire : Wired(wire[i]))'
      BY <1>7, <2>1, <2>2, <2>3
    <2>5. link = 0 => wire' = <<>>
      BY <1>1, <1>9 DEF PhoneDataInv, ChainInv
    <2> QED BY <1>1, <1>7, <2>1, <2>4, <2>5 DEF PhoneDataInv, ChainInv
  <1>11. FlowInv'
    <2> SUFFICES ASSUME link # 0
                 PROVE  FlowInv'
      BY <1>1 DEF FlowInv
    <2>1. /\ link \in Links /\ Queue(link) \in Seq(Items) /\ Coming \in Seq(Items)
          /\ Queue(link)' = Queue(link)
      BY <1>1, WaysAre DEF Queue
    <2>2. jobs' = Tail(jobs) => Coming' = <<>>
      BY <1>1, NextJob DEF Coming
    <2>3. Flow' = Flow
      <3>1. CASE job.req.of # link
        <4>1. Coming = <<>> /\ Coming' = <<>>
          BY <1>1, <2>2, <3>1 DEF Coming
        <4> QED BY <1>1, <2>1, <3>1, <4>1 DEF Flow
      <3>2. CASE job.req.of = link
        <4>1. Coming = Rest(job)
          BY <1>1, <3>2 DEF Coming
        <4>2. Coming' = IF job.page = Len(job.rows) THEN <<>> ELSE Rest(next)
          <5>1. CASE job.page = Len(job.rows)
            BY <1>1, <2>2, <3>2, <5>1
          <5>2. CASE job.page # Len(job.rows)
            <6>1. jobs' = <<next>> \o Tail(jobs)
              BY <1>1, <3>2, <5>2
            <6>2. next = [req |-> job.req, rows |-> job.rows, page |-> job.page + 1]
              BY <1>2 DEF Jobs, next
            <6>3. next \in Jobs /\ next.req = job.req /\ next.rows = job.rows
              <7>1. job.page + 1 \in 1..PageCount
                BY <1>3, <1>4, <5>2, Bounds
              <7> QED BY <1>2, <6>2, <7>1 DEF Jobs
            <6>4. jobs' # <<>> /\ Head(jobs') = next
              BY <1>1, <1>2, <6>1, <6>3, HeadReplaced
            <6> QED BY <1>1, <3>2, <5>2, <6>3, <6>4 DEF Coming
          <5> QED BY <5>1, <5>2
        <4>3. Coming = <<f>> \o Coming'
          BY <1>2, <1>3, <4>1, <4>2, RestLess DEF f, next
        <4>4. f \in Items
          BY <1>5 DEF Items
        <4>5. wire' = wire \o <<f>>
          BY <1>1, <1>7, <3>2, <4>4, AppendJoins
        <4>6. PICK q, w, x, d : q = Queue(link) /\ w = wire /\ x = <<f>> /\ d = Coming'
          OBVIOUS
        <4>7. Coming' \in Seq(Items)
          <5>1. CASE job.page = Len(job.rows)
            BY <4>2, <5>1, EmptySeq
          <5>2. CASE job.page # Len(job.rows)
            <6>1. next = [req |-> job.req, rows |-> job.rows, page |-> job.page + 1]
              BY <1>2 DEF Jobs, next
            <6>2. next \in Jobs /\ next.rows = job.rows /\ next.page <= Len(next.rows)
              <7>1. job.page + 1 \in 1..PageCount /\ job.page + 1 <= Len(job.rows)
                BY <1>3, <1>4, <5>2, Bounds
              <7> QED BY <1>2, <6>1, <7>1 DEF Jobs
            <6>3. Rest(next) \in Seq(Items)
              BY <1>3, <6>2, RestIs
            <6> QED BY <4>2, <5>2, <6>3
          <5> QED BY <5>1, <5>2
        <4>8. q \in Seq(Items) /\ w \in Seq(Items) /\ x \in Seq(Items) /\ d \in Seq(Items)
          BY <1>7, <2>1, <4>4, <4>6, <4>7
        <4>9. Joined(Joined(q, Joined(w, x)), d) = Joined(Joined(q, w), Joined(x, d))
          BY <4>8, JoinsAnyhow
        <4>10. (q \o (w \o x)) \o d = (q \o w) \o (x \o d)
          BY <4>9 DEF Joined
        <4>11. Flow = (q \o w) \o (x \o d)
          BY <4>3, <4>6 DEF Flow
        <4>12. Flow' = (q \o (w \o x)) \o d
          BY <1>1, <2>1, <4>5, <4>6 DEF Flow
        <4> QED BY <4>10, <4>11, <4>12
      <3> QED BY <3>1, <3>2
    <2>4. Same(Flow', Flow)
      BY <2>3 DEF Same
    <2> QED BY <1>1, <2>4, FlowStays DEF PhoneDataInv
  <1>12. HeardInv'
    <2>1. InUse' \subseteq InUse
      <3>1. \A i \in DOMAIN wire' : IsPage(wire'[i]) =>
              \/ \E m \in DOMAIN wire : IsPage(wire[m]) /\ wire[m].req = wire'[i].req
              \/ wire'[i].req = jobs[1].req /\ jobs[1].req.of = link
        BY <1>2, <1>5, <1>7
      <3> QED BY <1>1, <1>2, <1>6, <3>1, ZenonT(60) DEF InUse
    <2>2. \A i \in DOMAIN wire' : ~IsPage(wire'[i]) => i \in DOMAIN wire /\ wire'[i] = wire[i]
      BY <1>5, <1>7
    <2>3. \A i, j \in DOMAIN wire' : ~IsPage(wire'[i]) /\ wire'[i] = wire'[j] => i = j
      BY <2>2 DEF PhoneDataInv, HeardInv
    <2>4. \A i \in DOMAIN wire' : ~IsPage(wire'[i]) => \A r \in InUse' : r.nth # wire'[i].nth
      BY <2>1, <2>2 DEF PhoneDataInv, HeardInv
    <2>5. gateway.at \in {"device", "connecting"} =>
            (\A r \in InUse' : r.nth # 2) /\ \A i \in DOMAIN wire' : wire'[i] = Announced(1)
      BY <1>7, <1>9, <2>1 DEF PhoneDataInv, HeardInv
    <2> QED BY <1>1, <2>3, <2>4, <2>5 DEF HeardInv
  <1>13. StoreInv'
    BY <1>1 DEF PhoneDataInv, StoreInv
  <1>14. MirrorInv'
    BY <1>1 DEF PhoneDataInv, MirrorInv, MirrorWhole
  <1> QED BY <1>6, <1>8, <1>10, <1>11, <1>12, <1>13, <1>14 DEF PhoneDataInv

-----------------------------------------------------------------------------
(* A page is taken, and a snapshot written *)

\* What a page adds to the rows before it.
LEMMA Gathers ==
  ASSUME book \in 1..MaxEdits + 1, NEW f \in Frames, WellMade(f), NEW rows,
         rows = Append(Before(f), f.rows)
  PROVE  /\ Len(Before(f)) = f.page - 1
         /\ rows \in Seq(Cells) /\ rows # <<>> /\ Len(rows) = f.page /\ rows[1].book = f.rows.book
         /\ f.final => Whole(rows)
         /\ ~f.final => /\ f.page < PageCount
                        /\ \A h : h.page = f.page + 1 /\ h.rows.book = f.rows.book => rows = Before(h)
  <1> DEFINE b == f.rows.book
             n == f.page
             before == Before(f)
  <1>1. n \in 1..PageCount /\ n \in Nat /\ f.rows \in Cells /\ b \in 1..MaxEdits + 1 /\ b <= book
        /\ b \in Nat /\ f.rows = [book |-> b, page |-> f.rows.page] /\ f.final \in BOOLEAN
        /\ f.rows.page \in 0..PageCount
    BY Bounds DEF Frames, WellMade, Cells
  <1>2. before = [i \in 1..(n - 1) |-> [book |-> b, page |-> i]]
    BY DEF Before
  <1> HIDE DEF n, b, before
  <1>3. n - 1 \in Nat /\ \A i \in 1..(n - 1) : [book |-> b, page |-> i] \in Cells /\ i \in 1..PageCount
    BY <1>1, Bounds DEF Cells
  <1>4. before \in Seq(Cells) /\ Len(before) = n - 1 /\ DOMAIN before = 1..(n - 1)
        /\ \A i \in 1..(n - 1) : before[i] = [book |-> b, page |-> i]
    <2>1. before \in [1..(n - 1) -> Cells]
      BY <1>2, <1>3
    <2>2. before \in Seq(Cells)
      BY <1>3, <2>1
    <2> QED BY <1>2, <1>3, <2>2, LenProperties
  <1>5. /\ rows \in Seq(Cells) /\ Len(rows) = n /\ DOMAIN rows = 1..n
        /\ \A i \in 1..(n - 1) : rows[i] = [book |-> b, page |-> i]
        /\ rows[n] = f.rows
    <2>1. rows = Append(before, f.rows)
      BY DEF before
    <2>2. /\ rows \in Seq(Cells) /\ Len(rows) = Len(before) + 1
          /\ DOMAIN rows = 1..(Len(before) + 1)
          /\ \A i \in DOMAIN before : rows[i] = before[i]
          /\ rows[Len(before) + 1] = f.rows
      BY <1>1, <1>4, <2>1, Appends
    <2>3. (n - 1) + 1 = n
      BY <1>1
    <2> QED BY <1>4, <2>2, <2>3
  <1>6. rows # <<>> /\ rows[1].book = b
    <2>1. rows # <<>>
      BY <1>1, <1>5
    <2>2. CASE n = 1
      BY <1>5, <2>2 DEF b
    <2>3. CASE n # 1
      <3>1. 1 \in 1..(n - 1)
        BY <1>1, <2>3
      <3>2. rows[1] = [book |-> b, page |-> 1]
        BY <1>5, <3>1
      <3> QED BY <3>2
    <2> QED BY <2>1, <2>2, <2>3
  <1>7. f.rows.page = 0 => n = 1 /\ f.final
    BY DEF WellMade, n
  <1>8. f.rows.page # 0 => f.rows.page = n /\ f.final = (n = PageCount)
    BY DEF WellMade, n
  <1>9. f.rows.page # 0 => \A i \in 1..n : rows[i] = [book |-> b, page |-> i]
    <2> SUFFICES ASSUME f.rows.page # 0, NEW i \in 1..n
                 PROVE  rows[i] = [book |-> b, page |-> i]
      OBVIOUS
    <2>1. CASE i = n
      BY <1>1, <1>5, <1>8, <2>1
    <2>2. CASE i # n
      <3>1. i \in 1..(n - 1)
        BY <1>1, <2>2
      <3> QED BY <1>5, <3>1
    <2> QED BY <2>1, <2>2
  <1>10. \A m \in Nat : f.rows.page # 0 /\ m = n => rows = [i \in 1..m |-> [book |-> b, page |-> i]]
    <2> SUFFICES ASSUME f.rows.page # 0
                 PROVE  rows = [i \in 1..n |-> [book |-> b, page |-> i]]
      OBVIOUS
    <2>1. rows = [i \in 1..n |-> rows[i]]
      BY <1>5, LenProperties
    <2> QED BY <1>9, <2>1
  <1>11. f.final => Whole(rows)
    <2>1. b \in 1..book
      BY <1>1
    <2>2. CASE f.rows.page = 0
      <3>1. rows = <<f.rows>>
        <4>1. n = 1
          BY <1>7, <2>2
        <4>2. rows[1] = f.rows /\ DOMAIN rows = 1..1 /\ Len(rows) = 1
          BY <1>5, <4>1
        <4>3. rows = [i \in 1..1 |-> f.rows]
          <5>1. rows = [i \in 1..1 |-> rows[i]]
            BY <1>5, <4>2, LenProperties
          <5> QED BY <4>2, <5>1
        <4> QED BY <4>3
      <3>2. f.rows = [book |-> b, page |-> 0]
        BY <1>1, <2>2
      <3>3. rows = NoRows(b)
        BY <3>1, <3>2 DEF NoRows
      <3> QED BY <2>1, <3>3 DEF Whole
    <2>3. CASE f.rows.page # 0
      <3>1. f.final => n = PageCount
        BY <1>8, <2>3
      <3>2. f.final => rows = Pages(b)
        BY <1>10, <2>3, <3>1, Bounds DEF Pages
      <3> QED BY <2>1, <3>2 DEF Whole
    <2> QED BY <2>2, <2>3
  <1>12. ~f.final => n < PageCount /\ rows = [i \in 1..n |-> [book |-> b, page |-> i]]
    <2>1. ~f.final => f.rows.page # 0 /\ n # PageCount
      BY <1>7, <1>8
    <2>2. ~f.final => n < PageCount
      BY <1>1, <2>1, Bounds
    <2>3. ~f.final => rows = [i \in 1..n |-> [book |-> b, page |-> i]]
      BY <1>1, <1>10, <2>1
    <2> QED BY <2>2, <2>3
  <1>13. ~f.final => \A h : h.page = n + 1 /\ h.rows.book = b => rows = Before(h)
    <2> SUFFICES ASSUME ~f.final, NEW h, h.page = n + 1, h.rows.book = b
                 PROVE  rows = Before(h)
      OBVIOUS
    <2>1. h.page - 1 = n
      BY <1>1
    <2> QED BY <1>12, <2>1 DEF Before
  <1>14. ~f.final => n < PageCount
    BY <1>12
  <1>15. Len(before) = n - 1 /\ rows \in Seq(Cells) /\ rows # <<>> /\ Len(rows) = n /\ rows[1].book = b
    BY <1>4, <1>5, <1>6
  <1> QED BY <1>11, <1>13, <1>14, <1>15 DEF n, b, before

\* A gateway's chain works on a page: it is the latest gateway's, and of its own connection.
LEMMA WorksOnPage ==
  ASSUME PhoneDataInv, NEW g \in Links, work[g] # <<>>, IsPage(Head(work[g]))
  PROVE  /\ g = gateway.of /\ gateway.at \in {"running", "stopping"} /\ (link # 0 => link = g)
         /\ Head(work[g]) \in Frames /\ WellMade(Head(work[g])) /\ Head(work[g]).req.of = g
         /\ Head(work[g]).req \in Requests /\ Head(work[g]).req.kind \in Kinds
         /\ work[g] \in Seq(Items) /\ Tail(work[g]) \in Seq(Items)
         /\ \A i \in DOMAIN Tail(work[g]) : Tail(work[g])[i] = work[g][i + 1] /\ i + 1 \in DOMAIN work[g]
         /\ Head(work[g]) = work[g][1] /\ 1 \in DOMAIN work[g]
         /\ \A h \in Links \ {g} : writing[h] = NoWrite
  <1>1. /\ work[g] \in Seq(Items) /\ Tail(work[g]) \in Seq(Items)
        /\ \A i \in DOMAIN Tail(work[g]) : Tail(work[g])[i] = work[g][i + 1] /\ i + 1 \in DOMAIN work[g]
        /\ Head(work[g]) = work[g][1] /\ 1 \in DOMAIN work[g] /\ Head(work[g]) \in Items
    BY WaysAre, Tails
  <1>2. Worked(g, Head(work[g]))
    BY <1>1 DEF PhoneDataInv, ChainInv
  <1>3. g = gateway.of /\ gateway.at \in {"running", "stopping"}
        /\ WellMade(Head(work[g])) /\ Head(work[g]).req.of = g
    BY <1>2 DEF Worked
  <1>4. Head(work[g]) \in Frames
    BY <1>1 DEF Items, Sends, News, IsPage
  <1>5. Head(work[g]).req \in Requests /\ Head(work[g]).req.kind \in Kinds
    BY <1>4 DEF Frames, Requests
  <1>6. \A h \in Links \ {g} : writing[h] = NoWrite
    <2> SUFFICES ASSUME NEW h \in Links \ {g}, writing[h] # NoWrite
                 PROVE  FALSE
      OBVIOUS
    <2>1. work[h] # <<>> /\ IsPage(Head(work[h]))
      BY DEF PhoneDataInv, ChainInv
    <2>2. Head(work[h]) = work[h][1] /\ 1 \in DOMAIN work[h]
      BY <2>1, WaysAre, Tails
    <2>3. Worked(h, Head(work[h]))
      BY <2>2 DEF PhoneDataInv, ChainInv
    <2> QED BY <1>3, <2>1, <2>3 DEF Worked
  <1> QED BY <1>1, <1>3, <1>4, <1>5, <1>6, GatewayIs

\* A mirror that is no newer than a version is no newer than a later one.
LEMMA NewerYet ==
  ASSUME PhoneDataInv, NEW v \in Nat, NEW u \in Nat, v <= u, NoNewer(v)
  PROVE  NoNewer(u)
  <1> SUFFICES ASSUME NEW k \in Kinds, mirror[k].of # 0
               PROVE  mirror[k].pages[1].book <= u
    BY DEF NoNewer
  <1>1. mirror[k].pages[1].book <= v
    BY DEF NoNewer
  <1>2. Whole(mirror[k].pages) /\ book \in 1..MaxEdits + 1
    BY DEF PhoneDataInv, MirrorInv, MirrorWhole, Whole, PhoneInv
  <1>3. mirror[k].pages[1].book \in 1..book
    BY <1>2, SnapshotIs
  <1> QED BY <1>1, <1>2, <1>3, Bounds

\* The first page of a gateway's chain is the first on the way; what is left goes on from it.
LEMMA TakesPage ==
  ASSUME PhoneDataInv, link # 0, work[link] # <<>>, IsPage(Head(work[link])),
         writing[link] = NoWrite, NEW q, q = (Tail(work[link]) \o wire) \o Coming
  PROVE  /\ q \in Seq(Items) /\ Awaited(Head(work[link]))
         /\ Chained(q) /\ Complete(q) /\ (Void(q) => Head(work[link]).final)
         /\ \A h : Leads(q, h) => h \in Frames /\ Follows(Head(work[link]), h)
  <1>1. PICK f, n, t, w, c : f = Head(work[link]) /\ n = <<f>> /\ t = Tail(work[link]) /\ w = wire /\ c = Coming
    OBVIOUS
  <1>2. /\ link \in Links /\ w \in Seq(Items) /\ c \in Seq(Items) /\ work[link] \in Seq(Items)
    BY <1>1, WaysAre
  <1>3. n \in Seq(Items) /\ t \in Seq(Items) /\ work[link] = n \o t
    BY <1>1, <1>2, HeadFirst, Tails
  <1>4. /\ Joined(Joined(Joined(n, t), w), c) = Joined(n, Joined(Joined(t, w), c))
        /\ Joined(Joined(t, w), c) \in Seq(Items)
    BY <1>2, <1>3, TakesFirst
  <1>5. ((n \o t) \o w) \o c = n \o ((t \o w) \o c) /\ (t \o w) \o c \in Seq(Items)
    BY <1>4 DEF Joined
  <1>6. q = (t \o w) \o c /\ q \in Seq(Items)
    BY <1>1, <1>5
  <1>7. Queue(link) = work[link]
    BY DEF Queue
  <1>8. Flow = n \o q
    BY <1>1, <1>3, <1>5, <1>6, <1>7 DEF Flow
  <1>9. /\ IsPage(f) /\ Leads(n, f) /\ Trails(n, f) /\ ~Void(n)
    BY <1>1, Alone
  <1>10. /\ Chained(Flow) /\ Complete(Flow) /\ \A h : Leads(Flow, h) => Awaited(h)
    BY DEF PhoneDataInv, FlowInv
  <1>11. Leads(Flow, f)
    BY <1>3, <1>6, <1>8, <1>9, JoinLeads
  <1>12. Chained(q) /\ \A h : Leads(q, h) => Follows(f, h)
    <2>1. Chained(n \o q)
      BY <1>8, <1>10
    <2> QED BY <1>3, <1>6, <1>9, <2>1, JoinChained
  <1>13. \A h : Trails(q, h) => Trails(Flow, h)
    BY <1>3, <1>6, <1>8, JoinTrails
  <1>14. Complete(q)
    BY <1>10, <1>13 DEF Complete
  <1>15. Void(q) => f.final
    <2>1. Void(q) => Trails(Flow, f)
      BY <1>3, <1>6, <1>8, <1>9, JoinTrails
    <2> QED BY <1>10, <2>1 DEF Complete
  <1>16. \A h : Leads(q, h) => h \in Frames
    <2> SUFFICES ASSUME NEW h, Leads(q, h)
                 PROVE  h \in Frames
      OBVIOUS
    <2>1. IsPage(h) /\ \E i \in DOMAIN q : q[i] = h
      BY InIt
    <2>2. \A x \in Seq(Items) : \A i \in DOMAIN x : x[i] \in Items
      BY LenProperties
    <2>3. h \in Items
      BY <1>6, <2>1, <2>2
    <2> QED BY <2>1, <2>3 DEF Items, Sends, News, IsPage
  <1> QED BY <1>1, <1>6, <1>10, <1>11, <1>12, <1>14, <1>15, <1>16

\* A page is taken: what has been gathered is what comes before the next page.
LEMMA TakePageMirror ==
  ASSUME PhoneDataInv, NEW g \in Links, TakePage(g)
  PROVE  PhoneDataInv'
  <1>1. PICK f, others, rows : /\ f = Head(work[g]) /\ others = {p \in store.pending : p.req # f.req}
                               /\ rows = Append(Before(f), f.rows)
    OBVIOUS
  <1>2. /\ scene' = scene /\ faults' = faults /\ link' = link /\ gateway' = gateway
        /\ book' = book /\ offers' = offers /\ wire' = wire /\ jobs' = jobs
        /\ mirror' = mirror /\ missed' = missed
        /\ work[g] # <<>> /\ IsPage(f) /\ writing[g] = NoWrite
    BY <1>1 DEF TakePage, Runs, IsPage, linkVars, phoneVars
  <1>3. /\ g = gateway.of /\ gateway.at \in {"running", "stopping"} /\ (link # 0 => link = g)
        /\ f \in Frames /\ WellMade(f) /\ f.req.of = g /\ f.req \in Requests /\ f.req.kind \in Kinds
        /\ work[g] \in Seq(Items) /\ Tail(work[g]) \in Seq(Items)
        /\ \A i \in DOMAIN Tail(work[g]) : Tail(work[g])[i] = work[g][i + 1] /\ i + 1 \in DOMAIN work[g]
        /\ \A h \in Links \ {g} : writing[h] = NoWrite
    BY <1>1, <1>2, WorksOnPage
  <1>4. /\ book \in 1..MaxEdits + 1 /\ work \in [Links -> Seq(Items)] /\ DOMAIN writing = Links
        /\ \A h \in Links : writing[h] = NoWrite
    BY <1>2, <1>3 DEF PhoneDataInv, PhoneInv, ChainInv
  <1>5. /\ rows \in Seq(Cells) /\ rows # <<>> /\ Len(rows) = f.page /\ rows[1].book = f.rows.book
        /\ f.final => Whole(rows)
        /\ ~f.final => /\ f.page < PageCount
                       /\ \A h : h.page = f.page + 1 /\ h.rows.book = f.rows.book => rows = Before(h)
    BY <1>1, <1>3, <1>4, Gathers
  <1>6. PICK q : q = (Tail(work[g]) \o wire) \o Coming
    OBVIOUS
  <1>7. link # 0 => /\ q \in Seq(Items) /\ Awaited(f)
                    /\ Chained(q) /\ Complete(q) /\ (Void(q) => f.final)
                    /\ \A h : Leads(q, h) => h \in Frames /\ Follows(f, h)
    BY <1>1, <1>2, <1>3, <1>6, TakesPage
  <1> DEFINE Unexpected == /\ store' = store /\ writing' = writing
                           /\ work' = [work EXCEPT ![g] = Tail(@)] /\ others = store.pending
             Ended == /\ link = g /\ f.final /\ store' = [store EXCEPT !.pending = others]
                      /\ writing' = [writing EXCEPT ![g] = rows] /\ work' = work
             Gathered == /\ link = g /\ ~f.final /\ writing' = writing
                         /\ work' = [work EXCEPT ![g] = Tail(@)]
                         /\ \E p \in store.pending : p.req = f.req /\
                              store' = [store EXCEPT !.pending = others \cup {[req |-> f.req, rows |-> rows]}]
  <1>8. Unexpected \/ Ended \/ Gathered
    <2>3. link = 0 => store.pending = {}
      BY <1>3, GatewayIs DEF PhoneDataInv, StoreInv
    <2>5. Len(Before(f)) = f.page - 1
      BY <1>3, <1>4, Gathers
    <2>6. \A p \in store.pending : p.req = f.req => link = g /\ p.rows = Before(f) /\ p \in Expected(f)
      BY <1>3, <1>7, <2>3, <2>5 DEF Awaited, Expected
    <2>7. store.pending \subseteq Asks /\ store = [support |-> store.support, connected |-> store.connected, pending |-> store.pending]
      BY DEF PhoneDataInv, StoreInv
    <2>8. CASE /\ Expected(f) = {} /\ store' = [store EXCEPT !.pending = others]
               /\ work' = [work EXCEPT ![g] = Tail(@)] /\ writing' = writing
      <3>1. others = store.pending
        BY <1>1, <2>6, <2>8
      <3>2. store' = store
        BY <2>7, <2>8, <3>1
      <3> QED BY <2>8, <3>1, <3>2
    <2>9. ASSUME NEW p \in Expected(f), f.final, store' = [store EXCEPT !.pending = others],
                 writing' = [writing EXCEPT ![g] = Append(p.rows, f.rows)], work' = work
          PROVE  /\ link = g /\ f.final /\ store' = [store EXCEPT !.pending = others]
                 /\ writing' = [writing EXCEPT ![g] = rows] /\ work' = work
      <3>1. p \in store.pending /\ p.req = f.req
        BY <2>9 DEF Expected
      <3>2. link = g /\ p.rows = Before(f)
        BY <2>6, <3>1
      <3> QED BY <1>1, <2>9, <3>2
    <2>10. ASSUME NEW p \in Expected(f), ~f.final, writing' = writing,
                  store' = [store EXCEPT !.pending = others \cup {[p EXCEPT !.rows = Append(p.rows, f.rows)]}],
                  work' = [work EXCEPT ![g] = Tail(@)]
           PROVE  /\ link = g /\ p \in store.pending /\ p.req = f.req
                  /\ store' = [store EXCEPT !.pending = others \cup {[req |-> f.req, rows |-> rows]}]
      <3>1. p \in store.pending /\ p.req = f.req
        BY <2>10 DEF Expected
      <3>2. link = g /\ p.rows = Before(f)
        BY <2>6, <3>1
      <3>3. p = [req |-> f.req, rows |-> Before(f)]
        BY <2>7, <3>1, <3>2 DEF Asks
      <3>4. \A r : [p EXCEPT !.rows = r] = [req |-> f.req, rows |-> r]
        BY <3>3
      <3>5. Append(p.rows, f.rows) = rows
        BY <1>1, <3>2
      <3>6. [p EXCEPT !.rows = Append(p.rows, f.rows)] = [req |-> f.req, rows |-> rows]
        BY <3>4, <3>5
      <3> QED BY <2>10, <3>1, <3>2, <3>6
    <2>11. \/ /\ Expected(f) = {} /\ store' = [store EXCEPT !.pending = others]
              /\ work' = [work EXCEPT ![g] = Tail(@)] /\ writing' = writing
           \/ \E p \in Expected(f) :
                /\ f.final /\ store' = [store EXCEPT !.pending = others]
                /\ writing' = [writing EXCEPT ![g] = Append(p.rows, f.rows)] /\ work' = work
           \/ \E p \in Expected(f) :
                /\ ~f.final /\ writing' = writing
                /\ store' = [store EXCEPT !.pending = others \cup {[p EXCEPT !.rows = Append(p.rows, f.rows)]}]
                /\ work' = [work EXCEPT ![g] = Tail(@)]
      BY <1>1 DEF TakePage, Completes
    <2> QED BY <2>8, <2>9, <2>10, <2>11
  <1>9. /\ work' \in [Links -> Seq(Items)] /\ \A h \in Links \ {g} : work'[h] = work[h]
        /\ work'[g] = IF Ended THEN work[g] ELSE Tail(work[g])
        /\ ~Ended => writing' = writing
        /\ Ended => writing'[g] = rows /\ writing' = [writing EXCEPT ![g] = rows] /\ work' = work
        /\ Queue(g)' = Tail(work[g])
    <2>1. CASE Ended
      <3>1. writing'[g] = rows /\ rows # <<>>
        BY <1>4, <1>5, <2>1
      <3>2. Queue(g)' = Tail(work'[g])
        BY <3>1 DEF Queue, NoWrite
      <3> QED BY <1>4, <2>1, <3>1, <3>2
    <2>2. CASE ~Ended
      <3>1. writing' = writing /\ work' = [work EXCEPT ![g] = Tail(@)]
        BY <1>8, <2>2
      <3>2. work'[g] = Tail(work[g])
        BY <1>4, <3>1
      <3>3. Queue(g)' = work'[g]
        BY <1>2, <3>1 DEF Queue
      <3> QED BY <1>3, <1>4, <2>2, <3>1, <3>2, <3>3
    <2> QED BY <2>1, <2>2
  <1>10. /\ store.pending \subseteq Asks /\ others \subseteq store.pending
         /\ \A p \in others : p.req # f.req
         /\ store = [support |-> store.support, connected |-> store.connected, pending |-> store.pending]
    BY <1>1 DEF PhoneDataInv, StoreInv
  <1>11. /\ store' = [support |-> store.support, connected |-> store.connected, pending |-> store'.pending]
         /\ Unexpected => store'.pending = others
         /\ Ended => store'.pending = others
         /\ Gathered => store'.pending = others \cup {[req |-> f.req, rows |-> rows]}
    BY <1>8, <1>10
  <1>12. LinkInv'
    BY <1>2 DEF PhoneDataInv, LinkInv
  <1>13. PhoneInv'
    BY <1>2 DEF PhoneDataInv, PhoneInv, Whole
  <1>14. ChainInv'
    <2>1. /\ \A x : Wired(x) => Wired(x)'
          /\ \A h \in Links : \A x : Worked(h, x) => Worked(h, x)'
          /\ \A r : Whole(r) => Whole(r)'
          /\ \A v : NoNewer(v) => NoNewer(v)'
      BY <1>2, SameSight
    <2>2. (\A i \in DOMAIN wire : Wired(wire[i]))'
      BY <1>2, <2>1 DEF PhoneDataInv, ChainInv
    <2>3. \A h \in Links : \A i \in DOMAIN work[h] : Worked(h, work[h][i])
      BY DEF PhoneDataInv, ChainInv
    <2>4. (\A h \in Links : \A i \in DOMAIN work[h] : Worked(h, work[h][i]))'
      <3> SUFFICES ASSUME NEW h \in Links, NEW i \in DOMAIN work'[h]
                   PROVE  \A x : x = work'[h][i] => Worked(h, x)'
        OBVIOUS
      <3> HIDE DEF Ended, Unexpected, Gathered
      <3>1. work'[h] = work[h] \/ (h = g /\ work'[h] = Tail(work[g]))
        BY <1>9
      <3>2. PICK m \in DOMAIN work[h] : work'[h][i] = work[h][m]
        BY <1>3, <3>1
      <3> QED BY <2>1, <2>3, <3>2
    <2>5. \A h \in Links : h > gateway'.of => work'[h] = <<>>
      <3>1. \A h \in Links : h > gateway.of => work[h] = <<>>
        BY DEF PhoneDataInv, ChainInv
      <3>2. ~(g > gateway.of)
        BY <1>3, Bounds DEF Links
      <3> QED BY <1>2, <1>9, <3>1, <3>2
    <2>6. (\A h \in Links : writing[h] # NoWrite =>
             /\ work[h] # <<>> /\ IsPage(Head(work[h]))
             /\ Whole(writing[h]) /\ NoNewer(writing[h][1].book))'
      <3> SUFFICES ASSUME NEW h \in Links, writing'[h] # NoWrite
                   PROVE  /\ work'[h] # <<>> /\ \A x : x = Head(work'[h]) => IsPage(x)'
                          /\ \A r : r = writing'[h] => Whole(r)'
                          /\ \A v : v = writing'[h][1].book => NoNewer(v)'
        BY DEF IsPage
      <3>1. Ended
        BY <1>4, <1>9
      <3>2. h = g /\ writing'[h] = rows /\ work'[h] = work[h]
        BY <1>4, <1>9, <3>1
      <3>3. Whole(rows) /\ NoNewer(f.rows.book)
        <4>1. link # 0
          BY <3>1, Bounds DEF Links
        <4> QED BY <1>5, <1>7, <3>1, <4>1 DEF Awaited
      <3> QED BY <1>1, <1>2, <1>5, <2>1, <3>2, <3>3 DEF IsPage
    <2>7. DOMAIN writing' = Links
      BY <1>4, <1>9
    <2> HIDE DEF Ended, Unexpected, Gathered
    <2> QED BY <1>2, <1>9, <2>2, <2>4, <2>5, <2>6, <2>7 DEF PhoneDataInv, ChainInv
  <1>15. FlowInv'
    <2> SUFFICES ASSUME link # 0
                 PROVE  FlowInv'
      BY <1>2 DEF FlowInv
    <2>1. link = g
      BY <1>3
    <2>2. /\ q \in Seq(Items) /\ Awaited(f)
          /\ Chained(q) /\ Complete(q) /\ (Void(q) => f.final)
          /\ \A h : Leads(q, h) => h \in Frames /\ Follows(f, h)
      BY <1>7
    <2>3. Flow' = q
      <3>1. Queue(link)' = Tail(work[g])
        BY <1>2, <1>9, <2>1 DEF Queue
      <3>2. Coming' = Coming
        BY <1>2 DEF Coming
      <3> QED BY <1>2, <1>6, <3>1, <3>2 DEF Flow
    <2>4. \A p \in others : p.rows = <<>>
      BY <1>10, <2>2 DEF Awaited
    <2>5. ~Gathered => store'.pending = others
      BY <1>8, <1>11
    <2>6. Void(q) => \A p \in store'.pending : p.rows = <<>>
      BY <2>2, <2>4, <2>5
    <2>7. \A h : Leads(q, h) => Awaited(h)'
      <3> SUFFICES ASSUME NEW h, Leads(q, h)
                   PROVE  Awaited(h)'
        OBVIOUS
      <3>1. h \in Frames /\ Follows(f, h)
        BY <2>2
      <3>2. f.rows.book \in Nat /\ h.rows.book \in Nat /\ f.rows.book <= h.rows.book
        BY <1>3, <3>1, Bounds DEF Frames, Cells, Follows
      <3>3. NoNewer(h.rows.book)
        BY <2>2, <3>2, NewerYet DEF Awaited
      <3>4. NoNewer(h.rows.book)'
        BY <1>2, <3>3 DEF NoNewer
      <3>5. writing'[link] # NoWrite => writing'[link][1].book <= h.rows.book
        <4>1. CASE Ended
          BY <1>5, <1>9, <2>1, <3>2, <4>1
        <4>2. CASE ~Ended
          BY <1>4, <1>9, <2>1, <4>2
        <4> QED BY <4>1, <4>2
      <3>6. \A p \in store'.pending : p.rows = (IF p.req = h.req THEN Before(h) ELSE <<>>)
        <4>1. CASE Gathered
          <5>1. h.req = f.req /\ h.page = f.page + 1 /\ h.rows.book = f.rows.book
            BY <3>1, <4>1 DEF Follows
          <5>2. rows = Before(h)
            BY <1>5, <4>1, <5>1
          <5> QED BY <1>10, <1>11, <2>4, <4>1, <5>1, <5>2
        <4>2. CASE Ended
          <5>1. h.page = 1
            BY <3>1, <4>2 DEF Follows
          <5>2. Before(h) = <<>>
            BY <5>1 DEF Before
          <5> QED BY <1>11, <2>4, <4>2, <5>2
        <4>3. CASE Unexpected
          <5>1. CASE f.final
            <6>1. h.page = 1
              BY <3>1, <5>1 DEF Follows
            <6>2. Before(h) = <<>>
              BY <6>1 DEF Before
            <6> QED BY <1>11, <2>4, <4>3, <6>2
          <5>2. CASE ~f.final
            <6>1. h.req = f.req
              BY <3>1, <5>2 DEF Follows
            <6> QED BY <1>10, <1>11, <2>4, <4>3, <6>1
          <5> QED BY <5>1, <5>2
        <4> QED BY <1>8, <4>1, <4>2, <4>3
      <3>7. Before(h)' = Before(h)
        BY DEF Before
      <3> QED BY <1>2, <3>4, <3>5, <3>6, <3>7 DEF Awaited
    <2>8. link' # 0 => /\ Chained(Flow') /\ Complete(Flow')
                       /\ Void(Flow') => \A p \in store'.pending : p.rows = <<>>
                       /\ \A h : Leads(Flow', h) => Awaited(h)'
      BY <2>2, <2>3, <2>6, <2>7
    <2> QED BY <2>8 DEF FlowInv
  <1>16. HeardInv'
    <2>1. InUse' \subseteq InUse
      <3>1. link # 0 => \A i \in DOMAIN work'[link] :
              \E m \in DOMAIN work[link] : work[link][m].req = work'[link][i].req
        <4> SUFFICES ASSUME link # 0, NEW i \in DOMAIN work'[link]
                     PROVE  \E m \in DOMAIN work[link] : work[link][m].req = work'[link][i].req
          OBVIOUS
        <4> HIDE DEF Ended, Unexpected, Gathered
        <4>1. work'[link] = work[link] \/ (link = g /\ work'[link] = Tail(work[g]))
          BY <1>3, <1>9
        <4> QED BY <1>3, <4>1
      <3> QED BY <1>2, <3>1 DEF InUse
    <2> QED BY <1>2, <2>1 DEF PhoneDataInv, HeardInv
  <1>17. StoreInv'
    <2>1. /\ store.support \in [Kinds -> {"unknown", "yes", "no"}] /\ store.connected \in BOOLEAN
          /\ \A p \in store.pending :
               p.req.of = link /\ store.support[p.req.kind] = "yes" /\ Len(p.rows) < PageCount
          /\ gateway.at \in {"none", "device", "stopping"} =>
               /\ store.pending = {}
               /\ store.connected => \A k \in Kinds : store.support[k] = "unknown"
          /\ link # 0 /\ store.connected => \A k \in Kinds : store.support[k] = "yes" =>
               \/ \E p \in store.pending : p.req.kind = k
               \/ mirror[k].of = link \/ k \in missed
               \/ writing[link] # NoWrite /\ Head(work[link]).req.kind = k
      BY DEF PhoneDataInv, StoreInv
    <2> DEFINE Known == link # 0 /\ store.connected => \A k \in Kinds : store.support[k] = "yes" =>
                 \/ \E p \in store'.pending : p.req.kind = k
                 \/ mirror[k].of = link \/ k \in missed
                 \/ writing'[link] # NoWrite /\ Head(work'[link]).req.kind = k
               Held == /\ store'.pending \subseteq Asks
                       /\ \A p \in store'.pending :
                            p.req.of = link /\ store.support[p.req.kind] = "yes" /\ Len(p.rows) < PageCount
                       /\ gateway.at \in {"none", "device", "stopping"} => store'.pending = {}
    <2>2. \A k \in Kinds : link # 0 => ~(writing[link] # NoWrite /\ Head(work[link]).req.kind = k)
      BY <1>3, <1>4
    <2>3. ASSUME Unexpected
          PROVE  Held /\ Known
      <3>1. Held
        BY <1>10, <1>11, <2>1, <2>3
      <3>2. Known
        BY <1>11, <2>1, <2>2, <2>3
      <3> QED BY <3>1, <3>2
    <2>4. ASSUME Ended
          PROVE  Held /\ Known
      <3>1. Held
        BY <1>10, <1>11, <2>1, <2>4
      <3>2. writing'[link] # NoWrite /\ Head(work'[link]) = f
        BY <1>1, <1>5, <1>9, <2>4 DEF NoWrite
      <3>3. \A p \in store.pending : p \in others \/ p.req.kind = f.req.kind
        BY <1>1
      <3>4. Known
        BY <1>11, <2>1, <2>2, <2>4, <3>2, <3>3
      <3> QED BY <3>1, <3>4
    <2>5. ASSUME Gathered
          PROVE  Held /\ Known
      <3>1. PICK p \in store.pending : p.req = f.req
        BY <2>5
      <3> DEFINE new == [req |-> f.req, rows |-> rows]
      <3>2. new \in Asks /\ new.req = f.req /\ new.rows = rows
        BY <1>3, <1>5 DEF Asks
      <3>3. new.req.of = link /\ store.support[new.req.kind] = "yes" /\ Len(new.rows) < PageCount
        BY <1>5, <2>1, <2>5, <3>1, <3>2
      <3>4. store'.pending = others \cup {new}
        BY <1>11, <2>5
      <3>5. gateway.at \notin {"none", "device", "stopping"}
        BY <2>1, <3>1
      <3> HIDE DEF new, Ended, Unexpected, Gathered
      <3>6. Held
        BY <1>10, <2>1, <3>2, <3>3, <3>4, <3>5
      <3>7. \A r \in store.pending : r \in others \/ r.req.kind = new.req.kind
        BY <1>1, <3>2
      <3>8. Known
        BY <2>1, <2>2, <3>4, <3>7
      <3> QED BY <3>6, <3>8
    <2>6. Held /\ Known
      BY <1>8, <2>3, <2>4, <2>5
    <2>7. store'.support = store.support /\ store'.connected = store.connected
      BY <1>11
    <2> HIDE DEF Ended, Unexpected, Gathered
    <2> QED BY <1>2, <1>11, <2>1, <2>6, <2>7 DEF StoreInv
  <1>18. MirrorInv'
    BY <1>2 DEF PhoneDataInv, MirrorInv, MirrorWhole
  <1> QED BY <1>12, <1>13, <1>14, <1>15, <1>16, <1>17, <1>18 DEF PhoneDataInv

\* A snapshot takes the place of the one before, or it cannot be written and the kind is missed.
LEMMA EndWriteMirror ==
  ASSUME PhoneDataInv, NEW g \in Links, Rename(g) \/ WriteFails(g)
  PROVE  PhoneDataInv'
  <1>1. PICK f, kind, rows : f = Head(work[g]) /\ kind = f.req.kind /\ rows = writing[g]
    OBVIOUS
  <1> DEFINE Renamed == /\ mirror' = [mirror EXCEPT ![kind] = [of |-> f.req.of, pages |-> rows]]
                        /\ missed' = missed /\ faults' = faults
             Failed == /\ mirror' = mirror /\ faults < MaxFaults /\ faults' = faults + 1
                       /\ missed' = IF g = link THEN missed \cup {kind} ELSE missed
  <1>2. /\ scene' = scene /\ link' = link /\ gateway' = gateway
        /\ book' = book /\ offers' = offers /\ wire' = wire /\ jobs' = jobs /\ store' = store
        /\ rows # NoWrite /\ writing[g] # NoWrite
        /\ work' = [work EXCEPT ![g] = Tail(@)] /\ writing' = [writing EXCEPT ![g] = NoWrite]
    BY <1>1 DEF Rename, WriteFails, EndWrite, linkVars, phoneVars
  <1>3. Renamed \/ Failed
    BY <1>1 DEF Rename, WriteFails, Fault
  <1>4. /\ work[g] # <<>> /\ IsPage(f) /\ Whole(rows) /\ NoNewer(rows[1].book)
        /\ DOMAIN writing = Links /\ work \in [Links -> Seq(Items)]
    BY <1>1, <1>2 DEF PhoneDataInv, ChainInv
  <1>5. /\ g = gateway.of /\ gateway.at \in {"running", "stopping"} /\ (link # 0 => link = g)
        /\ f.req.of = g /\ kind \in Kinds
        /\ Tail(work[g]) \in Seq(Items)
        /\ \A i \in DOMAIN Tail(work[g]) : Tail(work[g])[i] = work[g][i + 1] /\ i + 1 \in DOMAIN work[g]
        /\ \A h \in Links \ {g} : writing[h] = NoWrite
    BY <1>1, <1>4, WorksOnPage
  <1>6. book \in 1..MaxEdits + 1 /\ rows \in Seq(Cells) /\ rows[1].book \in 1..book
    <2>1. book \in 1..MaxEdits + 1
      BY DEF PhoneDataInv, PhoneInv
    <2> QED BY <1>4, <2>1, SnapshotIs
  <1>7. mirror \in [Kinds -> [of : 0..MaxLinks, pages : Seq(Cells)]] /\ MirrorWhole
    BY DEF PhoneDataInv, MirrorInv
  <1>8. \A k \in Kinds : mirror'[k] = mirror[k] \/
          (Renamed /\ k = kind /\ mirror'[k] = [of |-> g, pages |-> rows])
    BY <1>3, <1>5, <1>7
  <1>9. /\ work' \in [Links -> Seq(Items)] /\ work'[g] = Tail(work[g])
        /\ \A h \in Links \ {g} : work'[h] = work[h]
        /\ DOMAIN writing' = Links /\ \A h \in Links : writing'[h] = NoWrite
    BY <1>2, <1>4, <1>5
  <1>10. \A v : v \in Nat /\ rows[1].book <= v /\ NoNewer(v) => NoNewer(v)'
    <2> SUFFICES ASSUME NEW v \in Nat, rows[1].book <= v, NoNewer(v),
                        NEW k \in Kinds, mirror'[k].of # 0
                 PROVE  mirror'[k].pages[1].book <= v
      BY DEF NoNewer
    <2>1. CASE mirror'[k] = mirror[k]
      BY <2>1 DEF NoNewer
    <2>2. CASE mirror'[k] = [of |-> g, pages |-> rows]
      <3>1. mirror'[k].pages = rows
        BY <2>2
      <3> QED BY <3>1
    <2> QED BY <1>8, <2>1, <2>2
  <1>11. LinkInv'
    <2>1. faults' \in 0..MaxFaults
      BY <1>3, Bounds DEF PhoneDataInv, LinkInv
    <2> QED BY <1>2, <2>1 DEF PhoneDataInv, LinkInv
  <1>12. PhoneInv'
    <2>1. missed' \subseteq Kinds
      BY <1>3, <1>5 DEF PhoneDataInv, PhoneInv
    <2> QED BY <1>2, <2>1 DEF PhoneDataInv, PhoneInv, Whole
  <1>13. ChainInv'
    <2>1. /\ \A x : Wired(x) => Wired(x)'
          /\ \A h \in Links : \A x : Worked(h, x) => Worked(h, x)'
      BY <1>2 DEF Wired, Worked, WellMade
    <2>2. (\A i \in DOMAIN wire : Wired(wire[i]))'
      BY <1>2, <2>1 DEF PhoneDataInv, ChainInv
    <2>3. \A h \in Links : \A i \in DOMAIN work[h] : Worked(h, work[h][i])
      BY DEF PhoneDataInv, ChainInv
    <2>4. (\A h \in Links : \A i \in DOMAIN work[h] : Worked(h, work[h][i]))'
      <3> SUFFICES ASSUME NEW h \in Links, NEW i \in DOMAIN work'[h]
                   PROVE  \A x : x = work'[h][i] => Worked(h, x)'
        OBVIOUS
      <3>1. work'[h] = work[h] \/ (h = g /\ work'[h] = Tail(work[g]))
        BY <1>9
      <3>2. PICK m \in DOMAIN work[h] : work'[h][i] = work[h][m]
        BY <1>5, <3>1
      <3> QED BY <2>1, <2>3, <3>2
    <2>5. \A h \in Links : h > gateway'.of => work'[h] = <<>>
      <3>1. \A h \in Links : h > gateway.of => work[h] = <<>>
        BY DEF PhoneDataInv, ChainInv
      <3>2. ~(g > gateway.of)
        BY <1>5, Bounds DEF Links
      <3> QED BY <1>2, <1>9, <3>1, <3>2
    <2> QED BY <1>2, <1>9, <2>2, <2>4, <2>5 DEF PhoneDataInv, ChainInv
  <1>14. FlowInv'
    <2> SUFFICES ASSUME link # 0
                 PROVE  FlowInv'
      BY <1>2 DEF FlowInv
    <2>1. link = g
      BY <1>5
    <2>2. Queue(link)' = Queue(link)
      <3>1. Queue(link) = Tail(work[g])
        BY <1>2, <2>1 DEF Queue
      <3>2. Queue(link)' = work'[g]
        BY <1>2, <1>9, <2>1 DEF Queue
      <3> QED BY <1>9, <3>1, <3>2
    <2>3. Flow' = Flow
      BY <1>2, <2>2 DEF Flow, Coming
    <2>4. /\ Chained(Flow) /\ Complete(Flow)
          /\ Void(Flow) => \A p \in store.pending : p.rows = <<>>
          /\ \A h : Leads(Flow, h) => Awaited(h)
      BY DEF PhoneDataInv, FlowInv
    <2>5. \A h : Leads(Flow, h) => Awaited(h)'
      <3> SUFFICES ASSUME NEW h, Leads(Flow, h)
                   PROVE  Awaited(h)'
        OBVIOUS
      <3>1. Awaited(h) /\ h \in Frames
        BY <2>4, FlowUses
      <3>2. h.rows.book \in Nat
        BY <3>1, Bounds DEF Frames, Cells
      <3>3. NoNewer(h.rows.book) /\ rows[1].book <= h.rows.book
        BY <1>1, <1>2, <2>1, <3>1 DEF Awaited
      <3>4. NoNewer(h.rows.book)'
        BY <1>10, <3>2, <3>3
      <3>5. \A p \in store.pending : p.rows = (IF p.req = h.req THEN Before(h) ELSE <<>>)
        BY <3>1 DEF Awaited
      <3>6. writing'[link'] = NoWrite
        BY <1>2, <1>9, <2>1
      <3> QED BY <1>2, <3>4, <3>5, <3>6 DEF Awaited, Before
    <2>6. link' # 0 => /\ Chained(Flow') /\ Complete(Flow')
                       /\ Void(Flow') => \A p \in store'.pending : p.rows = <<>>
                       /\ \A h : Leads(Flow', h) => Awaited(h)'
      BY <1>2, <2>3, <2>4, <2>5
    <2> QED BY <2>6 DEF FlowInv
  <1>15. HeardInv'
    <2>1. InUse' \subseteq InUse
      <3>1. link # 0 => \A i \in DOMAIN work'[link] :
              \E m \in DOMAIN work[link] : work[link][m].req = work'[link][i].req
        <4> SUFFICES ASSUME link # 0, NEW i \in DOMAIN work'[link]
                     PROVE  \E m \in DOMAIN work[link] : work[link][m].req = work'[link][i].req
          OBVIOUS
        <4>1. link = g /\ work'[link] = Tail(work[g])
          BY <1>5, <1>9
        <4> QED BY <1>5, <4>1
      <3> QED BY <1>2, <3>1 DEF InUse
    <2> QED BY <1>2, <2>1 DEF PhoneDataInv, HeardInv
  <1>16. StoreInv'
    <2>1. link # 0 /\ store.connected => \A k \in Kinds : store.support[k] = "yes" =>
            \/ \E p \in store.pending : p.req.kind = k
            \/ mirror[k].of = link \/ k \in missed
            \/ writing[link] # NoWrite /\ Head(work[link]).req.kind = k
      BY DEF PhoneDataInv, StoreInv
    <2>2. \A k \in Kinds : link # 0 /\ mirror[k].of = link => mirror'[k].of = link
      BY <1>5, <1>8
    <2>3. \A k \in Kinds : k \in missed => k \in missed'
      BY <1>3
    <2>4. link # 0 => mirror'[kind].of = link \/ kind \in missed'
      <3>1. Renamed => mirror'[kind] = [of |-> g, pages |-> rows]
        BY <1>5, <1>7
      <3> QED BY <1>3, <1>5, <3>1
    <2>5. link # 0 /\ store.connected => \A k \in Kinds : store.support[k] = "yes" =>
            \/ \E p \in store.pending : p.req.kind = k
            \/ mirror'[k].of = link \/ k \in missed'
      BY <1>1, <1>5, <2>1, <2>2, <2>3, <2>4
    <2> QED BY <1>2, <2>5 DEF PhoneDataInv, StoreInv
  <1>17. MirrorInv'
    <2>1. [of |-> g, pages |-> rows] \in [of : 0..MaxLinks, pages : Seq(Cells)]
      BY <1>6, Bounds DEF Links
    <2>2. mirror' \in [Kinds -> [of : 0..MaxLinks, pages : Seq(Cells)]]
      <3>1. DOMAIN mirror' = Kinds /\ mirror' = [k \in Kinds |-> mirror'[k]]
        BY <1>3, <1>7
      <3> QED BY <1>7, <1>8, <2>1, <3>1
    <2>3. MirrorWhole'
      <3> SUFFICES ASSUME NEW k \in Kinds, mirror'[k].of # 0
                   PROVE  \E version \in 1..book : mirror'[k].pages \in {Pages(version), NoRows(version)}
        BY <1>2 DEF MirrorWhole
      <3>1. CASE mirror'[k] = mirror[k]
        BY <1>7, <3>1 DEF MirrorWhole
      <3>2. CASE mirror'[k] = [of |-> g, pages |-> rows]
        BY <1>4, <3>2 DEF Whole
      <3> QED BY <1>8, <3>1, <3>2
    <2> QED BY <2>2, <2>3 DEF MirrorInv
  <1> QED BY <1>11, <1>12, <1>13, <1>14, <1>15, <1>16, <1>17 DEF PhoneDataInv

\* Every step keeps the invariant of the mirror.
LEMMA MirrorNext ==
  ASSUME PhoneDataInv, [Next]_vars
  PROVE  PhoneDataInv'
  <1>1. CASE Connect
    BY <1>1, ConnectMirror
  <1>2. CASE Bind
    <2>1. /\ scene' = scene /\ link' = link /\ faults' = faults /\ UNCHANGED mirrorVars
          /\ gateway' = [gateway EXCEPT !.at = "connecting"] /\ gateway.at = "device"
      BY <1>2 DEF Bind
    <2> QED BY <2>1, GatewayMoves
  <1>3. CASE Stopped
    <2>1. /\ scene' = scene /\ link' = link /\ faults' = faults /\ UNCHANGED mirrorVars
          /\ gateway' = [gateway EXCEPT !.at = "none"] /\ gateway.at = "stopping"
          /\ work[gateway.of] = <<>>
      BY <1>3 DEF Stopped, Settled
    <2> QED BY <2>1, GatewayMoves
  <1>4. CASE Started
    BY <1>4, StartedMirror
  <1>5. CASE LinkLost
    BY <1>5, LinkLostMirror
  <1>6. CASE Crash
    BY <1>6, CrashMirror
  <1>7. CASE Edit
    BY <1>7, EditMirror
  <1>8. CASE HearStep
    BY <1>8, HearCapabilitiesMirror, HearPageMirror DEF HearStep
  <1>9. CASE PhoneStep
    BY <1>9, ReadRowsMirror, SendPageMirror DEF PhoneStep
  <1>10. CASE ChainStep
    BY <1>10, SendRequestMirror, TakePageMirror, EndWriteMirror DEF ChainStep
  <1>11. CASE \E g \in Links : WriteFails(g)
    BY <1>11, EndWriteMirror
  <1>12. ASSUME \/ \E c \in Calls : Rings(c) \/ Ends(c)
                \/ LookUpStep \/ AppendStep \/ WriteAudit \/ AuditFails
                \/ \E i \in 1..Len(recordWork) : WriteRecordFails(i)
                \/ \E caller \in Callers : Expires(caller)
                \/ UNCHANGED vars
         PROVE  PhoneDataInv'
    <2>1. UNCHANGED <<linkVars, mirrorVars>>
      BY <1>12 DEF Rings, Ends, LookUpStep, LookUp, LookedUp, AppendStep, BeginAppend, ReadRecord,
         WriteRecord, RecordAudited, WriteAudit, AuditFails, WriteRecordFails, Expires, vars
    <2>2. faults' = faults \/ Fault
      BY <1>12 DEF Rings, Ends, LookUpStep, LookUp, LookedUp, AppendStep, BeginAppend, ReadRecord,
         WriteRecord, RecordAudited, WriteAudit, AuditFails, WriteRecordFails, Expires, vars
    <2>3. faults \in 0..MaxFaults
      BY DEF PhoneDataInv, LinkInv
    <2>4. faults' \in 0..MaxFaults
      BY <2>2, <2>3, Bounds DEF Fault
    <2> QED BY <2>1, <2>4, MirrorStutter
  <1> QED BY <1>1, <1>2, <1>3, <1>4, <1>5, <1>6, <1>7, <1>8, <1>9, <1>10, <1>11, <1>12
          DEF Next, GatewayStep

-----------------------------------------------------------------------------
(* What holds in every behaviour *)

IInv == PhoneDataInv /\ MemoryInv

\* The inductive invariant of the mirror and the memory holds in every state.
THEOREM Inductive == Spec => []IInv
  <1>1. Init => IInv
    BY MirrorInit, MemoryInit DEF IInv
  <1>2. IInv /\ [Next]_vars => IInv'
    <2> SUFFICES ASSUME IInv, [Next]_vars
                 PROVE  IInv'
      OBVIOUS
    <2>1. PhoneDataInv /\ MemoryInv
      BY DEF IInv
    <2>2. link \in 0..MaxLinks
      BY <2>1 DEF PhoneDataInv, LinkInv
    <2>3. PhoneDataInv'
      BY <2>1, MirrorNext
    <2>4. MemoryInv'
      BY <2>1, <2>2, MemoryNext
    <2> QED BY <2>3, <2>4 DEF IInv
  <1> QED BY <1>1, <1>2, PTL DEF Spec

\* A record holds the calls that were last written to it, the newest first.
LEMMA RecordsHold ==
  ASSUME MemoryInv
  PROVE  HistoryKept /\ \A caller \in Callers : Len(records[caller].history) <= MaxItems
  <1> SUFFICES ASSUME NEW caller \in Callers
               PROVE  /\ records[caller].history =
                           Reverse(SubSeq(appended[caller],
                                          IF Len(appended[caller]) <= MaxItems THEN 1
                                          ELSE Len(appended[caller]) - MaxItems + 1,
                                          Len(appended[caller])))
                      /\ Len(records[caller].history) <= MaxItems
    BY DEF HistoryKept
  <1>1. PICK a, h, n, m : /\ a = appended[caller] /\ h = records[caller].history /\ n = Len(a)
                          /\ m = IF n <= MaxItems THEN 1 ELSE n - MaxItems + 1
    OBVIOUS
  <1>2. a \in Seq(Calls) /\ h \in Seq(Calls)
    BY <1>1 DEF MemoryInv, RecordInv
  <1>3. /\ Len(h) = (IF n <= MaxItems THEN n ELSE MaxItems)
        /\ \A i \in 1..Len(h) : h[i] = a[n - i + 1]
    BY <1>1 DEF MemoryInv, RecordInv, Kept
  <1>4. n \in Nat /\ m \in Nat /\ m >= 1 /\ Len(h) = n - m + 1 /\ Len(h) <= MaxItems
        /\ MaxItems \in Nat /\ Len(h) \in Nat
    <2>1. n \in Nat
      BY <1>1, <1>2
    <2> QED BY <1>1, <1>3, <2>1, Bounds
  <1>5. \A i \in m..n : a[i] \in Calls
    <2>1. \A i \in 1..n : a[i] \in Calls
      BY <1>1, <1>2
    <2> QED BY <1>4, <2>1
  <1>6. PICK s : s = SubSeq(a, m, n)
    OBVIOUS
  <1>7. /\ s \in Seq(Calls) /\ Len(s) = Len(h) /\ \A i \in 1..Len(h) : s[i] = a[m + i - 1]
    <2>1. /\ s \in Seq(Calls) /\ Len(s) = (IF m <= n THEN n - m + 1 ELSE 0)
          /\ \A i \in 1..n - m + 1 : s[i] = a[m + i - 1]
      BY <1>4, <1>5, <1>6, SubSeqProperties
    <2> QED BY <1>4, <2>1
  <1>8. PICK r : r = [i \in 1..Len(s) |-> s[(Len(s) - i) + 1]]
    OBVIOUS
  <1>9. \A i \in 1..Len(h) : r[i] = h[i] /\ r[i] \in Calls
    <2> TAKE i \in 1..Len(h)
    <2>1. (Len(h) - i) + 1 \in 1..Len(h) /\ i \in 1..Len(s)
      BY <1>4, <1>7
    <2>2. r[i] = s[(Len(h) - i) + 1]
      BY <1>7, <1>8, <2>1
    <2>3. s[(Len(h) - i) + 1] = a[m + ((Len(h) - i) + 1) - 1]
      BY <1>7, <2>1
    <2>4. m + ((Len(h) - i) + 1) - 1 = n - i + 1
      BY <1>4
    <2>5. r[i] = h[i]
      BY <1>3, <2>2, <2>3, <2>4
    <2> QED BY <1>2, <2>5
  <1>10. r \in Seq(Calls) /\ Len(r) = Len(h)
    <2>1. r \in [1..Len(h) -> Calls]
      BY <1>7, <1>8, <1>9
    <2> QED BY <1>4, <2>1
  <1>11. r = h
    BY <1>2, <1>9, <1>10, SeqEqual
  <1> QED BY <1>1, <1>4, <1>6, <1>8, <1>11, ZenonT(60) DEF Reverse

\* What the invariant says is what is meant by it.
LEMMA Sound ==
  ASSUME IInv
  PROVE  DataInv
  <1>1. PhoneDataInv /\ MemoryInv
    BY DEF IInv
  <1>2. HistoryKept /\ \A caller \in Callers : Len(records[caller].history) <= MaxItems
    BY <1>1, RecordsHold
  <1>3. ToldAudited /\ MirrorWhole
    BY <1>1 DEF MemoryInv, CallInv, PhoneDataInv, MirrorInv
  <1>4. ReadyIsCurrent
    <2> SUFFICES ASSUME NEW k \in offers, link # 0, store.support[k] = "yes", SyncState(k) = "ready"
                 PROVE  \/ mirror[k].of = link
                        \/ k \in missed
                        \/ writing[link] # NoWrite /\ Head(work[link]).req.kind = k
      BY DEF ReadyIsCurrent
    <2>1. k \in Kinds
      BY <1>1 DEF PhoneDataInv, PhoneInv
    <2>2. store.connected /\ ~\E p \in store.pending : p.req.kind = k
      BY DEF SyncState
    <2> QED BY <1>1, <2>1, <2>2 DEF PhoneDataInv, StoreInv
  <1>5. \A job \in ToSet(jobs) : job.req \in Requests /\ job.page \in 1..PageCount
    <2>1. jobs \in Seq(Jobs)
      BY <1>1, WaysAre
    <2>2. \A i \in DOMAIN jobs : jobs[i] \in Jobs
      BY <2>1, LenProperties
    <2> QED BY <2>2 DEF ToSet, Jobs
  <1>6. \A p \in store.pending :
          /\ p.req \in Requests /\ p.req.of = link /\ store.support[p.req.kind] = "yes"
          /\ Len(p.rows) < PageCount
    BY <1>1 DEF PhoneDataInv, StoreInv, Asks
  <1>7. \A op \in ToSet(recordWork) : \E g \in Links : archive[g] # <<>> /\ Head(archive[g]) = op.call
    BY <1>1 DEF MemoryInv, QueueInv, ToSet
  <1>8. DOMAIN work = Links /\ \A g \in Links : writing[g] # NoWrite => work[g] # <<>>
    BY <1>1 DEF PhoneDataInv, ChainInv
  <1>9. /\ calls \in [Calls -> [caller : Callers, of : 0..MaxLinks, at : {"new", "up", "over"}]]
        /\ lookups \in Seq([call : Calls, at : {"queued", "audit"}])
        /\ contexts \subseteq Calls /\ told \subseteq Calls /\ lost \subseteq Calls
        /\ records \in [Callers -> [consent : BOOLEAN, history : Seq(Calls)]]
        /\ blocked \subseteq Callers /\ audit.broken \in BOOLEAN
    BY <1>1 DEF MemoryInv, CallInv, RecordInv
  <1>10. /\ scene \in {"mirror", "memory"} /\ link \in 0..MaxLinks /\ faults \in 0..MaxFaults
         /\ gateway \in [of : 0..MaxLinks, at : {"none", "device", "connecting", "running", "stopping"}]
         /\ book \in 1..MaxEdits + 1 /\ offers \subseteq Kinds /\ missed \subseteq Kinds
         /\ store.support \in [Kinds -> {"unknown", "yes", "no"}] /\ store.connected \in BOOLEAN
    BY <1>1 DEF PhoneDataInv, LinkInv, PhoneInv, StoreInv
  <1>11. TypeOK
    BY <1>2, <1>5, <1>6, <1>7, <1>8, <1>9, <1>10 DEF TypeOK
  <1> QED BY <1>2, <1>3, <1>4, <1>11 DEF DataInv

\* In every state mirrors are whole and their status is true, and of the callers' memory no
\* append is missing and nobody is told in secret.
THEOREM DataSafe == Spec => []DataInv
  <1>1. IInv => DataInv
    BY Sound
  <1> QED BY <1>1, Inductive, PTL

\* A mirror is never replaced by an older one, neither by an earlier request of the connection
\* nor by what an earlier connection's gateway is still writing.
THEOREM NeverRegressesAlways == Spec => NeverRegresses
  <1> DEFINE Forward ==
        \A k \in Kinds : mirror[k].of # 0 => mirror'[k].pages[1].book >= mirror[k].pages[1].book
  <1>1. IInv /\ [Next]_vars => [Forward]_vars
    <2> SUFFICES ASSUME IInv, Next
                 PROVE  Forward
      OBVIOUS
    <2> SUFFICES ASSUME NEW k \in Kinds, mirror[k].of # 0
                 PROVE  mirror'[k].pages[1].book >= mirror[k].pages[1].book
      OBVIOUS
    <2>1. PhoneDataInv /\ MemoryInv
      BY DEF IInv
    <2>2. mirror[k].pages[1].book \in Nat
      <3>1. book \in 1..MaxEdits + 1 /\ Whole(mirror[k].pages)
        BY <2>1 DEF PhoneDataInv, PhoneInv, MirrorInv, MirrorWhole, Whole
      <3>2. mirror[k].pages[1].book \in 1..book
        BY <3>1, SnapshotIs
      <3> QED BY <3>1, <3>2, Bounds
    <2>3. CASE \E g \in Links : Rename(g)
      <3>1. PICK g \in Links : Rename(g)
        BY <2>3
      <3>2. /\ writing[g] # NoWrite
            /\ mirror' = [mirror EXCEPT ![Head(work[g]).req.kind] =
                            [of |-> Head(work[g]).req.of, pages |-> writing[g]]]
        BY <3>1 DEF Rename
      <3>3. NoNewer(writing[g][1].book) /\ DOMAIN mirror = Kinds
        BY <2>1, <3>2 DEF PhoneDataInv, ChainInv, MirrorInv
      <3>4. CASE k = Head(work[g]).req.kind
        <4>1. mirror'[k] = [of |-> Head(work[g]).req.of, pages |-> writing[g]]
          BY <3>2, <3>3, <3>4
        <4>2. mirror'[k].pages = writing[g]
          BY <4>1
        <4>3. mirror[k].pages[1].book <= writing[g][1].book
          BY <3>3 DEF NoNewer
        <4>4. writing[g][1].book \in Nat
          <5>1. Whole(writing[g]) /\ book \in 1..MaxEdits + 1
            BY <2>1, <3>2 DEF PhoneDataInv, ChainInv, PhoneInv
          <5>2. writing[g][1].book \in 1..book
            BY <5>1, SnapshotIs
          <5> QED BY <5>1, <5>2, Bounds
        <4> QED BY <2>2, <4>2, <4>3, <4>4
      <3>5. CASE k # Head(work[g]).req.kind
        <4>1. mirror'[k] = mirror[k]
          BY <3>2, <3>3, <3>5
        <4> QED BY <2>2, <4>1
      <3> QED BY <3>4, <3>5
    <2>4. CASE ~\E g \in Links : Rename(g)
      <3>1. mirror' = mirror
        BY <2>4 DEF Next, Connect, GatewayStep, Bind, Started, Stopped, LinkLost, Crash, Edit,
           HearStep, HearCapabilities, HearPage, PhoneStep, ReadRows, SendPage, ChainStep,
           SendRequest, TakePage, WriteFails, Rings, Ends, LookUpStep, LookUp, LookedUp,
           AppendStep, BeginAppend, ReadRecord, WriteRecord, RecordAudited, WriteAudit, AuditFails,
           WriteRecordFails, Expires, mirrorVars
      <3> QED BY <2>2, <3>1
    <2> QED BY <2>3, <2>4
  <1>2. Spec => [][Forward]_vars
    BY <1>1, Inductive, PTL DEF Spec
  <1> QED BY <1>2 DEF NeverRegresses

=============================================================================
