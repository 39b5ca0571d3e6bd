------------------------------ MODULE ClientProofs ------------------------------
(* The proofs about the two clients' sides of the gateway: ControlPlane, the     *)
(* commands, the replays and the call status of a caller and a desktop, for any  *)
(* number of keys, callers' calls, gateways and rings; and McpAgent, the server  *)
(* that stands between a call and an agent, for any number of fragments and      *)
(* polls.                                                                        *)
(* The invariant IInv of ControlPlane: each cache agrees with its history, where *)
(* what is completed was done after everything inserted before it was begun, so  *)
(* an evicted key has a cacheful of others done since (EvictedCache); a running  *)
(* command has the pending entry of its key, and a call that waits has the run   *)
(* of its own key and fields to wait for (RunEnds); the latest sync of the       *)
(* desktop has the current status or will read it (DeskInv).                     *)
(* The invariant AgentIInv of McpAgent: every way by which the agent is given    *)
(* turns ends in Receipt, so one lemma (ReceiptKeeps) bears TurnsKept; the       *)
(* acknowledgement is ahead of what was answered because it is scheduled for a   *)
(* turn that the cursor reaches in the same step.                                *)
EXTENDS ControlPlane, McpAgent, SequenceTheorems, FiniteSetTheorems, FunctionTheorems,
        WellFoundedInduction, TLAPS

-----------------------------------------------------------------------------
(* One gateway's cache against its history: operators on an arbitrary cache s *)
(* and an arbitrary history l *)

Entries == [key : Keys, fields : {1, 2}, pending : BOOLEAN, result : Answers]
Happenings == [what : {"begun", "sent", "done", "failed"}, key : Keys, fields : {1, 2}]

\* A Map has a key once.
Unique(s) == \A p, q \in DOMAIN s : s[p].key = s[q].key => p = q

\* The keys done from i to j.
DoneBetween(l, i, j) == {l[n].key : n \in {m \in i..j : l[m].what = "done"}}
FailedBetween(l, i, j, key) == \E n \in i..j : l[n].what = "failed" /\ l[n].key = key
SentIn(l, key, fields) ==
  \E n \in DOMAIN l : l[n].what = "sent" /\ l[n].key = key /\ l[n].fields = fields

\* What is completed was done after everything inserted before it was begun.
Ordered(s, l) ==
  \A p, q \in DOMAIN s : p < q /\ ~s[q].pending =>
    \A i \in DOMAIN l : l[i].what = "begun" /\ l[i].key = s[p].key =>
      \E n \in DOMAIN l : n > i /\ l[n].what = "done" /\ l[n].key = s[q].key

\* What was begun is remembered, has failed, or was followed by a cacheful of others.
Covered(s, l) ==
  \A i \in DOMAIN l : l[i].what = "begun" =>
    \/ \E p \in DOMAIN s : s[p].key = l[i].key
    \/ FailedBetween(l, i, Len(l), l[i].key)
    \/ Cardinality(DoneBetween(l, i, Len(l)) \ {l[i].key}) >= CacheSize

\* An "accepted" that is remembered was sent.
Booked(s, l) ==
  \A p \in DOMAIN s : ~s[p].pending /\ s[p].result = "accepted" =>
    SentIn(l, s[p].key, s[p].fields)

Core(s, l) ==
  /\ s \in Seq(Entries) /\ l \in Seq(Happenings)
  /\ Unique(s) /\ Ordered(s, l) /\ Covered(s, l) /\ Booked(s, l)

CacheInv(s, l) == Core(s, l) /\ Cardinality(Completed(s)) <= CacheSize

\* What NeverTwice says of one history.
Sparing(l) ==
  \A i, j \in DOMAIN l :
    i < j /\ l[i].what = "begun" /\ l[j].what = "begun" /\ l[i].key = l[j].key =>
      \/ FailedBetween(l, i, j, l[i].key)
      \/ Cardinality(DoneBetween(l, i, j) \ {l[i].key}) >= CacheSize

-----------------------------------------------------------------------------
(* Finite sets of keys *)

\* The cache is of some size.
LEMMA Bounds ==
  /\ CacheSize \in Nat /\ CacheSize >= 1 /\ MaxGateways \in Nat /\ MaxGateways >= 1
  /\ MaxRings \in Nat /\ MaxFaults \in Nat /\ MaxClicks \in Nat
  BY ControlPlaneAssumption

\* The keys of part of a sequence are finitely many.
LEMMA FiniteKeys ==
  ASSUME NEW f, NEW I, IsFiniteSet(I)
  PROVE  IsFiniteSet({f[n].key : n \in I})
  <1> DEFINE T == {f[n].key : n \in I}
             h == [n \in I |-> f[n].key]
  <1>1. h \in Surjection(I, T)
    BY DEF Surjection
  <1> QED BY <1>1, FS_Surjection

\* So are the keys done in part of a history.
LEMMA FiniteDone ==
  ASSUME NEW l \in Seq(Happenings), NEW i \in Nat, NEW j \in Nat
  PROVE  IsFiniteSet(DoneBetween(l, i, j))
  <1>1. IsFiniteSet(i..j)
    BY FS_Interval
  <1>2. IsFiniteSet({m \in i..j : l[m].what = "done"})
    BY <1>1, FS_Subset
  <1> QED BY <1>2, FiniteKeys DEF DoneBetween

\* And the keys whose commands are over.
LEMMA FiniteCompleted ==
  ASSUME NEW s \in Seq(Entries)
  PROVE  IsFiniteSet(Completed(s)) /\ Cardinality(Completed(s)) \in Nat
  <1>1. DOMAIN s = 1..Len(s) /\ Len(s) \in Nat
    OBVIOUS
  <1>2. IsFiniteSet(1..Len(s))
    BY <1>1, FS_Interval
  <1>3. IsFiniteSet({j \in DOMAIN s : ~s[j].pending})
    BY <1>1, <1>2, FS_Subset
  <1>4. IsFiniteSet(Completed(s))
    BY <1>3, FiniteKeys DEF Completed
  <1> QED BY <1>4, FS_CardinalityType

\* More keys are at least as many.
LEMMA MoreKeys ==
  ASSUME NEW S, NEW T, IsFiniteSet(T), S \subseteq T, NEW key, NEW n \in Nat,
         Cardinality(S \ {key}) >= n
  PROVE  Cardinality(T \ {key}) >= n
  <1>1. IsFiniteSet(T \ {key})
    BY FS_RemoveElement
  <1>2. (S \ {key}) \subseteq (T \ {key})
    OBVIOUS
  <1>3. IsFiniteSet(S \ {key}) /\ Cardinality(S \ {key}) <= Cardinality(T \ {key})
    BY <1>1, <1>2, FS_Subset
  <1>4. Cardinality(S \ {key}) \in Nat /\ Cardinality(T \ {key}) \in Nat
    BY <1>1, <1>3, FS_CardinalityType
  <1> QED BY <1>3, <1>4

\* One key less.
LEMMA OneFewer ==
  ASSUME NEW S, IsFiniteSet(S), NEW key \in S, NEW n \in Nat, Cardinality(S) = n + 1
  PROVE  IsFiniteSet(S \ {key}) /\ Cardinality(S \ {key}) = n
  <1>1. /\ IsFiniteSet(S \ {key})
        /\ Cardinality(S \ {key}) = IF key \in S THEN Cardinality(S) - 1 ELSE Cardinality(S)
    BY FS_RemoveElement, Zenon
  <1> QED BY <1>1

-----------------------------------------------------------------------------
(* The history grows *)

\* A history with one more happening: the older ones stay, and what lies between them.
LEMMA OneMore ==
  ASSUME NEW l \in Seq(Happenings), NEW e \in Happenings, NEW m, m = Append(l, e)
  PROVE  /\ m \in Seq(Happenings) /\ Len(m) = Len(l) + 1 /\ DOMAIN m = 1..(Len(l) + 1)
         /\ DOMAIN l = 1..Len(l) /\ Len(l) \in Nat
         /\ m[Len(l) + 1] = e /\ \A n \in DOMAIN l : n \in DOMAIN m /\ m[n] = l[n]
  OBVIOUS

\* Nothing else is done between two of the older ones.
LEMMA OldBetween ==
  ASSUME NEW l \in Seq(Happenings), NEW e \in Happenings, NEW m, m = Append(l, e),
         NEW i \in DOMAIN l, NEW j \in DOMAIN l
  PROVE  DoneBetween(m, i, j) = DoneBetween(l, i, j)
  <1>1. \A n \in i..j : n \in DOMAIN l
    BY OneMore
  <1>2. \A n \in i..j : m[n] = l[n]
    BY <1>1, OneMore
  <1> QED BY <1>2 DEF DoneBetween

\* Nothing that was done or failed since one of them is lost.
LEMMA NewBetween ==
  ASSUME NEW l \in Seq(Happenings), NEW e \in Happenings, NEW m, m = Append(l, e),
         NEW i \in DOMAIN l
  PROVE  /\ DoneBetween(l, i, Len(l)) \subseteq DoneBetween(m, i, Len(m))
         /\ IsFiniteSet(DoneBetween(m, i, Len(m)))
         /\ \A key : FailedBetween(l, i, Len(l), key) => FailedBetween(m, i, Len(m), key)
  <1>1. \A n \in i..Len(l) : n \in DOMAIN l /\ n \in i..Len(m) /\ m[n] = l[n]
    BY OneMore
  <1>0. Len(m) \in Nat /\ i \in Nat
    BY OneMore
  <1>2. IsFiniteSet(DoneBetween(m, i, Len(m)))
    BY <1>0, OneMore, FiniteDone
  <1>3. DoneBetween(l, i, Len(l)) \subseteq DoneBetween(m, i, Len(m))
    BY <1>1 DEF DoneBetween
  <1>4. \A key : FailedBetween(l, i, Len(l), key) => FailedBetween(m, i, Len(m), key)
    BY <1>1 DEF FailedBetween
  <1> QED BY <1>2, <1>3, <1>4

\* What a happening other than a beginning leaves as it was.
LEMMA QuietSparing ==
  ASSUME NEW l \in Seq(Happenings), NEW e \in Happenings, e.what # "begun", Sparing(l)
  PROVE  Sparing(Append(l, e))
  <1>1. PICK m : m = Append(l, e)
    OBVIOUS
  <1>2. SUFFICES ASSUME NEW i \in DOMAIN m, NEW j \in DOMAIN m, i < j, m[i].what = "begun",
                        m[j].what = "begun", m[i].key = m[j].key
                 PROVE  \/ FailedBetween(m, i, j, m[i].key)
                        \/ Cardinality(DoneBetween(m, i, j) \ {m[i].key}) >= CacheSize
    BY <1>1 DEF Sparing
  <1>3. i \in DOMAIN l /\ j \in DOMAIN l /\ m[i] = l[i] /\ m[j] = l[j]
    BY <1>1, <1>2, OneMore
  <1>4. DoneBetween(m, i, j) = DoneBetween(l, i, j)
    BY <1>1, <1>3, OldBetween
  <1>5. ASSUME FailedBetween(l, i, j, l[i].key) PROVE FailedBetween(m, i, j, m[i].key)
    <2>1. \A n \in i..j : n \in DOMAIN l /\ m[n] = l[n]
      BY <1>1, <1>3, OneMore
    <2> QED BY <1>3, <1>5, <2>1 DEF FailedBetween
  <1>6. \/ FailedBetween(l, i, j, l[i].key)
        \/ Cardinality(DoneBetween(l, i, j) \ {l[i].key}) >= CacheSize
    BY <1>2, <1>3 DEF Sparing
  <1> QED BY <1>3, <1>4, <1>5, <1>6

\* The cache agrees with the longer history too.
LEMMA QuietCore ==
  ASSUME NEW s, NEW l, Core(s, l), NEW e \in Happenings, e.what # "begun"
  PROVE  Core(s, Append(l, e))
  <1>1. PICK m : m = Append(l, e)
    OBVIOUS
  <1>2. l \in Seq(Happenings) /\ s \in Seq(Entries)
    BY DEF Core
  <1>3. \A i \in DOMAIN m : m[i].what = "begun" => i \in DOMAIN l /\ m[i] = l[i]
    BY <1>1, <1>2, OneMore
  <1>4. \A i \in DOMAIN l : i \in DOMAIN m /\ m[i] = l[i]
    BY <1>1, <1>2, OneMore
  <1>5. Ordered(s, m)
    BY <1>3, <1>4 DEF Core, Ordered
  <1>6. Covered(s, m)
    <2> SUFFICES ASSUME NEW i \in DOMAIN m, m[i].what = "begun"
                 PROVE  \/ \E p \in DOMAIN s : s[p].key = m[i].key
                        \/ FailedBetween(m, i, Len(m), m[i].key)
                        \/ Cardinality(DoneBetween(m, i, Len(m)) \ {m[i].key}) >= CacheSize
      BY DEF Covered
    <2>1. i \in DOMAIN l /\ m[i] = l[i]
      BY <1>3
    <2>2. /\ DoneBetween(l, i, Len(l)) \subseteq DoneBetween(m, i, Len(m))
          /\ IsFiniteSet(DoneBetween(m, i, Len(m)))
          /\ \A key : FailedBetween(l, i, Len(l), key) => FailedBetween(m, i, Len(m), key)
      BY <1>1, <1>2, <2>1, NewBetween
    <2>3. \/ \E p \in DOMAIN s : s[p].key = l[i].key
          \/ FailedBetween(l, i, Len(l), l[i].key)
          \/ Cardinality(DoneBetween(l, i, Len(l)) \ {l[i].key}) >= CacheSize
      BY <2>1 DEF Core, Covered
    <2> QED BY <2>1, <2>2, <2>3, MoreKeys, Bounds
  <1>7. Booked(s, m)
    <2>1. \A key, fields : SentIn(l, key, fields) => SentIn(m, key, fields)
      BY <1>4 DEF SentIn
    <2> QED BY <2>1 DEF Core, Booked
  <1>8. m \in Seq(Happenings)
    BY <1>1, <1>2, OneMore
  <1> QED BY <1>1, <1>5, <1>6, <1>7, <1>8 DEF Core

-----------------------------------------------------------------------------
(* A command begins *)

\* A key that is not remembered is begun for the first time, after a failure, or a cacheful
\* of commands after the last time.
LEMMA BegunSparing ==
  ASSUME NEW s, NEW l, Core(s, l), Sparing(l), NEW e \in Happenings, e.what = "begun",
         \A p \in DOMAIN s : s[p].key # e.key
  PROVE  Sparing(Append(l, e))
  <1>1. PICK m : m = Append(l, e)
    OBVIOUS
  <1>2. l \in Seq(Happenings)
    BY DEF Core
  <1>3. SUFFICES ASSUME NEW i \in DOMAIN m, NEW j \in DOMAIN m, i < j, m[i].what = "begun",
                        m[j].what = "begun", m[i].key = m[j].key
                 PROVE  \/ FailedBetween(m, i, j, m[i].key)
                        \/ Cardinality(DoneBetween(m, i, j) \ {m[i].key}) >= CacheSize
    BY <1>1 DEF Sparing
  <1>4. i \in DOMAIN l /\ m[i] = l[i]
    BY <1>1, <1>2, <1>3, OneMore
  <1>5. CASE j \in DOMAIN l
    <2>1. m[j] = l[j]
      BY <1>1, <1>2, <1>5, OneMore
    <2>2. DoneBetween(m, i, j) = DoneBetween(l, i, j)
      BY <1>1, <1>2, <1>4, <1>5, OldBetween
    <2>3. ASSUME FailedBetween(l, i, j, l[i].key) PROVE FailedBetween(m, i, j, m[i].key)
      <3>1. \A n \in i..j : n \in DOMAIN l /\ m[n] = l[n]
        BY <1>1, <1>2, <1>4, <1>5, OneMore
      <3> QED BY <1>4, <2>3, <3>1 DEF FailedBetween
    <2>4. \/ FailedBetween(l, i, j, l[i].key)
          \/ Cardinality(DoneBetween(l, i, j) \ {l[i].key}) >= CacheSize
      BY <1>3, <1>4, <1>5, <2>1 DEF Sparing
    <2> QED BY <1>4, <2>2, <2>3, <2>4
  <1>6. CASE j \notin DOMAIN l
    <2>1. j = Len(m) /\ m[j] = e
      BY <1>1, <1>2, <1>6, OneMore
    <2>2. /\ DoneBetween(l, i, Len(l)) \subseteq DoneBetween(m, i, Len(m))
          /\ IsFiniteSet(DoneBetween(m, i, Len(m)))
          /\ \A key : FailedBetween(l, i, Len(l), key) => FailedBetween(m, i, Len(m), key)
      BY <1>1, <1>2, <1>4, NewBetween
    <2>3. \/ FailedBetween(l, i, Len(l), l[i].key)
          \/ Cardinality(DoneBetween(l, i, Len(l)) \ {l[i].key}) >= CacheSize
      BY <1>3, <1>4, <2>1 DEF Core, Covered
    <2> QED BY <1>4, <2>1, <2>2, <2>3, MoreKeys, Bounds
  <1> QED BY <1>5, <1>6

\* A cache with one more entry: the older ones stay.
LEMMA OneMoreEntry ==
  ASSUME NEW s \in Seq(Entries), NEW x \in Entries, NEW t, t = Append(s, x)
  PROVE  /\ t \in Seq(Entries) /\ Len(t) = Len(s) + 1 /\ DOMAIN t = 1..(Len(s) + 1)
         /\ DOMAIN s = 1..Len(s) /\ Len(s) \in Nat
         /\ t[Len(s) + 1] = x /\ \A n \in DOMAIN s : n \in DOMAIN t /\ t[n] = s[n]
  OBVIOUS

\* A command that begins is remembered, behind all the others.
LEMMA BegunCache ==
  ASSUME NEW s, NEW l, CacheInv(s, l), NEW e \in Happenings, e.what = "begun",
         NEW x \in Entries, x.pending, x.key = e.key, \A p \in DOMAIN s : s[p].key # e.key
  PROVE  CacheInv(Append(s, x), Append(l, e))
  <1>1. PICK m : m = Append(l, e)
    OBVIOUS
  <1>2. PICK t : t = Append(s, x)
    OBVIOUS
  <1>3. l \in Seq(Happenings) /\ s \in Seq(Entries)
    BY DEF Core, CacheInv
  <1>4. /\ t \in Seq(Entries) /\ Len(t) = Len(s) + 1 /\ DOMAIN t = 1..(Len(s) + 1)
        /\ DOMAIN s = 1..Len(s) /\ Len(s) \in Nat
        /\ t[Len(s) + 1] = x /\ \A n \in DOMAIN s : n \in DOMAIN t /\ t[n] = s[n]
    BY <1>2, <1>3, OneMoreEntry
  <1>5. /\ m \in Seq(Happenings) /\ Len(m) = Len(l) + 1 /\ DOMAIN m = 1..(Len(l) + 1)
        /\ DOMAIN l = 1..Len(l) /\ Len(l) \in Nat
        /\ m[Len(l) + 1] = e /\ \A n \in DOMAIN l : n \in DOMAIN m /\ m[n] = l[n]
    BY <1>1, <1>3, OneMore
  <1>6. \A p \in DOMAIN t : p = Len(s) + 1 \/ p \in DOMAIN s
    BY <1>4
  <1>7. \A i \in DOMAIN m : i = Len(l) + 1 \/ i \in DOMAIN l
    BY <1>5
  <1>8. Unique(t)
    BY <1>4, <1>6 DEF Unique, CacheInv, Core
  <1>9. Ordered(t, m)
    <2> SUFFICES ASSUME NEW p \in DOMAIN t, NEW q \in DOMAIN t, p < q, ~t[q].pending,
                        NEW i \in DOMAIN m, m[i].what = "begun", m[i].key = t[p].key
                 PROVE  \E n \in DOMAIN m : n > i /\ m[n].what = "done" /\ m[n].key = t[q].key
      BY DEF Ordered
    <2>1. q \in DOMAIN s /\ t[q] = s[q]
      BY <1>4, <1>6
    <2>2. p \in DOMAIN s /\ t[p] = s[p]
      BY <1>4, <1>6, <2>1
    <2>3. i \in DOMAIN l /\ m[i] = l[i]
      BY <1>5, <1>7, <2>2
    <2>4. PICK n \in DOMAIN l : n > i /\ l[n].what = "done" /\ l[n].key = s[q].key
      BY <2>1, <2>2, <2>3 DEF CacheInv, Core, Ordered
    <2>5. n \in DOMAIN m /\ m[n] = l[n]
      BY <1>5
    <2> QED BY <2>1, <2>4, <2>5
  <1>10. Covered(t, m)
    <2> SUFFICES ASSUME NEW i \in DOMAIN m, m[i].what = "begun"
                 PROVE  \/ \E p \in DOMAIN t : t[p].key = m[i].key
                        \/ FailedBetween(m, i, Len(m), m[i].key)
                        \/ Cardinality(DoneBetween(m, i, Len(m)) \ {m[i].key}) >= CacheSize
      BY DEF Covered
    <2>1. CASE i = Len(l) + 1
      <3>1. Len(s) + 1 \in DOMAIN t
        BY <1>4
      <3> QED BY <1>4, <1>5, <2>1, <3>1
    <2>2. CASE i \in DOMAIN l
      <3>1. m[i] = l[i]
        BY <1>5, <2>2
      <3>2. /\ DoneBetween(l, i, Len(l)) \subseteq DoneBetween(m, i, Len(m))
            /\ IsFiniteSet(DoneBetween(m, i, Len(m)))
            /\ \A key : FailedBetween(l, i, Len(l), key) => FailedBetween(m, i, Len(m), key)
        BY <1>1, <1>3, <2>2, NewBetween
      <3>3. \/ \E p \in DOMAIN s : s[p].key = l[i].key
            \/ FailedBetween(l, i, Len(l), l[i].key)
            \/ Cardinality(DoneBetween(l, i, Len(l)) \ {l[i].key}) >= CacheSize
        BY <2>2, <3>1 DEF CacheInv, Core, Covered
      <3>4. ASSUME \E p \in DOMAIN s : s[p].key = l[i].key
            PROVE  \E p \in DOMAIN t : t[p].key = m[i].key
        BY <1>4, <3>1, <3>4
      <3> QED BY <3>1, <3>2, <3>3, <3>4, MoreKeys, Bounds
    <2> QED BY <1>7, <2>1, <2>2
  <1>11. Booked(t, m)
    <2>1. \A key, fields : SentIn(l, key, fields) => SentIn(m, key, fields)
      BY <1>5 DEF SentIn
    <2>2. \A p \in DOMAIN t : ~t[p].pending => p \in DOMAIN s /\ t[p] = s[p]
      BY <1>4, <1>6
    <2> QED BY <2>1, <2>2 DEF CacheInv, Core, Booked
  <1>12. Completed(t) = Completed(s)
    <2>1. {j \in DOMAIN t : ~t[j].pending} = {j \in DOMAIN s : ~s[j].pending}
      BY <1>4, <1>6
    <2>2. \A j \in {j \in DOMAIN s : ~s[j].pending} : t[j] = s[j]
      BY <1>4
    <2> QED BY <2>1, <2>2 DEF Completed
  <1>13. Core(t, m)
    BY <1>4, <1>5, <1>8, <1>9, <1>10, <1>11 DEF Core
  <1> QED BY <1>1, <1>2, <1>12, <1>13 DEF CacheInv

-----------------------------------------------------------------------------
(* An entry is forgotten *)

Shift(j, k) == IF j < k THEN j ELSE j + 1

\* RemoveAt: the entries behind the removed one move up.
LEMMA Removed ==
  ASSUME NEW s \in Seq(Entries), NEW k \in DOMAIN s, NEW r, r = RemoveAt(s, k)
  PROVE  /\ r \in Seq(Entries) /\ Len(r) = Len(s) - 1 /\ DOMAIN r = 1..(Len(s) - 1)
         /\ DOMAIN s = 1..Len(s) /\ Len(s) \in Nat /\ k \in Nat
         /\ \A j \in DOMAIN r : Shift(j, k) \in DOMAIN s /\ r[j] = s[Shift(j, k)] /\ Shift(j, k) # k
         /\ \A p \in DOMAIN s : p # k => \E j \in DOMAIN r : Shift(j, k) = p
  <1>1. DOMAIN s = 1..Len(s) /\ Len(s) \in Nat /\ k \in 1..Len(s) /\ k \in Nat
    OBVIOUS
  <1> DEFINE a == SubSeq(s, 1, k - 1)
             b == SubSeq(s, k + 1, Len(s))
  <1>2. a \in Seq(Entries) /\ Len(a) = k - 1 /\ \A j \in 1..(k - 1) : a[j] = s[j]
    BY <1>1
  <1>3. b \in Seq(Entries) /\ Len(b) = Len(s) - k /\ \A j \in 1..(Len(s) - k) : b[j] = s[k + j]
    BY <1>1
  <1>4. r = a \o b
    BY DEF RemoveAt
  <1> HIDE DEF a, b
  <1>4a. /\ r \in Seq(Entries) /\ Len(r) = Len(a) + Len(b)
         /\ \A j \in 1..(Len(a) + Len(b)) : r[j] = IF j <= Len(a) THEN a[j] ELSE b[j - Len(a)]
    <2>1. a \in Seq(Entries) /\ b \in Seq(Entries)
      BY <1>2, <1>3
    <2>2. /\ a \o b \in Seq(Entries) /\ Len(a \o b) = Len(a) + Len(b)
          /\ \A j \in 1..(Len(a) + Len(b)) : (a \o b)[j] = IF j <= Len(a) THEN a[j] ELSE b[j - Len(a)]
      BY <2>1, ConcatProperties, Zenon
    <2> QED BY <1>4, <2>2, Zenon
  <1>5a. Len(a) + Len(b) = Len(s) - 1
    BY <1>1, <1>2, <1>3
  <1>5. r \in Seq(Entries) /\ Len(r) = Len(s) - 1 /\ DOMAIN r = 1..(Len(s) - 1)
    BY <1>4a, <1>5a
  <1>6. \A j \in 1..(Len(s) - 1) : r[j] = IF j < k THEN a[j] ELSE b[j - (k - 1)]
    BY <1>1, <1>2, <1>3, <1>4a, <1>5a
  <1>7. \A j \in 1..(Len(s) - 1) : j >= k => j - (k - 1) \in 1..(Len(s) - k) /\ k + (j - (k - 1)) = j + 1
    BY <1>1
  <1>8. \A j \in 1..(Len(s) - 1) : r[j] = s[Shift(j, k)]
    <2> SUFFICES ASSUME NEW j \in 1..(Len(s) - 1) PROVE r[j] = s[Shift(j, k)]
      OBVIOUS
    <2>1. CASE j < k
      BY <1>1, <1>2, <1>6, <2>1 DEF Shift
    <2>2. CASE ~(j < k)
      <3>1. r[j] = b[j - (k - 1)]
        BY <1>6, <2>2
      <3>2. j - (k - 1) \in 1..(Len(s) - k) /\ k + (j - (k - 1)) = j + 1
        BY <1>1, <1>7, <2>2
      <3>3. b[j - (k - 1)] = s[k + (j - (k - 1))]
        BY <1>3, <3>2
      <3> QED BY <2>2, <3>1, <3>2, <3>3 DEF Shift
    <2> QED BY <2>1, <2>2
  <1>9. \A j \in 1..(Len(s) - 1) : Shift(j, k) \in 1..Len(s) /\ Shift(j, k) # k
    BY <1>1 DEF Shift
  <1>10. ASSUME NEW p \in DOMAIN s, p # k PROVE \E j \in DOMAIN r : Shift(j, k) = p
    <2>1. CASE p < k
      BY <1>1, <1>5, <2>1 DEF Shift
    <2>2. CASE p > k
      <3>1. p - 1 \in DOMAIN r /\ Shift(p - 1, k) = p
        BY <1>1, <1>5, <2>2 DEF Shift
      <3> QED BY <3>1
    <2> QED BY <1>1, <1>10, <2>1, <2>2
  <1> QED BY <1>1, <1>5, <1>8, <1>9, <1>10

\* A key that need not be remembered any more can be forgotten.
LEMMA RemovedCore ==
  ASSUME NEW s, NEW l, Core(s, l), NEW k \in DOMAIN s, NEW r, r = RemoveAt(s, k),
         \A i \in DOMAIN l : l[i].what = "begun" /\ l[i].key = s[k].key =>
           \/ FailedBetween(l, i, Len(l), l[i].key)
           \/ Cardinality(DoneBetween(l, i, Len(l)) \ {l[i].key}) >= CacheSize
  PROVE  /\ Core(r, l) /\ Completed(r) = Completed(s) \ {s[k].key}
         /\ \A j \in DOMAIN r : \E p \in DOMAIN s : p # k /\ r[j] = s[p] /\ s[p].key # s[k].key
         /\ \A p \in DOMAIN s : p # k => \E j \in DOMAIN r : r[j] = s[p]
  <1>1. s \in Seq(Entries) /\ l \in Seq(Happenings) /\ Unique(s)
    BY DEF Core
  <1>2. /\ r \in Seq(Entries) /\ Len(r) = Len(s) - 1 /\ DOMAIN r = 1..(Len(s) - 1)
        /\ DOMAIN s = 1..Len(s) /\ Len(s) \in Nat /\ k \in Nat
        /\ \A j \in DOMAIN r : Shift(j, k) \in DOMAIN s /\ r[j] = s[Shift(j, k)] /\ Shift(j, k) # k
        /\ \A p \in DOMAIN s : p # k => \E j \in DOMAIN r : Shift(j, k) = p
    BY <1>1, Removed
  <1>3. \A p, q \in DOMAIN r : /\ Shift(p, k) = Shift(q, k) => p = q
                               /\ p < q => Shift(p, k) < Shift(q, k)
    BY <1>2 DEF Shift
  <1>4. Unique(r)
    BY <1>1, <1>2, <1>3 DEF Unique
  <1>5. Ordered(r, l)
    <2> SUFFICES ASSUME NEW p \in DOMAIN r, NEW q \in DOMAIN r, p < q, ~r[q].pending,
                        NEW i \in DOMAIN l, l[i].what = "begun", l[i].key = r[p].key
                 PROVE  \E n \in DOMAIN l : n > i /\ l[n].what = "done" /\ l[n].key = r[q].key
      BY DEF Ordered
    <2>1. Shift(p, k) \in DOMAIN s /\ Shift(q, k) \in DOMAIN s /\ Shift(p, k) < Shift(q, k)
      BY <1>2, <1>3
    <2>2. r[p] = s[Shift(p, k)] /\ r[q] = s[Shift(q, k)]
      BY <1>2
    <2> QED BY <2>1, <2>2 DEF Core, Ordered
  <1>6. \A p \in DOMAIN s : p # k => \E j \in DOMAIN r : r[j] = s[p]
    BY <1>2
  <1>7. Covered(r, l)
    <2> SUFFICES ASSUME NEW i \in DOMAIN l, l[i].what = "begun"
                 PROVE  \/ \E p \in DOMAIN r : r[p].key = l[i].key
                        \/ FailedBetween(l, i, Len(l), l[i].key)
                        \/ Cardinality(DoneBetween(l, i, Len(l)) \ {l[i].key}) >= CacheSize
      BY DEF Covered
    <2>1. CASE l[i].key = s[k].key
      BY <2>1
    <2>2. CASE l[i].key # s[k].key
      <3>1. ASSUME NEW p \in DOMAIN s, s[p].key = l[i].key
            PROVE  \E j \in DOMAIN r : r[j].key = l[i].key
        BY <1>6, <2>2, <3>1
      <3>2. \/ \E p \in DOMAIN s : s[p].key = l[i].key
            \/ FailedBetween(l, i, Len(l), l[i].key)
            \/ Cardinality(DoneBetween(l, i, Len(l)) \ {l[i].key}) >= CacheSize
        BY DEF Core, Covered
      <3> QED BY <3>1, <3>2
    <2> QED BY <2>1, <2>2
  <1>8. \A j \in DOMAIN r : \E p \in DOMAIN s : p # k /\ r[j] = s[p] /\ s[p].key # s[k].key
    BY <1>1, <1>2 DEF Unique
  <1>9. Booked(r, l)
    BY <1>8 DEF Core, Booked
  <1>10. Completed(r) = Completed(s) \ {s[k].key}
    <2>1. ASSUME NEW key \in Completed(r) PROVE key \in Completed(s) \ {s[k].key}
      <3>1. PICK j \in DOMAIN r : ~r[j].pending /\ r[j].key = key
        BY DEF Completed
      <3>2. PICK p \in DOMAIN s : p # k /\ r[j] = s[p] /\ s[p].key # s[k].key
        BY <1>8
      <3> QED BY <3>1, <3>2 DEF Completed
    <2>2. ASSUME NEW key \in Completed(s), key # s[k].key PROVE key \in Completed(r)
      <3>1. PICK p \in DOMAIN s : ~s[p].pending /\ s[p].key = key
        BY DEF Completed
      <3>2. PICK j \in DOMAIN r : r[j] = s[p]
        BY <1>6, <2>2, <3>1
      <3> QED BY <3>1, <3>2 DEF Completed
    <2> QED BY <2>1, <2>2
  <1> QED BY <1>1, <1>2, <1>4, <1>5, <1>6, <1>7, <1>8, <1>9, <1>10 DEF Core

\* There is a first among the positions.
LEMMA Least ==
  ASSUME NEW T, T \subseteq Nat, T # {}
  PROVE  \E x \in T : \A y \in T : x <= y
  <1>1. PICK x \in T : \A y \in T : <<y, x>> \notin OpToRel(<, Nat)
    BY WFMin, NatLessThanWellFounded, Zenon
  <1>2. \A y \in T : ~ (y < x)
    BY <1>1, Zenon DEF OpToRel
  <1>3. x \in Nat /\ \A y \in T : y \in Nat
    OBVIOUS
  <1>4. \A y \in T : x <= y
    BY <1>2, <1>3
  <1> QED BY <1>4

\* What is evicted is the completed command inserted first: since it was last begun, all the
\* other completed commands, a cacheful, have been done.
LEMMA EvictedCache ==
  ASSUME NEW s, NEW l, Core(s, l), Cardinality(Completed(s)) <= CacheSize + 1,
         NEW r, r = Evicted(s)
  PROVE  /\ CacheInv(r, l)
         /\ \A j \in DOMAIN r : \E p \in DOMAIN s : r[j] = s[p]
         /\ \A p \in DOMAIN s : s[p].pending => \E j \in DOMAIN r : r[j] = s[p]
  <1>1. s \in Seq(Entries) /\ l \in Seq(Happenings)
    BY DEF Core
  <1>2. IsFiniteSet(Completed(s)) /\ Cardinality(Completed(s)) \in Nat
    BY <1>1, FiniteCompleted
  <1>3. CASE Cardinality(Completed(s)) <= CacheSize
    BY <1>3 DEF Evicted, CacheInv
  <1>4. CASE ~(Cardinality(Completed(s)) <= CacheSize)
    <2> DEFINE k == CHOOSE i \in 1..Len(s) : ~s[i].pending /\ \A j \in 1..i - 1 : s[j].pending
    <2>1. Cardinality(Completed(s)) = CacheSize + 1
      BY <1>2, <1>4, Bounds
    <2>2. Completed(s) # {}
      BY <2>1, FS_EmptySet, Bounds
    <2>3. \E i \in 1..Len(s) : ~s[i].pending /\ \A j \in 1..i - 1 : s[j].pending
      <3> DEFINE T == {i \in 1..Len(s) : ~s[i].pending}
      <3>1. T \subseteq Nat /\ T # {}
        BY <1>1, <2>2 DEF Completed
      <3>2. PICK i \in T : \A j \in T : i <= j
        BY <3>1, Least
      <3>3. \A j \in 1..i - 1 : s[j].pending
        BY <1>1, <3>2, <3>1
      <3> QED BY <3>2, <3>3
    <2>4. k \in 1..Len(s) /\ ~s[k].pending /\ \A j \in 1..k - 1 : s[j].pending
      BY <2>3
    <2>5. r = RemoveAt(s, k)
      BY <1>4 DEF Evicted
    <2> HIDE DEF k
    <2>6. k \in DOMAIN s
      BY <1>1, <2>4
    <2>7. ASSUME NEW i \in DOMAIN l, l[i].what = "begun", l[i].key = s[k].key
          PROVE  Cardinality(DoneBetween(l, i, Len(l)) \ {l[i].key}) >= CacheSize
      <3>1. ASSUME NEW key \in Completed(s) \ {s[k].key} PROVE key \in DoneBetween(l, i, Len(l))
        <4>1. PICK q \in DOMAIN s : ~s[q].pending /\ s[q].key = key
          BY DEF Completed
        <4>2. k < q
          BY <1>1, <2>4, <3>1, <4>1
        <4>3. PICK n \in DOMAIN l : n > i /\ l[n].what = "done" /\ l[n].key = s[q].key
          BY <2>6, <2>7, <4>1, <4>2 DEF Core, Ordered
        <4>4. n \in i..Len(l)
          BY <1>1, <4>3
        <4> QED BY <4>1, <4>3, <4>4 DEF DoneBetween
      <3>2. s[k].key \in Completed(s)
        BY <2>4, <2>6 DEF Completed
      <3>3. /\ IsFiniteSet(Completed(s) \ {s[k].key})
            /\ Cardinality(Completed(s) \ {s[k].key}) = CacheSize
        BY <1>2, <2>1, <3>2, OneFewer, Bounds
      <3>4. i \in Nat /\ Len(l) \in Nat
        BY <1>1
      <3>5. IsFiniteSet(DoneBetween(l, i, Len(l)))
        BY <1>1, <3>4, FiniteDone
      <3>6. IsFiniteSet(DoneBetween(l, i, Len(l)) \ {l[i].key})
        BY <3>5, FS_RemoveElement
      <3>7. (Completed(s) \ {s[k].key}) \subseteq (DoneBetween(l, i, Len(l)) \ {l[i].key})
        BY <2>7, <3>1
      <3>8. Cardinality(DoneBetween(l, i, Len(l)) \ {l[i].key}) \in Nat
        BY <3>6, FS_CardinalityType
      <3> QED BY <3>3, <3>6, <3>7, <3>8, FS_Subset, Bounds
    <2>8. /\ Core(r, l) /\ Completed(r) = Completed(s) \ {s[k].key}
          /\ \A j \in DOMAIN r : \E p \in DOMAIN s : p # k /\ r[j] = s[p] /\ s[p].key # s[k].key
          /\ \A p \in DOMAIN s : p # k => \E j \in DOMAIN r : r[j] = s[p]
      BY <2>5, <2>6, <2>7, RemovedCore
    <2>9. s[k].key \in Completed(s)
      BY <2>4, <2>6 DEF Completed
    <2>10. Cardinality(Completed(r)) = CacheSize
      BY <1>2, <2>1, <2>8, <2>9, OneFewer, Bounds
    <2> QED BY <2>4, <2>8, <2>10, Bounds DEF CacheInv
  <1> QED BY <1>3, <1>4

-----------------------------------------------------------------------------
(* A command comes to its end *)

\* From the cache s to the cache r the other pending commands stay, and nothing is added.
OthersStay(s, r, key) ==
  /\ \A j \in DOMAIN r : r[j].pending => \E p \in DOMAIN s : r[j] = s[p] /\ s[p].key # key
  /\ \A p \in DOMAIN s : s[p].pending /\ s[p].key # key => \E j \in DOMAIN r : r[j] = s[p]
  /\ \A j \in DOMAIN r : \E p \in DOMAIN s : r[j].key = s[p].key

SettledCache(s, key, answer) ==
  [i \in 1..Len(s) |-> IF s[i].key = key THEN [s[i] EXCEPT !.pending = FALSE, !.result = answer]
                       ELSE s[i]]

\* Its entry says what it was answered with.
LEMMA SettledEntries ==
  ASSUME NEW s \in Seq(Entries), NEW key, NEW answer \in Answers, NEW t, t = SettledCache(s, key, answer)
  PROVE  /\ t \in Seq(Entries) /\ Len(t) = Len(s) /\ DOMAIN t = DOMAIN s
         /\ \A i \in DOMAIN s : /\ t[i].key = s[i].key /\ t[i].fields = s[i].fields
                                /\ s[i].key # key => t[i] = s[i]
                                /\ s[i].key = key => ~t[i].pending /\ t[i].result = answer
  <1>1. DOMAIN s = 1..Len(s) /\ Len(s) \in Nat /\ \A i \in DOMAIN s : s[i] \in Entries
    OBVIOUS
  <1>2. t = [i \in 1..Len(s) |-> IF s[i].key = key THEN [s[i] EXCEPT !.pending = FALSE, !.result = answer]
                                 ELSE s[i]]
    BY DEF SettledCache
  <1>3. \A x \in Entries : /\ [x EXCEPT !.pending = FALSE, !.result = answer] \in Entries
                           /\ [x EXCEPT !.pending = FALSE, !.result = answer].key = x.key
                           /\ [x EXCEPT !.pending = FALSE, !.result = answer].fields = x.fields
                           /\ [x EXCEPT !.pending = FALSE, !.result = answer].pending = FALSE
                           /\ [x EXCEPT !.pending = FALSE, !.result = answer].result = answer
    BY DEF Entries
  <1>4. \A i \in DOMAIN s : t[i] = IF s[i].key = key THEN [s[i] EXCEPT !.pending = FALSE, !.result = answer]
                                   ELSE s[i]
    BY <1>1, <1>2
  <1>5. \A i \in 1..Len(s) : t[i] \in Entries
    BY <1>1, <1>3, <1>4
  <1>6. t \in [1..Len(s) -> Entries]
    BY <1>2, <1>5
  <1>7. t \in Seq(Entries) /\ Len(t) = Len(s) /\ DOMAIN t = DOMAIN s
    BY <1>1, <1>6
  <1>8. ASSUME NEW i \in DOMAIN s, s[i].key = key
        PROVE  ~t[i].pending /\ t[i].result = answer /\ t[i].key = s[i].key /\ t[i].fields = s[i].fields
    <2>1. s[i] \in Entries
      BY <1>1
    <2>2. t[i] = [s[i] EXCEPT !.pending = FALSE, !.result = answer]
      BY <1>4, <1>8
    <2>3. /\ [s[i] EXCEPT !.pending = FALSE, !.result = answer].key = s[i].key
          /\ [s[i] EXCEPT !.pending = FALSE, !.result = answer].fields = s[i].fields
          /\ [s[i] EXCEPT !.pending = FALSE, !.result = answer].pending = FALSE
          /\ [s[i] EXCEPT !.pending = FALSE, !.result = answer].result = answer
      BY <1>3, <2>1
    <2> HIDE <1>4
    <2> QED BY <2>2, <2>3
  <1> QED BY <1>4, <1>7, <1>8

\* The cache agrees with a history that has the end of the command in it.
LEMMA SettledCore ==
  ASSUME NEW s, NEW l, Core(s, l), NEW e \in Happenings, e.what = "done", NEW answer \in Answers,
         answer = "accepted" => \A p \in DOMAIN s : s[p].key = e.key => SentIn(l, e.key, s[p].fields)
  PROVE  Core(SettledCache(s, e.key, answer), Append(l, e))
  <1>1. PICK m : m = Append(l, e)
    OBVIOUS
  <1>2. PICK t : t = SettledCache(s, e.key, answer)
    OBVIOUS
  <1>3. s \in Seq(Entries) /\ l \in Seq(Happenings) /\ Core(s, m)
    BY <1>1, QuietCore DEF Core
  <1>4. /\ t \in Seq(Entries) /\ Len(t) = Len(s) /\ DOMAIN t = DOMAIN s
        /\ \A i \in DOMAIN s : /\ t[i].key = s[i].key /\ t[i].fields = s[i].fields
                               /\ s[i].key # e.key => t[i] = s[i]
                               /\ s[i].key = e.key => ~t[i].pending /\ t[i].result = answer
    BY <1>2, <1>3, SettledEntries
  <1>5. /\ m \in Seq(Happenings) /\ Len(m) = Len(l) + 1 /\ DOMAIN m = 1..(Len(l) + 1)
        /\ DOMAIN l = 1..Len(l) /\ Len(l) \in Nat
        /\ m[Len(l) + 1] = e /\ \A n \in DOMAIN l : n \in DOMAIN m /\ m[n] = l[n]
    BY <1>1, <1>3, OneMore
  <1>6. Unique(t)
    BY <1>3, <1>4 DEF Core, Unique
  <1>7. Ordered(t, m)
    <2> SUFFICES ASSUME NEW p \in DOMAIN t, NEW q \in DOMAIN t, p < q, ~t[q].pending,
                        NEW i \in DOMAIN m, m[i].what = "begun", m[i].key = t[p].key
                 PROVE  \E n \in DOMAIN m : n > i /\ m[n].what = "done" /\ m[n].key = t[q].key
      BY DEF Ordered
    <2>1. p \in DOMAIN s /\ q \in DOMAIN s /\ t[p].key = s[p].key /\ t[q].key = s[q].key
      BY <1>4
    <2>2. CASE s[q].key = e.key
      <3>1. Len(l) + 1 \in DOMAIN m
        BY <1>5
      <3>2. i # Len(l) + 1
        BY <1>5
      <3>3. Len(l) + 1 > i
        BY <1>5, <3>2
      <3> QED BY <1>5, <2>1, <2>2, <3>1, <3>3
    <2>3. CASE s[q].key # e.key
      <3>1. ~s[q].pending
        BY <1>4, <2>1, <2>3
      <3>2. Ordered(s, m)
        BY <1>3 DEF Core
      <3>3. m[i].key = s[p].key
        BY <2>1
      <3>4. \E n \in DOMAIN m : n > i /\ m[n].what = "done" /\ m[n].key = s[q].key
        BY <2>1, <3>1, <3>2, <3>3 DEF Ordered
      <3> QED BY <2>1, <3>4
    <2> QED BY <2>2, <2>3
  <1>8. Covered(t, m)
    <2>1. \A key : (\E p \in DOMAIN s : s[p].key = key) => \E p \in DOMAIN t : t[p].key = key
      BY <1>4
    <2> QED BY <1>3, <2>1 DEF Core, Covered
  <1>9. Booked(t, m)
    <2> SUFFICES ASSUME NEW p \in DOMAIN t, ~t[p].pending, t[p].result = "accepted"
                 PROVE  SentIn(m, t[p].key, t[p].fields)
      BY DEF Booked
    <2>1. p \in DOMAIN s /\ t[p].key = s[p].key /\ t[p].fields = s[p].fields
      BY <1>4
    <2>2. CASE s[p].key = e.key
      <3>1. t[p].result = answer
        BY <1>4, <2>1, <2>2
      <3>2. SentIn(l, e.key, s[p].fields)
        BY <2>1, <2>2, <3>1
      <3> QED BY <1>5, <2>1, <2>2, <3>2 DEF SentIn
    <2>3. CASE s[p].key # e.key
      <3>1. t[p] = s[p]
        BY <1>4, <2>1, <2>3
      <3> QED BY <1>3, <2>1, <3>1 DEF Core, Booked
    <2> QED BY <2>2, <2>3
  <1> QED BY <1>1, <1>2, <1>4, <1>5, <1>6, <1>7, <1>8, <1>9 DEF Core

\* What is remembered of one gateway when a command is done.
LEMMA CompletedCache ==
  ASSUME NEW s, NEW l, CacheInv(s, l), NEW e \in Happenings, e.what = "done", NEW answer \in Answers,
         answer = "accepted" => \A p \in DOMAIN s : s[p].key = e.key => SentIn(l, e.key, s[p].fields),
         NEW r, r = Evicted(SettledCache(s, e.key, answer))
  PROVE  CacheInv(r, Append(l, e)) /\ OthersStay(s, r, e.key)
  <1>1. PICK t : t = SettledCache(s, e.key, answer)
    OBVIOUS
  <1>2. s \in Seq(Entries) /\ Core(s, l)
    BY DEF Core, CacheInv
  <1>3. Core(t, Append(l, e))
    BY <1>1, <1>2, SettledCore
  <1>4. /\ t \in Seq(Entries) /\ Len(t) = Len(s) /\ DOMAIN t = DOMAIN s
        /\ \A i \in DOMAIN s : /\ t[i].key = s[i].key /\ t[i].fields = s[i].fields
                               /\ s[i].key # e.key => t[i] = s[i]
                               /\ s[i].key = e.key => ~t[i].pending /\ t[i].result = answer
    BY <1>1, <1>2, SettledEntries
  <1>5. Completed(t) \subseteq Completed(s) \cup {e.key}
    <2> SUFFICES ASSUME NEW key \in Completed(t), key # e.key PROVE key \in Completed(s)
      OBVIOUS
    <2>1. PICK j \in DOMAIN t : ~t[j].pending /\ t[j].key = key
      BY DEF Completed
    <2>2. j \in DOMAIN s /\ t[j] = s[j]
      BY <1>4, <2>1
    <2> QED BY <2>1, <2>2 DEF Completed
  <1>6. IsFiniteSet(Completed(s)) /\ Cardinality(Completed(s)) \in Nat
    BY <1>2, FiniteCompleted
  <1>7. /\ IsFiniteSet(Completed(s) \cup {e.key})
        /\ Cardinality(Completed(s) \cup {e.key}) <= Cardinality(Completed(s)) + 1
    <2>1. /\ IsFiniteSet(Completed(s) \cup {e.key})
          /\ Cardinality(Completed(s) \cup {e.key}) =
               IF e.key \in Completed(s) THEN Cardinality(Completed(s)) ELSE Cardinality(Completed(s)) + 1
      BY <1>6, FS_AddElement, Zenon
    <2> QED BY <1>6, <2>1
  <1>8. Cardinality(Completed(t)) <= Cardinality(Completed(s) \cup {e.key})
    BY <1>5, <1>7, FS_Subset
  <1>9. Cardinality(Completed(t)) \in Nat /\ Cardinality(Completed(s) \cup {e.key}) \in Nat
    BY <1>4, <1>7, FiniteCompleted, FS_CardinalityType
  <1>10. Cardinality(Completed(t)) <= CacheSize + 1
    BY <1>6, <1>7, <1>8, <1>9, Bounds DEF CacheInv
  <1>11. /\ CacheInv(r, Append(l, e))
         /\ \A j \in DOMAIN r : \E p \in DOMAIN t : r[j] = t[p]
         /\ \A p \in DOMAIN t : t[p].pending => \E j \in DOMAIN r : r[j] = t[p]
    BY <1>1, <1>3, <1>10, EvictedCache
  <1>12. ASSUME NEW j \in DOMAIN r, r[j].pending
         PROVE  \E p \in DOMAIN s : r[j] = s[p] /\ s[p].key # e.key
    <2>1. PICK p \in DOMAIN t : r[j] = t[p]
      BY <1>11
    <2>2. p \in DOMAIN s /\ s[p].key # e.key /\ t[p] = s[p]
      BY <1>4, <1>12, <2>1
    <2> QED BY <2>1, <2>2
  <1>13. ASSUME NEW p \in DOMAIN s, s[p].pending, s[p].key # e.key
         PROVE  \E j \in DOMAIN r : r[j] = s[p]
    BY <1>4, <1>11, <1>13
  <1>14. \A j \in DOMAIN r : \E p \in DOMAIN s : r[j].key = s[p].key
    BY <1>4, <1>11
  <1> QED BY <1>11, <1>12, <1>13, <1>14 DEF OthersStay

\* And when one has failed: it is forgotten, to be begun again.
LEMMA ForgottenCache ==
  ASSUME NEW s, NEW l, CacheInv(s, l), NEW e \in Happenings, e.what = "failed",
         NEW r, r = Forgotten(s, e.key)
  PROVE  CacheInv(r, Append(l, e)) /\ OthersStay(s, r, e.key)
  <1>1. PICK m : m = Append(l, e)
    OBVIOUS
  <1>2. s \in Seq(Entries) /\ l \in Seq(Happenings) /\ Core(s, m) /\ Unique(s)
    BY <1>1, QuietCore DEF Core, CacheInv
  <1>3. CASE ~\E p \in DOMAIN s : s[p].key = e.key
    <2>1. r = s
      BY <1>3 DEF Forgotten
    <2> QED BY <1>1, <1>2, <1>3, <2>1 DEF CacheInv, OthersStay
  <1>4. CASE \E p \in DOMAIN s : s[p].key = e.key
    <2> DEFINE k == CHOOSE p \in DOMAIN s : s[p].key = e.key
    <2>1. k \in DOMAIN s /\ s[k].key = e.key
      BY <1>4
    <2>2. r = RemoveAt(s, k)
      BY <1>4 DEF Forgotten
    <2> HIDE DEF k
    <2>3. /\ m \in Seq(Happenings) /\ Len(m) = Len(l) + 1 /\ DOMAIN m = 1..(Len(l) + 1)
          /\ DOMAIN l = 1..Len(l) /\ Len(l) \in Nat
          /\ m[Len(l) + 1] = e /\ \A n \in DOMAIN l : n \in DOMAIN m /\ m[n] = l[n]
      BY <1>1, <1>2, OneMore
    <2>4. ASSUME NEW i \in DOMAIN m, m[i].key = s[k].key
          PROVE  FailedBetween(m, i, Len(m), m[i].key)
      <3>1. Len(m) \in i..Len(m) /\ m[Len(m)] = e
        BY <2>3
      <3> QED BY <2>1, <2>4, <3>1 DEF FailedBetween
    <2>5. /\ Core(r, m) /\ Completed(r) = Completed(s) \ {s[k].key}
          /\ \A j \in DOMAIN r : \E p \in DOMAIN s : p # k /\ r[j] = s[p] /\ s[p].key # s[k].key
          /\ \A p \in DOMAIN s : p # k => \E j \in DOMAIN r : r[j] = s[p]
      BY <1>2, <2>1, <2>2, <2>4, RemovedCore
    <2>6. IsFiniteSet(Completed(s)) /\ Cardinality(Completed(s)) \in Nat
      BY <1>2, FiniteCompleted
    <2>7. Cardinality(Completed(r)) <= Cardinality(Completed(s))
      BY <2>5, <2>6, FS_Subset
    <2>8. Cardinality(Completed(r)) \in Nat
      BY <2>5, FiniteCompleted DEF Core
    <2>9. Cardinality(Completed(r)) <= CacheSize
      BY <2>6, <2>7, <2>8, Bounds DEF CacheInv
    <2>10. CacheInv(r, m)
      BY <2>5, <2>9 DEF CacheInv
    <2>11. OthersStay(s, r, e.key)
      BY <2>1, <2>5 DEF OthersStay
    <2> QED BY <1>1, <2>10, <2>11
  <1> QED BY <1>3, <1>4

\* A command that is sent on the way changes nothing of what is remembered.
LEMMA SentCache ==
  ASSUME NEW s, NEW l, CacheInv(s, l), NEW e \in Happenings, e.what = "sent"
  PROVE  CacheInv(s, Append(l, e))
  BY QuietCore DEF CacheInv

\* A new gateway remembers nothing of nothing.
LEMMA EmptyCache ==
  CacheInv(<<>>, <<>>) /\ Sparing(<<>>)
  <1>1. <<>> \in Seq(Entries) /\ <<>> \in Seq(Happenings) /\ DOMAIN <<>> = {}
    OBVIOUS
  <1>2. Core(<<>>, <<>>)
    BY <1>1 DEF Core, Unique, Ordered, Covered, Booked
  <1>3. Completed(<<>>) = {}
    BY <1>1 DEF Completed
  <1>4. Cardinality(Completed(<<>>)) <= CacheSize
    BY <1>3, FS_EmptySet, Bounds
  <1> QED BY <1>1, <1>2, <1>4 DEF CacheInv, Sparing

\* A stopped gateway goes on remembering nothing.
LEMMA StaysEmpty ==
  ASSUME NEW key, NEW answer
  PROVE  Evicted(SettledCache(<<>>, key, answer)) = <<>> /\ Forgotten(<<>>, key) = <<>>
  <1>1. DOMAIN <<>> = {} /\ Len(<<>>) = 0
    OBVIOUS
  <1>2. SettledCache(<<>>, key, answer) = <<>>
    BY <1>1 DEF SettledCache
  <1>3. Completed(<<>>) = {}
    BY <1>1 DEF Completed
  <1>4. Cardinality(Completed(<<>>)) <= CacheSize
    BY <1>3, FS_EmptySet, Bounds
  <1>5. Evicted(<<>>) = <<>>
    BY <1>4 DEF Evicted
  <1> QED BY <1>1, <1>2, <1>5 DEF Forgotten

-----------------------------------------------------------------------------
(* The invariant, by groups of variables *)

\* Every gateway's cache agrees with its history, until it stops and forgets.
BookInv ==
  \A g \in Gateways :
    /\ Sparing(log[g])
    /\ gateways[g].state # "stopped" => CacheInv(replays[g], log[g])
    /\ gateways[g].state = "stopped" => replays[g] = <<>>
    /\ gateways[g].state = "new" => replays[g] = <<>> /\ log[g] = <<>>

\* A command being carried out is the one of its key at its gateway; while the gateway runs,
\* its entry is there and pending, and there are no other pending ones.
RunsInv ==
  /\ \A run, other \in runs : run.gateway = other.gateway /\ run.key = other.key => run = other
  /\ \A run \in runs :
       /\ gateways[run.gateway].state # "new"
       /\ gateways[run.gateway].state = "running" =>
            \E p \in DOMAIN replays[run.gateway] : replays[run.gateway][p].key = run.key
       /\ \A p \in DOMAIN replays[run.gateway] :
            replays[run.gateway][p].key = run.key =>
              replays[run.gateway][p].pending /\ replays[run.gateway][p].fields = run.fields
       /\ run.at = "result" => SentIn(log[run.gateway], run.key, run.fields)
  /\ \A g \in Gateways : \A p \in DOMAIN replays[g] : replays[g][p].pending =>
       \E run \in runs : run.gateway = g /\ run.key = replays[g][p].key

\* A call waits for a command with its own key and fields, and is told the truth.
CallsInv ==
  \A c \in Clicks :
    /\ calls[c].at = "waiting" =>
         \E run \in runs : /\ run.gateway = calls[c].gateway /\ run.key = calls[c].request.key
                           /\ run.fields = calls[c].request.fields
    /\ calls[c].answer = "accepted" =>
         /\ calls[c].gateway \in Gateways
         /\ SentIn(log[calls[c].gateway], calls[c].request.key, calls[c].request.fields)

\* Without a phone there is no call.
PhoneInv ==
  /\ ~daemon => delegate = 0
  /\ delegate = 0 => phone = Quiet /\ lookups = <<>> /\ current = Quiet

\* The latest sync has, or will have, the status as it is now; or it has been shown.
DeskInv ==
  /\ scene = "caller" => stream.at = "down"
  /\ \A s, t \in syncs : s.fresh /\ t.fresh => s = t
  /\ stream.at = "up" /\ ~stream.ready /\ events = 0 /\ Status.ringing =>
       \/ \E s \in syncs : s.fresh /\ s.snap \in {Unread, Status}
       \/ (\A s \in syncs : ~s.fresh) /\ notified = Status.id

CallRecords == [request : Requests, gateway : 0..MaxGateways, answer : Answers,
                at : {"idle", "waiting", "settled"}]
RunRecords == [gateway : Gateways, key : Keys, fields : {1, 2}, at : {"send", "result"}]

CallerTypes ==
  /\ replays \in [Gateways -> Seq(Entries)] /\ log \in [Gateways -> Seq(Happenings)]
  /\ runs \subseteq RunRecords /\ calls \in [Clicks -> CallRecords]

FrontTypes ==
  /\ scene \in {"caller", "desktop"} /\ daemon \in BOOLEAN
  /\ delegate \in 0..MaxGateways
  /\ gateways \in [Gateways -> [state : {"new", "running", "stopped"}, link : BOOLEAN]]
  /\ phone \in CallStates /\ current \in CallStates /\ lookups \in Seq(1..MaxRings)
  /\ stream \in [at : {"down", "opening", "acking", "up"}, timer : BOOLEAN, ready : BOOLEAN]
  /\ events \in Nat /\ notified \in 0..MaxRings
  /\ syncs \subseteq [fresh : BOOLEAN, snap : CallStates \cup {Unread}]
  /\ count \in [rings : 0..MaxRings, faults : 0..MaxFaults]
  /\ delegate # 0 => gateways[delegate] = [state |-> "running", link |-> TRUE]

CallerInv == CallerTypes /\ BookInv /\ RunsInv /\ CallsInv
FrontInv == FrontTypes /\ PhoneInv /\ DeskInv
IInv == CallerInv /\ FrontInv

-----------------------------------------------------------------------------
(* The caller's part *)

\* What does not touch the commands and their gateways leaves what is known of them.
LEMMA CallerKept ==
  ASSUME CallerInv, UNCHANGED <<gateways, replays, runs, calls, log>>
  PROVE  CallerInv'
  BY DEF CallerInv, CallerTypes, BookInv, RunsInv, CallsInv

\* One call of a client changes, and nothing else.
LEMMA OneCall ==
  ASSUME CallerInv, UNCHANGED <<gateways, replays, runs, log>>,
         NEW c \in Clicks, NEW x \in CallRecords, calls' = [calls EXCEPT ![c] = x],
         x.at = "waiting" =>
           \E run \in runs : /\ run.gateway = x.gateway /\ run.key = x.request.key
                             /\ run.fields = x.request.fields,
         x.answer = "accepted" =>
           x.gateway \in Gateways /\ SentIn(log[x.gateway], x.request.key, x.request.fields)
  PROVE  CallerInv'
  <1>1. calls' \in [Clicks -> CallRecords]
    BY DEF CallerInv, CallerTypes
  <1>2. calls'[c] = x /\ \A d \in Clicks : d # c => calls'[d] = calls[d]
    BY DEF CallerInv, CallerTypes
  <1>3. CallerTypes' /\ BookInv' /\ RunsInv'
    BY <1>1 DEF CallerInv, CallerTypes, BookInv, RunsInv
  <1>4. CallsInv'
    <2> SUFFICES ASSUME NEW d \in Clicks
                 PROVE  /\ calls'[d].at = "waiting" =>
                             \E run \in runs : /\ run.gateway = calls'[d].gateway
                                               /\ run.key = calls'[d].request.key
                                               /\ run.fields = calls'[d].request.fields
                        /\ calls'[d].answer = "accepted" =>
                             /\ calls'[d].gateway \in Gateways
                             /\ SentIn(log[calls'[d].gateway], calls'[d].request.key, calls'[d].request.fields)
      BY DEF CallsInv
    <2>1. CASE d = c
      BY <1>2, <2>1
    <2>2. CASE d # c
      <3>1. calls'[d] = calls[d]
        BY <1>2, <2>2
      <3> QED BY <3>1 DEF CallerInv, CallsInv
    <2> QED BY <2>1, <2>2
  <1> QED BY <1>3, <1>4 DEF CallerInv

\* A longer history has what the shorter one had.
LEMMA StillSent ==
  ASSUME NEW l \in Seq(Happenings), NEW e \in Happenings, NEW key, NEW fields, SentIn(l, key, fields)
  PROVE  SentIn(Append(l, e), key, fields)
  <1>1. PICK m : m = Append(l, e)
    OBVIOUS
  <1>2. \A n \in DOMAIN l : n \in DOMAIN m /\ m[n] = l[n]
    BY <1>1, OneMore
  <1> QED BY <1>1, <1>2 DEF SentIn

\* And what it has been made longer with.
LEMMA NowSent ==
  ASSUME NEW l \in Seq(Happenings), NEW e \in Happenings, e.what = "sent"
  PROVE  SentIn(Append(l, e), e.key, e.fields)
  <1>1. PICK m : m = Append(l, e)
    OBVIOUS
  <1>2. Len(l) + 1 \in DOMAIN m /\ m[Len(l) + 1] = e
    BY <1>1, OneMore
  <1> QED BY <1>1, <1>2 DEF SentIn

\* What is remembered and recorded at a command's end: a cache r and a history m in which the
\* command is over and all the others are as they were.
Ending(run, answer, r, m) ==
  LET s == replays[run.gateway] IN
  /\ r \in Seq(Entries) /\ m \in Seq(Happenings) /\ Unique(r) /\ Sparing(m)
  /\ gateways[run.gateway].state # "stopped" => CacheInv(r, m)
  /\ gateways[run.gateway].state = "stopped" => r = <<>>
  /\ \A key, fields : SentIn(log[run.gateway], key, fields) => SentIn(m, key, fields)
  /\ answer = "accepted" => SentIn(m, run.key, run.fields)
  /\ OthersStay(s, r, run.key)

\* A command has come to an end, one way or the other: nothing else has changed.
LEMMA RunEnds ==
  ASSUME IInv, NEW run \in runs, NEW answer \in Answers, NEW r, NEW m,
         UNCHANGED gateways, runs' = runs \ {run}, calls' = Told(run, answer),
         replays' = [replays EXCEPT ![run.gateway] = r], log' = [log EXCEPT ![run.gateway] = m],
         Ending(run, answer, r, m)
  PROVE  CallerInv'
  <1> USE DEF Ending, OthersStay
  <1> DEFINE g == run.gateway
  <1>1. /\ CallerTypes /\ BookInv /\ RunsInv /\ CallsInv
    BY DEF IInv, CallerInv
  <1>2. run \in RunRecords /\ g \in Gateways
    BY <1>1 DEF CallerTypes, RunRecords
  <1>3. gateways[g].state # "new"
    BY <1>1 DEF RunsInv
  <1>4. replays'[g] = r /\ \A h \in Gateways : h # g => replays'[h] = replays[h]
    BY <1>1, <1>2 DEF CallerTypes
  <1>5. log'[g] = m /\ \A h \in Gateways : h # g => log'[h] = log[h]
    BY <1>1, <1>2 DEF CallerTypes
  <1>6. replays' \in [Gateways -> Seq(Entries)] /\ log' \in [Gateways -> Seq(Happenings)]
    BY <1>1, <1>2 DEF CallerTypes
  <1>7. \A x \in CallRecords : /\ [x EXCEPT !.at = "settled", !.answer = answer] \in CallRecords
                               /\ [x EXCEPT !.at = "settled", !.answer = answer].request = x.request
                               /\ [x EXCEPT !.at = "settled", !.answer = answer].gateway = x.gateway
                               /\ [x EXCEPT !.at = "settled", !.answer = answer].at = "settled"
                               /\ [x EXCEPT !.at = "settled", !.answer = answer].answer = answer
    BY DEF CallRecords
  <1>8. \A c \in Clicks : calls[c] \in CallRecords
    BY <1>1 DEF CallerTypes
  <1> DEFINE Tells(c) == /\ calls[c].at = "waiting" /\ calls[c].gateway = run.gateway
                         /\ calls[c].request.key = run.key
  <1>9. calls' = [c \in Clicks |-> IF Tells(c) THEN [calls[c] EXCEPT !.at = "settled", !.answer = answer]
                                   ELSE calls[c]]
    BY DEF Told
  <1>10. \A c \in Clicks : ~Tells(c) => calls'[c] = calls[c]
    BY <1>9
  <1>10a. ASSUME NEW c \in Clicks, Tells(c)
          PROVE  /\ calls'[c] \in CallRecords
                 /\ calls'[c].request = calls[c].request /\ calls'[c].gateway = calls[c].gateway
                 /\ calls'[c].at = "settled" /\ calls'[c].answer = answer
    <2>1. calls[c] \in CallRecords
      BY <1>8
    <2>2. LET x == calls[c] IN
          /\ [x EXCEPT !.at = "settled", !.answer = answer] \in CallRecords
          /\ [x EXCEPT !.at = "settled", !.answer = answer].request = x.request
          /\ [x EXCEPT !.at = "settled", !.answer = answer].gateway = x.gateway
          /\ [x EXCEPT !.at = "settled", !.answer = answer].at = "settled"
          /\ [x EXCEPT !.at = "settled", !.answer = answer].answer = answer
      BY <1>7, <2>1
    <2>3. calls'[c] = [calls[c] EXCEPT !.at = "settled", !.answer = answer]
      BY <1>9, <1>10a
    <2> QED BY <2>2, <2>3, Zenon
  <1>11. \A c \in Clicks : calls'[c] \in CallRecords
    BY <1>8, <1>10, <1>10a
  <1>12. calls' \in [Clicks -> CallRecords]
    BY <1>9, <1>11
  <1>13. CallerTypes'
    BY <1>1, <1>6, <1>12 DEF CallerTypes
  <1>14. BookInv'
    <2> SUFFICES ASSUME NEW h \in Gateways
                 PROVE  /\ Sparing(log'[h])
                        /\ gateways[h].state # "stopped" => CacheInv(replays'[h], log'[h])
                        /\ gateways[h].state = "stopped" => replays'[h] = <<>>
                        /\ gateways[h].state = "new" => replays'[h] = <<>> /\ log'[h] = <<>>
      BY DEF BookInv
    <2>1. CASE h = g
      BY <1>3, <1>4, <1>5, <2>1
    <2>2. CASE h # g
      <3>1. replays'[h] = replays[h] /\ log'[h] = log[h]
        BY <1>4, <1>5, <2>2
      <3> QED BY <1>1, <3>1 DEF BookInv
    <2> QED BY <2>1, <2>2
  <1>15. \A other \in runs' : other \in runs /\ other # run /\ (other.gateway = g => other.key # run.key)
    BY <1>1 DEF RunsInv
  <1>16. \A h \in Gateways : \A key, fields : SentIn(log[h], key, fields) => SentIn(log'[h], key, fields)
    BY <1>5
  <1>17. RunsInv'
    <2>1. \A one, other \in runs' : one.gateway = other.gateway /\ one.key = other.key => one = other
      BY <1>1, <1>15 DEF RunsInv
    <2>2. ASSUME NEW other \in runs'
          PROVE  /\ gateways[other.gateway].state # "new"
                 /\ gateways[other.gateway].state = "running" =>
                      \E p \in DOMAIN replays'[other.gateway] : replays'[other.gateway][p].key = other.key
                 /\ \A p \in DOMAIN replays'[other.gateway] :
                      replays'[other.gateway][p].key = other.key =>
                        /\ replays'[other.gateway][p].pending
                        /\ replays'[other.gateway][p].fields = other.fields
                 /\ other.at = "result" => SentIn(log'[other.gateway], other.key, other.fields)
      <3>1. other \in runs /\ other.gateway \in Gateways
        BY <1>1, <1>15, <2>2 DEF CallerTypes, RunRecords
      <3>2. /\ gateways[other.gateway].state # "new"
            /\ gateways[other.gateway].state = "running" =>
                 \E p \in DOMAIN replays[other.gateway] : replays[other.gateway][p].key = other.key
            /\ \A p \in DOMAIN replays[other.gateway] :
                 replays[other.gateway][p].key = other.key =>
                   replays[other.gateway][p].pending /\ replays[other.gateway][p].fields = other.fields
            /\ other.at = "result" => SentIn(log[other.gateway], other.key, other.fields)
        BY <1>1, <3>1 DEF RunsInv
      <3>3. other.at = "result" => SentIn(log'[other.gateway], other.key, other.fields)
        BY <1>16, <3>1, <3>2
      <3>4. CASE other.gateway # g
        <4>1. replays'[other.gateway] = replays[other.gateway]
          BY <1>4, <3>1, <3>4
        <4> QED BY <3>2, <3>3, <4>1, ZenonT(60)
      <3>5. CASE other.gateway = g
        <4>1. other.key # run.key /\ replays'[other.gateway] = r
          BY <1>4, <1>15, <2>2, <3>5
        <4>2. ASSUME NEW p \in DOMAIN replays[g], replays[g][p].key = other.key
              PROVE  \E j \in DOMAIN r : r[j].key = other.key /\ r[j].pending /\ r[j].fields = other.fields
          <5>1. replays[g][p].pending /\ replays[g][p].fields = other.fields
            BY <3>2, <3>5, <4>2
          <5>2. replays[g][p].key # run.key
            BY <4>1, <4>2
          <5>3. PICK j \in DOMAIN r : r[j] = replays[g][p]
            BY <4>2, <5>1, <5>2
          <5> QED BY <4>2, <5>1, <5>3
        <4>3. gateways[g].state = "running" => \E j \in DOMAIN r : r[j].key = other.key
          BY <3>2, <3>5, <4>2
        <4>4. ASSUME NEW j \in DOMAIN r, r[j].key = other.key
              PROVE  r[j].pending /\ r[j].fields = other.fields
          <5>1. PICK p \in DOMAIN replays[g] : replays[g][p].key = other.key
            BY <1>15, <2>2, <3>1, <3>5, <4>4
          <5>2. PICK i \in DOMAIN r : r[i].key = other.key /\ r[i].pending /\ r[i].fields = other.fields
            BY <4>2, <5>1
          <5>3. i = j
            BY <4>4, <5>2 DEF Unique
          <5> QED BY <5>2, <5>3
        <4>5. replays'[other.gateway] = r /\ gateways[other.gateway] = gateways[g]
          BY <3>5, <4>1
        <4> HIDE DEF Ending, OthersStay
        <4> QED BY <3>2, <3>3, <4>3, <4>4, <4>5
      <3> QED BY <3>4, <3>5
    <2>3. ASSUME NEW h \in Gateways, NEW p \in DOMAIN replays'[h], replays'[h][p].pending
          PROVE  \E other \in runs' : other.gateway = h /\ other.key = replays'[h][p].key
      <3>1. CASE h = g
        <4>1. PICK q \in DOMAIN replays[g] : r[p] = replays[g][q] /\ replays[g][q].key # run.key
          BY <1>4, <2>3, <3>1
        <4>2a. replays[g][q].pending
          BY <1>4, <2>3, <3>1, <4>1, SMTT(30)
        <4>2b. \A p2 \in DOMAIN replays[g] : replays[g][p2].pending =>
                 \E other \in runs : other.gateway = g /\ other.key = replays[g][p2].key
          BY <1>1, <1>2 DEF RunsInv
        <4>2. PICK other \in runs : other.gateway = g /\ other.key = replays[g][q].key
          BY <4>2a, <4>2b
        <4>3. other \in runs'
          BY <4>1, <4>2
        <4> QED BY <1>4, <3>1, <4>1, <4>2, <4>3, SMTT(30)
      <3>2. CASE h # g
        <4>1. replays'[h] = replays[h]
          BY <1>4, <3>2
        <4>2. PICK other \in runs : other.gateway = h /\ other.key = replays[h][p].key
          BY <1>1, <2>3, <4>1 DEF RunsInv
        <4>3. other \in runs'
          BY <3>2, <4>2
        <4> QED BY <4>1, <4>2, <4>3
      <3> QED BY <3>1, <3>2
    <2> QED BY <2>1, <2>2, <2>3 DEF RunsInv
  <1>18. CallsInv'
    <2> SUFFICES ASSUME NEW c \in Clicks
                 PROVE  /\ calls'[c].at = "waiting" =>
                             \E other \in runs' : /\ other.gateway = calls'[c].gateway
                                                  /\ other.key = calls'[c].request.key
                                                  /\ other.fields = calls'[c].request.fields
                        /\ calls'[c].answer = "accepted" =>
                             /\ calls'[c].gateway \in Gateways
                             /\ SentIn(log'[calls'[c].gateway], calls'[c].request.key, calls'[c].request.fields)
      BY DEF CallsInv
    <2>1. /\ calls[c].at = "waiting" =>
               \E other \in runs : /\ other.gateway = calls[c].gateway /\ other.key = calls[c].request.key
                                   /\ other.fields = calls[c].request.fields
          /\ calls[c].answer = "accepted" =>
               /\ calls[c].gateway \in Gateways
               /\ SentIn(log[calls[c].gateway], calls[c].request.key, calls[c].request.fields)
      BY <1>1 DEF CallsInv
    <2>2. CASE Tells(c)
      <3>1. /\ calls'[c].request = calls[c].request /\ calls'[c].gateway = calls[c].gateway
            /\ calls'[c].at = "settled" /\ calls'[c].answer = answer
        BY <1>10a, <2>2
      <3>2. PICK other \in runs : /\ other.gateway = calls[c].gateway /\ other.key = calls[c].request.key
                                  /\ other.fields = calls[c].request.fields
        BY <2>1, <2>2
      <3>3. other = run
        BY <1>1, <2>2, <3>2 DEF RunsInv
      <3> QED BY <1>2, <1>5, <2>2, <3>1, <3>2, <3>3
    <2>3. CASE ~Tells(c)
      <3>1. calls'[c] = calls[c]
        BY <1>10, <2>3
      <3>2. ASSUME calls[c].at = "waiting"
            PROVE  \E other \in runs' : /\ other.gateway = calls[c].gateway
                                        /\ other.key = calls[c].request.key
                                        /\ other.fields = calls[c].request.fields
        <4>1. PICK other \in runs : /\ other.gateway = calls[c].gateway /\ other.key = calls[c].request.key
                                    /\ other.fields = calls[c].request.fields
          BY <2>1, <3>2
        <4>2. other # run
          BY <2>3, <3>2, <4>1
        <4> QED BY <4>1, <4>2
      <3> QED BY <1>16, <2>1, <3>1, <3>2
    <2> QED BY <2>2, <2>3
  <1> QED BY <1>13, <1>14, <1>17, <1>18 DEF CallerInv

\* What a command may have left in the history on its way: nothing, or that it was sent.
LEMMA OnItsWay ==
  ASSUME NEW l \in Seq(Happenings), NEW run \in RunRecords, NEW history \in {<<>>, Sent(run)},
         NEW k, k = l \o history
  PROVE  /\ k \in Seq(Happenings) /\ (Sparing(l) => Sparing(k))
         /\ \A s : CacheInv(s, l) => CacheInv(s, k)
         /\ \A key, fields : SentIn(l, key, fields) => SentIn(k, key, fields)
         /\ history = Sent(run) => SentIn(k, run.key, run.fields)
  <1>1. PICK x : x = [what |-> "sent", key |-> run.key, fields |-> run.fields]
    OBVIOUS
  <1>2. x \in Happenings /\ x.what = "sent" /\ x.key = run.key /\ x.fields = run.fields
    BY <1>1 DEF Happenings, RunRecords
  <1>3. Sent(run) = <<x>>
    BY <1>1 DEF Sent
  <1>4. l \o <<x>> = Append(l, x) /\ l \o <<>> = l
    BY <1>2
  <1>5. CASE history = <<>>
    <2>1. k = l
      BY <1>4, <1>5
    <2>2. <<x>> # <<>>
      OBVIOUS
    <2> QED BY <1>3, <1>5, <2>1, <2>2
  <1>6. CASE history = Sent(run)
    <2>1. k = Append(l, x)
      BY <1>3, <1>4, <1>6
    <2>2. x.what # "begun"
      BY <1>2
    <2>3. k \in Seq(Happenings)
      BY <1>2, <2>1
    <2> QED BY <1>2, <2>1, <2>2, <2>3, QuietSparing, SentCache, StillSent, NowSent
  <1> QED BY <1>5, <1>6

\* A command that is over is remembered with its answer.
LEMMA CompleteKeeps ==
  ASSUME IInv, NEW run \in runs, NEW answer \in Answers, NEW history \in {<<>>, Sent(run)},
         Complete(run, answer, history), UNCHANGED gateways,
         answer = "accepted" => history = Sent(run) \/ run.at = "result"
  PROVE  CallerInv'
  <1>1. CallerTypes /\ BookInv /\ RunsInv
    BY DEF IInv, CallerInv
  <1>2. run \in RunRecords /\ run.gateway \in Gateways
    BY <1>1 DEF CallerTypes, RunRecords
  <1>3. PICK s : s = replays[run.gateway]
    OBVIOUS
  <1>4. PICK l : l = log[run.gateway]
    OBVIOUS
  <1>5. s \in Seq(Entries) /\ l \in Seq(Happenings)
    BY <1>1, <1>2, <1>3, <1>4 DEF CallerTypes
  <1>6. PICK k : k = l \o history
    OBVIOUS
  <1>7. PICK e : e = [what |-> "done", key |-> run.key, fields |-> run.fields]
    OBVIOUS
  <1>8. e \in Happenings /\ e.what = "done" /\ e.key = run.key /\ e.fields = run.fields
    BY <1>2, <1>7 DEF Happenings, RunRecords
  <1>9. /\ k \in Seq(Happenings) /\ (Sparing(l) => Sparing(k))
        /\ \A t : CacheInv(t, l) => CacheInv(t, k)
        /\ \A key, fields : SentIn(l, key, fields) => SentIn(k, key, fields)
        /\ history = Sent(run) => SentIn(k, run.key, run.fields)
    BY <1>2, <1>5, <1>6, OnItsWay
  <1>10. PICK m : m = Append(k, e)
    OBVIOUS
  <1>11. PICK r : r = Evicted(SettledCache(s, e.key, answer))
    OBVIOUS
  <1>12. k \o <<e>> = m
    BY <1>8, <1>9, <1>10
  <1>13. log' = [log EXCEPT ![run.gateway] = m]
    BY <1>4, <1>6, <1>7, <1>12 DEF Complete
  <1>14. replays' = [replays EXCEPT ![run.gateway] = r]
    BY <1>3, <1>8, <1>11 DEF Complete, SettledCache
  <1>15. runs' = runs \ {run} /\ calls' = Told(run, answer)
    BY DEF Complete
  <1>16. m \in Seq(Happenings) /\ Sparing(m)
    <2>1. Sparing(l)
      BY <1>1, <1>2, <1>4 DEF BookInv
    <2> QED BY <1>8, <1>9, <1>10, <2>1, QuietSparing
  <1>17. \A key, fields : SentIn(l, key, fields) => SentIn(m, key, fields)
    BY <1>8, <1>9, <1>10, StillSent
  <1>18. answer = "accepted" => SentIn(k, run.key, run.fields)
    <2>1. run.at = "result" => SentIn(l, run.key, run.fields)
      BY <1>1, <1>4 DEF RunsInv
    <2> QED BY <1>9, <2>1
  <1>19. answer = "accepted" => SentIn(m, run.key, run.fields)
    BY <1>8, <1>9, <1>10, <1>18, StillSent
  <1>20. CASE gateways[run.gateway].state = "stopped"
    <2>1. s = <<>>
      BY <1>1, <1>2, <1>3, <1>20 DEF BookInv
    <2>2. r = <<>>
      <3>1. Evicted(SettledCache(<<>>, e.key, answer)) = <<>>
        BY StaysEmpty
      <3> QED BY <1>11, <2>1, <3>1, Zenon
    <2>3. r \in Seq(Entries) /\ Unique(r) /\ DOMAIN r = {} /\ DOMAIN s = {}
      BY <2>1, <2>2 DEF Unique
    <2>3a. OthersStay(s, r, run.key)
      BY <2>3 DEF OthersStay
    <2>4. Ending(run, answer, r, m)
      BY <1>3, <1>4, <1>16, <1>17, <1>19, <1>20, <2>2, <2>3, <2>3a DEF Ending
    <2> QED BY <1>13, <1>14, <1>15, <2>4, RunEnds
  <1>21. CASE gateways[run.gateway].state # "stopped"
    <2>1. CacheInv(s, k)
      BY <1>1, <1>2, <1>3, <1>4, <1>9, <1>21 DEF BookInv
    <2>2. answer = "accepted" => \A p \in DOMAIN s : s[p].key = e.key => SentIn(k, e.key, s[p].fields)
      BY <1>1, <1>3, <1>8, <1>18 DEF RunsInv
    <2>3. CacheInv(r, m) /\ OthersStay(s, r, e.key)
      BY <1>8, <1>10, <1>11, <2>1, <2>2, CompletedCache
    <2>4. r \in Seq(Entries) /\ Unique(r)
      BY <2>3 DEF CacheInv, Core
    <2>5. Ending(run, answer, r, m)
      BY <1>3, <1>4, <1>8, <1>16, <1>17, <1>19, <1>21, <2>3, <2>4 DEF Ending
    <2> QED BY <1>13, <1>14, <1>15, <2>5, RunEnds
  <1> QED BY <1>20, <1>21

\* A command that failed is forgotten.
LEMMA FailKeeps ==
  ASSUME IInv, NEW run \in runs, NEW history \in {<<>>, Sent(run)},
         Fail(run, history), UNCHANGED gateways
  PROVE  CallerInv'
  <1>1. CallerTypes /\ BookInv /\ RunsInv
    BY DEF IInv, CallerInv
  <1>2. run \in RunRecords /\ run.gateway \in Gateways
    BY <1>1 DEF CallerTypes, RunRecords
  <1>3. PICK s : s = replays[run.gateway]
    OBVIOUS
  <1>4. PICK l : l = log[run.gateway]
    OBVIOUS
  <1>5. s \in Seq(Entries) /\ l \in Seq(Happenings)
    BY <1>1, <1>2, <1>3, <1>4 DEF CallerTypes
  <1>6. PICK k : k = l \o history
    OBVIOUS
  <1>7. PICK e : e = [what |-> "failed", key |-> run.key, fields |-> run.fields]
    OBVIOUS
  <1>8. e \in Happenings /\ e.what = "failed" /\ e.key = run.key /\ e.fields = run.fields
    BY <1>2, <1>7 DEF Happenings, RunRecords
  <1>9. /\ k \in Seq(Happenings) /\ (Sparing(l) => Sparing(k))
        /\ \A t : CacheInv(t, l) => CacheInv(t, k)
        /\ \A key, fields : SentIn(l, key, fields) => SentIn(k, key, fields)
    BY <1>2, <1>5, <1>6, OnItsWay
  <1>10. PICK m : m = Append(k, e)
    OBVIOUS
  <1>11. PICK r : r = Forgotten(s, e.key)
    OBVIOUS
  <1>12. k \o <<e>> = m
    BY <1>8, <1>9, <1>10
  <1>13. log' = [log EXCEPT ![run.gateway] = m]
    BY <1>4, <1>6, <1>7, <1>12 DEF Fail
  <1>14. replays' = [replays EXCEPT ![run.gateway] = r]
    BY <1>3, <1>8, <1>11 DEF Fail
  <1>15. runs' = runs \ {run} /\ calls' = Told(run, "failed") /\ "failed" \in Answers
    BY DEF Fail, Answers
  <1>16. m \in Seq(Happenings) /\ Sparing(m)
    <2>1. Sparing(l)
      BY <1>1, <1>2, <1>4 DEF BookInv
    <2> QED BY <1>8, <1>9, <1>10, <2>1, QuietSparing
  <1>17. \A key, fields : SentIn(l, key, fields) => SentIn(m, key, fields)
    BY <1>8, <1>9, <1>10, StillSent
  <1>20. CASE gateways[run.gateway].state = "stopped"
    <2>1. s = <<>>
      BY <1>1, <1>2, <1>3, <1>20 DEF BookInv
    <2>2. r = <<>>
      <3>1. Forgotten(<<>>, e.key) = <<>>
        BY StaysEmpty
      <3> QED BY <1>11, <2>1, <3>1, Zenon
    <2>3. r \in Seq(Entries) /\ Unique(r) /\ DOMAIN r = {} /\ DOMAIN s = {}
      BY <2>1, <2>2 DEF Unique
    <2>3a. OthersStay(s, r, run.key)
      BY <2>3 DEF OthersStay
    <2>4. Ending(run, "failed", r, m)
      BY <1>3, <1>4, <1>16, <1>17, <1>20, <2>2, <2>3, <2>3a DEF Ending
    <2> QED BY <1>13, <1>14, <1>15, <2>4, RunEnds
  <1>21. CASE gateways[run.gateway].state # "stopped"
    <2>1. CacheInv(s, k)
      BY <1>1, <1>2, <1>3, <1>4, <1>9, <1>21 DEF BookInv
    <2>3. CacheInv(r, m) /\ OthersStay(s, r, e.key)
      BY <1>8, <1>10, <1>11, <2>1, ForgottenCache
    <2>4. r \in Seq(Entries) /\ Unique(r)
      BY <2>3 DEF CacheInv, Core
    <2>5. Ending(run, "failed", r, m)
      BY <1>3, <1>4, <1>8, <1>16, <1>17, <1>21, <2>3, <2>4 DEF Ending
    <2> QED BY <1>13, <1>14, <1>15, <2>5, RunEnds
  <1> QED BY <1>20, <1>21

\* What a call is told at once, or is left to wait for.
LEMMA AskedKeeps ==
  ASSUME CallerInv, UNCHANGED <<gateways, replays, runs, log>>,
         NEW c \in Clicks, NEW request \in Requests, NEW g \in 0..MaxGateways,
         NEW at \in {"waiting", "settled"}, NEW answer \in Answers,
         Asked(c, request, g, at, answer),
         at = "waiting" => \E run \in runs : run.gateway = g /\ run.key = request.key /\ run.fields = request.fields,
         answer = "accepted" => g \in Gateways /\ SentIn(log[g], request.key, request.fields)
  PROVE  CallerInv'
  <1>1. PICK x : x = [request |-> request, gateway |-> g, at |-> at, answer |-> answer]
    OBVIOUS
  <1>2. x \in CallRecords /\ x.request = request /\ x.gateway = g /\ x.at = at /\ x.answer = answer
    BY <1>1 DEF CallRecords
  <1>3. calls' = [calls EXCEPT ![c] = x]
    BY <1>1 DEF Asked
  <1> QED BY <1>2, <1>3, OneCall

\* A command that is not remembered begins, and the call waits for it.
LEMMA BeginKeeps ==
  ASSUME IInv, UNCHANGED gateways, NEW c \in Clicks, NEW request \in Requests, NEW g \in Gateways,
         gateways[g].state = "running", Remembered(g, request.key) = {},
         NEW x, x = [key |-> request.key, fields |-> request.fields, pending |-> TRUE, result |-> "none"],
         replays' = [replays EXCEPT ![g] = Append(@, x)],
         NEW new, new = [gateway |-> g, key |-> request.key, fields |-> request.fields, at |-> "send"],
         runs' = runs \cup {new},
         log' = Log(g, "begun", request),
         Asked(c, request, g, "waiting", "none")
  PROVE  CallerInv'
  <1>1. CallerTypes /\ BookInv /\ RunsInv /\ CallsInv
    BY DEF IInv, CallerInv
  <1>2. request \in [key : Keys, fields : {1, 2}]
    BY DEF Requests
  <1>3. PICK s : s = replays[g]
    OBVIOUS
  <1>4. PICK l : l = log[g]
    OBVIOUS
  <1>5. PICK e : e = [what |-> "begun", key |-> request.key, fields |-> request.fields]
    OBVIOUS
  <1>6. e \in Happenings /\ e.what = "begun" /\ e.key = request.key
    BY <1>2, <1>5 DEF Happenings
  <1>7. x \in Entries /\ x.pending /\ x.key = e.key /\ x.fields = request.fields
    BY <1>2, <1>6 DEF Entries, Answers
  <1>8. new \in RunRecords /\ new.gateway = g /\ new.key = e.key /\ new.fields = request.fields /\ new.at = "send"
    BY <1>2, <1>6 DEF RunRecords
  <1>9. s \in Seq(Entries) /\ l \in Seq(Happenings)
    BY <1>1, <1>3, <1>4 DEF CallerTypes
  <1>10. \A p \in DOMAIN s : s[p].key # e.key
    <2>1. \A p \in DOMAIN s : s[p] \in ToSet(s)
      BY DEF ToSet
    <2> QED BY <1>3, <1>6, <2>1 DEF Remembered
  <1>11. CacheInv(s, l) /\ Sparing(l)
    BY <1>1, <1>3, <1>4 DEF BookInv
  <1>12. PICK t : t = Append(s, x)
    OBVIOUS
  <1>13. PICK m : m = Append(l, e)
    OBVIOUS
  <1>14. CacheInv(t, m) /\ Sparing(m)
    BY <1>6, <1>7, <1>10, <1>11, <1>12, <1>13, BegunCache, BegunSparing DEF CacheInv
  <1>15. replays'[g] = t /\ \A h \in Gateways : h # g => replays'[h] = replays[h]
    BY <1>1, <1>3, <1>12 DEF CallerTypes
  <1>16. log' = [log EXCEPT ![g] = m]
    BY <1>4, <1>5, <1>13 DEF Log
  <1>17. log'[g] = m /\ \A h \in Gateways : h # g => log'[h] = log[h]
    BY <1>1, <1>16 DEF CallerTypes
  <1>18. PICK y : y = [request |-> request, gateway |-> g, at |-> "waiting", answer |-> "none"]
    OBVIOUS
  <1>19. y \in CallRecords /\ y.request = request /\ y.gateway = g /\ y.at = "waiting" /\ y.answer = "none"
    <2>1. g \in 0..MaxGateways
      BY DEF Gateways
    <2> QED BY <1>18, <2>1 DEF CallRecords, Answers
  <1>20. calls' = [calls EXCEPT ![c] = y]
    BY <1>18 DEF Asked
  <1>21. calls'[c] = y /\ \A d \in Clicks : d # c => calls'[d] = calls[d]
    BY <1>1, <1>20 DEF CallerTypes
  <1>22. CallerTypes'
    <2>1. t \in Seq(Entries) /\ m \in Seq(Happenings)
      BY <1>14 DEF CacheInv, Core
    <2>2. replays' = [replays EXCEPT ![g] = t]
      BY <1>3, <1>12
    <2>3. replays' \in [Gateways -> Seq(Entries)]
      BY <1>1, <2>1, <2>2 DEF CallerTypes
    <2>4. log' \in [Gateways -> Seq(Happenings)]
      BY <1>1, <1>16, <2>1 DEF CallerTypes
    <2>5. calls' \in [Clicks -> CallRecords]
      BY <1>1, <1>19, <1>20 DEF CallerTypes
    <2>6. runs' \subseteq RunRecords
      BY <1>1, <1>8 DEF CallerTypes
    <2> QED BY <2>3, <2>4, <2>5, <2>6 DEF CallerTypes
  <1>23. BookInv'
    <2> SUFFICES ASSUME NEW h \in Gateways
                 PROVE  /\ Sparing(log'[h])
                        /\ gateways[h].state # "stopped" => CacheInv(replays'[h], log'[h])
                        /\ gateways[h].state = "stopped" => replays'[h] = <<>>
                        /\ gateways[h].state = "new" => replays'[h] = <<>> /\ log'[h] = <<>>
      BY DEF BookInv
    <2>1. CASE h = g
      BY <1>14, <1>15, <1>17, <2>1
    <2>2. CASE h # g
      <3>1. replays'[h] = replays[h] /\ log'[h] = log[h]
        BY <1>15, <1>17, <2>2
      <3> QED BY <1>1, <3>1 DEF BookInv
    <2> QED BY <2>1, <2>2
  <1>24. \A h \in Gateways : \A key, fields : SentIn(log[h], key, fields) => SentIn(log'[h], key, fields)
    <2>1. \A key, fields : SentIn(l, key, fields) => SentIn(m, key, fields)
      BY <1>6, <1>9, <1>13, StillSent
    <2> QED BY <1>4, <1>17, <2>1
  <1>25. \A run \in runs : run.gateway = g => run.key # e.key
    BY <1>1, <1>3, <1>10 DEF RunsInv
  <1>26. /\ DOMAIN t = 1..(Len(s) + 1) /\ DOMAIN s = 1..Len(s) /\ Len(s) \in Nat
         /\ t[Len(s) + 1] = x /\ \A n \in DOMAIN s : n \in DOMAIN t /\ t[n] = s[n]
    BY <1>7, <1>9, <1>12, OneMoreEntry
  <1>27. \A p \in DOMAIN t : p = Len(s) + 1 \/ p \in DOMAIN s
    BY <1>26
  <1>28. Len(s) + 1 \in DOMAIN t
    BY <1>26
  <1>29. RunsInv'
    <2>1. \A run, other \in runs' : run.gateway = other.gateway /\ run.key = other.key => run = other
      BY <1>1, <1>8, <1>25 DEF RunsInv
    <2>2. ASSUME NEW run \in runs'
          PROVE  /\ gateways[run.gateway].state # "new"
                 /\ gateways[run.gateway].state = "running" =>
                      \E p \in DOMAIN replays'[run.gateway] : replays'[run.gateway][p].key = run.key
                 /\ \A p \in DOMAIN replays'[run.gateway] :
                      replays'[run.gateway][p].key = run.key =>
                        replays'[run.gateway][p].pending /\ replays'[run.gateway][p].fields = run.fields
                 /\ run.at = "result" => SentIn(log'[run.gateway], run.key, run.fields)
      <3>1. CASE run = new
        <4>1. \A p \in DOMAIN t : t[p].key = e.key => p = Len(s) + 1
          BY <1>10, <1>26, <1>27
        <4>2. \A p \in DOMAIN t : t[p].key = run.key => t[p].pending /\ t[p].fields = run.fields
          BY <1>7, <1>8, <1>26, <3>1, <4>1
        <4>3. \E p \in DOMAIN t : t[p].key = run.key
          BY <1>7, <1>8, <1>26, <1>28, <3>1
        <4>4. run.gateway = g /\ replays'[run.gateway] = t /\ run.at # "result"
          BY <1>8, <1>15, <3>1
        <4>5. gateways[run.gateway].state # "new"
          BY <4>4
        <4> QED BY <4>2, <4>3, <4>4, <4>5
      <3>2. CASE run \in runs
        <4>1. /\ gateways[run.gateway].state # "new"
              /\ gateways[run.gateway].state = "running" =>
                   \E p \in DOMAIN replays[run.gateway] : replays[run.gateway][p].key = run.key
              /\ \A p \in DOMAIN replays[run.gateway] :
                   replays[run.gateway][p].key = run.key =>
                     replays[run.gateway][p].pending /\ replays[run.gateway][p].fields = run.fields
              /\ run.at = "result" => SentIn(log[run.gateway], run.key, run.fields)
          BY <1>1, <3>2 DEF RunsInv
        <4>2. run.gateway \in Gateways
          BY <1>1, <3>2 DEF CallerTypes, RunRecords
        <4>3. run.at = "result" => SentIn(log'[run.gateway], run.key, run.fields)
          BY <1>24, <4>1, <4>2
        <4>4. CASE run.gateway # g
          <5>1. replays'[run.gateway] = replays[run.gateway]
            BY <1>15, <4>2, <4>4
          <5> QED BY <4>1, <4>3, <5>1
        <4>5. CASE run.gateway = g
          <5>1. run.key # e.key
            BY <1>25, <3>2, <4>5
          <5>2. \A p \in DOMAIN t : t[p].key = run.key => p \in DOMAIN s /\ t[p] = s[p]
            BY <1>7, <1>26, <1>27, <5>1
          <5>3. \A p \in DOMAIN t : t[p].key = run.key => t[p].pending /\ t[p].fields = run.fields
            BY <1>3, <4>1, <4>5, <5>2
          <5>4. gateways[run.gateway].state = "running" => \E p \in DOMAIN t : t[p].key = run.key
            BY <1>3, <1>26, <4>1, <4>5
          <5> QED BY <1>15, <4>1, <4>3, <4>5, <5>3, <5>4, SMTT(30)
        <4> QED BY <4>4, <4>5
      <3> QED BY <2>2, <3>1, <3>2
    <2>3. ASSUME NEW h \in Gateways, NEW p \in DOMAIN replays'[h], replays'[h][p].pending
          PROVE  \E run \in runs' : run.gateway = h /\ run.key = replays'[h][p].key
      <3>1. CASE h = g /\ p = Len(s) + 1
        <4>1. replays'[h][p].key = e.key
          BY <1>7, <1>15, <1>26, <3>1
        <4> QED BY <1>8, <3>1, <4>1
      <3>2. CASE h # g \/ p # Len(s) + 1
        <4>1. p \in DOMAIN replays[h] /\ replays'[h][p] = replays[h][p]
          BY <1>3, <1>15, <1>26, <1>27, <2>3, <3>2
        <4>2. \E run \in runs : run.gateway = h /\ run.key = replays[h][p].key
          BY <1>1, <2>3, <4>1 DEF RunsInv
        <4> QED BY <4>1, <4>2
      <3> QED BY <3>1, <3>2
    <2> QED BY <2>1, <2>2, <2>3 DEF RunsInv
  <1>30. CallsInv'
    <2> SUFFICES ASSUME NEW d \in Clicks
                 PROVE  /\ calls'[d].at = "waiting" =>
                             \E run \in runs' : /\ run.gateway = calls'[d].gateway
                                                /\ run.key = calls'[d].request.key
                                                /\ run.fields = calls'[d].request.fields
                        /\ calls'[d].answer = "accepted" =>
                             /\ calls'[d].gateway \in Gateways
                             /\ SentIn(log'[calls'[d].gateway], calls'[d].request.key, calls'[d].request.fields)
      BY DEF CallsInv
    <2>1. CASE d = c
      <3>1. new \in runs'
        OBVIOUS
      <3> QED BY <1>6, <1>8, <1>19, <1>21, <2>1, <3>1
    <2>2. CASE d # c
      <3>1. calls'[d] = calls[d]
        BY <1>21, <2>2
      <3>2. /\ calls[d].at = "waiting" =>
                 \E run \in runs : /\ run.gateway = calls[d].gateway /\ run.key = calls[d].request.key
                                   /\ run.fields = calls[d].request.fields
            /\ calls[d].answer = "accepted" =>
                 /\ calls[d].gateway \in Gateways
                 /\ SentIn(log[calls[d].gateway], calls[d].request.key, calls[d].request.fields)
        BY <1>1 DEF CallsInv
      <3> QED BY <1>24, <3>1, <3>2
    <2> QED BY <2>1, <2>2
  <1> QED BY <1>22, <1>23, <1>29, <1>30 DEF CallerInv

\* A call is served: refused, answered from memory, left to wait, or its command begins.
LEMMA AskKeeps ==
  ASSUME IInv, NEW c \in Clicks, NEW request \in Requests, Ask(c, request)
  PROVE  CallerInv'
  <1>1. CallerInv /\ FrontTypes /\ CallerTypes /\ BookInv /\ RunsInv
    BY DEF IInv, CallerInv, FrontInv
  <1>2. UNCHANGED gateways
    BY DEF Ask
  <1>3. {"failed", "refused", "none"} \subseteq Answers
    BY DEF Answers
  <1>4. delegate \in 0..MaxGateways /\ 0 \in 0..MaxGateways
    BY <1>1, Bounds DEF FrontTypes
  <1>5. delegate # 0 => delegate \in Gateways /\ gateways[delegate].state = "running"
    BY <1>1, Bounds DEF FrontTypes, Gateways
  <1>6. CASE /\ \/ Asked(c, request, 0, "settled", "failed")
                \/ Asked(c, request, 0, "settled", "refused")
             /\ UNCHANGED <<replays, runs, log>>
    BY <1>1, <1>2, <1>3, <1>4, <1>6, AskedKeeps
  <1>7. ASSUME delegate # 0, NEW entry \in Remembered(delegate, request.key),
               IF Collides(entry, request) THEN Asked(c, request, delegate, "settled", "failed")
               ELSE IF entry.pending THEN Asked(c, request, delegate, "waiting", "none")
               ELSE Asked(c, request, delegate, "settled", entry.result),
               UNCHANGED <<replays, runs, log>>
        PROVE  CallerInv'
    <2>1. PICK p \in DOMAIN replays[delegate] : replays[delegate][p] = entry
      BY <1>7 DEF Remembered, ToSet
    <2>2. entry.key = request.key
      BY <1>7 DEF Remembered
    <2>3. entry \in Entries
      <3>1. replays[delegate] \in Seq(Entries)
        BY <1>1, <1>5, <1>7 DEF CallerTypes
      <3> QED BY <2>1, <3>1
    <2>4. CASE Collides(entry, request)
      BY <1>1, <1>2, <1>3, <1>4, <1>7, <2>4, AskedKeeps
    <2>5. CASE ~Collides(entry, request) /\ entry.pending
      <3>1. entry.fields = request.fields
        BY <2>5 DEF Collides
      <3>2. PICK run \in runs : run.gateway = delegate /\ run.key = entry.key
        BY <1>1, <1>5, <1>7, <2>1, <2>5 DEF RunsInv
      <3>3. run.fields = entry.fields
        BY <1>1, <2>1, <3>2 DEF RunsInv
      <3>4. Asked(c, request, delegate, "waiting", "none")
        BY <1>7, <2>5
      <3> QED BY <1>1, <1>2, <1>3, <1>4, <1>7, <2>2, <3>1, <3>2, <3>3, <3>4, AskedKeeps
    <2>6. CASE ~Collides(entry, request) /\ ~entry.pending
      <3>1. entry.fields = request.fields
        BY <2>6 DEF Collides
      <3>2. entry.result \in Answers
        BY <2>3 DEF Entries
      <3>3. Booked(replays[delegate], log[delegate])
        BY <1>1, <1>5, <1>7 DEF BookInv, CacheInv, Core
      <3>4. entry.result = "accepted" => SentIn(log[delegate], request.key, request.fields)
        BY <2>1, <2>2, <2>6, <3>1, <3>3 DEF Booked
      <3>5. Asked(c, request, delegate, "settled", entry.result)
        BY <1>7, <2>6
      <3>6. PICK answer \in Answers : answer = entry.result
        BY <3>2
      <3>7. /\ Asked(c, request, delegate, "settled", answer)
            /\ answer = "accepted" => delegate \in Gateways /\ SentIn(log[delegate], request.key, request.fields)
        BY <1>5, <1>7, <3>4, <3>5, <3>6
      <3>8. UNCHANGED <<gateways, replays, runs, log>>
        BY <1>2, <1>7
      <3> QED BY <1>1, <1>4, <3>7, <3>8, AskedKeeps
    <2> QED BY <2>4, <2>5, <2>6
  <1>8. ASSUME delegate # 0, Remembered(delegate, request.key) = {},
               replays' = [replays EXCEPT ![delegate] =
                 Append(@, [key |-> request.key, fields |-> request.fields,
                            pending |-> TRUE, result |-> "none"])],
               runs' = runs \cup {[gateway |-> delegate, key |-> request.key, fields |-> request.fields,
                                   at |-> "send"]},
               log' = Log(delegate, "begun", request),
               Asked(c, request, delegate, "waiting", "none")
        PROVE  CallerInv'
    <2>1. PICK x : x = [key |-> request.key, fields |-> request.fields, pending |-> TRUE, result |-> "none"]
      OBVIOUS
    <2>2. PICK new : new = [gateway |-> delegate, key |-> request.key, fields |-> request.fields, at |-> "send"]
      OBVIOUS
    <2>3. replays' = [replays EXCEPT ![delegate] = Append(@, x)] /\ runs' = runs \cup {new}
      BY <1>8, <2>1, <2>2
    <2> QED BY <1>2, <1>5, <1>8, <2>1, <2>2, <2>3, BeginKeeps
  <1>9. CASE /\ delegate # 0
             /\ \E entry \in Remembered(delegate, request.key) :
                  IF Collides(entry, request) THEN Asked(c, request, delegate, "settled", "failed")
                  ELSE IF entry.pending THEN Asked(c, request, delegate, "waiting", "none")
                  ELSE Asked(c, request, delegate, "settled", entry.result)
             /\ UNCHANGED <<replays, runs, log>>
    BY <1>7, <1>9
  <1>10. CASE /\ delegate # 0 /\ Remembered(delegate, request.key) = {}
              /\ replays' = [replays EXCEPT ![delegate] =
                   Append(@, [key |-> request.key, fields |-> request.fields,
                              pending |-> TRUE, result |-> "none"])]
              /\ runs' = runs \cup {[gateway |-> delegate, key |-> request.key,
                                     fields |-> request.fields, at |-> "send"]}
              /\ log' = Log(delegate, "begun", request)
              /\ Asked(c, request, delegate, "waiting", "none")
    BY <1>8, <1>10
  <1> QED BY <1>6, <1>9, <1>10 DEF Ask, Refused

\* A command is on its way, or over.
LEMMA RunKeeps ==
  ASSUME IInv, NEW run \in runs, Refuse(run) \/ SendDone(run) \/ SendFails(run) \/ Result(run)
  PROVE  CallerInv'
  <1>1. CallerInv /\ CallerTypes /\ BookInv /\ RunsInv /\ CallsInv
    BY DEF IInv, CallerInv
  <1>2. UNCHANGED gateways
    BY DEF Refuse, SendDone, SendFails, Result
  <1>3. "accepted" \in Answers /\ "refused" \in Answers
    BY DEF Answers
  <1>4. <<>> \in {<<>>, Sent(run)} /\ Sent(run) \in {<<>>, Sent(run)}
    OBVIOUS
  <1>5. CASE Refuse(run)
    <2>1. Complete(run, "refused", <<>>)
      BY <1>5 DEF Refuse
    <2> QED BY <1>2, <1>3, <1>4, <2>1, CompleteKeeps
  <1>6. CASE SendDone(run) /\ run.key \in Commands
    <2>1. Complete(run, "accepted", Sent(run))
      BY <1>6 DEF SendDone
    <2> QED BY <1>2, <1>3, <1>4, <2>1, CompleteKeeps
  <1>7. CASE SendDone(run) /\ run.key \notin Commands
    <2>1. PICK new : new = [run EXCEPT !.at = "result"]
      OBVIOUS
    <2>2. /\ runs' = (runs \ {run}) \cup {new} /\ log' = Log(run.gateway, "sent", run)
          /\ UNCHANGED <<replays, calls>> /\ run.at = "send"
      BY <1>7, <2>1 DEF SendDone
    <2>3. run \in RunRecords /\ run.gateway \in Gateways
      BY <1>1 DEF CallerTypes, RunRecords
    <2>4. /\ new \in RunRecords /\ new.gateway = run.gateway /\ new.key = run.key
          /\ new.fields = run.fields /\ new.at = "result"
      BY <2>1, <2>3 DEF RunRecords
    <2>5. PICK l : l = log[run.gateway]
      OBVIOUS
    <2>6. PICK e : e = [what |-> "sent", key |-> run.key, fields |-> run.fields]
      OBVIOUS
    <2>7. e \in Happenings /\ e.what = "sent" /\ e.key = run.key /\ e.fields = run.fields
      BY <2>3, <2>6 DEF Happenings, RunRecords
    <2>8. PICK m : m = Append(l, e)
      OBVIOUS
    <2>9. log' = [log EXCEPT ![run.gateway] = m]
      BY <2>2, <2>5, <2>6, <2>8 DEF Log
    <2>10. l \in Seq(Happenings) /\ m \in Seq(Happenings)
      BY <1>1, <2>3, <2>5, <2>7, <2>8, OneMore DEF CallerTypes
    <2>11. log'[run.gateway] = m /\ \A h \in Gateways : h # run.gateway => log'[h] = log[h]
      BY <1>1, <2>3, <2>9 DEF CallerTypes
    <2>12. \A h \in Gateways : \A key, fields : SentIn(log[h], key, fields) => SentIn(log'[h], key, fields)
      <3>1. \A key, fields : SentIn(l, key, fields) => SentIn(m, key, fields)
        BY <2>7, <2>8, <2>10, StillSent
      <3> QED BY <2>5, <2>11, <3>1
    <2>13. SentIn(m, run.key, run.fields)
      BY <2>7, <2>8, <2>10, NowSent
    <2>14. CallerTypes'
      <3>1. log' \in [Gateways -> Seq(Happenings)]
        BY <1>1, <2>9, <2>10 DEF CallerTypes
      <3>2. runs' \subseteq RunRecords
        BY <1>1, <2>2, <2>4 DEF CallerTypes
      <3> QED BY <1>1, <2>2, <3>1, <3>2 DEF CallerTypes
    <2>15. BookInv'
      <3> SUFFICES ASSUME NEW h \in Gateways
                   PROVE  /\ Sparing(log'[h])
                          /\ gateways[h].state # "stopped" => CacheInv(replays[h], log'[h])
                          /\ gateways[h].state = "stopped" => replays[h] = <<>>
                          /\ gateways[h].state = "new" => replays[h] = <<>> /\ log'[h] = <<>>
        BY <1>2, <2>2 DEF BookInv
      <3>1. /\ Sparing(log[h])
            /\ gateways[h].state # "stopped" => CacheInv(replays[h], log[h])
            /\ gateways[h].state = "stopped" => replays[h] = <<>>
            /\ gateways[h].state = "new" => replays[h] = <<>> /\ log[h] = <<>>
        BY <1>1 DEF BookInv
      <3>2. CASE h = run.gateway
        <4>1. gateways[h].state # "new"
          BY <1>1, <3>2 DEF RunsInv
        <4>2. e.what # "begun"
          BY <2>7
        <4>3. Sparing(m)
          BY <2>5, <2>7, <2>8, <2>10, <3>1, <3>2, <4>2, QuietSparing
        <4>4. gateways[h].state # "stopped" => CacheInv(replays[h], m)
          BY <2>5, <2>7, <2>8, <3>1, <3>2, SentCache
        <4> QED BY <2>11, <3>1, <3>2, <4>1, <4>3, <4>4
      <3>3. CASE h # run.gateway
        <4>1. log'[h] = log[h]
          BY <2>11, <3>3
        <4> QED BY <3>1, <4>1
      <3> QED BY <3>2, <3>3
    <2>16. RunsInv'
      <3>1. \A one, other \in runs' : one.gateway = other.gateway /\ one.key = other.key => one = other
        BY <1>1, <2>2, <2>4 DEF RunsInv
      <3>2. ASSUME NEW other \in runs'
            PROVE  /\ gateways[other.gateway].state # "new"
                   /\ gateways[other.gateway].state = "running" =>
                        \E p \in DOMAIN replays[other.gateway] : replays[other.gateway][p].key = other.key
                   /\ \A p \in DOMAIN replays[other.gateway] :
                        replays[other.gateway][p].key = other.key =>
                          replays[other.gateway][p].pending /\ replays[other.gateway][p].fields = other.fields
                   /\ other.at = "result" => SentIn(log'[other.gateway], other.key, other.fields)
        <4>1. PICK old \in runs : /\ old.gateway = other.gateway /\ old.key = other.key
                                  /\ old.fields = other.fields /\ (other = old \/ other = new)
          BY <2>2, <2>4, <3>2
        <4>2. old.gateway \in Gateways
          BY <1>1 DEF CallerTypes, RunRecords
        <4>3. /\ gateways[old.gateway].state # "new"
              /\ gateways[old.gateway].state = "running" =>
                   \E p \in DOMAIN replays[old.gateway] : replays[old.gateway][p].key = old.key
              /\ \A p \in DOMAIN replays[old.gateway] :
                   replays[old.gateway][p].key = old.key =>
                     replays[old.gateway][p].pending /\ replays[old.gateway][p].fields = old.fields
              /\ old.at = "result" => SentIn(log[old.gateway], old.key, old.fields)
          BY <1>1 DEF RunsInv
        <4>4. other.at = "result" => SentIn(log'[other.gateway], other.key, other.fields)
          <5>1. CASE other = old
            BY <2>12, <4>2, <4>3, <5>1
          <5>2. CASE other = new
            BY <2>4, <2>11, <2>13, <5>2
          <5> QED BY <4>1, <5>1, <5>2
        <4> QED BY <4>1, <4>3, <4>4
      <3>3. ASSUME NEW h \in Gateways, NEW p \in DOMAIN replays[h], replays[h][p].pending
            PROVE  \E other \in runs' : other.gateway = h /\ other.key = replays[h][p].key
        <4>1. PICK old \in runs : old.gateway = h /\ old.key = replays[h][p].key
          BY <1>1, <3>3 DEF RunsInv
        <4>2. CASE old = run
          BY <2>2, <2>4, <4>1, <4>2
        <4>3. CASE old # run
          <5>1. old \in runs'
            BY <2>2, <4>3
          <5> QED BY <4>1, <5>1
        <4> QED BY <4>2, <4>3
      <3>4. replays' = replays /\ gateways' = gateways
        BY <1>2, <2>2
      <3> QED BY <3>1, <3>2, <3>3, <3>4 DEF RunsInv
    <2>17. CallsInv'
      <3> SUFFICES ASSUME NEW c \in Clicks
                   PROVE  /\ calls[c].at = "waiting" =>
                               \E other \in runs' : /\ other.gateway = calls[c].gateway
                                                    /\ other.key = calls[c].request.key
                                                    /\ other.fields = calls[c].request.fields
                          /\ calls[c].answer = "accepted" =>
                               /\ calls[c].gateway \in Gateways
                               /\ SentIn(log'[calls[c].gateway], calls[c].request.key, calls[c].request.fields)
        BY <2>2 DEF CallsInv
      <3>1. ASSUME calls[c].at = "waiting"
            PROVE  \E other \in runs' : /\ other.gateway = calls[c].gateway
                                        /\ other.key = calls[c].request.key
                                        /\ other.fields = calls[c].request.fields
        <4>1. PICK old \in runs : /\ old.gateway = calls[c].gateway /\ old.key = calls[c].request.key
                                  /\ old.fields = calls[c].request.fields
          BY <1>1, <3>1 DEF CallsInv
        <4>2. CASE old = run
          BY <2>2, <2>4, <4>1, <4>2
        <4>3. CASE old # run
          <5>1. old \in runs'
            BY <2>2, <4>3
          <5> QED BY <4>1, <5>1
        <4> QED BY <4>2, <4>3
      <3>2. calls[c].answer = "accepted" =>
              /\ calls[c].gateway \in Gateways
              /\ SentIn(log[calls[c].gateway], calls[c].request.key, calls[c].request.fields)
        BY <1>1 DEF CallsInv
      <3> QED BY <2>12, <3>1, <3>2
    <2> QED BY <2>14, <2>15, <2>16, <2>17 DEF CallerInv
  <1>8. CASE SendFails(run)
    <2>1. PICK history \in {<<>>, Sent(run)} : Fail(run, history)
      BY <1>8 DEF SendFails
    <2> QED BY <1>2, <2>1, FailKeeps
  <1>9. CASE Result(run)
    <2>1. CASE Complete(run, "accepted", <<>>)
      <3>1. run.at = "result"
        BY <1>9 DEF Result
      <3> QED BY <1>2, <1>3, <1>4, <2>1, <3>1, CompleteKeeps
    <2>2. CASE Fail(run, <<>>)
      BY <1>2, <1>4, <2>2, FailKeeps
    <2> QED BY <1>9, <2>1, <2>2 DEF Result
  <1> QED BY <1>5, <1>6, <1>7, <1>8, <1>9

\* A client that gives up is told nothing.
LEMMA CallTimeoutKeeps ==
  ASSUME IInv, NEW c \in Clicks, CallTimeout(c)
  PROVE  CallerInv'
  <1>1. CallerInv /\ CallerTypes
    BY DEF IInv, CallerInv
  <1>2. calls[c] \in CallRecords
    BY <1>1 DEF CallerTypes
  <1>3. PICK y : y = [calls[c] EXCEPT !.at = "settled"]
    OBVIOUS
  <1>4. y \in CallRecords /\ y.at = "settled"
    BY <1>2, <1>3 DEF CallRecords
  <1>5. PICK x : x = [y EXCEPT !.answer = "failed"]
    OBVIOUS
  <1>6. x \in CallRecords /\ x.at = "settled" /\ x.answer = "failed"
    BY <1>4, <1>5 DEF CallRecords, Answers
  <1>7. calls' = [calls EXCEPT ![c].at = "settled", ![c].answer = "failed"]
    BY DEF CallTimeout
  <1>8. calls' = [calls EXCEPT ![c] = x]
    BY <1>1, <1>3, <1>5, <1>7 DEF CallerTypes
  <1>9. UNCHANGED <<gateways, replays, runs, log>>
    BY DEF CallTimeout
  <1> QED BY <1>1, <1>6, <1>8, <1>9, OneCall

\* A new connection has a gateway that remembers nothing.
LEMMA AttachCaller ==
  ASSUME IInv, NEW g \in Gateways, Attach(g)
  PROVE  CallerInv'
  <1>1. CallerInv /\ CallerTypes /\ BookInv /\ RunsInv /\ CallsInv /\ FrontTypes
    BY DEF IInv, CallerInv, FrontInv
  <1>2. /\ UNCHANGED <<replays, runs, calls, log>> /\ gateways[g].state = "new"
        /\ gateways' = [gateways EXCEPT ![g] = [state |-> "running", link |-> TRUE]]
    BY DEF Attach, callerVars
  <1>3. gateways'[g].state = "running" /\ \A h \in Gateways : h # g => gateways'[h] = gateways[h]
    BY <1>1, <1>2 DEF FrontTypes
  <1>4. replays[g] = <<>> /\ log[g] = <<>>
    BY <1>1, <1>2 DEF BookInv
  <1>5. BookInv'
    <2> SUFFICES ASSUME NEW h \in Gateways
                 PROVE  /\ Sparing(log[h])
                        /\ gateways'[h].state # "stopped" => CacheInv(replays[h], log[h])
                        /\ gateways'[h].state = "stopped" => replays[h] = <<>>
                        /\ gateways'[h].state = "new" => replays[h] = <<>> /\ log[h] = <<>>
      BY <1>2 DEF BookInv
    <2>1. CASE h = g
      BY <1>3, <1>4, <2>1, EmptyCache
    <2>2. CASE h # g
      <3>1. gateways'[h] = gateways[h]
        BY <1>3, <2>2
      <3> QED BY <1>1, <3>1 DEF BookInv
    <2> QED BY <2>1, <2>2
  <1>6. \A run \in runs : run.gateway \in Gateways /\ run.gateway # g
    BY <1>1, <1>2 DEF CallerTypes, RunRecords, RunsInv
  <1>7. \A run \in runs : gateways'[run.gateway] = gateways[run.gateway]
    BY <1>3, <1>6
  <1>8. RunsInv'
    BY <1>1, <1>2, <1>7 DEF RunsInv
  <1>9. CallerTypes' /\ CallsInv'
    BY <1>1, <1>2 DEF CallerTypes, CallsInv
  <1> QED BY <1>5, <1>8, <1>9 DEF CallerInv

\* A lost connection leaves its gateway running, for the time being.
LEMMA LinkLostCaller ==
  ASSUME IInv, LinkLost
  PROVE  CallerInv'
  <1>1. CallerInv /\ CallerTypes /\ BookInv /\ RunsInv /\ CallsInv /\ FrontTypes
    BY DEF IInv, CallerInv, FrontInv
  <1>2. /\ UNCHANGED <<replays, runs, calls, log>> /\ delegate # 0
        /\ gateways' = [gateways EXCEPT ![delegate].link = FALSE]
    BY DEF LinkLost, callerVars
  <1>3. delegate \in Gateways
    BY <1>1, <1>2, Bounds DEF FrontTypes, Gateways
  <1>4. \A h \in Gateways : gateways'[h].state = gateways[h].state
    BY <1>1, <1>2, <1>3 DEF FrontTypes
  <1>5. BookInv'
    BY <1>1, <1>2, <1>4 DEF BookInv
  <1>6. \A run \in runs : run.gateway \in Gateways
    BY <1>1 DEF CallerTypes, RunRecords
  <1>7. \A run \in runs : gateways'[run.gateway].state = gateways[run.gateway].state
    BY <1>4, <1>6
  <1>8. RunsInv'
    BY <1>1, <1>2, <1>7 DEF RunsInv
  <1>9. CallerTypes' /\ CallsInv'
    BY <1>1, <1>2 DEF CallerTypes, CallsInv
  <1> QED BY <1>5, <1>8, <1>9 DEF CallerInv

\* A gateway that has stopped remembers nothing; its commands are still being carried out.
LEMMA GatewayStopsCaller ==
  ASSUME IInv, NEW g \in Gateways, GatewayStops(g)
  PROVE  CallerInv'
  <1>1. CallerInv /\ CallerTypes /\ BookInv /\ RunsInv /\ CallsInv /\ FrontTypes
    BY DEF IInv, CallerInv, FrontInv
  <1>2. /\ UNCHANGED <<runs, calls, log>> /\ gateways[g].state = "running"
        /\ gateways' = [gateways EXCEPT ![g].state = "stopped"]
        /\ replays' = [replays EXCEPT ![g] = <<>>]
    BY DEF GatewayStops
  <1>3. gateways'[g].state = "stopped" /\ \A h \in Gateways : h # g => gateways'[h] = gateways[h]
    BY <1>1, <1>2 DEF FrontTypes
  <1>4. replays'[g] = <<>> /\ \A h \in Gateways : h # g => replays'[h] = replays[h]
    BY <1>1, <1>2 DEF CallerTypes
  <1>5. CallerTypes'
    <2>1. <<>> \in Seq(Entries)
      OBVIOUS
    <2> QED BY <1>1, <1>2, <2>1 DEF CallerTypes
  <1>6. BookInv'
    <2> SUFFICES ASSUME NEW h \in Gateways
                 PROVE  /\ Sparing(log[h])
                        /\ gateways'[h].state # "stopped" => CacheInv(replays'[h], log[h])
                        /\ gateways'[h].state = "stopped" => replays'[h] = <<>>
                        /\ gateways'[h].state = "new" => replays'[h] = <<>> /\ log[h] = <<>>
      BY <1>2 DEF BookInv
    <2>1. Sparing(log[h])
      BY <1>1 DEF BookInv
    <2>2. CASE h = g
      BY <1>3, <1>4, <2>1, <2>2
    <2>3. CASE h # g
      <3>1. gateways'[h] = gateways[h] /\ replays'[h] = replays[h]
        BY <1>3, <1>4, <2>3
      <3> QED BY <1>1, <3>1 DEF BookInv
    <2> QED BY <2>2, <2>3
  <1>7. RunsInv'
    <2>1. \A run, other \in runs : run.gateway = other.gateway /\ run.key = other.key => run = other
      BY <1>1 DEF RunsInv
    <2>2. ASSUME NEW run \in runs
          PROVE  /\ gateways'[run.gateway].state # "new"
                 /\ gateways'[run.gateway].state = "running" =>
                      \E p \in DOMAIN replays'[run.gateway] : replays'[run.gateway][p].key = run.key
                 /\ \A p \in DOMAIN replays'[run.gateway] :
                      replays'[run.gateway][p].key = run.key =>
                        replays'[run.gateway][p].pending /\ replays'[run.gateway][p].fields = run.fields
                 /\ run.at = "result" => SentIn(log[run.gateway], run.key, run.fields)
      <3>1. /\ gateways[run.gateway].state # "new"
            /\ gateways[run.gateway].state = "running" =>
                 \E p \in DOMAIN replays[run.gateway] : replays[run.gateway][p].key = run.key
            /\ \A p \in DOMAIN replays[run.gateway] :
                 replays[run.gateway][p].key = run.key =>
                   replays[run.gateway][p].pending /\ replays[run.gateway][p].fields = run.fields
            /\ run.at = "result" => SentIn(log[run.gateway], run.key, run.fields)
        BY <1>1 DEF RunsInv
      <3>2. CASE run.gateway = g
        <4>1. DOMAIN replays'[run.gateway] = {}
          BY <1>4, <3>2
        <4>2. gateways'[run.gateway].state = "stopped"
          BY <1>3, <3>2
        <4> QED BY <3>1, <4>1, <4>2
      <3>3. CASE run.gateway # g
        <4>1. run.gateway \in Gateways
          BY <1>1 DEF CallerTypes, RunRecords
        <4>2. gateways'[run.gateway] = gateways[run.gateway] /\ replays'[run.gateway] = replays[run.gateway]
          BY <1>3, <1>4, <3>3, <4>1
        <4> QED BY <3>1, <4>2
      <3> QED BY <3>2, <3>3
    <2>3. ASSUME NEW h \in Gateways, NEW p \in DOMAIN replays'[h], replays'[h][p].pending
          PROVE  \E run \in runs : run.gateway = h /\ run.key = replays'[h][p].key
      <3>1. h # g
        <4>1. ASSUME h = g PROVE FALSE
          <5>1. DOMAIN replays'[h] = {}
            BY <1>4, <4>1
          <5> QED BY <2>3, <5>1
        <4> QED BY <4>1
      <3>2. replays'[h] = replays[h]
        BY <1>4, <3>1
      <3> QED BY <1>1, <2>3, <3>2 DEF RunsInv
    <2> QED BY <1>2, <2>1, <2>2, <2>3 DEF RunsInv
  <1>8. CallsInv'
    BY <1>1, <1>2 DEF CallsInv
  <1> QED BY <1>5, <1>6, <1>7, <1>8 DEF CallerInv

\* With the daemon everything that was remembered and asked for is gone.
LEMMA DaemonStopsCaller ==
  ASSUME IInv, DaemonStops
  PROVE  CallerInv'
  <1>1. CallerInv /\ CallerTypes /\ BookInv /\ CallsInv /\ FrontTypes
    BY DEF IInv, CallerInv, FrontInv
  <1>2. /\ replays' = [g \in Gateways |-> <<>>] /\ runs' = {} /\ log' = log
        /\ gateways' = [g \in Gateways |-> IF gateways[g].state = "new" THEN gateways[g]
                                           ELSE [state |-> "stopped", link |-> FALSE]]
        /\ calls' = [c \in Clicks |->
                       IF calls[c].at \in {"idle", "settled"} THEN calls[c]
                       ELSE [calls[c] EXCEPT !.at = "settled", !.answer = "failed"]]
    BY DEF DaemonStops
  <1>3. <<>> \in Seq(Entries) /\ DOMAIN <<>> = {}
    OBVIOUS
  <1>4. \A x \in CallRecords : /\ [x EXCEPT !.at = "settled", !.answer = "failed"] \in CallRecords
                               /\ [x EXCEPT !.at = "settled", !.answer = "failed"].at = "settled"
                               /\ [x EXCEPT !.at = "settled", !.answer = "failed"].answer = "failed"
    BY DEF CallRecords, Answers
  <1>5. ASSUME NEW c \in Clicks
        PROVE  /\ calls'[c] \in CallRecords /\ calls'[c].at # "waiting"
               /\ calls'[c] = calls[c] \/ calls'[c].answer = "failed"
    <2>1. calls[c] \in CallRecords
      BY <1>1 DEF CallerTypes
    <2>2. CASE calls[c].at \in {"idle", "settled"}
      <3>1. calls'[c] = calls[c]
        BY <1>2, <2>2
      <3> QED BY <2>1, <2>2, <3>1
    <2>3. CASE calls[c].at \notin {"idle", "settled"}
      <3>1. calls'[c] = [calls[c] EXCEPT !.at = "settled", !.answer = "failed"]
        BY <1>2, <2>3
      <3>2. LET x == calls[c] IN
            /\ [x EXCEPT !.at = "settled", !.answer = "failed"] \in CallRecords
            /\ [x EXCEPT !.at = "settled", !.answer = "failed"].at = "settled"
            /\ [x EXCEPT !.at = "settled", !.answer = "failed"].answer = "failed"
        BY <1>4, <2>1
      <3>3. calls'[c] \in CallRecords /\ calls'[c].at = "settled" /\ calls'[c].answer = "failed"
        BY <3>1, <3>2, Zenon
      <3> QED BY <3>3
    <2> QED BY <2>2, <2>3
  <1>6. CallerTypes'
    <2>1. calls' \in [Clicks -> CallRecords]
      BY <1>2, <1>5
    <2> QED BY <1>1, <1>2, <1>3, <2>1 DEF CallerTypes
  <1>7. BookInv'
    <2> SUFFICES ASSUME NEW h \in Gateways
                 PROVE  /\ Sparing(log[h])
                        /\ gateways'[h].state # "stopped" => CacheInv(replays'[h], log[h])
                        /\ gateways'[h].state = "stopped" => replays'[h] = <<>>
                        /\ gateways'[h].state = "new" => replays'[h] = <<>> /\ log[h] = <<>>
      BY <1>2 DEF BookInv
    <2>1. Sparing(log[h]) /\ (gateways[h].state = "new" => log[h] = <<>>)
      BY <1>1 DEF BookInv
    <2>2. replays'[h] = <<>>
      BY <1>2
    <2>3. gateways'[h].state = IF gateways[h].state = "new" THEN "new" ELSE "stopped"
      BY <1>2
    <2> QED BY <2>1, <2>2, <2>3, EmptyCache
  <1>8. RunsInv'
    <2>1. \A h \in Gateways : DOMAIN replays'[h] = {}
      BY <1>2, <1>3
    <2> QED BY <1>2, <2>1 DEF RunsInv
  <1>9. CallsInv'
    <2> SUFFICES ASSUME NEW c \in Clicks, calls'[c].answer = "accepted"
                 PROVE  /\ calls'[c].gateway \in Gateways
                        /\ SentIn(log[calls'[c].gateway], calls'[c].request.key, calls'[c].request.fields)
      BY <1>2, <1>5 DEF CallsInv
    <2>1. calls'[c] = calls[c]
      BY <1>5
    <2> QED BY <1>1, <2>1 DEF CallsInv
  <1> QED BY <1>6, <1>7, <1>8, <1>9 DEF CallerInv

-----------------------------------------------------------------------------
(* The phone's calls and the desktop *)

\* What a client asks for leaves the phone's call and the desktop as they are.
LEMMA FrontKept ==
  ASSUME FrontInv, UNCHANGED <<scene, daemon, delegate, gateways, callVars, deskVars, count>>
  PROVE  FrontInv'
  BY DEF FrontInv, FrontTypes, PhoneInv, DeskInv, Status, Refused, callVars, deskVars

\* An event goes to a desktop that is up.
LEMMA Announced ==
  ASSUME FrontInv, Broadcast
  PROVE  events' \in Nat /\ (stream.at = "up" => events' # 0)
  <1>1. events \in Nat /\ scene \in {"caller", "desktop"} /\ (scene = "caller" => stream.at = "down")
    BY DEF FrontInv, FrontTypes, DeskInv
  <1>2. events' = IF scene = "desktop" /\ stream.at \in {"acking", "up"} THEN events + 1 ELSE events
    BY DEF Broadcast
  <1> QED BY <1>1, <1>2

\* While an event is on its way to the desktop nothing need be shown yet.
LEMMA StillToShow ==
  ASSUME FrontInv, UNCHANGED <<scene, stream, syncs, notified>>, stream.at = "up" => events' # 0
  PROVE  DeskInv'
  BY DEF FrontInv, DeskInv

\* The phone's id is one of those that have rung.
LEMMA Ids ==
  ASSUME FrontInv
  PROVE  /\ Quiet \in CallStates /\ ~Quiet.ringing /\ Quiet.id = 0
         /\ \A x \in CallStates : x.ringing \in BOOLEAN /\ x.id \in 0..MaxRings
         /\ \A x \in CallStates : x.ringing => x \in [id : 1..MaxRings, ringing : BOOLEAN]
         /\ \A id \in 1..MaxRings : \A b \in BOOLEAN : [id |-> id, ringing |-> b] \in CallStates
         /\ Unread \notin CallStates
  <1>1. Quiet \in CallStates /\ Quiet.ringing = FALSE /\ Quiet.id = 0
    BY DEF CallStates, Quiet
  <1>2. ASSUME NEW x \in CallStates
        PROVE  /\ x.ringing \in BOOLEAN /\ x.id \in 0..MaxRings
               /\ x.ringing => x \in [id : 1..MaxRings, ringing : BOOLEAN]
    <2>1. CASE x = Quiet
      <3>1. x.ringing = FALSE /\ x.id = 0
        BY <1>1, <2>1
      <3>2. 0 \in 0..MaxRings
        BY Bounds
      <3> QED BY <3>1, <3>2
    <2>2. CASE x \in [id : 1..MaxRings, ringing : BOOLEAN]
      BY <2>2, Bounds
    <2> QED BY <2>1, <2>2 DEF CallStates
  <1>3. \A id \in 1..MaxRings : \A b \in BOOLEAN : [id |-> id, ringing |-> b] \in CallStates
    BY DEF CallStates
  <1>4. Unread.id = -1
    BY DEF Unread
  <1>5. Unread \notin CallStates
    <2>1. -1 \notin 0..MaxRings
      BY Bounds
    <2> QED BY <1>2, <1>4, <2>1
  <1> QED BY <1>1, <1>2, <1>3, <1>5

\* A phone has connected.
LEMMA AttachFront ==
  ASSUME IInv, NEW g \in Gateways, Attach(g)
  PROVE  FrontInv'
  <1>1. FrontInv /\ FrontTypes /\ PhoneInv /\ DeskInv
    BY DEF IInv, FrontInv
  <1>2. /\ daemon /\ delegate = 0 /\ delegate' = g
        /\ gateways' = [gateways EXCEPT ![g] = [state |-> "running", link |-> TRUE]]
        /\ UNCHANGED <<scene, daemon, phone, lookups, current, stream, syncs, notified, count>> /\ Broadcast
    BY DEF Attach, callVars
  <1>3. events' \in Nat /\ (stream.at = "up" => events' # 0)
    BY <1>1, <1>2, Announced
  <1>4. DeskInv'
    BY <1>1, <1>2, <1>3, StillToShow
  <1>5. g \in 1..MaxGateways /\ g # 0 /\ g \in 0..MaxGateways
    BY Bounds DEF Gateways
  <1>6. PICK x : x = [state |-> "running", link |-> TRUE]
    OBVIOUS
  <1>7. x \in [state : {"new", "running", "stopped"}, link : BOOLEAN]
    BY <1>6
  <1>8. /\ gateways' \in [Gateways -> [state : {"new", "running", "stopped"}, link : BOOLEAN]]
        /\ gateways'[g] = [state |-> "running", link |-> TRUE]
    BY <1>1, <1>2, <1>6, <1>7 DEF FrontTypes
  <1>9. FrontTypes'
    BY <1>1, <1>2, <1>3, <1>5, <1>8 DEF FrontTypes
  <1>10. PhoneInv'
    BY <1>1, <1>2, <1>5 DEF PhoneInv
  <1> QED BY <1>4, <1>9, <1>10 DEF FrontInv

\* It has gone, and with it its call.
LEMMA LinkLostFront ==
  ASSUME IInv, LinkLost
  PROVE  FrontInv'
  <1>1. FrontInv /\ FrontTypes /\ PhoneInv /\ DeskInv
    BY DEF IInv, FrontInv
  <1>2. /\ delegate # 0 /\ delegate' = 0 /\ gateways' = [gateways EXCEPT ![delegate].link = FALSE]
        /\ phone' = Quiet /\ lookups' = <<>> /\ current' = Quiet
        /\ UNCHANGED <<scene, daemon, stream, syncs, notified, count>> /\ Broadcast
    BY DEF LinkLost
  <1>3. events' \in Nat /\ (stream.at = "up" => events' # 0)
    BY <1>1, <1>2, Announced
  <1>4. DeskInv'
    BY <1>1, <1>2, <1>3, StillToShow
  <1>5. gateways' \in [Gateways -> [state : {"new", "running", "stopped"}, link : BOOLEAN]]
    BY <1>1, <1>2 DEF FrontTypes
  <1>6. Quiet \in CallStates /\ <<>> \in Seq(1..MaxRings) /\ 0 \in 0..MaxGateways
    BY <1>1, Ids, Bounds
  <1>7. FrontTypes'
    BY <1>1, <1>2, <1>3, <1>5, <1>6 DEF FrontTypes
  <1>8. PhoneInv'
    BY <1>2 DEF PhoneInv
  <1> QED BY <1>4, <1>7, <1>8 DEF FrontInv

\* A gateway that stops has no connection: it is not the one delegated to.
LEMMA GatewayStopsFront ==
  ASSUME IInv, NEW g \in Gateways, GatewayStops(g)
  PROVE  FrontInv'
  <1>1. FrontInv /\ FrontTypes /\ PhoneInv /\ DeskInv
    BY DEF IInv, FrontInv
  <1>2. /\ ~gateways[g].link /\ gateways' = [gateways EXCEPT ![g].state = "stopped"]
        /\ UNCHANGED <<scene, daemon, delegate, phone, lookups, current, stream, events, syncs, notified, count>>
    BY DEF GatewayStops, callVars, deskVars
  <1>3. gateways' \in [Gateways -> [state : {"new", "running", "stopped"}, link : BOOLEAN]]
    BY <1>1, <1>2 DEF FrontTypes
  <1>4. delegate # 0 => gateways'[delegate] = [state |-> "running", link |-> TRUE]
    <2> SUFFICES ASSUME delegate # 0 PROVE gateways'[delegate] = [state |-> "running", link |-> TRUE]
      OBVIOUS
    <2>1. gateways[delegate] = [state |-> "running", link |-> TRUE] /\ delegate \in Gateways
      BY <1>1, Bounds DEF FrontTypes, Gateways
    <2>2. delegate # g
      BY <1>2, <2>1
    <2>3. gateways'[delegate] = gateways[delegate]
      BY <1>1, <1>2, <2>1, <2>2 DEF FrontTypes
    <2> QED BY <2>1, <2>3
  <1>5. FrontTypes'
    BY <1>1, <1>2, <1>3, <1>4 DEF FrontTypes
  <1>6. PhoneInv' /\ DeskInv'
    BY <1>1, <1>2 DEF PhoneInv, DeskInv, Status, Refused
  <1> QED BY <1>5, <1>6 DEF FrontInv

\* The stream is lost, in whatever way: nothing is shown before it is up again.
LEMMA StreamDown ==
  ASSUME FrontInv, stream'.at = "down", UNCHANGED syncs
  PROVE  DeskInv'
  BY DEF FrontInv, DeskInv

\* One fault more is counted.
LEMMA FaultType ==
  ASSUME FrontTypes, Fault
  PROVE  count' \in [rings : 0..MaxRings, faults : 0..MaxFaults]
  BY Bounds, SMTT(30) DEF FrontTypes, Fault

\* The daemon stops with all it serves.
LEMMA DaemonStopsFront ==
  ASSUME IInv, DaemonStops
  PROVE  FrontInv'
  <1>1. FrontInv /\ FrontTypes /\ PhoneInv /\ DeskInv
    BY DEF IInv, FrontInv
  <1>2. /\ daemon' = FALSE /\ delegate' = 0
        /\ gateways' = [g \in Gateways |-> IF gateways[g].state = "new" THEN gateways[g]
                                           ELSE [state |-> "stopped", link |-> FALSE]]
        /\ phone' = Quiet /\ lookups' = <<>> /\ current' = Quiet
        /\ stream' = [at |-> "down", timer |-> stream.timer \/ stream.at # "down", ready |-> stream.ready]
        /\ events' = 0 /\ Fault
        /\ UNCHANGED <<scene, syncs, notified>>
    BY DEF DaemonStops
  <1>3. gateways' \in [Gateways -> [state : {"new", "running", "stopped"}, link : BOOLEAN]]
    <2>1. PICK x : x = [state |-> "stopped", link |-> FALSE]
      OBVIOUS
    <2>2. x \in [state : {"new", "running", "stopped"}, link : BOOLEAN]
      BY <2>1
    <2> QED BY <1>1, <1>2, <2>1, <2>2 DEF FrontTypes
  <1>4. /\ stream' \in [at : {"down", "opening", "acking", "up"}, timer : BOOLEAN, ready : BOOLEAN]
        /\ stream'.at = "down"
    <2>1. stream.ready \in BOOLEAN /\ stream.timer \in BOOLEAN
      BY <1>1 DEF FrontTypes
    <2>2. PICK timer \in BOOLEAN : timer = (stream.timer \/ stream.at # "down")
      OBVIOUS
    <2>3. stream' = [at |-> "down", timer |-> timer, ready |-> stream.ready]
      BY <1>2, <2>2
    <2> QED BY <2>1, <2>3
  <1>5. Quiet \in CallStates /\ <<>> \in Seq(1..MaxRings) /\ 0 \in 0..MaxGateways /\ 0 \in Nat
    BY <1>1, Ids, Bounds
  <1>6. FrontTypes'
    BY <1>1, <1>2, <1>3, <1>4, <1>5, FaultType DEF FrontTypes
  <1>7. DeskInv'
    BY <1>1, <1>2, <1>4, StreamDown
  <1>8. PhoneInv'
    BY <1>2 DEF PhoneInv
  <1> QED BY <1>6, <1>7, <1>8 DEF FrontInv

\* The daemon is there again, without a phone.
LEMMA DaemonStartsFront ==
  ASSUME IInv, DaemonStarts
  PROVE  FrontInv'
  <1>1. FrontInv /\ FrontTypes /\ PhoneInv /\ DeskInv
    BY DEF IInv, FrontInv
  <1>2. /\ ~daemon /\ daemon' = TRUE
        /\ UNCHANGED <<scene, delegate, gateways, phone, lookups, current, stream, events, syncs, notified, count>>
    BY DEF DaemonStarts, callVars, deskVars
  <1>3. delegate = 0
    BY <1>1, <1>2 DEF PhoneInv
  <1>4. Status' = Quiet /\ ~Quiet.ringing
    BY <1>1, <1>2, <1>3, Ids DEF Status, Refused
  <1>5. DeskInv'
    BY <1>1, <1>2, <1>4 DEF DeskInv
  <1>6. FrontTypes' /\ PhoneInv'
    BY <1>1, <1>2 DEF FrontTypes, PhoneInv
  <1> QED BY <1>5, <1>6 DEF FrontInv

\* What the desktop sees of the phone stays, and what it does is one of these.
LEMMA DeskTypes ==
  ASSUME FrontInv, UNCHANGED <<scene, daemon, delegate, gateways, phone, lookups, current>>,
         stream' \in [at : {"down", "opening", "acking", "up"}, timer : BOOLEAN, ready : BOOLEAN],
         events' \in Nat, notified' \in 0..MaxRings,
         syncs' \subseteq [fresh : BOOLEAN, snap : CallStates \cup {Unread}],
         count' \in [rings : 0..MaxRings, faults : 0..MaxFaults]
  PROVE  FrontTypes' /\ PhoneInv' /\ Status' = Status
  BY DEF FrontInv, FrontTypes, PhoneInv, Status, Refused

\* It rings: the caller is looked up first.
LEMMA RingsFront ==
  ASSUME IInv, Rings
  PROVE  FrontInv'
  <1>1. FrontInv /\ FrontTypes /\ PhoneInv /\ DeskInv
    BY DEF IInv, FrontInv
  <1>2. /\ delegate # 0 /\ count.rings < MaxRings
        /\ count' = [count EXCEPT !.rings = @ + 1]
        /\ phone' = [id |-> count.rings + 1, ringing |-> TRUE]
        /\ lookups' = Append(lookups, count.rings + 1)
        /\ UNCHANGED <<scene, daemon, delegate, gateways, current, stream, events, syncs, notified>>
    BY DEF Rings, deskVars
  <1>3. count.rings + 1 \in 1..MaxRings /\ count.rings + 1 \in 0..MaxRings
    BY <1>1, <1>2, Bounds DEF FrontTypes
  <1>4. phone' \in CallStates
    <2>1. TRUE \in BOOLEAN
      OBVIOUS
    <2> QED BY <1>1, <1>2, <1>3, <2>1, Ids
  <1>5. lookups' \in Seq(1..MaxRings)
    BY <1>1, <1>2, <1>3 DEF FrontTypes
  <1>6. count' \in [rings : 0..MaxRings, faults : 0..MaxFaults]
    BY <1>1, <1>2, <1>3 DEF FrontTypes
  <1>7. FrontTypes'
    BY <1>1, <1>2, <1>4, <1>5, <1>6 DEF FrontTypes
  <1>8. PhoneInv' /\ DeskInv'
    BY <1>1, <1>2 DEF PhoneInv, DeskInv, Status, Refused
  <1> QED BY <1>7, <1>8 DEF FrontInv

\* The gateway's call changes, and the desktop hears of it.
LEMMA CallChanges ==
  ASSUME FrontInv, delegate # 0, phone' \in CallStates, current' \in CallStates, lookups' \in Seq(1..MaxRings),
         Broadcast, UNCHANGED <<scene, daemon, delegate, gateways, stream, syncs, notified, count>>
  PROVE  FrontInv'
  <1>1. FrontTypes /\ PhoneInv
    BY DEF FrontInv
  <1>2. events' \in Nat /\ (stream.at = "up" => events' # 0)
    BY Announced
  <1>3. DeskInv'
    BY <1>2, StillToShow
  <1>4. FrontTypes'
    BY <1>1, <1>2 DEF FrontTypes
  <1>5. PhoneInv'
    BY <1>1 DEF PhoneInv
  <1> QED BY <1>3, <1>4, <1>5 DEF FrontInv

\* The caller has been looked up, the call is picked up, or it ends.
LEMMA CallFront ==
  ASSUME IInv, IncomingHandled \/ PickedUp \/ Ends
  PROVE  FrontInv'
  <1>1. FrontInv /\ FrontTypes /\ PhoneInv
    BY DEF IInv, FrontInv
  <1>2. Quiet \in CallStates /\ ~Quiet.ringing
    BY <1>1, Ids
  <1>3. CASE IncomingHandled
    <2>1. /\ lookups # <<>> /\ current' = [id |-> Head(lookups), ringing |-> TRUE]
          /\ lookups' = Tail(lookups) /\ phone' = phone /\ Broadcast
          /\ UNCHANGED <<scene, daemon, delegate, gateways, stream, syncs, notified, count>>
      BY <1>3 DEF IncomingHandled
    <2>2. lookups \in Seq(1..MaxRings) /\ phone \in CallStates
      BY <1>1 DEF FrontTypes
    <2>3. Head(lookups) \in 1..MaxRings /\ Tail(lookups) \in Seq(1..MaxRings)
      BY <2>1, <2>2, HeadTailProperties, Zenon
    <2>4. current' \in CallStates
      <3>1. TRUE \in BOOLEAN
        OBVIOUS
      <3> QED BY <1>1, <2>1, <2>3, <3>1, Ids
    <2>5. delegate # 0
      BY <1>1, <2>1 DEF PhoneInv
    <2> QED BY <1>1, <2>1, <2>2, <2>3, <2>4, <2>5, CallChanges
  <1>4. CASE PickedUp
    <2>1. /\ phone.ringing /\ phone' = [phone EXCEPT !.ringing = FALSE] /\ current' = phone'
          /\ lookups' = lookups /\ Broadcast
          /\ UNCHANGED <<scene, daemon, delegate, gateways, stream, syncs, notified, count>>
      BY <1>4 DEF PickedUp
    <2>2. phone \in CallStates /\ lookups \in Seq(1..MaxRings)
      BY <1>1 DEF FrontTypes
    <2>3. phone \in [id : 1..MaxRings, ringing : BOOLEAN]
      BY <1>1, <2>1, <2>2, Ids
    <2>4. phone' \in [id : 1..MaxRings, ringing : BOOLEAN]
      BY <2>1, <2>3
    <2>5. phone' \in CallStates /\ current' \in CallStates
      BY <2>1, <2>4 DEF CallStates
    <2>6. delegate # 0
      BY <1>1, <1>2, <2>1 DEF PhoneInv
    <2> QED BY <1>1, <2>1, <2>2, <2>5, <2>6, CallChanges
  <1>5. CASE Ends
    <2>1. /\ phone # Quiet /\ phone' = Quiet
          /\ current' = IF current.id = phone.id THEN Quiet ELSE current
          /\ lookups' = lookups /\ Broadcast
          /\ UNCHANGED <<scene, daemon, delegate, gateways, stream, syncs, notified, count>>
      BY <1>5 DEF Ends
    <2>2. current \in CallStates /\ lookups \in Seq(1..MaxRings)
      BY <1>1 DEF FrontTypes
    <2>3. phone' \in CallStates /\ current' \in CallStates
      BY <1>2, <2>1, <2>2
    <2>4. delegate # 0
      BY <1>1, <2>1 DEF PhoneInv
    <2> QED BY <1>1, <2>1, <2>2, <2>3, <2>4, CallChanges
  <1> QED BY <1>3, <1>4, <1>5

\* The stream on its way up, or lost.
LEMMA StreamFront ==
  ASSUME IInv, Connect \/ Subscribed \/ Ready \/ StreamLost
  PROVE  FrontInv'
  <1>1. FrontInv /\ FrontTypes /\ DeskInv
    BY DEF IInv, FrontInv
  <1>2. UNCHANGED <<scene, daemon, delegate, gateways, phone, lookups, current, syncs, notified>>
    BY DEF Connect, Subscribed, Ready, StreamLost, callVars
  <1>3. count' \in [rings : 0..MaxRings, faults : 0..MaxFaults]
    BY <1>1, FaultType DEF Connect, Subscribed, Ready, StreamLost, FrontTypes
  <1>4. events' \in Nat
    BY <1>1 DEF Connect, Subscribed, Ready, StreamLost, FrontTypes
  <1>5. /\ stream' \in [at : {"down", "opening", "acking", "up"}, timer : BOOLEAN, ready : BOOLEAN]
        /\ stream'.at = "up" => stream'.ready
        /\ stream'.at = "down" \/ scene = "desktop"
    <2>1. /\ stream \in [at : {"down", "opening", "acking", "up"}, timer : BOOLEAN, ready : BOOLEAN]
          /\ scene \in {"caller", "desktop"} /\ (scene = "caller" => stream.at = "down")
      BY <1>1 DEF FrontTypes, DeskInv
    <2>2. CASE Connect
      <3>1. /\ stream' = [stream EXCEPT !.timer = FALSE, !.at = "opening"] /\ scene = "desktop"
        BY <2>2 DEF Connect
      <3>2. [stream EXCEPT !.timer = FALSE] \in [at : {"down", "opening", "acking", "up"}, timer : BOOLEAN, ready : BOOLEAN]
        BY <2>1
      <3>3. /\ stream' \in [at : {"down", "opening", "acking", "up"}, timer : BOOLEAN, ready : BOOLEAN]
            /\ stream'.at = "opening"
        BY <2>1, <3>1, <3>2
      <3> QED BY <3>1, <3>3
    <2>3. CASE Subscribed
      <3>1. stream' = [stream EXCEPT !.at = "acking"] /\ stream.at = "opening"
        BY <2>3 DEF Subscribed
      <3> QED BY <2>1, <3>1
    <2>4. CASE Ready
      <3>1. stream' = [stream EXCEPT !.at = "up", !.ready = TRUE] /\ stream.at = "acking"
        BY <2>4 DEF Ready
      <3>2. stream.at # "down"
        BY <3>1
      <3>3. scene = "desktop"
        BY <2>1, <3>2
      <3>4. /\ stream' \in [at : {"down", "opening", "acking", "up"}, timer : BOOLEAN, ready : BOOLEAN]
            /\ stream'.ready = TRUE
        BY <2>1, <3>1
      <3> QED BY <3>3, <3>4
    <2>5. CASE StreamLost
      <3>1. stream' = [stream EXCEPT !.at = "down", !.timer = TRUE]
        BY <2>5 DEF StreamLost
      <3>2. /\ stream' \in [at : {"down", "opening", "acking", "up"}, timer : BOOLEAN, ready : BOOLEAN]
            /\ stream'.at = "down"
        BY <2>1, <3>1
      <3> QED BY <3>2
    <2> QED BY <2>2, <2>3, <2>4, <2>5
  <1>6. FrontTypes' /\ PhoneInv'
    BY <1>1, <1>2, <1>3, <1>4, <1>5, DeskTypes DEF FrontTypes
  <1>7. DeskInv'
    BY <1>1, <1>2, <1>5 DEF DeskInv
  <1> QED BY <1>6, <1>7 DEF FrontInv

\* A new sync is the one fresh one, and has the status still to read.
LEMMA BegunSync ==
  ASSUME FrontTypes, BeginSync
  PROVE  /\ syncs' \subseteq [fresh : BOOLEAN, snap : CallStates \cup {Unread}]
         /\ \A s, t \in syncs' : s.fresh /\ t.fresh => s = t
         /\ \E s \in syncs' : s.fresh /\ s.snap = Unread
  <1>1. PICK x : x = [fresh |-> TRUE, snap |-> Unread]
    OBVIOUS
  <1>2. syncs' = {[s EXCEPT !.fresh = FALSE] : s \in syncs} \cup {x}
    BY <1>1 DEF BeginSync
  <1>3. x.fresh /\ x.snap = Unread /\ x \in [fresh : BOOLEAN, snap : CallStates \cup {Unread}]
    BY <1>1
  <1>4. ASSUME NEW s \in syncs
        PROVE  /\ [s EXCEPT !.fresh = FALSE] \in [fresh : BOOLEAN, snap : CallStates \cup {Unread}]
               /\ ~[s EXCEPT !.fresh = FALSE].fresh
    <2>1. s \in [fresh : BOOLEAN, snap : CallStates \cup {Unread}]
      BY DEF FrontTypes
    <2> QED BY <2>1
  <1>5. \A s \in syncs' : s = x \/ ~s.fresh
    BY <1>2, <1>4
  <1>6. x \in syncs'
    BY <1>2
  <1>7. syncs' \subseteq [fresh : BOOLEAN, snap : CallStates \cup {Unread}]
    BY <1>2, <1>3, <1>4
  <1> QED BY <1>3, <1>5, <1>6, <1>7

\* An event, or the stream's being up, has the desktop look at the status.
LEMMA LookFront ==
  ASSUME IInv, EventArrives \/ ReadyRead
  PROVE  FrontInv'
  <1>1. FrontInv /\ FrontTypes /\ DeskInv
    BY DEF IInv, FrontInv
  <1>2. UNCHANGED <<scene, daemon, delegate, gateways, phone, lookups, current, notified, count>>
    BY DEF EventArrives, ReadyRead, callVars
  <1>3. events' \in Nat
    BY <1>1 DEF EventArrives, ReadyRead, FrontTypes
  <1>4. /\ stream' \in [at : {"down", "opening", "acking", "up"}, timer : BOOLEAN, ready : BOOLEAN]
        /\ stream'.at = stream.at
    BY <1>1 DEF EventArrives, ReadyRead, FrontTypes
  <1>5. Status' = Status
    BY <1>2 DEF Status, Refused
  <1>6. BeginSync \/ (ReadyRead /\ Status = Quiet /\ UNCHANGED syncs)
    BY DEF EventArrives, ReadyRead
  <1>7. CASE BeginSync
    <2>1. /\ syncs' \subseteq [fresh : BOOLEAN, snap : CallStates \cup {Unread}]
          /\ \A s, t \in syncs' : s.fresh /\ t.fresh => s = t
          /\ \E s \in syncs' : s.fresh /\ s.snap = Unread
      BY <1>1, <1>7, BegunSync
    <2>2. FrontTypes' /\ PhoneInv'
      BY <1>1, <1>2, <1>3, <1>4, <2>1, DeskTypes DEF FrontTypes
    <2>3. \E s \in syncs' : s.fresh /\ s.snap \in {Unread, Status'}
      BY <2>1
    <2>4. DeskInv'
      BY <1>1, <1>2, <1>4, <2>1, <2>3 DEF DeskInv
    <2> QED BY <2>2, <2>4 DEF FrontInv
  <1>8. CASE Status = Quiet /\ UNCHANGED syncs
    <2>1. ~Status'.ringing
      BY <1>1, <1>5, <1>8, Ids
    <2>2. FrontTypes' /\ PhoneInv'
      BY <1>1, <1>2, <1>3, <1>4, <1>8, DeskTypes DEF FrontTypes
    <2>3. DeskInv'
      BY <1>1, <1>2, <1>4, <1>8, <2>1 DEF DeskInv
    <2> QED BY <2>2, <2>3 DEF FrontInv
  <1> QED BY <1>6, <1>7, <1>8

\* The status comes, and is read as it is by then.
LEMMA SyncReadFront ==
  ASSUME IInv, NEW s \in syncs, SyncRead(s)
  PROVE  FrontInv'
  <1>1. FrontInv /\ FrontTypes /\ DeskInv
    BY DEF IInv, FrontInv
  <1>2. PICK x : x = [s EXCEPT !.snap = Status]
    OBVIOUS
  <1>3. /\ s.snap = Unread /\ syncs' = (syncs \ {s}) \cup {x}
        /\ UNCHANGED <<scene, daemon, delegate, gateways, phone, lookups, current, stream, events, notified, count>>
    BY <1>2 DEF SyncRead, callVars
  <1>4. s \in [fresh : BOOLEAN, snap : CallStates \cup {Unread}]
    BY <1>1 DEF FrontTypes
  <1>5. Status \in CallStates
    BY <1>1, Ids DEF Status, FrontTypes
  <1>6. x \in [fresh : BOOLEAN, snap : CallStates \cup {Unread}] /\ x.fresh = s.fresh /\ x.snap = Status
    BY <1>2, <1>4, <1>5
  <1>7. syncs' \subseteq [fresh : BOOLEAN, snap : CallStates \cup {Unread}]
    BY <1>1, <1>3, <1>6 DEF FrontTypes
  <1>8. FrontTypes' /\ PhoneInv' /\ Status' = Status
    BY <1>1, <1>3, <1>7, DeskTypes DEF FrontTypes
  <1>9. \A t, u \in syncs' : t.fresh /\ u.fresh => t = u
    <2> SUFFICES ASSUME NEW t \in syncs', NEW u \in syncs', t.fresh, u.fresh PROVE t = u
      OBVIOUS
    <2>1. \A one, other \in syncs : one.fresh /\ other.fresh => one = other
      BY <1>1 DEF DeskInv
    <2> QED BY <1>3, <1>6, <2>1
  <1>10. stream'.at = "up" /\ ~stream'.ready /\ events' = 0 /\ Status'.ringing =>
           \/ \E t \in syncs' : t.fresh /\ t.snap \in {Unread, Status'}
           \/ (\A t \in syncs' : ~t.fresh) /\ notified' = Status'.id
    <2> SUFFICES ASSUME stream.at = "up", ~stream.ready, events = 0, Status.ringing
                 PROVE  \/ \E t \in syncs' : t.fresh /\ t.snap \in {Unread, Status}
                        \/ (\A t \in syncs' : ~t.fresh) /\ notified = Status.id
      BY <1>3, <1>8
    <2>1. CASE \E t \in syncs : t.fresh /\ t.snap \in {Unread, Status}
      <3>1. PICK t \in syncs : t.fresh /\ t.snap \in {Unread, Status}
        BY <2>1
      <3>2. CASE t = s
        BY <1>3, <1>6, <3>1, <3>2
      <3>3. CASE t # s
        <4>1. t \in syncs'
          BY <1>3, <3>3
        <4> QED BY <3>1, <4>1
      <3> QED BY <3>2, <3>3
    <2>2. CASE (\A t \in syncs : ~t.fresh) /\ notified = Status.id
      BY <1>3, <1>6, <2>2
    <2> QED BY <1>1, <2>1, <2>2 DEF DeskInv
  <1>11. DeskInv'
    BY <1>1, <1>3, <1>9, <1>10 DEF DeskInv
  <1> QED BY <1>8, <1>11 DEF FrontInv

\* The latest sync says what is shown; an older one says nothing.
LEMMA SyncAppliedFront ==
  ASSUME IInv, NEW s \in syncs, SyncApplied(s)
  PROVE  FrontInv'
  <1>1. FrontInv /\ FrontTypes /\ DeskInv
    BY DEF IInv, FrontInv
  <1>2. /\ s.snap # Unread /\ syncs' = syncs \ {s}
        /\ notified' = IF ~s.fresh THEN notified ELSE IF s.snap.ringing THEN s.snap.id ELSE 0
        /\ UNCHANGED <<scene, daemon, delegate, gateways, phone, lookups, current, stream, events, count>>
    BY DEF SyncApplied, Overtaken, callVars
  <1>3. s \in [fresh : BOOLEAN, snap : CallStates \cup {Unread}]
    BY <1>1 DEF FrontTypes
  <1>4. s.snap.id \in 0..MaxRings /\ 0 \in 0..MaxRings
    BY <1>1, <1>2, <1>3, Ids, Bounds
  <1>5. notified' \in 0..MaxRings
    BY <1>1, <1>2, <1>4 DEF FrontTypes
  <1>6. FrontTypes' /\ PhoneInv' /\ Status' = Status
    BY <1>1, <1>2, <1>5, DeskTypes DEF FrontTypes
  <1>7. stream'.at = "up" /\ ~stream'.ready /\ events' = 0 /\ Status'.ringing =>
           \/ \E t \in syncs' : t.fresh /\ t.snap \in {Unread, Status'}
           \/ (\A t \in syncs' : ~t.fresh) /\ notified' = Status'.id
    <2> SUFFICES ASSUME stream.at = "up", ~stream.ready, events = 0, Status.ringing
                 PROVE  \/ \E t \in syncs' : t.fresh /\ t.snap \in {Unread, Status}
                        \/ (\A t \in syncs' : ~t.fresh) /\ notified' = Status.id
      BY <1>2, <1>6
    <2>1. CASE \E t \in syncs : t.fresh /\ t.snap \in {Unread, Status}
      <3>1. PICK t \in syncs : t.fresh /\ t.snap \in {Unread, Status}
        BY <2>1
      <3>2. CASE t = s
        <4>1. \A u \in syncs' : ~u.fresh
          BY <1>1, <1>2, <3>1, <3>2 DEF DeskInv
        <4>2. notified' = Status.id
          BY <1>2, <3>1, <3>2
        <4> QED BY <4>1, <4>2
      <3>3. CASE t # s
        <4>1. t \in syncs'
          BY <1>2, <3>3
        <4> QED BY <3>1, <4>1
      <3> QED BY <3>2, <3>3
    <2>2. CASE (\A t \in syncs : ~t.fresh) /\ notified = Status.id
      BY <1>2, <2>2
    <2> QED BY <1>1, <2>1, <2>2 DEF DeskInv
  <1>8. DeskInv'
    BY <1>1, <1>2, <1>7 DEF DeskInv
  <1> QED BY <1>6, <1>8 DEF FrontInv

-----------------------------------------------------------------------------
(* The theorems *)

\* At the start nothing has been asked, and nothing rings.
LEMMA InitInv ==
  Init => IInv
  <1> SUFFICES ASSUME Init PROVE IInv
    OBVIOUS
  <1>1. /\ <<>> \in Seq(Entries) /\ <<>> \in Seq(Happenings) /\ <<>> \in Seq(1..MaxRings)
        /\ DOMAIN <<>> = {}
    OBVIOUS
  <1>2. Idle \in CallRecords /\ Idle.at = "idle" /\ Idle.answer = "none"
    <2>1. PICK k : k = CHOOSE x \in Keys : TRUE
      OBVIOUS
    <2>2. k \in Keys
      BY <2>1, ControlPlaneAssumption
    <2>3. PICK request : request = [key |-> k, fields |-> 1]
      OBVIOUS
    <2>4. request \in Requests
      BY <2>2, <2>3 DEF Requests
    <2>5. Idle = [request |-> request, gateway |-> 0, at |-> "idle", answer |-> "none"]
      BY <2>1, <2>3 DEF Idle
    <2>6. 0 \in 0..MaxGateways
      BY Bounds
    <2> QED BY <2>4, <2>5, <2>6 DEF CallRecords, Answers
  <1>3. /\ replays = [g \in Gateways |-> <<>>] /\ runs = {} /\ calls = [c \in Clicks |-> Idle]
        /\ log = [g \in Gateways |-> <<>>]
        /\ gateways = [g \in Gateways |-> [state |-> "new", link |-> FALSE]]
    BY DEF Init
  <1>4. CallerTypes
    BY <1>1, <1>2, <1>3 DEF CallerTypes
  <1>5. BookInv
    <2>1. \A g \in Gateways : gateways[g].state = "new" /\ replays[g] = <<>> /\ log[g] = <<>>
      BY <1>3
    <2> QED BY <2>1, EmptyCache DEF BookInv
  <1>6. RunsInv
    <2>1. \A g \in Gateways : DOMAIN replays[g] = {}
      BY <1>1, <1>3
    <2> QED BY <1>3, <2>1 DEF RunsInv
  <1>7. CallsInv
    BY <1>2, <1>3 DEF CallsInv
  <1>8. /\ scene \in {"caller", "desktop"} /\ daemon = TRUE /\ delegate = 0
        /\ phone = Quiet /\ lookups = <<>> /\ current = Quiet
        /\ stream = [at |-> "down", timer |-> TRUE, ready |-> FALSE]
        /\ events = 0 /\ syncs = {} /\ notified = 0 /\ count = [rings |-> 0, faults |-> 0]
    BY DEF Init
  <1>9. FrontTypes
    <2>1. Quiet \in CallStates /\ 0 \in Nat /\ 0 \in 0..MaxGateways /\ 0 \in 0..MaxRings /\ 0 \in 0..MaxFaults
      BY Bounds DEF CallStates
    <2>2. gateways \in [Gateways -> [state : {"new", "running", "stopped"}, link : BOOLEAN]]
      <3>1. PICK x : x = [state |-> "new", link |-> FALSE]
        OBVIOUS
      <3>2. x \in [state : {"new", "running", "stopped"}, link : BOOLEAN]
        BY <3>1
      <3> QED BY <1>3, <3>1, <3>2
    <2>3. stream \in [at : {"down", "opening", "acking", "up"}, timer : BOOLEAN, ready : BOOLEAN]
      BY <1>8
    <2>4. count \in [rings : 0..MaxRings, faults : 0..MaxFaults]
      BY <1>8, <2>1
    <2> QED BY <1>1, <1>8, <2>1, <2>2, <2>3, <2>4 DEF FrontTypes
  <1>10. PhoneInv
    BY <1>8 DEF PhoneInv
  <1>11. DeskInv
    BY <1>8 DEF DeskInv
  <1> QED BY <1>4, <1>5, <1>6, <1>7, <1>9, <1>10, <1>11 DEF IInv, CallerInv, FrontInv

\* Every step keeps the invariant.
LEMMA NextInv ==
  IInv /\ [Next]_vars => IInv'
  <1> SUFFICES ASSUME IInv, [Next]_vars PROVE IInv'
    OBVIOUS
  <1>1. CallerInv /\ FrontInv
    BY DEF IInv
  <1>2. CASE UNCHANGED vars
    <2>1. UNCHANGED <<scene, daemon, delegate, gateways, replays, runs, calls, log, phone, lookups, current,
                      stream, events, syncs, notified, count>>
      BY <1>2 DEF vars, callerVars, callVars, deskVars
    <2>2. CallerInv'
      BY <1>1, <2>1, CallerKept
    <2>3. FrontInv'
      BY <1>1, <2>1, FrontKept DEF callVars, deskVars
    <2> QED BY <2>2, <2>3 DEF IInv
  <1>3. ASSUME NEW g \in Gateways, Attach(g) PROVE IInv'
    BY <1>3, AttachCaller, AttachFront DEF IInv
  <1>4. ASSUME NEW g \in Gateways, GatewayStops(g) PROVE IInv'
    BY <1>4, GatewayStopsCaller, GatewayStopsFront DEF IInv
  <1>5. CASE LinkLost
    BY <1>5, LinkLostCaller, LinkLostFront DEF IInv
  <1>6. CASE DaemonStops
    BY <1>6, DaemonStopsCaller, DaemonStopsFront DEF IInv
  <1>7. CASE DaemonStarts
    <2>1. UNCHANGED <<gateways, replays, runs, calls, log>>
      BY <1>7 DEF DaemonStarts, callerVars
    <2>2. CallerInv'
      BY <1>1, <2>1, CallerKept
    <2> QED BY <1>7, <2>2, DaemonStartsFront DEF IInv
  <1>8. CASE Caller
    <2>1. CallerInv'
      BY <1>8, AskKeeps, CallTimeoutKeeps, RunKeeps DEF Caller
    <2>2. UNCHANGED <<scene, daemon, delegate, gateways, callVars, deskVars, count>>
      BY <1>8 DEF Caller, Ask, CallTimeout, Refuse, SendDone, SendFails, Result
    <2>3. FrontInv'
      BY <1>1, <2>2, FrontKept
    <2> QED BY <2>1, <2>3 DEF IInv
  <1>9. CASE Desktop
    <2>1. UNCHANGED <<gateways, replays, runs, calls, log>>
      BY <1>9 DEF Desktop, Rings, IncomingHandled, PickedUp, Ends, Connect, Subscribed, Ready, StreamLost,
                  EventArrives, ReadyRead, SyncRead, SyncApplied, callerVars
    <2>2. CallerInv'
      BY <1>1, <2>1, CallerKept
    <2>3. FrontInv'
      BY <1>9, RingsFront, CallFront, StreamFront, LookFront, SyncReadFront, SyncAppliedFront DEF Desktop
    <2> QED BY <2>2, <2>3 DEF IInv
  <1> QED BY <1>2, <1>3, <1>4, <1>5, <1>6, <1>7, <1>8, <1>9 DEF Next

\* In every reachable state each gateway's cache agrees with its history, each call with the
\* command it waits for, and the latest sync with the call that rings.
THEOREM Inductive ==
  Spec => []IInv
  BY InitInv, NextInv, PTL DEF Spec

\* In every state the types are right, "accepted" is true and the ringing call is the one shown
\* (gateway.js, gateway-rpc.js and the desktop's main.js).
THEOREM ControlSafe ==
  Spec => []ControlInv
  <1>1. IInv => ControlInv
    <2> SUFFICES ASSUME IInv PROVE ControlInv
      OBVIOUS
    <2>1. CallerTypes /\ BookInv /\ CallsInv /\ FrontTypes /\ DeskInv
      BY DEF IInv, CallerInv, FrontInv
    <2>2. \A g \in Gateways : Cardinality(Completed(replays[g])) <= CacheSize
      <3> SUFFICES ASSUME NEW g \in Gateways PROVE Cardinality(Completed(replays[g])) <= CacheSize
        OBVIOUS
      <3>1. CASE gateways[g].state = "stopped"
        BY <2>1, <3>1, EmptyCache DEF BookInv, CacheInv
      <3>2. CASE gateways[g].state # "stopped"
        BY <2>1, <3>2 DEF BookInv, CacheInv
      <3> QED BY <3>1, <3>2
    <2>3. TypeOK
      BY <2>1, <2>2 DEF TypeOK, CallerTypes, FrontTypes, Entries, Happenings, RunRecords, CallRecords
    <2>4. ToldTrue
      <3> SUFFICES ASSUME NEW c \in Clicks, calls[c].answer = "accepted"
                   PROVE  \E e \in ToSet(log[calls[c].gateway]) :
                            e.what = "sent" /\ e.key = calls[c].request.key /\ e.fields = calls[c].request.fields
        BY DEF ToldTrue
      <3>1. SentIn(log[calls[c].gateway], calls[c].request.key, calls[c].request.fields)
        BY <2>1 DEF CallsInv
      <3> QED BY <3>1 DEF SentIn, ToSet
    <2>5. RingingShown
      BY <2>1 DEF DeskInv, RingingShown
    <2> QED BY <2>3, <2>4, <2>5 DEF ControlInv
  <1> QED BY <1>1, Inductive, PTL

\* A gateway begins a command a second time only if it failed or a cacheful of others has been
\* completed since (Gateway._idempotent).
THEOREM NeverTwiceAlways ==
  Spec => []NeverTwice
  <1>1. IInv => NeverTwice
    <2> SUFFICES ASSUME IInv, NEW g \in Gateways, NEW i \in 1..Len(log[g]), NEW j \in 1..Len(log[g]),
                        i < j, log[g][i].what = "begun", log[g][j].what = "begun",
                        log[g][i].key = log[g][j].key
                 PROVE  \/ \E e \in Between(g, i, j, "failed") : e.key = log[g][i].key
                        \/ Cardinality({e.key : e \in Between(g, i, j, "done")} \ {log[g][i].key}) >= CacheSize
      BY DEF NeverTwice
    <2>1. log[g] \in Seq(Happenings) /\ Sparing(log[g])
      BY DEF IInv, CallerInv, CallerTypes, BookInv
    <2>2. i \in DOMAIN log[g] /\ j \in DOMAIN log[g]
      BY <2>1
    <2>3. {e.key : e \in Between(g, i, j, "done")} = DoneBetween(log[g], i, j)
      BY DEF Between, DoneBetween
    <2>4. FailedBetween(log[g], i, j, log[g][i].key) => \E e \in Between(g, i, j, "failed") : e.key = log[g][i].key
      BY DEF Between, FailedBetween
    <2> QED BY <2>1, <2>2, <2>3, <2>4 DEF Sparing
  <1> QED BY <1>1, Inductive, PTL

-----------------------------------------------------------------------------
(* McpAgent: one part of the invariant for each group of variables that change *)
(* together, the turns of the call, the wait of the agent, its replies with the *)
(* acknowledgement, and the opening *)

\* Where the cursor of the call is for a tool that reads it.
Reached == IF cursor.turn = -1 THEN 0 ELSE cursor.turn

Calls == [way : {"none", "incoming", "outgoing"}, phase : Phases, known : Phases,
          answered : BOOLEAN, media : BOOLEAN]
Openings == [at : OpeningStages, live : BOOLEAN, polls : 0..MaxPolls, spoken : 0..2]
Waits == [at : {"none", "mode", "incoming", "turn", "cancelling", "speaking"},
          after : Seqs, got : Seqs, behind : Seqs]
Cursors == [turn : Seqs \cup {-1}, ring : 0..1]
Says == [at : {"none", "cancelling", "speaking"}, for : Seqs \cup {-1}, behind : Seqs]
Acks == [seq : Seqs, timers : SUBSET {"primary", "follow"},
         todo : SUBSET {"primary", "follow"}, started : BOOLEAN]
Speeches == [who : {"nobody", "ack", "opening", "prepared", "reply"}, seq : Seqs]

\* A turn is a fragment or more that settled, and the end comes with its event.
TurnInv ==
  /\ call \in Calls /\ turns \in Seq(SUBSET Kinds) /\ frag \subseteq Kinds
  /\ spoke \in 0..MaxFragments
  /\ Len(turns) + (IF frag = {} THEN 0 ELSE 1)
       <= spoke + (IF call.known = "ended" THEN 1 ELSE 0)
  /\ \A i \in DOMAIN turns : turns[i] = Ended => call.known = "ended"
  /\ \A i, j \in DOMAIN turns : turns[i] = Ended /\ turns[j] = Ended => i = j

\* The cursor does not move while a tool waits or speaks, and all it has passed was heard.
WaitInv ==
  /\ wait \in Waits /\ cursor \in Cursors /\ heard \in Seq(SUBSET Seqs) /\ rings \in 0..1
  /\ cursor.turn <= Len(turns) /\ wait.got <= Len(turns)
  /\ wait.at \in {"turn", "cancelling", "speaking"} => wait.after = Reached
  /\ wait.at \in {"cancelling", "speaking"} => wait.after < wait.got
  /\ \A i \in DOMAIN heard : \A n \in heard[i] : 1 <= n /\ n <= Reached
  /\ NoLostWakeup /\ NothingPassedOver /\ HeardInOrder

\* A reply answers what the cursor has reached; an acknowledgement that may still be spoken
\* is for a turn that no reply is about.
ReplyInv ==
  /\ say \in Says /\ replied \in Seqs /\ ack \in Acks /\ mouth \in Speeches
  /\ say.for <= Reached /\ replied <= Reached /\ ack.seq <= Len(turns)
  /\ ack.timers # {} => ack.seq > say.for /\ ack.seq > replied

\* The opening is spoken in its last stages only, and waits for the event of the activation.
OpeningInv ==
  /\ opening \in Openings
  /\ opening.spoken <= (IF opening.at \in {"speaking", "done"} THEN 1 ELSE 0)
  /\ OpeningNotForgotten

PlaceInv ==
  /\ dial \in {"none", "rendering", "correlating", "found", "done"}
  /\ prep \in {"none", "ready", "used"} /\ server \in {"open", "closed"}

AgentIInv == TurnInv /\ WaitInv /\ ReplyInv /\ OpeningInv /\ PlaceInv

-----------------------------------------------------------------------------
(* AgentBounds and records *)

\* There is room for a turn of every fragment, and for the end.
LEMMA AgentBounds ==
  /\ MaxTurns \in Nat /\ MaxTurns = MaxFragments + 1 /\ MaxTurns >= 1
  /\ MaxPolls \in Nat /\ MaxFragments \in Nat
  /\ Seqs = 0..MaxTurns /\ 0 \in Seqs /\ 1 \in Seqs
  BY McpAgentAssumption DEF MaxTurns, Seqs

\* What is fixed by a record without its counters.
LEMMA Constants ==
  /\ NoAck \in Acks /\ NoAck.timers = {} /\ NoAck.seq = 0 /\ NoAck.started = FALSE
  /\ NoWait \in Waits /\ NoWait.at = "none" /\ NoWait.got = 0
  /\ NoSay \in Says /\ NoSay.at = "none" /\ NoSay.for = -1
  /\ Silent \in Speeches /\ Silent.who = "nobody"
  /\ NoOpening \in Openings /\ NoOpening.spoken = 0 /\ NoOpening.at = "none"
  BY AgentBounds DEF NoAck, NoWait, NoSay, Silent, NoOpening, Acks, Waits, Says, Speeches, Openings,
                OpeningStages

\* The turns fit.
LEMMA TurnBounds ==
  ASSUME TurnInv
  PROVE  /\ Len(turns) \in Nat /\ Len(turns) <= MaxTurns
         /\ frag # {} => Len(turns) < MaxTurns
         /\ Len(turns) \in Seqs /\ DOMAIN turns = 1..Len(turns)
  BY AgentBounds DEF TurnInv

\* The cursor is a number of a turn.
LEMMA ReachedBounds ==
  ASSUME TurnInv, WaitInv
  PROVE  Reached \in Seqs /\ Reached \in Nat /\ Reached <= Len(turns) /\ cursor.turn <= Reached
         /\ cursor.turn \in Int
  BY AgentBounds, TurnBounds DEF WaitInv, Reached, Cursors

\* The invariant gives what the runs check.
LEMMA IInvGives == AgentIInv => AgentInv /\ TurnsKept
  <1> SUFFICES ASSUME AgentIInv PROVE AgentInv /\ TurnsKept
    OBVIOUS
  <1>1. TurnInv /\ WaitInv /\ ReplyInv /\ OpeningInv /\ PlaceInv
    BY DEF AgentIInv
  <1>2. Len(turns) <= MaxTurns /\ Len(turns) \in Nat
    BY <1>1, TurnBounds
  <1>3. cursor.turn <= Len(turns) /\ wait.got <= Len(turns)
    BY <1>1 DEF WaitInv
  <1>4. say.for <= Len(turns) /\ replied <= Len(turns) /\ ack.seq <= Len(turns)
    <2>1. say.for \in Int /\ replied \in Int
      BY <1>1, AgentBounds DEF ReplyInv, Says
    <2> QED BY <1>1, <1>2, <2>1, ReachedBounds, AgentBounds DEF ReplyInv
  <1>5. AgentTypeOK
    BY <1>1, <1>2, <1>3, <1>4
    DEF AgentTypeOK, TurnInv, WaitInv, ReplyInv, OpeningInv, PlaceInv, Calls, Openings, Waits,
        Cursors, Says, Acks, Speeches
  <1>6. OpeningOnce
    <2>1. opening.spoken \in Nat
      BY <1>1 DEF OpeningInv, Openings
    <2> QED BY <1>1, <2>1 DEF OpeningInv, OpeningOnce
  <1> QED BY <1>1, <1>5, <1>6 DEF AgentInv, TurnsKept, WaitInv, OpeningInv

\* Nobody has called yet.
LEMMA AgentInitInv == AgentInit => AgentIInv
  <1> SUFFICES ASSUME AgentInit PROVE AgentIInv
    OBVIOUS
  <1>1. TurnInv
    <2>1. call \in Calls
      BY DEF AgentInit, Calls, Phases
    <2>2. call.known = "idle"
      BY DEF AgentInit
    <2> QED BY <2>1, <2>2, AgentBounds DEF AgentInit, TurnInv
  <1>2. WaitInv
    <2>1. cursor \in Cursors /\ cursor.turn = -1 /\ cursor.ring = 0
      BY AgentBounds DEF AgentInit, Cursors
    <2> QED BY <2>1, AgentBounds, Constants
    DEF AgentInit, WaitInv, Reached, NoLostWakeup, NothingPassedOver, HeardInOrder
  <1>3. ReplyInv
    <2>1. cursor.turn = -1
      BY DEF AgentInit
    <2> QED BY <2>1, AgentBounds, Constants DEF AgentInit, ReplyInv, Reached
  <1>4. OpeningInv
    <2>1. call.known = "idle"
      BY DEF AgentInit
    <2> QED BY <2>1, Constants DEF AgentInit, OpeningInv, OpeningNotForgotten
  <1>5. PlaceInv
    BY DEF AgentInit, PlaceInv
  <1> QED BY <1>1, <1>2, <1>3, <1>4, <1>5 DEF AgentIInv

-----------------------------------------------------------------------------
(* The wait *)

\* The turns only grow: by fragments that settled, and by the end.
Grows ==
  /\ turns' \in Seq(SUBSET Kinds) /\ Len(turns) <= Len(turns') /\ Len(turns') <= MaxTurns
  /\ \A i \in 1..Len(turns) : turns'[i] = turns[i]

\* What is given covers the turns after the cursor up to seq, if the call goes on.
Covers(seq, given) ==
  /\ seq \in Nat /\ Reached <= seq /\ seq <= Len(turns') /\ given \subseteq (Reached + 1)..seq
  /\ Ended \notin Range(turns') => \A i \in 1..seq : i > Reached => i \in given

\* Keeping the turns is growth.
LEMMA SameGrows == ASSUME TurnInv, UNCHANGED turns PROVE Grows
  BY TurnBounds DEF TurnInv, Grows

\* While the call goes on after the step it went on before it.
LEMMA StillOn ==
  ASSUME TurnInv, Grows, Ended \notin Range(turns')
  PROVE  Ended \notin Range(turns)
  BY TurnBounds DEF Grows, Range

\* An answer in one piece: the cursor moves to its end, nothing is left out and nothing comes
\* twice.
LEMMA ReceiptKeeps ==
  ASSUME TurnInv, WaitInv, Grows, UNCHANGED rings, NEW seq, NEW given, Covers(seq, given),
         Receipt(seq, given)
  PROVE  WaitInv' /\ Reached' = seq
  <1>1. /\ seq \in Nat /\ Reached \in Nat /\ Reached <= seq /\ seq <= Len(turns')
        /\ given \subseteq (Reached + 1)..seq /\ Len(turns) \in Nat /\ Len(turns') \in Nat
        /\ Len(turns') <= MaxTurns /\ seq \in Seqs
    BY AgentBounds, ReachedBounds, TurnBounds DEF Covers, Grows
  <1>2. cursor \in Cursors /\ cursor' = [cursor EXCEPT !.turn = IF seq > @ THEN seq ELSE @]
    BY DEF Receipt, WaitInv
  <1>3. cursor'.turn = (IF seq > cursor.turn THEN seq ELSE cursor.turn) /\ cursor' \in Cursors
    BY <1>1, <1>2 DEF Cursors
  <1>4. cursor'.turn = seq /\ Reached' = seq
    <2>1. cursor'.turn = seq
      BY <1>1, <1>2, <1>3 DEF Cursors, Reached, Seqs
    <2> QED BY <1>1, <2>1 DEF Reached
  <1>5. wait' = NoWait
    BY DEF Receipt
  <1>6. /\ heard \in Seq(SUBSET Seqs)
        /\ heard' = (IF given = {} THEN heard ELSE Append(heard, given))
    BY DEF Receipt, Hears, WaitInv
  <1>7. given \subseteq Seqs
    BY <1>1, AgentBounds
  <1>8. /\ heard' \in Seq(SUBSET Seqs)
        /\ \A i \in DOMAIN heard : i \in DOMAIN heard' /\ heard'[i] = heard[i]
        /\ \A i \in DOMAIN heard' \ DOMAIN heard :
             i = Len(heard) + 1 /\ heard'[i] = given /\ given # {}
        /\ given # {} => Len(heard) + 1 \in DOMAIN heard' /\ heard'[Len(heard) + 1] = given
        /\ DOMAIN heard = 1..Len(heard) /\ Len(heard) \in Nat
        /\ DOMAIN heard' = 1..Len(heard')
    <2>1. CASE given = {}
      BY <1>6, <2>1
    <2>2. CASE given # {}
      BY <1>6, <1>7, <2>2
    <2> QED BY <2>1, <2>2
  <1>9. \A i \in DOMAIN heard : \A n \in heard[i] : 1 <= n /\ n <= Reached /\ n \in Nat
    BY <1>6, <1>8 DEF WaitInv, Seqs
  <1>10. \A n \in given : Reached < n /\ n <= seq /\ n \in Nat /\ 1 <= n
    BY <1>1
  <1>11. \A i \in DOMAIN heard' : \A n \in heard'[i] : 1 <= n /\ n <= seq
    <2> SUFFICES ASSUME NEW i \in DOMAIN heard', NEW n \in heard'[i] PROVE 1 <= n /\ n <= seq
      OBVIOUS
    <2>1. CASE i \in DOMAIN heard
      BY <1>1, <1>8, <1>9, <2>1
    <2>2. CASE i \notin DOMAIN heard
      BY <1>8, <1>10, <2>2
    <2> QED BY <2>1, <2>2
  <1>12. HeardInOrder'
    <2> SUFFICES ASSUME NEW i \in DOMAIN heard', NEW j \in DOMAIN heard', i < j,
                        NEW n \in heard'[i], NEW m \in heard'[j]
                 PROVE  n < m
      BY DEF HeardInOrder
    <2>1. CASE j \in DOMAIN heard
      <3>1. i \in DOMAIN heard
        BY <1>8, <2>1
      <3> QED BY <1>8, <2>1, <3>1 DEF WaitInv, HeardInOrder
    <2>2. CASE j \notin DOMAIN heard
      <3>1. j = Len(heard) + 1 /\ m \in given
        BY <1>8, <2>2
      <3>2. i \in DOMAIN heard
        BY <1>8, <3>1
      <3> QED BY <1>1, <1>8, <1>9, <1>10, <3>1, <3>2
    <2> QED BY <2>1, <2>2
  <1>13. NothingPassedOver'
    <2> SUFFICES ASSUME Ended \notin Range(turns'), NEW i \in DOMAIN turns', i <= cursor'.turn
                 PROVE  i \in UNION Range(heard')
      BY DEF NothingPassedOver
    <2>1. i \in 1..seq
      BY <1>4 DEF Grows
    <2>2. CASE i > Reached
      <3>1. i \in given
        BY <2>1, <2>2 DEF Covers
      <3>2. given \in Range(heard')
        BY <1>8, <3>1 DEF Range
      <3> QED BY <3>1, <3>2
    <2>3. CASE i <= Reached
      <3>1. i <= cursor.turn /\ i \in DOMAIN turns
        BY <1>1, <1>2, <2>1, <2>3, ReachedBounds, TurnBounds DEF Reached
      <3>2. i \in UNION Range(heard)
        BY <3>1, StillOn DEF WaitInv, NothingPassedOver
      <3>3. PICK k \in DOMAIN heard : i \in heard[k]
        BY <3>2 DEF Range
      <3>4. k \in DOMAIN heard' /\ i \in heard'[k]
        BY <1>8, <3>3
      <3> QED BY <3>4 DEF Range
    <2> QED BY <1>1, <2>1, <2>2, <2>3
  <1>14. NoLostWakeup'
    BY <1>5, Constants DEF NoLostWakeup
  <1>15. wait' \in Waits /\ wait'.at = "none" /\ wait'.got = 0
    BY <1>5, Constants
  <1>16. rings' \in 0..1
    BY DEF WaitInv
  <1> QED BY <1>1, <1>3, <1>4, <1>8, <1>11, <1>12, <1>13, <1>14, <1>15, <1>16 DEF WaitInv

\* The wait, with the ring it may be for, goes on while the cursor stays.
WaitMoves ==
  /\ wait' \in Waits /\ wait'.got <= Len(turns') /\ UNCHANGED <<heard, rings, cursor>>
  /\ wait'.at \in {"turn", "cancelling", "speaking"} => wait'.after = Reached
  /\ wait'.at \in {"cancelling", "speaking"} => wait'.after < wait'.got
  /\ wait'.at = "turn" => Len(turns') <= wait'.after
  /\ wait'.at = "incoming" => rings <= wait'.after

\* What was heard is still everything up to the cursor.
LEMMA WaitMovesKeeps ==
  ASSUME TurnInv, WaitInv, Grows, WaitMoves
  PROVE  WaitInv' /\ Reached' = Reached
  <1>1. Reached' = Reached
    BY DEF WaitMoves, Reached
  <1>2. NothingPassedOver'
    <2> SUFFICES ASSUME Ended \notin Range(turns'), NEW i \in DOMAIN turns', i <= cursor.turn
                 PROVE  i \in UNION Range(heard)
      BY DEF NothingPassedOver, WaitMoves
    <2>1. i \in DOMAIN turns
      BY TurnBounds, ReachedBounds DEF WaitInv, Grows
    <2> QED BY <2>1, StillOn DEF WaitInv, NothingPassedOver
  <1>3. HeardInOrder'
    BY DEF WaitInv, HeardInOrder, WaitMoves
  <1>4. NoLostWakeup'
    BY DEF WaitMoves, NoLostWakeup
  <1>5. cursor'.turn <= Len(turns')
    BY TurnBounds, ReachedBounds DEF WaitInv, WaitMoves, Grows
  <1> QED BY <1>1, <1>2, <1>3, <1>4, <1>5 DEF WaitInv, WaitMoves

\* A step that leaves the wait alone, while it awaits no turn or there is none.
LEMMA SameWait ==
  ASSUME TurnInv, WaitInv, Grows, UNCHANGED <<agentVars, rings>>,
         wait.at = "turn" => UNCHANGED turns
  PROVE  WaitInv' /\ Reached' = Reached
  <1>1. wait.got \in Nat /\ wait.got <= Len(turns) /\ Len(turns) \in Nat /\ Len(turns') \in Nat
    BY AgentBounds, TurnBounds DEF WaitInv, Waits, Grows
  <1>2. wait'.got <= Len(turns')
    BY <1>1 DEF Grows, agentVars
  <1>3. WaitMoves
    BY <1>2 DEF WaitMoves, WaitInv, NoLostWakeup, agentVars
  <1> QED BY <1>3, WaitMovesKeeps

-----------------------------------------------------------------------------
(* Replies and acknowledgements *)

\* An acknowledgement that may be spoken is the one there was, or for a turn that the cursor
\* had not reached.
Acknowledges(a) ==
  /\ a \in Acks /\ a.seq <= Len(turns')
  /\ a.timers # {} => a.seq > Reached \/ (a.seq = ack.seq /\ ack.timers # {})

\* So no reply is about its turn.
LEMMA AcknowledgesKeeps ==
  ASSUME TurnInv, WaitInv, ReplyInv, UNCHANGED <<say, replied>>, Reached' \in Nat,
         Reached <= Reached', Acknowledges(ack'), mouth' \in Speeches
  PROVE  ReplyInv'
  <1>1. say.for \in Int /\ replied \in Int /\ ack.seq \in Int /\ ack'.seq \in Int
    BY AgentBounds DEF ReplyInv, Says, Acks, Acknowledges
  <1>2. say.for <= Reached' /\ replied <= Reached' /\ say.for <= Reached /\ replied <= Reached
    BY <1>1, ReachedBounds DEF ReplyInv
  <1>3. ack'.timers # {} => ack'.seq > say.for /\ ack'.seq > replied
    BY <1>1, <1>2, ReachedBounds DEF ReplyInv, Acknowledges
  <1> QED BY <1>2, <1>3 DEF ReplyInv, Acknowledges

\* The acknowledgement there was is one, and so is none.
LEMMA SameAcknowledges ==
  ASSUME TurnInv, ReplyInv, Grows
  PROVE  Acknowledges(ack) /\ Acknowledges(NoAck)
  <1>1. ack.seq \in Int /\ Len(turns) \in Nat /\ Len(turns') \in Nat
    BY AgentBounds, TurnBounds DEF ReplyInv, Acks, Grows
  <1> QED BY <1>1, Constants DEF ReplyInv, Grows, Acknowledges

\* What is scheduled for a turn that the cursor had not reached is one.
LEMMA ScheduleAcknowledges ==
  ASSUME TurnInv, ReplyInv, Grows, NEW previous, NEW seq \in Seqs, NEW text,
         seq <= Len(turns'), seq > Reached, ScheduleAfter(previous, seq, text)
  PROVE  Acknowledges(ack')
  <1>1. CASE ack' = NoAck
    BY <1>1, SameAcknowledges
  <1>2. ASSUME NEW more \in SUBSET {"follow"},
               ack' = [NoAck EXCEPT !.seq = seq, !.timers = {"primary"} \cup more]
        PROVE  Acknowledges(ack')
    <2>1. PICK a : a = [NoAck EXCEPT !.seq = seq]
      OBVIOUS
    <2>2. a \in Acks /\ a.seq = seq
      BY <2>1, Constants DEF Acks
    <2>3. PICK b : b = [a EXCEPT !.timers = {"primary"} \cup more]
      OBVIOUS
    <2>4. {"primary"} \cup more \in SUBSET {"primary", "follow"}
      OBVIOUS
    <2>5. b \in Acks /\ b.seq = seq
      BY <2>2, <2>3, <2>4 DEF Acks
    <2>6. ack' = b
      BY <1>2, <2>1, <2>3
    <2> QED BY <2>5, <2>6 DEF Acknowledges
  <1> QED BY <1>1, <1>2 DEF ScheduleAfter, Cancelled

-----------------------------------------------------------------------------
(* Turns that are handed over *)

\* w is a wait that got a turn which the cursor has not reached.
Got(w) ==
  /\ w \in Waits /\ w.after = Reached /\ w.after < w.got /\ w.got <= Len(turns')

Others == UNCHANGED <<rings, say, replied>> /\ mouth' \in Speeches

\* What is given covers what was published, whether its reply was prepared or not.
LEMMA GivenCovers ==
  ASSUME TurnInv, WaitInv, Grows, NEW w, Got(w)
  PROVE  Covers(w.got, Given(turns', w.after, w.got)) /\ w.got \in Nat
  <1> DEFINE given == Given(turns', w.after, w.got)
  <1>1. w.got \in Nat /\ Reached \in Nat /\ w.after = Reached
        /\ Reached < w.got /\ w.got <= Len(turns')
    BY AgentBounds, ReachedBounds DEF Got, Waits
  <1>2. given \subseteq (Reached + 1)..w.got
    BY <1>1 DEF Given
  <1>3. ASSUME Ended \notin Range(turns'), NEW i \in 1..w.got, i > Reached
        PROVE  i \in given
    <2>1. i \in DOMAIN turns'
      BY <1>1 DEF Grows
    <2>2. turns'[i] # Ended
      BY <1>3, <2>1 DEF Range
    <2> QED BY <1>1, <1>3, <2>2 DEF Given
  <1> HIDE DEF given
  <1>4. Covers(w.got, given)
    BY <1>1, <1>2, <1>3 DEF Covers
  <1> QED BY <1>1, <1>4 DEF given

\* What is handed over is all there is up to the turn.
LEMMA HandOverKeeps ==
  ASSUME TurnInv, WaitInv, ReplyInv, Grows, Others, NEW w, Got(w), NEW text, HandOver(w, text)
  PROVE  WaitInv' /\ ReplyInv'
  <1>1. w.got \in Seqs /\ Reached < w.got /\ w.got <= Len(turns') /\ w.got \in Nat
    BY AgentBounds, ReachedBounds DEF Got, Waits
  <1>2. WaitInv' /\ Reached' = w.got
    BY GivenCovers, ReceiptKeeps DEF HandOver, Others
  <1>3. Acknowledges(ack')
    BY <1>1, ScheduleAcknowledges DEF HandOver, Schedule
  <1>4. ReplyInv'
    BY <1>1, <1>2, <1>3, ReachedBounds, AcknowledgesKeeps DEF Others
  <1> QED BY <1>2, <1>4

\* What awaits the acknowledgement that it awaits has a number.
LEMMA BehindType == ASSUME ReplyInv PROVE Behind \in Seqs
  BY AgentBounds DEF ReplyInv, Behind, Acks

\* With a prepared reply the cursor stays until the reply is over.
LEMMA FinalizeKeeps ==
  ASSUME TurnInv, WaitInv, ReplyInv, Grows, Others, NEW w, Got(w), NEW text,
         Finalize(w, text)
  PROVE  WaitInv' /\ ReplyInv'
  <1>1. CASE HandOver(w, text)
    BY <1>1, HandOverKeeps
  <1>2. CASE /\ wait' = [w EXCEPT !.at = "cancelling", !.behind = Behind] /\ Cancelled
             /\ UNCHANGED <<cursor, heard>>
    <2>1. PICK a : a = [w EXCEPT !.at = "cancelling"]
      OBVIOUS
    <2>2. a \in Waits /\ a.at = "cancelling" /\ a.got = w.got /\ a.after = w.after
      BY <2>1 DEF Got, Waits
    <2>3. PICK b : b = [a EXCEPT !.behind = Behind]
      OBVIOUS
    <2>4. b \in Waits /\ b.at = "cancelling" /\ b.got = w.got /\ b.after = w.after
      BY <2>2, <2>3, BehindType DEF Waits
    <2>5. wait' = b
      BY <1>2, <2>1, <2>3
    <2>6. WaitMoves
      BY <1>2, <2>4, <2>5 DEF WaitMoves, Got, Others
    <2>7. WaitInv' /\ Reached' = Reached
      BY <2>6, WaitMovesKeeps
    <2>8. Acknowledges(ack')
      BY <1>2, SameAcknowledges DEF Cancelled
    <2>9. ReplyInv'
      BY <2>7, <2>8, ReachedBounds, AcknowledgesKeeps DEF Others
    <2> QED BY <2>7, <2>9
  <1> QED BY <1>1, <1>2 DEF Finalize

\* A tool that waits behind a speech got a turn.
LEMMA WaitGot ==
  ASSUME TurnInv, WaitInv, Grows, wait.at \in {"cancelling", "speaking"}
  PROVE  Got(wait)
  <1>1. wait.got \in Nat /\ Len(turns) \in Nat /\ Len(turns') \in Nat
    BY AgentBounds, TurnBounds DEF WaitInv, Waits, Grows
  <1> QED BY <1>1 DEF WaitInv, Grows, Got

\* A fragment that settles is numbered, and given to the tool that waits.
LEMMA PublishKeeps ==
  ASSUME TurnInv, WaitInv, ReplyInv, Others, NEW text \in SUBSET Kinds, Len(turns) < MaxTurns,
         Publish(text)
  PROVE  WaitInv' /\ ReplyInv' /\ Grows
  <1>1. turns' = Append(turns, text) /\ turns \in Seq(SUBSET Kinds)
    BY DEF Publish, TurnInv
  <1>2. Len(turns') = Len(turns) + 1 /\ Len(turns) \in Nat /\ Len(turns) + 1 \in Seqs
    BY <1>1, AgentBounds, TurnBounds
  <1>3. Grows
    BY <1>1, <1>2, AgentBounds DEF Grows
  <1>4. CASE /\ wait.at = "turn"
             /\ Finalize([wait EXCEPT !.got = Len(turns) + 1], text)
    <2>1. PICK w : w = [wait EXCEPT !.got = Len(turns) + 1]
      OBVIOUS
    <2>2. w \in Waits /\ w.got = Len(turns) + 1 /\ w.after = wait.after
      BY <1>2, <2>1 DEF WaitInv, Waits
    <2>3. wait.after = Reached /\ Reached <= Len(turns) /\ Reached \in Nat
      BY <1>4, ReachedBounds DEF WaitInv
    <2>4. Got(w)
      BY <1>2, <2>2, <2>3 DEF Got
    <2>5. Finalize(w, text)
      BY <1>4, <2>1
    <2> QED BY <1>3, <2>4, <2>5, FinalizeKeeps
  <1>5. CASE wait.at # "turn" /\ UNCHANGED <<wait, cursor, heard, ack>>
    <2>1. WaitInv' /\ Reached' = Reached
      BY <1>3, <1>5, SameWait DEF Others, agentVars
    <2>2. Acknowledges(ack')
      BY <1>3, <1>5, SameAcknowledges
    <2>3. ReplyInv'
      BY <2>1, <2>2, ReachedBounds, AcknowledgesKeeps DEF Others
    <2> QED BY <1>3, <2>1, <2>3
  <1> QED BY <1>4, <1>5 DEF Publish

-----------------------------------------------------------------------------
(* Steps that leave the turns and the wait alone *)

\* The call moves on, and an end that was told stays told.
CallMoves ==
  /\ UNCHANGED <<turns, frag, spoke>> /\ call' \in Calls
  /\ call.known = "ended" => call'.known = "ended"

LEMMA CallMovesKeeps == ASSUME TurnInv, CallMoves PROVE TurnInv' /\ Grows
  <1>1. Grows
    BY SameGrows DEF CallMoves
  <1>2. Len(turns) \in Nat /\ spoke \in Nat
    BY TurnBounds DEF TurnInv
  <1> QED BY <1>1, <1>2 DEF TurnInv, CallMoves

\* A step of a speech.
LEMMA TalkKeeps ==
  ASSUME AgentIInv, UNCHANGED <<call, dial, opening, prep, turns, frag, spoke, rings, agentVars,
                           server>>, ReplyInv'
  PROVE  AgentIInv'
  <1>1. TurnInv /\ WaitInv
    BY DEF AgentIInv
  <1>2. TurnInv' /\ Grows
    BY <1>1, SameGrows DEF TurnInv
  <1>3. WaitInv'
    BY <1>1, <1>2, SameWait
  <1>4. OpeningInv' /\ PlaceInv'
    BY DEF AgentIInv, OpeningInv, OpeningNotForgotten, PlaceInv
  <1> QED BY <1>2, <1>3, <1>4 DEF AgentIInv

\* A step of the call, of the dial or of the opening.
LEMMA OpeningKeeps ==
  ASSUME AgentIInv, CallMoves, UNCHANGED <<rings, agentVars, say, replied, ack>>,
         mouth' \in Speeches, OpeningInv', PlaceInv'
  PROVE  AgentIInv'
  <1>1. TurnInv /\ WaitInv /\ ReplyInv
    BY DEF AgentIInv
  <1>2. TurnInv' /\ Grows
    BY <1>1, CallMovesKeeps
  <1>3. WaitInv' /\ Reached' = Reached
    BY <1>1, <1>2, SameWait DEF CallMoves
  <1>4. Acknowledges(ack')
    BY <1>1, <1>2, SameAcknowledges
  <1>5. ReplyInv'
    BY <1>1, <1>3, <1>4, ReachedBounds, AcknowledgesKeeps
  <1> QED BY <1>2, <1>3, <1>5 DEF AgentIInv

\* A step of the wait.
LEMMA WaitKeeps ==
  ASSUME AgentIInv, UNCHANGED <<call, dial, turns, frag, spoke, server>>,
         WaitInv', ReplyInv', OpeningInv', prep' \in {"none", "ready", "used"}
  PROVE  AgentIInv'
  BY DEF AgentIInv, TurnInv, PlaceInv

\* What a speech says is typed, taken or refused.
LEMMA TakenSpeech ==
  ASSUME ReplyInv, NEW who \in {"ack", "opening", "prepared", "reply"}, NEW seq \in Seqs,
         Takes(who, seq) \/ Refuses \/ UNCHANGED mouth \/ mouth' = Silent
  PROVE  mouth' \in Speeches
  BY Constants DEF ReplyInv, Takes, Refuses, Speeches

\* The timer of an acknowledgement.
LEMMA AckTimerInv == ASSUME AgentIInv, AckTimer PROVE AgentIInv'
  <1>1. TurnInv /\ WaitInv /\ ReplyInv
    BY DEF AgentIInv
  <1>2. PICK kind \in ack.timers :
          LET left == [ack EXCEPT !.timers = @ \ {kind}]
              begun == [left EXCEPT !.started = TRUE]
          IN \/ ack' = left /\ UNCHANGED mouth
             \/ ack' = [begun EXCEPT !.todo = @ \cup {kind}] /\ UNCHANGED mouth
             \/ ack' = begun /\ Takes("ack", ack.seq)
             \/ ack' = Settled(begun) /\ Refuses
    BY DEF AckTimer
  <1>3. PICK left : left = [ack EXCEPT !.timers = @ \ {kind}]
    OBVIOUS
  <1>4. left \in Acks /\ left.seq = ack.seq /\ ack.timers # {} /\ kind \in {"primary", "follow"}
    BY <1>1, <1>2, <1>3 DEF ReplyInv, Acks
  <1>5. PICK begun : begun = [left EXCEPT !.started = TRUE]
    OBVIOUS
  <1>6. begun \in Acks /\ begun.seq = ack.seq
    BY <1>4, <1>5 DEF Acks
  <1>7. PICK more : more = [begun EXCEPT !.todo = @ \cup {kind}]
    OBVIOUS
  <1>8. begun.todo \cup {kind} \in SUBSET {"primary", "follow"}
    BY <1>4, <1>6 DEF Acks
  <1>9. more \in Acks /\ more.seq = ack.seq
    BY <1>6, <1>7, <1>8 DEF Acks
  <1>10. ack' \in {left, begun, more, NoAck} /\ ack.seq \in Seqs
    BY <1>1, <1>2, <1>3, <1>5, <1>7 DEF Settled, ReplyInv, Acks
  <1>11. mouth' \in Speeches
    BY <1>1, <1>2, <1>10, TakenSpeech
  <1>12. Grows /\ Acknowledges(NoAck) /\ ack.seq <= Len(turns')
    BY <1>1, SameGrows, SameAcknowledges DEF AckTimer, ReplyInv
  <1>13. Acknowledges(ack')
    BY <1>4, <1>6, <1>9, <1>10, <1>12 DEF Acknowledges
  <1>14. Reached' = Reached
    BY DEF AckTimer, agentVars, Reached
  <1>15. ReplyInv'
    BY <1>1, <1>11, <1>13, <1>14, ReachedBounds, AcknowledgesKeeps DEF AckTimer
  <1> QED BY <1>15, TalkKeeps DEF AckTimer

\* The speech of an acknowledgement ends.
LEMMA AckEndsInv == ASSUME AgentIInv, AckEnds PROVE AgentIInv'
  <1>1. TurnInv /\ WaitInv /\ ReplyInv
    BY DEF AgentIInv
  <1>2. PICK less : less = [ack EXCEPT !.todo = {}]
    OBVIOUS
  <1>3. less \in Acks /\ less.seq = ack.seq /\ less.timers = ack.timers
    BY <1>1, <1>2 DEF ReplyInv, Acks
  <1>4. ack' \in {less, ack, NoAck} /\ (UNCHANGED mouth \/ mouth' = Silent)
    BY <1>2 DEF AckEnds, Settled
  <1>5. mouth' \in Speeches
    BY <1>1, <1>4, Constants DEF ReplyInv
  <1>6. Grows /\ Acknowledges(NoAck) /\ Acknowledges(ack) /\ ack.seq <= Len(turns')
    BY <1>1, SameGrows, SameAcknowledges DEF AckEnds, ReplyInv
  <1>7. Acknowledges(ack')
    BY <1>3, <1>4, <1>6 DEF Acknowledges
  <1>8. Reached' = Reached
    BY DEF AckEnds, agentVars, Reached
  <1>9. ReplyInv'
    BY <1>1, <1>5, <1>7, <1>8, ReachedBounds, AcknowledgesKeeps DEF AckEnds
  <1> QED BY <1>9, TalkKeeps DEF AckEnds

\* A reply begins: the acknowledgement is cancelled.
LEMMA AgentSpeaksInv == ASSUME AgentIInv, AgentSpeaks PROVE AgentIInv'
  <1>1. TurnInv /\ WaitInv /\ ReplyInv
    BY DEF AgentIInv
  <1>2. cursor.turn \in Seqs \cup {-1} /\ cursor.turn <= Reached /\ Behind \in Seqs
    BY <1>1, ReachedBounds, BehindType DEF WaitInv, Cursors
  <1>3. say' \in Says /\ say'.for = cursor.turn
    BY <1>2 DEF AgentSpeaks, Says
  <1>4. Reached' = Reached /\ Len(turns') = Len(turns) /\ Len(turns) \in Nat
    BY <1>1, TurnBounds DEF AgentSpeaks, agentVars, Reached
  <1>5. ReplyInv'
    BY <1>1, <1>2, <1>3, <1>4, Constants DEF AgentSpeaks, Cancelled, ReplyInv
  <1> QED BY <1>5, TalkKeeps DEF AgentSpeaks

\* A reply reaches the daemon: what it answered is then at most what the cursor reached.
LEMMA SayProceedsInv == ASSUME AgentIInv, SayProceeds PROVE AgentIInv'
  <1>1. TurnInv /\ WaitInv /\ ReplyInv
    BY DEF AgentIInv
  <1>2. PICK on : on = [say EXCEPT !.at = "speaking"]
    OBVIOUS
  <1>3. on \in Says /\ on.for = say.for /\ say.for \in Int /\ say.for \in Seqs \cup {-1}
        /\ replied \in Int /\ Reached \in Nat /\ replied >= 0 /\ ack.seq \in Int
    BY <1>1, <1>2, ReachedBounds, AgentBounds DEF ReplyInv, Says, Acks
  <1>4. /\ \/ say' = NoSay /\ UNCHANGED replied
           \/ say' = on /\ replied' = (IF say.for > replied THEN say.for ELSE replied)
        /\ Takes("reply", 0) \/ Refuses \/ UNCHANGED mouth
    BY <1>2 DEF SayProceeds
  <1>5. mouth' \in Speeches
    BY <1>1, <1>4, AgentBounds, TakenSpeech
  <1>6. Reached' = Reached /\ UNCHANGED <<ack, turns>>
    BY DEF SayProceeds, agentVars, Reached
  <1>7. say' \in Says /\ say'.for \in {say.for, -1}
    BY <1>3, <1>4, Constants
  <1>8. replied' \in {say.for, replied} /\ replied' \in Seqs
    BY <1>1, <1>3, <1>4, AgentBounds DEF ReplyInv
  <1>9. say'.for <= Reached' /\ replied' <= Reached'
    BY <1>1, <1>3, <1>6, <1>7, <1>8 DEF ReplyInv
  <1>10. ack.timers # {} => ack.seq > say'.for /\ ack.seq > replied'
    BY <1>1, <1>3, <1>7, <1>8 DEF ReplyInv
  <1>11. ReplyInv'
    BY <1>1, <1>5, <1>6, <1>7, <1>8, <1>9, <1>10 DEF ReplyInv
  <1> QED BY <1>11, TalkKeeps DEF SayProceeds

\* A reply is over.
LEMMA ReplyEndsInv == ASSUME AgentIInv, ReplyEnds PROVE AgentIInv'
  <1>1. TurnInv /\ WaitInv /\ ReplyInv
    BY DEF AgentIInv
  <1>2. say' \in {say, NoSay} /\ mouth' = Silent
    BY DEF ReplyEnds
  <1>3. say.for \in Int /\ replied \in Int /\ Reached \in Nat /\ ack.seq \in Int
    BY <1>1, ReachedBounds, AgentBounds DEF ReplyInv, Says, Acks
  <1>4. Reached' = Reached /\ UNCHANGED <<ack, turns, replied>> /\ replied >= 0
    BY <1>1, AgentBounds DEF ReplyEnds, agentVars, Reached, ReplyInv
  <1>5. say' \in Says /\ say'.for <= Reached'
    BY <1>1, <1>2, <1>3, <1>4, Constants DEF ReplyInv
  <1>6. ack.timers # {} => ack.seq > say'.for
    BY <1>1, <1>2, <1>3, <1>4, Constants DEF ReplyInv
  <1>7. ReplyInv'
    BY <1>1, <1>2, <1>4, <1>5, <1>6, Constants DEF ReplyInv
  <1> QED BY <1>7, TalkKeeps DEF ReplyEnds

-----------------------------------------------------------------------------
(* The opening, the dial and the call *)

\* A field of the call, one at a time.
LEMMA CallFields ==
  ASSUME NEW c \in Calls
  PROVE  /\ \A w \in {"none", "incoming", "outgoing"} :
              [c EXCEPT !.way = w] \in Calls /\ [c EXCEPT !.way = w].known = c.known
         /\ \A p \in Phases :
              [c EXCEPT !.phase = p] \in Calls /\ [c EXCEPT !.phase = p].known = c.known
         /\ \A p \in Phases :
              [c EXCEPT !.known = p] \in Calls /\ [c EXCEPT !.known = p].known = p
         /\ \A b \in BOOLEAN :
              [c EXCEPT !.answered = b] \in Calls /\ [c EXCEPT !.answered = b].known = c.known
         /\ \A b \in BOOLEAN :
              [c EXCEPT !.media = b] \in Calls /\ [c EXCEPT !.media = b].known = c.known
  BY DEF Calls

\* A field of the opening, one at a time.
LEMMA OpeningFields ==
  ASSUME NEW o \in Openings
  PROVE  /\ \A a \in OpeningStages :
              /\ [o EXCEPT !.at = a] \in Openings /\ [o EXCEPT !.at = a].at = a
              /\ [o EXCEPT !.at = a].spoken = o.spoken
         /\ \A b \in BOOLEAN :
              /\ [o EXCEPT !.live = b] \in Openings /\ [o EXCEPT !.live = b].at = o.at
              /\ [o EXCEPT !.live = b].spoken = o.spoken
         /\ \A n \in 0..MaxPolls :
              /\ [o EXCEPT !.polls = n] \in Openings /\ [o EXCEPT !.polls = n].at = o.at
              /\ [o EXCEPT !.polls = n].spoken = o.spoken
         /\ \A n \in 0..2 :
              /\ [o EXCEPT !.spoken = n] \in Openings /\ [o EXCEPT !.spoken = n].at = o.at
              /\ [o EXCEPT !.spoken = n].spoken = n
  BY DEF Openings

\* An opening that is over, or that a status was read for.
LEMMA OpeningEndsTyped ==
  ASSUME OpeningInv
  PROVE  /\ OpeningOver \in Openings /\ OpeningOver.at = "done"
         /\ OpeningOver.spoken = opening.spoken /\ opening.spoken \in 0..1
         /\ StatusNow \in {"over", "ready", "notready"}
         /\ opening \in Openings
  <1>1. opening \in Openings /\ opening.spoken \in 0..1
    BY DEF OpeningInv, Openings
  <1>2. PICK o : o = [opening EXCEPT !.at = "done"]
    OBVIOUS
  <1>3. o \in Openings /\ o.at = "done" /\ o.spoken = opening.spoken
    BY <1>1, <1>2, OpeningFields DEF OpeningStages
  <1>4. PICK p : p = [o EXCEPT !.live = FALSE]
    OBVIOUS
  <1>5. p \in Openings /\ p.at = "done" /\ p.spoken = opening.spoken
    BY <1>3, <1>4, OpeningFields
  <1>6. OpeningOver = p
    BY <1>2, <1>4 DEF OpeningOver
  <1>7. StatusNow \in {"over", "ready", "notready"}
    BY DEF StatusNow
  <1> QED BY <1>1, <1>5, <1>6, <1>7

\* A step of the opening alone.
OpeningMoves ==
  /\ UNCHANGED <<call, dial, prep, turns, frag, spoke, rings, agentVars, say, replied, ack,
                 server>>
  /\ mouth' \in Speeches /\ opening' \in Openings /\ opening'.at # "prepared"
  /\ opening'.spoken <= (IF opening'.at \in {"speaking", "done"} THEN 1 ELSE 0)

LEMMA OpeningMovesKeeps == ASSUME AgentIInv, OpeningMoves PROVE AgentIInv'
  <1>1. CallMoves
    BY DEF OpeningMoves, CallMoves, AgentIInv, TurnInv
  <1>2. OpeningInv'
    BY DEF OpeningMoves, OpeningInv, OpeningNotForgotten
  <1>3. PlaceInv'
    BY DEF OpeningMoves, PlaceInv, AgentIInv
  <1> QED BY <1>1, <1>2, <1>3, OpeningKeeps DEF OpeningMoves

\* The guard time of an opening is over.
LEMMA OpeningTimerInv == ASSUME AgentIInv, OpeningTimer PROVE AgentIInv'
  <1>1. OpeningInv /\ mouth \in Speeches
    BY DEF AgentIInv, ReplyInv
  <1>2. opening' \in Openings /\ opening'.at # "prepared"
        /\ opening'.spoken <= (IF opening'.at \in {"speaking", "done"} THEN 1 ELSE 0)
    <2>1. opening.spoken = 0
      BY <1>1, OpeningEndsTyped DEF OpeningTimer, OpeningInv
    <2>2. CASE opening' = OpeningOver
      BY <1>1, <2>1, <2>2, OpeningEndsTyped
    <2>3. CASE opening' = [opening EXCEPT !.at = StatusNow]
      <3>1. StatusNow \in OpeningStages /\ StatusNow # "prepared"
        BY <1>1, OpeningEndsTyped DEF OpeningStages
      <3>2. opening' \in Openings /\ opening'.at = StatusNow /\ opening'.spoken = 0
        BY <1>1, <2>1, <2>3, <3>1, OpeningEndsTyped, OpeningFields
      <3> QED BY <3>1, <3>2
    <2> QED BY <2>2, <2>3 DEF OpeningTimer
  <1> QED BY <1>1, <1>2, OpeningMovesKeeps DEF OpeningTimer, OpeningMoves

\* Another round of the loop.
LEMMA OpeningPollsInv == ASSUME AgentIInv, OpeningPolls PROVE AgentIInv'
  <1>1. OpeningInv /\ mouth \in Speeches
    BY DEF AgentIInv, ReplyInv
  <1>2. opening' \in Openings /\ opening'.at # "prepared"
        /\ opening'.spoken <= (IF opening'.at \in {"speaking", "done"} THEN 1 ELSE 0)
    <2>1. opening.spoken = 0 /\ opening \in Openings /\ opening.polls \in 0..MaxPolls
      BY <1>1, OpeningEndsTyped DEF OpeningPolls, OpeningInv, Openings
    <2>2. CASE opening' = OpeningOver
      BY <1>1, <2>1, <2>2, OpeningEndsTyped
    <2>3. CASE /\ opening.polls < MaxPolls
               /\ opening' = [opening EXCEPT !.at = StatusNow, !.polls = @ + 1]
      <3>1. StatusNow \in OpeningStages /\ StatusNow # "prepared"
        BY <1>1, OpeningEndsTyped DEF OpeningStages
      <3>2. PICK o : o = [opening EXCEPT !.at = StatusNow]
        OBVIOUS
      <3>3. o \in Openings /\ o.at = StatusNow /\ o.spoken = 0 /\ o.polls = opening.polls
        BY <2>1, <3>1, <3>2, OpeningFields DEF Openings
      <3>4. opening.polls + 1 \in 0..MaxPolls
        BY <2>1, <2>3, AgentBounds
      <3>5. PICK p : p = [o EXCEPT !.polls = opening.polls + 1]
        OBVIOUS
      <3>6. p \in Openings /\ p.at = StatusNow /\ p.spoken = 0
        BY <3>3, <3>4, <3>5, OpeningFields
      <3>7. opening' = p
        BY <2>3, <3>2, <3>5
      <3> QED BY <3>1, <3>6, <3>7
    <2> QED BY <2>2, <2>3 DEF OpeningPolls
  <1> QED BY <1>1, <1>2, OpeningMovesKeeps DEF OpeningPolls, OpeningMoves

\* The speech of the opening, taken at most once.
LEMMA OpeningSpeaksInv == ASSUME AgentIInv, OpeningSpeaks PROVE AgentIInv'
  <1>1. OpeningInv /\ ReplyInv
    BY DEF AgentIInv
  <1>2. opening.spoken = 0 /\ opening \in Openings
    BY <1>1, OpeningEndsTyped DEF OpeningSpeaks, OpeningInv
  <1>3. mouth' \in Speeches
    <2>1. Takes("opening", 0) \/ Refuses \/ UNCHANGED mouth
      BY DEF OpeningSpeaks
    <2> QED BY <1>1, <2>1, AgentBounds, TakenSpeech
  <1>4. opening' \in Openings /\ opening'.at # "prepared"
        /\ opening'.spoken <= (IF opening'.at \in {"speaking", "done"} THEN 1 ELSE 0)
    <2>1. CASE opening' = OpeningOver
      BY <1>1, <1>2, <2>1, OpeningEndsTyped
    <2>2. CASE opening' = [opening EXCEPT !.at = "notready"]
      <3>1. "notready" \in OpeningStages
        BY DEF OpeningStages
      <3>2. opening' \in Openings /\ opening'.at = "notready" /\ opening'.spoken = 0
        BY <1>2, <2>2, <3>1, OpeningFields
      <3> QED BY <3>2
    <2>3. CASE opening' = [opening EXCEPT !.at = "speaking", !.spoken = @ + 1]
      <3>1. PICK o : o = [opening EXCEPT !.at = "speaking"]
        OBVIOUS
      <3>2. o \in Openings /\ o.at = "speaking"
        BY <1>2, <3>1, OpeningFields DEF OpeningStages
      <3>3. PICK p : p = [o EXCEPT !.spoken = 1]
        OBVIOUS
      <3>4. 1 \in 0..2 /\ opening.spoken + 1 = 1
        BY <1>2
      <3>5. p \in Openings /\ p.at = "speaking" /\ p.spoken = 1
        BY <3>2, <3>3, <3>4, OpeningFields
      <3>6. opening' = p
        BY <2>3, <3>1, <3>3, <3>4
      <3> QED BY <3>5, <3>6
    <2> QED BY <2>1, <2>2, <2>3 DEF OpeningSpeaks
  <1> QED BY <1>3, <1>4, OpeningMovesKeeps DEF OpeningSpeaks, OpeningMoves

\* The speech of the opening is over.
LEMMA OpeningEndsInv == ASSUME AgentIInv, OpeningEnds PROVE AgentIInv'
  <1>1. OpeningInv /\ mouth' \in Speeches
    BY Constants DEF AgentIInv, OpeningEnds
  <1>2. CASE opening.at = "speaking"
    <2>1. opening' = OpeningOver
      BY <1>2 DEF OpeningEnds
    <2> QED BY <1>1, <2>1, OpeningEndsTyped, OpeningMovesKeeps DEF OpeningEnds, OpeningMoves
  <1>3. CASE opening.at # "speaking"
    <2>1. opening' = opening
      BY <1>3 DEF OpeningEnds
    <2>2. CallMoves
      BY DEF OpeningEnds, CallMoves, AgentIInv, TurnInv
    <2>3. OpeningInv' /\ PlaceInv'
      BY <2>1 DEF OpeningEnds, OpeningInv, OpeningNotForgotten, PlaceInv, AgentIInv
    <2> QED BY <1>1, <2>2, <2>3, OpeningKeeps DEF OpeningEnds
  <1> QED BY <1>2, <1>3

\* The dial tool; the call may already be active when it prepares the opening.
LEMMA DialInv ==
  ASSUME AgentIInv, AgentDials \/ DialTaken \/ DialCorrelates \/ DialPrepares PROVE AgentIInv'
  <1>1. call \in Calls /\ OpeningInv /\ mouth' \in Speeches
        /\ UNCHANGED <<turns, frag, spoke, rings, agentVars, say, replied, ack, mouth>>
    BY DEF AgentIInv, TurnInv, ReplyInv, AgentDials, DialTaken, DialCorrelates, DialPrepares
  <1>2. call' \in Calls /\ call'.known = call.known
    <2>1. CASE UNCHANGED call
      BY <1>1, <2>1
    <2>2. CASE call' = [call EXCEPT !.way = "outgoing"]
      BY <1>1, <2>2, CallFields
    <2> QED BY <2>1, <2>2 DEF AgentDials, DialTaken, DialCorrelates, DialPrepares
  <1>3. CallMoves
    BY <1>1, <1>2 DEF CallMoves
  <1>4. PlaceInv'
    BY DEF AgentIInv, PlaceInv, AgentDials, DialTaken, DialCorrelates, DialPrepares
  <1>5. OpeningInv'
    <2>1. CASE UNCHANGED opening
      BY <1>1, <1>2, <2>1 DEF OpeningInv, OpeningNotForgotten
    <2>2. CASE DialPrepares
      <3> DEFINE stage == IF call.known = "active" THEN "settling" ELSE "prepared"
      <3>1. PICK o : o = [NoOpening EXCEPT !.live = TRUE]
        OBVIOUS
      <3>2. o \in Openings /\ o.spoken = 0
        BY <3>1, Constants, OpeningFields
      <3>3. PICK p : p = [o EXCEPT !.at = stage]
        OBVIOUS
      <3> stage \in OpeningStages
        BY DEF OpeningStages
      <3> HIDE DEF stage
      <3>4. p \in Openings /\ p.spoken = 0 /\ p.at = stage
        BY <3>2, <3>3, OpeningFields
      <3>5. opening' = p
        BY <2>2, <3>1, <3>3 DEF DialPrepares, stage
      <3>6. UNCHANGED call
        BY <2>2 DEF DialPrepares
      <3> QED BY <3>4, <3>5, <3>6 DEF stage, OpeningInv, OpeningNotForgotten
    <2> QED BY <2>1, <2>2 DEF AgentDials, DialTaken, DialCorrelates
  <1> QED BY <1>1, <1>3, <1>4, <1>5, OpeningKeeps

\* The call at the daemon: what its events told is as before.
LEMMA AgentPhoneInv == ASSUME AgentIInv, Placed \/ Answered \/ MediaUp \/ CallEnds PROVE AgentIInv'
  <1>1. call \in Calls /\ OpeningInv /\ mouth' \in Speeches
        /\ UNCHANGED <<dial, opening, prep, turns, frag, spoke, rings, agentVars, say, replied,
                       ack, mouth, server>>
    BY DEF AgentIInv, TurnInv, ReplyInv, Placed, Answered, MediaUp, CallEnds
  <1>2. call' \in Calls /\ call'.known = call.known
    <2>1. CASE Placed
      <3>1. PICK c : c = [call EXCEPT !.way = "incoming"]
        OBVIOUS
      <3>2. c \in Calls /\ c.known = call.known
        BY <1>1, <3>1, CallFields
      <3>3. PICK d : d = [c EXCEPT !.phase = "ringing"]
        OBVIOUS
      <3>4. d \in Calls /\ d.known = call.known
        BY <3>2, <3>3, CallFields DEF Phases
      <3>5. PICK e : e = [call EXCEPT !.phase = "ringing"]
        OBVIOUS
      <3>6. e \in Calls /\ e.known = call.known
        BY <1>1, <3>5, CallFields DEF Phases
      <3>7. call' \in {d, e}
        BY <2>1, <3>1, <3>3, <3>5 DEF Placed
      <3> QED BY <3>4, <3>6, <3>7
    <2>2. CASE Answered
      <3>1. PICK c : c = [call EXCEPT !.phase = "active"]
        OBVIOUS
      <3>2. c \in Calls /\ c.known = call.known
        BY <1>1, <3>1, CallFields DEF Phases
      <3>3. PICK d : d = [c EXCEPT !.answered = TRUE]
        OBVIOUS
      <3>4. d \in Calls /\ d.known = call.known
        BY <3>2, <3>3, CallFields
      <3>5. call' = d
        BY <2>2, <3>1, <3>3 DEF Answered
      <3> QED BY <3>4, <3>5
    <2>3. CASE MediaUp
      BY <1>1, <2>3, CallFields DEF MediaUp
    <2>4. CASE CallEnds
      <3>1. PICK c : c = [call EXCEPT !.phase = "ended"]
        OBVIOUS
      <3>2. c \in Calls /\ c.known = call.known
        BY <1>1, <3>1, CallFields DEF Phases
      <3>3. PICK d : d = [c EXCEPT !.media = FALSE]
        OBVIOUS
      <3>4. d \in Calls /\ d.known = call.known
        BY <3>2, <3>3, CallFields
      <3>5. call' = d
        BY <2>4, <3>1, <3>3 DEF CallEnds
      <3> QED BY <3>4, <3>5
    <2> QED BY <2>1, <2>2, <2>3, <2>4
  <1>3. CallMoves
    BY <1>1, <1>2 DEF CallMoves
  <1>4. OpeningInv' /\ PlaceInv'
    BY <1>1, <1>2 DEF OpeningInv, OpeningNotForgotten, PlaceInv, AgentIInv
  <1> QED BY <1>1, <1>3, <1>4, OpeningKeeps

\* The activation is told: an opening that waited for it goes on.
LEMMA HearsActiveInv == ASSUME AgentIInv, HearsActive PROVE AgentIInv'
  <1>1. call \in Calls /\ OpeningInv /\ mouth' \in Speeches
    BY DEF AgentIInv, TurnInv, ReplyInv, HearsActive
  <1>2. call' \in Calls /\ call'.known = "active" /\ call.known # "ended"
    BY <1>1, CallFields DEF HearsActive, Phases
  <1>3. CallMoves
    BY <1>2 DEF CallMoves, HearsActive
  <1>4. OpeningInv'
    <2>1. CASE opening.at = "prepared"
      <3>1. opening' = [opening EXCEPT !.at = "settling"] /\ opening \in Openings
            /\ opening.spoken = 0
        BY <1>1, <2>1, OpeningEndsTyped DEF HearsActive, OpeningInv
      <3>2. opening' \in Openings /\ opening'.at = "settling" /\ opening'.spoken = 0
        BY <3>1, OpeningFields DEF OpeningStages
      <3> QED BY <3>2 DEF OpeningInv, OpeningNotForgotten
    <2>2. CASE opening.at # "prepared"
      BY <1>1, <2>2 DEF HearsActive, OpeningInv, OpeningNotForgotten
    <2> QED BY <2>1, <2>2
  <1>5. PlaceInv'
    BY DEF PlaceInv, AgentIInv, HearsActive
  <1> QED BY <1>1, <1>3, <1>4, <1>5, OpeningKeeps DEF HearsActive

-----------------------------------------------------------------------------
(* The wait, and the turns it is for *)

\* No text is settled, or it is one that is not the end.
LEMMA SaidSome ==
  ASSUME NEW kinds \in SUBSET Kinds, kinds # {}, NEW text \in Said(kinds)
  PROVE  text \in SUBSET Kinds /\ text # {}
  BY DEF Said, Kinds

\* A fragment of the caller.
LEMMA CallerSpeaksInv == ASSUME AgentIInv, NEW kind \in Kinds, CallerSpeaks(kind) PROVE AgentIInv'
  <1>1. TurnInv /\ WaitInv /\ ReplyInv /\ frag \in SUBSET Kinds
    BY DEF AgentIInv, TurnInv
  <1>2. frag' \in SUBSET Kinds /\ spoke' = spoke + 1 /\ spoke < MaxFragments
    BY <1>1, SaidSome DEF CallerSpeaks
  <1>3. Len(turns) \in Nat /\ spoke \in Nat
    BY <1>1, TurnBounds DEF TurnInv
  <1>4. TurnInv'
    BY <1>1, <1>2, <1>3, AgentBounds DEF TurnInv, CallerSpeaks
  <1>5. Grows
    BY <1>1, SameGrows DEF CallerSpeaks
  <1>6. WaitInv' /\ Reached' = Reached
    BY <1>1, <1>5, SameWait DEF CallerSpeaks
  <1>7. ReplyInv'
    BY <1>1, <1>6 DEF ReplyInv, CallerSpeaks
  <1>8. OpeningInv' /\ PlaceInv'
    BY DEF AgentIInv, OpeningInv, OpeningNotForgotten, PlaceInv, CallerSpeaks
  <1> QED BY <1>4, <1>6, <1>7, <1>8 DEF AgentIInv

\* The fragments settle, and are given to the tool that waits.
LEMMA TurnSettlesInv == ASSUME AgentIInv, TurnSettles PROVE AgentIInv'
  <1>1. TurnInv /\ WaitInv /\ ReplyInv /\ frag \in SUBSET Kinds /\ frag # {}
    BY DEF AgentIInv, TurnInv, TurnSettles
  <1>2. Publish(frag) /\ frag' = {} /\ UNCHANGED <<call, spoke>> /\ Others
    BY <1>1 DEF TurnSettles, Others, ReplyInv
  <1>3. Len(turns) < MaxTurns /\ Len(turns) \in Nat
    BY <1>1, TurnBounds
  <1>4. WaitInv' /\ ReplyInv' /\ Grows
    BY <1>1, <1>2, <1>3, PublishKeeps
  <1>5. turns' = Append(turns, frag) /\ turns \in Seq(SUBSET Kinds)
    BY <1>1, <1>2 DEF Publish, TurnInv
  <1>6. /\ turns' \in Seq(SUBSET Kinds) /\ Len(turns') = Len(turns) + 1
        /\ DOMAIN turns' = 1..(Len(turns) + 1) /\ DOMAIN turns = 1..Len(turns)
        /\ \A i \in 1..Len(turns) : turns'[i] = turns[i]
        /\ turns'[Len(turns) + 1] = frag
    BY <1>1, <1>3, <1>5
  <1>7. \A i \in DOMAIN turns' : turns'[i] = Ended => i \in DOMAIN turns /\ turns[i] = Ended
    BY <1>1, <1>3, <1>6 DEF Ended
  <1>8. TurnInv'
    <2>1. spoke \in Nat
      BY <1>1 DEF TurnInv
    <2>2. Len(turns') + (IF frag' = {} THEN 0 ELSE 1)
            <= spoke' + (IF call'.known = "ended" THEN 1 ELSE 0)
      BY <1>1, <1>2, <1>3, <1>6, <2>1 DEF TurnInv
    <2>3. frag' \subseteq Kinds /\ call' \in Calls /\ spoke' \in 0..MaxFragments
      BY <1>1, <1>2 DEF TurnInv
    <2>4. \A i \in DOMAIN turns' : turns'[i] = Ended => call'.known = "ended"
      BY <1>1, <1>2, <1>7 DEF TurnInv
    <2>5. \A i, j \in DOMAIN turns' : turns'[i] = Ended /\ turns'[j] = Ended => i = j
      BY <1>1, <1>7 DEF TurnInv
    <2> QED BY <1>6, <2>2, <2>3, <2>4, <2>5 DEF TurnInv
  <1>9. OpeningInv' /\ PlaceInv'
    BY DEF AgentIInv, OpeningInv, OpeningNotForgotten, PlaceInv, TurnSettles
  <1> QED BY <1>4, <1>8, <1>9 DEF AgentIInv

\* The newest of the turns that an answer merges is the last one, unless that is the end.
LEMMA NewestLast ==
  ASSUME TurnInv, NEW n \in Nat, n < Len(turns), turns[Len(turns)] # Ended
  PROVE  Newest(TurnsAfter(n)) = Len(turns)
  <1>1. Len(turns) \in Nat /\ DOMAIN turns = 1..Len(turns)
    BY TurnBounds
  <1>2. Len(turns) \in TurnsAfter(n) /\ \A i \in TurnsAfter(n) : i \in Nat /\ i <= Len(turns)
    BY <1>1 DEF TurnsAfter
  <1>3. \E i \in TurnsAfter(n) : \A j \in TurnsAfter(n) : i >= j
    BY <1>1, <1>2
  <1>4. PICK i \in TurnsAfter(n) :
          Newest(TurnsAfter(n)) = i /\ \A j \in TurnsAfter(n) : i >= j
    BY <1>3 DEF Newest
  <1> QED BY <1>1, <1>2, <1>4

\* What wait_for_turn is given at once, or registers for.
LEMMA AgentWaitsInv == ASSUME AgentIInv, AgentWaits PROVE AgentIInv'
  <1>1. TurnInv /\ WaitInv /\ ReplyInv
    BY DEF AgentIInv
  <1>2. Others
    BY <1>1 DEF AgentWaits, Others, ReplyInv
  <1>3. PICK w : w = [NoWait EXCEPT !.after = Reached]
    OBVIOUS
  <1>4. Reached \in Seqs /\ Reached \in Nat /\ Reached <= Len(turns) /\ Len(turns) \in Nat
        /\ Len(turns) \in Seqs
    BY <1>1, ReachedBounds, TurnBounds
  <1>5. w \in Waits /\ w.after = Reached /\ w.got = 0
    BY <1>3, <1>4, Constants DEF Waits
  <1>6. turns' = turns /\ Grows
    BY <1>1, SameGrows DEF AgentWaits
  <1>7. \/ /\ Len(turns) <= Reached
           /\ wait' = [w EXCEPT !.at = "turn"] /\ UNCHANGED <<turns, cursor, heard, ack>>
        \/ /\ Len(turns) > Reached /\ turns[Len(turns)] = Ended
           /\ Receipt(Len(turns), {Len(turns)}) /\ UNCHANGED <<turns, ack>>
        \/ /\ Len(turns) > Reached /\ turns[Len(turns)] # Ended
           /\ \E text : Finalize([w EXCEPT !.got = Newest(TurnsAfter(Reached))], text)
    BY <1>3 DEF AgentWaits, Reached
  <1>8. CASE /\ Len(turns) <= Reached
             /\ wait' = [w EXCEPT !.at = "turn"] /\ UNCHANGED <<turns, cursor, heard, ack>>
    <2>1. wait' \in Waits /\ wait'.at = "turn" /\ wait'.after = Reached /\ wait'.got = 0
      BY <1>5, <1>8 DEF Waits
    <2>2. WaitMoves
      BY <1>2, <1>4, <1>8, <2>1 DEF WaitMoves, Others
    <2>3. WaitInv' /\ Reached' = Reached
      BY <1>1, <1>6, <2>2, WaitMovesKeeps
    <2>4. Acknowledges(ack')
      BY <1>1, <1>6, <1>8, SameAcknowledges
    <2>5. ReplyInv'
      BY <1>1, <1>2, <1>4, <2>3, <2>4, AcknowledgesKeeps DEF Others
    <2> QED BY <2>3, <2>5, WaitKeeps
      DEF AgentIInv, AgentWaits, OpeningInv, OpeningNotForgotten, PlaceInv
  <1>9. CASE /\ Len(turns) > Reached /\ turns[Len(turns)] = Ended
             /\ Receipt(Len(turns), {Len(turns)}) /\ UNCHANGED <<turns, ack>>
    <2>1. Ended \in Range(turns')
      BY <1>4, <1>6, <1>9 DEF Range
    <2>2. Covers(Len(turns), {Len(turns)})
      BY <1>4, <1>6, <1>9, <2>1 DEF Covers
    <2>3. WaitInv' /\ Reached' = Len(turns)
      BY <1>1, <1>2, <1>6, <1>9, <2>2, ReceiptKeeps DEF Others
    <2>4. Acknowledges(ack')
      BY <1>1, <1>6, <1>9, SameAcknowledges
    <2>5. ReplyInv'
      BY <1>1, <1>2, <1>4, <2>3, <2>4, AcknowledgesKeeps DEF Others
    <2> QED BY <2>3, <2>5, WaitKeeps
      DEF AgentIInv, AgentWaits, OpeningInv, OpeningNotForgotten, PlaceInv
  <1>10. CASE /\ Len(turns) > Reached /\ turns[Len(turns)] # Ended
              /\ \E text : Finalize([w EXCEPT !.got = Newest(TurnsAfter(Reached))], text)
    <2>1. Newest(TurnsAfter(Reached)) = Len(turns)
      BY <1>1, <1>4, <1>10, NewestLast
    <2>2. PICK v : v = [w EXCEPT !.got = Len(turns)]
      OBVIOUS
    <2>3. v \in Waits /\ v.after = Reached /\ v.got = Len(turns)
      BY <1>4, <1>5, <2>2 DEF Waits
    <2>4. Got(v)
      BY <1>4, <1>6, <1>10, <2>3 DEF Got
    <2>5. PICK text : Finalize(v, text)
      BY <1>10, <2>1, <2>2
    <2>6. WaitInv' /\ ReplyInv'
      BY <1>1, <1>2, <1>6, <2>4, <2>5, FinalizeKeeps
    <2> QED BY <2>6, WaitKeeps
      DEF AgentIInv, AgentWaits, OpeningInv, OpeningNotForgotten, PlaceInv
  <1> QED BY <1>7, <1>8, <1>9, <1>10

\* A wait is given up.
LEMMA WaitTimesOutInv == ASSUME AgentIInv, WaitTimesOut PROVE AgentIInv'
  <1>1. TurnInv /\ WaitInv /\ ReplyInv
    BY DEF AgentIInv
  <1>2. Others
    BY <1>1 DEF WaitTimesOut, Others, ReplyInv
  <1>3. Grows /\ Acknowledges(ack')
    BY <1>1, SameGrows, SameAcknowledges DEF WaitTimesOut
  <1>4. Reached \in Nat /\ Reached <= Len(turns)
    BY <1>1, ReachedBounds
  <1>5. WaitInv' /\ Reached' = Reached
    <2>1. CASE wait.at = "turn" /\ Receipt(wait.after, {})
      <3>1. wait.after = Reached
        BY <1>1, <2>1 DEF WaitInv
      <3>2. turns' = turns
        BY DEF WaitTimesOut
      <3>3. Covers(Reached, {})
        BY <1>4, <3>2 DEF Covers
      <3> QED BY <1>1, <1>2, <1>3, <2>1, <3>1, <3>3, ReceiptKeeps DEF Others
    <2>2. CASE wait' = NoWait /\ UNCHANGED <<cursor, heard>>
      <3>1. Len(turns') \in Nat
        BY <1>3 DEF Grows
      <3>2. WaitMoves
        BY <1>2, <2>2, <3>1, Constants DEF WaitMoves, Others
      <3> QED BY <1>1, <1>3, <3>2, WaitMovesKeeps
    <2> QED BY <2>1, <2>2 DEF WaitTimesOut
  <1>6. ReplyInv'
    BY <1>1, <1>2, <1>3, <1>4, <1>5, AcknowledgesKeeps DEF Others
  <1> QED BY <1>5, <1>6, WaitKeeps
    DEF AgentIInv, WaitTimesOut, OpeningInv, OpeningNotForgotten, PlaceInv

\* The wait for a ring.
LEMMA RingInv == ASSUME AgentIInv, AgentWaitsForRing \/ ModeRead PROVE AgentIInv'
  <1>1. TurnInv /\ WaitInv /\ ReplyInv /\ wait \in Waits /\ cursor \in Cursors
        /\ wait.got \in Nat /\ wait.got <= Len(turns) /\ Len(turns) \in Nat /\ rings \in 0..1
    BY AgentBounds, TurnBounds DEF AgentIInv, WaitInv, Waits
  <1>2. UNCHANGED <<call, dial, opening, prep, turns, frag, spoke, rings, heard, say, replied,
                    ack, mouth, server>>
    BY DEF AgentWaitsForRing, ModeRead
  <1>3. Grows
    BY <1>1, <1>2, SameGrows
  <1>4. PICK w : w = [NoWait EXCEPT !.at = "mode"]
    OBVIOUS
  <1>5. w \in Waits /\ w.at = "mode" /\ w.got = 0
    BY <1>4, Constants DEF Waits
  <1>6. cursor.ring \in Seqs
    BY <1>1, AgentBounds DEF Cursors
  <1>7. PICK v : v = [w EXCEPT !.after = cursor.ring]
    OBVIOUS
  <1>8. v \in Waits /\ v.at = "mode" /\ v.got = 0
    BY <1>5, <1>6, <1>7 DEF Waits
  <1>9. PICK u : u = [wait EXCEPT !.at = "incoming"]
    OBVIOUS
  <1>10. u \in Waits /\ u.at = "incoming" /\ u.got = wait.got /\ u.after = wait.after
    BY <1>1, <1>9 DEF Waits
  <1>11. \/ wait' = v /\ UNCHANGED cursor
         \/ wait' = NoWait /\ UNCHANGED cursor
         \/ wait' = NoWait /\ cursor' = [cursor EXCEPT !.ring = rings]
         \/ rings <= wait.after /\ wait' = u /\ UNCHANGED cursor
    BY <1>4, <1>7, <1>9 DEF AgentWaitsForRing, ModeRead
  <1>12. WaitInv' /\ Reached' = Reached
    <2>1. CASE UNCHANGED cursor
      <3>1. WaitMoves
        BY <1>1, <1>2, <1>8, <1>10, <1>11, <2>1, Constants DEF WaitMoves
      <3> QED BY <1>1, <1>3, <3>1, WaitMovesKeeps
    <2>2. CASE wait' = NoWait /\ cursor' = [cursor EXCEPT !.ring = rings]
      <3>1. cursor' \in Cursors /\ cursor'.turn = cursor.turn
        BY <1>1, <2>2 DEF Cursors
      <3>2. Reached' = Reached
        BY <3>1 DEF Reached
      <3>3. NothingPassedOver'
        BY <1>1, <1>2, <3>1 DEF WaitInv, NothingPassedOver
      <3>4. HeardInOrder'
        BY <1>1, <1>2 DEF WaitInv, HeardInOrder
      <3>5. NoLostWakeup'
        BY <2>2, Constants DEF NoLostWakeup
      <3> QED BY <1>1, <1>2, <2>2, <3>1, <3>2, <3>3, <3>4, <3>5, Constants DEF WaitInv
    <2> QED BY <1>11, <2>1, <2>2
  <1>13. Acknowledges(ack')
    BY <1>1, <1>2, <1>3, SameAcknowledges
  <1>14. mouth' \in Speeches
    BY <1>1, <1>2 DEF ReplyInv
  <1>15. ReplyInv'
    BY <1>1, <1>2, <1>12, <1>13, <1>14, ReachedBounds, AcknowledgesKeeps
  <1>16. OpeningInv' /\ prep' \in {"none", "ready", "used"}
    BY <1>2 DEF AgentIInv, OpeningInv, OpeningNotForgotten, PlaceInv
  <1> QED BY <1>2, <1>12, <1>15, <1>16, WaitKeeps

\* The merged text of the turns is handed over, whatever it counts as.
LEMMA MergedKeeps ==
  ASSUME TurnInv, WaitInv, ReplyInv, Grows, Others, UNCHANGED turns,
         wait.at \in {"cancelling", "speaking"}, HandOverMerged
  PROVE  WaitInv' /\ ReplyInv'
  BY WaitGot, HandOverKeeps DEF HandOverMerged

\* The prepared reply is next, or the turns after all.
LEMMA WaitProceedsInv == ASSUME AgentIInv, WaitProceeds PROVE AgentIInv'
  <1>1. TurnInv /\ WaitInv /\ ReplyInv /\ wait.got \in Seqs
    BY DEF AgentIInv, WaitInv, Waits
  <1>2. Takes("prepared", wait.got) \/ Refuses
    BY DEF WaitProceeds
  <1>3. Others
    BY <1>1, <1>2, TakenSpeech DEF WaitProceeds, Others
  <1>4. Grows /\ UNCHANGED turns /\ wait.at = "cancelling"
    BY <1>1, SameGrows DEF WaitProceeds
  <1>5. WaitInv' /\ ReplyInv'
    <2>1. CASE wait' = [wait EXCEPT !.at = "speaking"] /\ UNCHANGED <<cursor, heard, ack>>
      <3>1. /\ wait' \in Waits /\ wait'.at = "speaking" /\ wait'.got = wait.got
            /\ wait'.after = wait.after
        BY <1>1, <2>1 DEF WaitInv, Waits
      <3>2. Got(wait)
        BY <1>1, <1>4, WaitGot
      <3>3. WaitMoves
        BY <1>3, <2>1, <3>1, <3>2 DEF WaitMoves, Got, Others
      <3>4. WaitInv' /\ Reached' = Reached
        BY <1>1, <1>4, <3>3, WaitMovesKeeps
      <3>5. Acknowledges(ack')
        BY <1>1, <1>4, <2>1, SameAcknowledges
      <3>6. ReplyInv'
        BY <1>1, <1>3, <3>4, <3>5, ReachedBounds, AcknowledgesKeeps DEF Others
      <3> QED BY <3>4, <3>6
    <2>2. CASE HandOverMerged
      BY <1>1, <1>3, <1>4, <2>2, MergedKeeps
    <2> QED BY <2>1, <2>2 DEF WaitProceeds
  <1> QED BY <1>5, WaitKeeps
    DEF AgentIInv, WaitProceeds, OpeningInv, OpeningNotForgotten, PlaceInv

\* The prepared reply was played, or the call ended under it.
LEMMA PreparedEndsInv == ASSUME AgentIInv, PreparedEnds PROVE AgentIInv'
  <1>1. TurnInv /\ WaitInv /\ ReplyInv
    BY DEF AgentIInv
  <1>2. Others
    BY Constants DEF PreparedEnds, Others
  <1>3. Grows /\ UNCHANGED turns
    BY <1>1, SameGrows DEF PreparedEnds
  <1>4. WaitInv' /\ ReplyInv'
    <2>1. CASE wait.at = "speaking" /\ Receipt(wait.got, Given(turns, wait.after, wait.got))
               /\ UNCHANGED ack
      <3>1. Got(wait)
        BY <1>1, <1>3, <2>1, WaitGot
      <3>2. Covers(wait.got, Given(turns, wait.after, wait.got)) /\ wait.got \in Nat
        BY <1>1, <1>3, <3>1, GivenCovers
      <3>3. WaitInv' /\ Reached' = wait.got
        BY <1>1, <1>2, <1>3, <2>1, <3>2, ReceiptKeeps DEF Others
      <3>4. Acknowledges(ack')
        BY <1>1, <1>3, <2>1, SameAcknowledges
      <3>5. Reached <= wait.got
        BY <3>2 DEF Covers
      <3>6. ReplyInv'
        BY <1>1, <1>2, <3>2, <3>3, <3>4, <3>5, AcknowledgesKeeps DEF Others
      <3> QED BY <3>3, <3>6
    <2>2. CASE wait.at = "speaking" /\ HandOverMerged
      BY <1>1, <1>2, <1>3, <2>2, MergedKeeps
    <2>3. CASE UNCHANGED <<wait, cursor, heard, ack>>
      <3>1. WaitInv' /\ Reached' = Reached
        BY <1>1, <1>2, <1>3, <2>3, SameWait DEF Others, agentVars
      <3>2. Acknowledges(ack')
        BY <1>1, <1>3, <2>3, SameAcknowledges
      <3>3. ReplyInv'
        BY <1>1, <1>2, <3>1, <3>2, ReachedBounds, AcknowledgesKeeps DEF Others
      <3> QED BY <3>1, <3>3
    <2> QED BY <2>1, <2>2, <2>3 DEF PreparedEnds
  <1>5. prep' \in {"none", "ready", "used"}
    BY DEF PreparedEnds, AgentIInv, PlaceInv
  <1> QED BY <1>4, <1>5, WaitKeeps DEF AgentIInv, PreparedEnds, OpeningInv, OpeningNotForgotten

\* The server has given up on a speech that the daemon plays.
LEMMA AnswerLostInv == ASSUME AgentIInv, AnswerLost PROVE AgentIInv'
  <1>1. TurnInv /\ WaitInv /\ ReplyInv /\ OpeningInv
    BY DEF AgentIInv
  <1>2. Others
    BY <1>1 DEF AnswerLost, Others, ReplyInv
  <1>3. Grows /\ UNCHANGED turns
    BY <1>1, SameGrows DEF AnswerLost
  <1>4. CASE opening' = OpeningOver /\ UNCHANGED <<wait, cursor, heard, ack>>
    <2>1. WaitInv' /\ Reached' = Reached
      BY <1>1, <1>2, <1>3, <1>4, SameWait DEF Others, agentVars
    <2>2. Acknowledges(ack')
      BY <1>1, <1>3, <1>4, SameAcknowledges
    <2>3. ReplyInv'
      BY <1>1, <1>2, <2>1, <2>2, ReachedBounds, AcknowledgesKeeps DEF Others
    <2>4. OpeningInv'
      BY <1>1, <1>4, OpeningEndsTyped DEF OpeningInv, OpeningNotForgotten
    <2> QED BY <2>1, <2>3, <2>4, WaitKeeps DEF AnswerLost, AgentIInv, PlaceInv
  <1>5. CASE wait.at = "speaking" /\ HandOverMerged /\ UNCHANGED opening
    <2>1. WaitInv' /\ ReplyInv'
      BY <1>1, <1>2, <1>3, <1>5, MergedKeeps
    <2>2. OpeningInv'
      BY <1>1, <1>5 DEF AnswerLost, OpeningInv, OpeningNotForgotten
    <2> QED BY <2>1, <2>2, WaitKeeps DEF AnswerLost, AgentIInv, PlaceInv
  <1> QED BY <1>4, <1>5 DEF AnswerLost, AfterLost

\* A call rings: a tool that waits for that gets it.
LEMMA HearsRingingInv == ASSUME AgentIInv, HearsRinging PROVE AgentIInv'
  <1>1. TurnInv /\ WaitInv /\ ReplyInv /\ call \in Calls /\ wait \in Waits /\ rings \in 0..1
        /\ cursor \in Cursors
    BY DEF AgentIInv, TurnInv, WaitInv
  <1>2. call' \in Calls /\ call'.known = "ringing" /\ call.known = "idle"
    BY <1>1, CallFields DEF HearsRinging, Phases
  <1>3. CallMoves /\ Grows
    BY <1>1, <1>2, SameGrows DEF CallMoves, HearsRinging
  <1>4. TurnInv'
    BY <1>1, <1>3, CallMovesKeeps
  <1>5. rings' \in 0..1 /\ UNCHANGED <<turns, heard>>
        /\ \/ wait' = NoWait /\ cursor' = [cursor EXCEPT !.ring = rings']
           \/ /\ UNCHANGED <<wait, cursor>>
              /\ wait.at = "incoming" => rings' <= wait.after
    <2>1. wait.after \in Int
      BY <1>1, AgentBounds DEF Waits
    <2> QED BY <1>1, <2>1 DEF HearsRinging, WaitInv, NoLostWakeup
  <1>6. cursor' \in Cursors /\ cursor'.turn = cursor.turn
    <2>1. CASE cursor' = [cursor EXCEPT !.ring = rings']
      BY <1>1, <1>5, <2>1 DEF Cursors
    <2>2. CASE UNCHANGED cursor
      BY <1>1, <2>2
    <2> QED BY <1>5, <2>1, <2>2
  <1>7. Reached' = Reached
    BY <1>6 DEF Reached
  <1>8. WaitInv'
    <2>1. NothingPassedOver'
      BY <1>1, <1>5, <1>6 DEF WaitInv, NothingPassedOver
    <2>2. HeardInOrder'
      BY <1>1, <1>5 DEF WaitInv, HeardInOrder
    <2>3. NoLostWakeup'
      BY <1>1, <1>5, Constants DEF WaitInv, NoLostWakeup
    <2>4. Len(turns) \in Nat
      BY <1>1, TurnBounds
    <2>5. CASE wait' = NoWait
      BY <1>1, <1>5, <1>6, <1>7, <2>1, <2>2, <2>3, <2>4, <2>5, Constants DEF WaitInv
    <2>6. CASE UNCHANGED wait
      BY <1>1, <1>5, <1>6, <1>7, <2>1, <2>2, <2>3, <2>6 DEF WaitInv
    <2> QED BY <1>5, <2>5, <2>6
  <1>9. ReplyInv'
    BY <1>1, <1>7 DEF ReplyInv, HearsRinging
  <1>10. OpeningInv' /\ PlaceInv'
    BY <1>2 DEF AgentIInv, OpeningInv, OpeningNotForgotten, PlaceInv, HearsRinging
  <1> QED BY <1>4, <1>8, <1>9, <1>10 DEF AgentIInv

\* The turns with what was flushed and the end after them.
WithEnd(t, f) == t \o (IF f = {} THEN << >> ELSE <<f>>) \o <<Ended>>

\* They are the same up to the new ones, and the end is the last.
LEMMA EndAppended ==
  ASSUME NEW t \in Seq(SUBSET Kinds), NEW f \in SUBSET Kinds, NEW r, r = WithEnd(t, f)
  PROVE  /\ r \in Seq(SUBSET Kinds) /\ Len(r) = Len(t) + (IF f = {} THEN 1 ELSE 2)
         /\ DOMAIN r = 1..Len(r) /\ r[Len(r)] = Ended
         /\ \A i \in 1..Len(t) : r[i] = t[i]
         /\ f # {} => r[Len(t) + 1] = f
  <1>1. Ended \in SUBSET Kinds
    BY DEF Ended
  <1>2. CASE f = {}
    <2>1. t \o << >> = t
      BY ConcatEmptySeq
    <2>2. r = t \o <<Ended>>
      BY <1>2, <2>1 DEF WithEnd
    <2>3. r = Append(t, Ended)
      BY <1>1, <2>2, AppendIsConcat
    <2> QED BY <1>1, <1>2, <2>3
  <1>3. CASE f # {}
    <2>1. PICK m : m = Append(t, f)
      OBVIOUS
    <2>2. /\ m \in Seq(SUBSET Kinds) /\ Len(m) = Len(t) + 1 /\ m[Len(t) + 1] = f
          /\ \A i \in 1..Len(t) : m[i] = t[i]
      BY <2>1
    <2>3. t \o <<f>> = m
      BY <2>1, AppendIsConcat
    <2>4. r = m \o <<Ended>>
      BY <1>3, <2>3 DEF WithEnd
    <2>5. r = Append(m, Ended)
      BY <1>1, <2>2, <2>4, AppendIsConcat
    <2>6. /\ r \in Seq(SUBSET Kinds) /\ Len(r) = Len(m) + 1 /\ DOMAIN r = 1..Len(r)
          /\ r[Len(r)] = Ended /\ \A i \in 1..Len(m) : r[i] = m[i]
      <3>1. m \in Seq(SUBSET Kinds)
        BY <2>2
      <3> QED BY <1>1, <2>5, <3>1
    <2>7. Len(t) \in Nat
      OBVIOUS
    <2>8. Len(r) = Len(t) + 2 /\ \A i \in 1..Len(t) : i \in 1..Len(m)
      BY <2>2, <2>6, <2>7
    <2>9. \A i \in 1..Len(t) : r[i] = t[i]
      BY <2>2, <2>6, <2>8
    <2>10. r[Len(t) + 1] = f
      BY <2>2, <2>6, <2>7
    <2> QED BY <1>3, <2>6, <2>8, <2>9, <2>10
  <1> QED BY <1>2, <1>3

\* The end is published after what the caller said last, and is the only one.
LEMMA EndPublished ==
  ASSUME TurnInv, call.known # "ended",
         turns' = WithEnd(turns, frag), frag' = {}, UNCHANGED spoke, call' \in Calls, call'.known = "ended"
  PROVE  /\ TurnInv' /\ Grows /\ Ended \in Range(turns')
         /\ Len(turns) + 1 \in Nat /\ Len(turns) + 1 <= Len(turns')
  <1>1. Len(turns) \in Nat /\ DOMAIN turns = 1..Len(turns) /\ spoke \in 0..MaxFragments
        /\ turns \in Seq(SUBSET Kinds) /\ frag \in SUBSET Kinds
        /\ MaxTurns = MaxFragments + 1 /\ MaxFragments \in Nat /\ MaxTurns \in Nat
    BY TurnBounds, AgentBounds DEF TurnInv
  <1>2. \A i \in 1..Len(turns) : turns[i] # Ended
    BY <1>1 DEF TurnInv
  <1>3. Len(turns) + (IF frag = {} THEN 0 ELSE 1) <= spoke
    BY DEF TurnInv
  <1>4. /\ turns' \in Seq(SUBSET Kinds)
        /\ Len(turns') = Len(turns) + (IF frag = {} THEN 1 ELSE 2)
        /\ DOMAIN turns' = 1..Len(turns') /\ turns'[Len(turns')] = Ended
        /\ \A i \in 1..Len(turns) : turns'[i] = turns[i]
        /\ frag # {} => turns'[Len(turns) + 1] = frag
    BY <1>1, EndAppended
  <1>5. Len(turns') <= MaxTurns /\ Len(turns') <= spoke + 1 /\ Len(turns) + 1 <= Len(turns')
        /\ Len(turns') \in Nat
    BY <1>1, <1>3, <1>4
  <1>6. \A i \in DOMAIN turns' : turns'[i] = Ended => i = Len(turns')
    <2> SUFFICES ASSUME NEW i \in 1..Len(turns'), turns'[i] = Ended PROVE i = Len(turns')
      BY <1>4
    <2>1. i \notin 1..Len(turns)
      BY <1>2, <1>4
    <2>2. frag # {} => i # Len(turns) + 1
      BY <1>4 DEF Ended
    <2>3. Len(turns') = Len(turns) + 1 \/ (frag # {} /\ Len(turns') = Len(turns) + 2)
      BY <1>4
    <2> QED BY <1>1, <2>1, <2>2, <2>3
  <1>7. Ended \in Range(turns')
    <2>1. Len(turns') \in DOMAIN turns'
      BY <1>1, <1>4, <1>5
    <2> QED BY <1>4, <2>1 DEF Range
  <1>8. Grows
    <2>1. Len(turns) <= Len(turns')
      BY <1>1, <1>5
    <2>2. turns' \in Seq(SUBSET Kinds) /\ \A i \in 1..Len(turns) : turns'[i] = turns[i]
      BY <1>4
    <2> QED BY <1>5, <2>1, <2>2 DEF Grows
  <1>9. TurnInv'
    <2>1. \A i, j \in DOMAIN turns' : turns'[i] = Ended /\ turns'[j] = Ended => i = j
      BY <1>6
    <2> QED BY <1>1, <1>4, <1>5, <2>1 DEF TurnInv
  <1> QED BY <1>1, <1>5, <1>7, <1>8, <1>9

\* The call has ended: the tool that waits gets what is published first.
LEMMA HearsEndedInv == ASSUME AgentIInv, HearsEnded PROVE AgentIInv'
  <1>1. TurnInv /\ WaitInv /\ ReplyInv /\ OpeningInv /\ call \in Calls
    BY DEF AgentIInv, TurnInv
  <1>2. call' \in Calls /\ call'.known = "ended" /\ call.known # "ended"
    BY <1>1, CallFields DEF HearsEnded, Phases
  <1>3. TurnInv' /\ Grows /\ Ended \in Range(turns')
        /\ Len(turns) + 1 \in Nat /\ Len(turns) + 1 <= Len(turns')
    BY <1>1, <1>2, EndPublished DEF HearsEnded, WithEnd
  <1>4. Others
    BY <1>1 DEF HearsEnded, Others, ReplyInv
  <1>5. Reached \in Nat /\ Reached <= Len(turns) /\ Len(turns) \in Nat
        /\ Len(turns) + 1 \in Seqs /\ Reached < Len(turns) + 1
    BY <1>1, <1>3, ReachedBounds, TurnBounds, AgentBounds DEF Grows
  <1>6. WaitInv' /\ ReplyInv'
    <2>1. CASE /\ wait.at = "turn" /\ Receipt(Len(turns) + 1, {Len(turns) + 1})
               /\ Cancelled \/ ScheduleAfter(NoAck, Len(turns) + 1, frag)
      <3>1. Covers(Len(turns) + 1, {Len(turns) + 1})
        BY <1>3, <1>5 DEF Covers
      <3>2. WaitInv' /\ Reached' = Len(turns) + 1
        BY <1>1, <1>3, <1>4, <2>1, <3>1, ReceiptKeeps DEF Others
      <3>3. Acknowledges(ack')
        BY <1>1, <1>3, <1>5, <2>1, ScheduleAcknowledges, SameAcknowledges DEF Cancelled
      <3>4. ReplyInv'
        BY <1>1, <1>3, <1>4, <1>5, <3>2, <3>3, AcknowledgesKeeps DEF Others
      <3> QED BY <3>2, <3>4
    <2>2. CASE wait.at # "turn" /\ Cancelled /\ UNCHANGED <<wait, cursor, heard>>
      <3>1. WaitInv' /\ Reached' = Reached
        BY <1>1, <1>3, <1>4, <2>2, SameWait DEF Others, agentVars
      <3>2. Acknowledges(ack')
        BY <1>1, <1>3, <2>2, SameAcknowledges DEF Cancelled
      <3>3. ReplyInv'
        BY <1>1, <1>4, <1>5, <3>1, <3>2, AcknowledgesKeeps DEF Others
      <3> QED BY <3>1, <3>3
    <2> QED BY <2>1, <2>2 DEF HearsEnded
  <1>7. OpeningInv'
    <2>1. CASE opening.at = "prepared"
      BY <1>1, <1>2, <2>1, OpeningEndsTyped DEF HearsEnded, OpeningInv, OpeningNotForgotten
    <2>2. CASE opening.at # "prepared"
      <3>1. opening' = [opening EXCEPT !.live = FALSE]
        BY <2>2 DEF HearsEnded
      <3>2. /\ opening' \in Openings /\ opening'.at = opening.at
            /\ opening'.spoken = opening.spoken
        BY <1>1, <3>1, OpeningFields DEF OpeningInv
      <3> QED BY <1>1, <2>2, <3>2 DEF OpeningInv, OpeningNotForgotten
    <2> QED BY <2>1, <2>2
  <1>8. PlaceInv'
    BY DEF HearsEnded, PlaceInv, AgentIInv
  <1> QED BY <1>3, <1>6, <1>7, <1>8 DEF AgentIInv

\* The server ends, and with it everything but what the daemon plays.
LEMMA ClosesInv == ASSUME AgentIInv, Closes PROVE AgentIInv'
  <1>1. TurnInv /\ WaitInv /\ ReplyInv /\ OpeningInv /\ call \in Calls
    BY DEF AgentIInv, TurnInv
  <1>2. call' \in Calls /\ call'.known = "idle"
    BY <1>1, CallFields DEF Closes, Phases
  <1>3. TurnInv'
    BY <1>1, <1>2 DEF Closes, TurnInv
  <1>4. cursor' \in Cursors /\ cursor'.turn = -1 /\ Reached' = 0
    BY DEF Closes, Cursors, Reached
  <1>5. WaitInv'
    BY <1>4, Constants, AgentBounds DEF Closes, WaitInv, NoLostWakeup, NothingPassedOver,
                                   HeardInOrder
  <1>6. ReplyInv'
    BY <1>1, <1>4, Constants, AgentBounds DEF Closes, Cancelled, ReplyInv
  <1>7. OpeningInv'
    <2>1. CASE opening.at \in {"none", "prepared", "settling"}
      BY <1>1, <1>2, <2>1, OpeningEndsTyped DEF Closes, OpeningInv, OpeningNotForgotten
    <2>2. CASE opening.at \notin {"none", "prepared", "settling"}
      <3>1. opening' = [opening EXCEPT !.live = FALSE]
        BY <2>2 DEF Closes
      <3>2. /\ opening' \in Openings /\ opening'.at = opening.at
            /\ opening'.spoken = opening.spoken
        BY <1>1, <3>1, OpeningFields DEF OpeningInv
      <3> QED BY <1>1, <2>2, <3>2 DEF OpeningInv, OpeningNotForgotten
    <2> QED BY <2>1, <2>2
  <1>8. PlaceInv'
    BY DEF Closes, PlaceInv
  <1> QED BY <1>3, <1>5, <1>6, <1>7, <1>8 DEF AgentIInv

-----------------------------------------------------------------------------
(* The theorems *)

\* Nothing happens.
LEMMA StutterInv == ASSUME AgentIInv, UNCHANGED mcpVars PROVE AgentIInv'
  <1>1. UNCHANGED <<call, dial, opening, prep, turns, frag, spoke, rings, agentVars, server>>
    BY DEF mcpVars, agentVars
  <1>2. Reached' = Reached
    BY DEF mcpVars, Reached
  <1>3. ReplyInv'
    BY <1>2 DEF mcpVars, AgentIInv, ReplyInv
  <1> QED BY <1>1, <1>3, TalkKeeps

\* Every step of the server, the agent and the daemon keeps the invariant.
LEMMA AgentNextInv == AgentIInv /\ [AgentNext]_mcpVars => AgentIInv'
  <1> SUFFICES ASSUME AgentIInv, [AgentNext]_mcpVars PROVE AgentIInv'
    OBVIOUS
  <1>1. CASE Timers
    BY <1>1, AckTimerInv, TurnSettlesInv, WaitTimesOutInv, OpeningTimerInv, OpeningPollsInv
    DEF Timers
  <1>2. CASE AnswersArrive
    BY <1>2, AckEndsInv, WaitProceedsInv, PreparedEndsInv, RingInv, SayProceedsInv,
       ReplyEndsInv, DialInv, OpeningSpeaksInv, OpeningEndsInv, AnswerLostInv
    DEF AnswersArrive
  <1>3. CASE Agent
    BY <1>3, AgentWaitsInv, RingInv, AgentSpeaksInv, DialInv DEF Agent
  <1>4. CASE Phone
    BY <1>4, AgentPhoneInv, CallerSpeaksInv DEF Phone
  <1>5. CASE Events
    BY <1>5, HearsRingingInv, HearsActiveInv, HearsEndedInv DEF Events
  <1>6. CASE Closes
    BY <1>6, ClosesInv
  <1>7. CASE UNCHANGED mcpVars
    BY <1>7, StutterInv
  <1> QED BY <1>1, <1>2, <1>3, <1>4, <1>5, <1>6, <1>7 DEF AgentNext

\* The invariant holds in every state of every behaviour, whatever the bounds.
THEOREM AgentInductive == AgentSpec => []AgentIInv
  BY AgentInitInv, AgentNextInv, PTL DEF AgentSpec

\* Types; no tool waits for what was already published (_waitForTurn,
\* _waitForIncomingCall); the opening of a dialled call is spoken at most once, though its
\* loop tries again, and never waits for an activation that was told
\* (_schedulePreparedOpening, _dial).
THEOREM AgentSafe == AgentSpec => []AgentInv
  BY AgentInductive, IInvGives, PTL

\* For any number of turns: what is behind the cursor has been given to the agent while the
\* call lasts, in its order and nothing twice, on all the ways by which _waitForTurn and
\* _finalizeWaitTurn hand turns over.
THEOREM TurnsKeptAlways == AgentSpec => []TurnsKept
  BY AgentInductive, IInvGives, PTL

\* A speech begins in one of these steps.
LEMMA StepTimely ==
  ASSUME AgentIInv, [AgentNext]_mcpVars
  PROVE  /\ [mouth'.who = "ack" /\ mouth # mouth' =>
               mouth'.seq > replied /\ frag = {} /\ TurnsAfter(mouth'.seq) = {}]_mcpVars
         /\ [mouth'.who = "reply" /\ mouth.who # "reply" => ~Stale(say.for)]_mcpVars
  <1>1. CASE AckTimer
    <2>1. CASE UNCHANGED mouth \/ Refuses
      BY <2>1 DEF Refuses
    <2>2. CASE Fresh(ack.seq) /\ Takes("ack", ack.seq) /\ ack.timers # {}
      <3>1. mouth'.who = "ack" /\ mouth'.seq = ack.seq
        BY <2>2 DEF Takes
      <3>2. ack.seq > replied
        BY <2>2 DEF AgentIInv, ReplyInv
      <3> QED BY <2>2, <3>1, <3>2 DEF Fresh
    <2> QED BY <1>1, <2>1, <2>2 DEF AckTimer
  <1>2. CASE SayProceeds
    <2>1. CASE UNCHANGED mouth \/ Refuses
      BY <2>1 DEF Refuses
    <2>2. CASE ~Stale(say.for) /\ Takes("reply", 0)
      <3>1. mouth'.who = "reply"
        BY <2>2 DEF Takes
      <3> QED BY <2>2, <3>1
    <2> QED BY <1>2, <2>1, <2>2 DEF SayProceeds
  <1>3. CASE UNCHANGED mouth
    BY <1>3
  <1>4. CASE mouth' = Silent
    BY <1>4, Constants
  <1>5. CASE Takes("prepared", wait.got) \/ Takes("opening", 0) \/ Refuses
    BY <1>5 DEF Takes, Refuses
  <1> QED BY <1>1, <1>2, <1>3, <1>4, <1>5
    DEF AgentNext, Timers, AnswersArrive, Agent, Phone, Events, mcpVars, TurnSettles, WaitTimesOut,
        OpeningTimer, OpeningPolls, AckEnds, WaitProceeds, PreparedEnds, ModeRead, ReplyEnds,
        DialTaken, DialCorrelates, DialPrepares, OpeningSpeaks, OpeningEnds, AnswerLost,
        AgentWaits, AgentWaitsForRing, AgentSpeaks, AgentDials, Placed, Answered, MediaUp,
        CallEnds, CallerSpeaks, HearsRinging, HearsActive, HearsEnded, Closes

\* An acknowledgement that starts is for a turn newer than any the agent has answered, and
\* nothing was said since; a reply that reaches the daemon was not overtaken while it awaited
\* the acknowledgement (_scheduleAcknowledgement, speak).
THEOREM SpeechInTime == AgentSpec => SpeechTimely
  <1>1. AgentIInv /\ [AgentNext]_mcpVars =>
          [mouth'.who = "ack" /\ mouth # mouth' =>
             mouth'.seq > replied /\ frag = {} /\ TurnsAfter(mouth'.seq) = {}]_mcpVars
    BY StepTimely
  <1>2. AgentIInv /\ [AgentNext]_mcpVars =>
          [mouth'.who = "reply" /\ mouth.who # "reply" => ~Stale(say.for)]_mcpVars
    BY StepTimely
  <1> QED BY <1>1, <1>2, AgentInductive, PTL
    DEF AgentSpec, SpeechTimely, NoLateAcknowledgement, NotOvertaken
===============================================================================
