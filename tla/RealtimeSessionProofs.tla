------------------------- MODULE RealtimeSessionProofs -------------------------
(* The speech session, for any number of frames, replies and failures and any    *)
(* length of a reply and of a frame.                                              *)
(*                                                                                *)
(* The ear: the turns the provider is asked for, its answers that have not been   *)
(* handled and the transcripts that were recorded follow one another in the order *)
(* of the call (InvOrder); while the transcript counts as complete they are, one  *)
(* behind the other, the turns 1, 2, 3 and so on (InvCounted), so that the next   *)
(* one that is recorded has the number of its place.                              *)
(*                                                                                *)
(* The mouth: each byte that was read of a response is played, pending or carried *)
(* over to the next piece, in this order and each in its place (Placed).          *)
EXTENDS RealtimeSession, SequenceTheorems, TLAPS

Samples == -2..Bytes
EarRecords == [phase : {"open", "closing", "closed"}, vad : BOOLEAN,
               chunks : 0..MaxTurnFrames + MaxFrames, complete : BOOLEAN, error : BOOLEAN,
               lost : BOOLEAN, ended : BOOLEAN, gap : BOOLEAN]
MouthRecords == [at : {"idle", "chunk", "pace", "send"}, attempt : 0..RetryLimit,
                 sent : 0..Bytes, cut : BOOLEAN, inter : BOOLEAN,
                 pending : Seq(Samples), ended : BOOLEAN]
NetRecords == [pos : 0..Bytes + 2, carry : Seq(Samples), header : BOOLEAN, consumed : 0..Bytes]
Transcripts == [turn : Turns, gap : BOOLEAN, complete : BOOLEAN]
Counts == [heard : 0..MaxFrames, turns : 0..MaxFrames, speaks : 0..MaxSpeaks, faults : 0..MaxFaults]

\* The turns of a sequence are numbered up to n, those of problems with 0; the others rise; all
\* of v are before those of w.
Within(v, n) == \A i \in 1..Len(v) : v[i].turn \in 0..n
Rising(v) == \A i, j \in 1..Len(v) : i < j /\ v[j].turn # 0 => v[i].turn < v[j].turn
Before(v, w) == \A i \in 1..Len(v), j \in 1..Len(w) : w[j].turn # 0 => v[i].turn < w[j].turn
Proper(v) == \A i \in 1..Len(v) : v[i].turn # 0
\* The transcripts (s), the answers that wait (v) and the turns that are asked for (a) follow one
\* another in the order in which they were spoken, up to the turn n.
Ordered(a, v, s, n) ==
  /\ Within(a, n) /\ Within(v, n) /\ Within(s, n) /\ Proper(a) /\ Proper(s)
  /\ Rising(a) /\ Rising(v) /\ Rising(s)
  /\ Before(s, v) /\ Before(s, a) /\ Before(v, a)
InvOrder == Ordered(asked, events, said, count.turns)

\* The first k of the events that wait tell of no problem.
Clear(v, k) == \A i \in 1..k : v[i].turn # 0
\* No turn has been left out, none of them has a gap, and a gap in the turn that is being
\* spoken will be told of before it is; S transcripts were recorded.
Counted(a, v, S, n, lost, gap) ==
  /\ \A j \in 1..Len(v) : Clear(v, j) => v[j].turn = S + j /\ ~v[j].gap
  /\ Clear(v, Len(v)) =>
       /\ \A i \in 1..Len(a) : a[i].turn = S + Len(v) + i /\ ~a[i].gap
       /\ ~lost => ~gap /\ n = S + Len(v) + Len(a)
\* It is so as long as the transcript counts as complete.
InvCounted ==
  recorder /\ ear.complete =>
    Counted(asked, events, Len(said), count.turns, ear.lost, ear.gap)
InvBounds ==
  /\ count.turns <= count.heard /\ ear.chunks <= count.heard
  /\ ear.lost => kind.stt # "groq"

\* After the byte P come those that are pending and then those that are carried, up to x.
InPlace(pending, carry, P, x) ==
  /\ P + Len(pending) + Len(carry) = x
  /\ \A i \in 1..Len(pending) : pending[i] = P + i
  /\ \A i \in 1..Len(carry) : carry[i] = P + Len(pending) + i

\* What is read of the response is played, pending or carried, in this order.
Placed(m, n, p) ==
  /\ n.pos <= Len(Wire) /\ Len(p) + Len(m.pending) <= Bytes
  /\ m.sent <= Len(p) /\ (m.sent = 0 => p = <<>>)
  /\ m.ended => n.carry = <<>> /\ n.pos = Len(Wire)
  /\ ~Reliable => Len(p) + Len(m.pending) = n.consumed
  /\ Reliable => InPlace(m.pending, n.carry, Len(p), n.pos)
InvMouth ==
  mouth.at # "idle" =>
    /\ outcome = "none" /\ Placed(mouth, net, played)
    /\ mouth.at = "chunk" => ~mouth.ended
    /\ mouth.at \in {"pace", "send"} => mouth.ended \/ Len(mouth.pending) >= FrameBytes
    /\ mouth.ended => mouth.pending # <<>>
IInv == SpeechInv /\ SpokenTrue /\ InvOrder /\ InvCounted /\ InvBounds /\ InvMouth

-----------------------------------------------------------------------------
(* Sequences of bytes *)

\* The bounds are what they should be.
LEMMA Bounds ==
  /\ Bytes \in Nat \ {0} /\ FrameBytes \in Nat \ {0}
  /\ RetryLimit \in Nat /\ MaxTurnFrames \in Nat /\ MaxFrames \in Nat
  /\ MaxSpeaks \in Nat /\ MaxFaults \in Nat
  BY RealtimeSessionAssumption

\* A part of a sequence.
LEMMA Part ==
  ASSUME NEW S, NEW s \in Seq(S), NEW m \in Nat \ {0}, NEW n \in Int, n <= Len(s)
  PROVE  /\ SubSeq(s, m, n) \in Seq(S)
         /\ Len(SubSeq(s, m, n)) = IF m <= n THEN n - m + 1 ELSE 0
         /\ \A i \in 1..n - m + 1 : SubSeq(s, m, n)[i] = s[m + i - 1]
  <1>1. \A i \in m..n : s[i] \in S
    <2> TAKE i \in m..n
    <2>1. i \in 1..Len(s)
      OBVIOUS
    <2> QED BY <2>1, ElementOfSeq
  <1> QED BY <1>1, SubSeqProperties

\* The even part of a length.
LEMMA Even ==
  ASSUME NEW n \in Nat
  PROVE  n - (n % 2) \in 0..n /\ (n % 2) \in 0..1
  OBVIOUS

\* What the adapters read: for all but Groq the audio itself, each byte in its place.
LEMMA WireBytes ==
  ASSUME kind \in Pinned
  PROVE  /\ Wire \in Seq(Samples)
         /\ Len(Wire) = IF Reliable THEN Bytes ELSE Bytes + 2
         /\ Reliable => \A i \in 1..Bytes : Wire[i] = i
  <1>1. Audio \in Seq(Samples) /\ Len(Audio) = Bytes /\ \A i \in 1..Bytes : Audio[i] = i
    BY Bounds DEF Audio, Samples
  <1>2. WavHeader \in Seq(Samples) /\ Len(WavHeader) = 2
    BY Bounds DEF WavHeader, Samples
  <1>3. WavHeader \o Audio \in Seq(Samples) /\ Len(WavHeader \o Audio) = Bytes + 2
    <2>1. WavHeader \o Audio \in Seq(Samples) /\ Len(WavHeader \o Audio) = Len(WavHeader) + Len(Audio)
      BY <1>1, <1>2, ConcatProperties, Zenon
    <2> QED BY Bounds, <1>1, <1>2, <2>1
  <1> QED BY <1>1, <1>3 DEF Wire, Reliable

-----------------------------------------------------------------------------
(* The synthesis adapters *)

\* The fields of a speech, one at a time.
LEMMA MouthFields ==
  ASSUME NEW m \in MouthRecords
  PROVE  /\ \A x \in {"idle", "chunk", "pace", "send"} : [m EXCEPT !.at = x] \in MouthRecords
         /\ \A x \in 0..RetryLimit : [m EXCEPT !.attempt = x] \in MouthRecords
         /\ \A x \in 0..Bytes : [m EXCEPT !.sent = x] \in MouthRecords
         /\ \A x \in BOOLEAN : [m EXCEPT !.cut = x] \in MouthRecords
         /\ \A x \in BOOLEAN : [m EXCEPT !.inter = x] \in MouthRecords
         /\ \A x \in Seq(Samples) : [m EXCEPT !.pending = x] \in MouthRecords
         /\ \A x \in BOOLEAN : [m EXCEPT !.ended = x] \in MouthRecords
  <1>1. ASSUME NEW x \in {"idle", "chunk", "pace", "send"} PROVE [m EXCEPT !.at = x] \in MouthRecords
    BY DEF MouthRecords
  <1>2. ASSUME NEW x \in 0..RetryLimit PROVE [m EXCEPT !.attempt = x] \in MouthRecords
    BY DEF MouthRecords
  <1>3. ASSUME NEW x \in 0..Bytes PROVE [m EXCEPT !.sent = x] \in MouthRecords
    BY DEF MouthRecords
  <1>4. ASSUME NEW x \in BOOLEAN PROVE [m EXCEPT !.cut = x] \in MouthRecords
    BY DEF MouthRecords
  <1>5. ASSUME NEW x \in BOOLEAN PROVE [m EXCEPT !.inter = x] \in MouthRecords
    BY DEF MouthRecords
  <1>6. ASSUME NEW x \in Seq(Samples) PROVE [m EXCEPT !.pending = x] \in MouthRecords
    BY DEF MouthRecords
  <1>7. ASSUME NEW x \in BOOLEAN PROVE [m EXCEPT !.ended = x] \in MouthRecords
    BY DEF MouthRecords
  <1> QED BY <1>1, <1>2, <1>3, <1>4, <1>5, <1>6, <1>7

\* What is carried and the next piece are split in what is handed on and what is kept.
Split(c, e, y, d) ==
  /\ Len(y) + Len(d) = Len(c) + Len(e)
  /\ \A i \in 1..Len(y) : y[i] = (c \o e)[i]
  /\ \A i \in 1..Len(d) : d[i] = (c \o e)[Len(y) + i]

\* Whole samples are handed on and the odd byte is kept: nothing is lost, nothing twice.
LEMMA StreamReads ==
  ASSUME NEW n \in NetRecords, NEW piece \in Seq(Samples), n.pos + Len(piece) <= Bytes + 2,
         NEW r, r = StreamRead(n, piece)
  PROVE  /\ r.yield \in Seq(Samples) /\ r.net \in NetRecords
         /\ r.net.pos = n.pos + Len(piece) /\ r.net.consumed = n.consumed
         /\ Split(n.carry, piece, r.yield, r.net.carry)
  <1>1. n.carry \in Seq(Samples) /\ n.pos \in Nat /\ Bytes \in Nat
    BY Bounds DEF NetRecords
  <1>2. PICK combined : combined = n.carry \o piece
    OBVIOUS
  <1>3. combined \in Seq(Samples) /\ Len(combined) = Len(n.carry) + Len(piece)
    BY <1>1, <1>2, ConcatProperties
  <1>4. PICK usable : usable = Len(combined) - (Len(combined) % 2)
    OBVIOUS
  <1>5. usable \in 0..Len(combined)
    <2>1. Len(combined) \in Nat
      BY <1>3
    <2>2. Len(combined) - (Len(combined) % 2) \in 0..Len(combined)
      BY <2>1, Even, Zenon
    <2> QED BY <1>4, <2>2
  <1>6. PICK y : y = SubSeq(combined, 1, usable)
    OBVIOUS
  <1>7. PICK c : c = SubSeq(combined, usable + 1, Len(combined))
    OBVIOUS
  <1>8. /\ y \in Seq(Samples) /\ Len(y) = usable
        /\ \A i \in 1..Len(y) : y[i] = combined[i]
    BY <1>3, <1>5, <1>6, Part
  <1>9. /\ c \in Seq(Samples) /\ Len(c) = Len(combined) - usable
        /\ \A i \in 1..Len(c) : c[i] = combined[usable + i]
    <2>1. /\ usable + 1 \in Nat \ {0} /\ Len(combined) \in Int /\ Len(combined) <= Len(combined)
          /\ Len(combined) - (usable + 1) + 1 = Len(combined) - usable
      BY <1>3, <1>5
    <2>2. /\ c \in Seq(Samples)
          /\ Len(c) = IF usable + 1 <= Len(combined) THEN Len(combined) - (usable + 1) + 1 ELSE 0
          /\ \A i \in 1..Len(combined) - (usable + 1) + 1 : c[i] = combined[usable + 1 + i - 1]
      BY <1>3, <1>7, <2>1, Part, SMTT(30)
    <2>3. Len(c) = Len(combined) - usable
      BY <1>3, <1>5, <2>1, <2>2
    <2>4. ASSUME NEW i \in 1..Len(c) PROVE c[i] = combined[usable + i]
      <3>1. i \in 1..Len(combined) - (usable + 1) + 1 /\ usable + 1 + i - 1 = usable + i
        BY <1>5, <2>1, <2>3
      <3> QED BY <2>2, <3>1
    <2> QED BY <2>2, <2>3, <2>4
  <1>10. PICK a : a = [n EXCEPT !.pos = n.pos + Len(piece)]
    OBVIOUS
  <1>11. a \in NetRecords /\ a.pos = n.pos + Len(piece) /\ a.consumed = n.consumed
    BY <1>1, <1>10 DEF NetRecords
  <1>12. PICK b : b = [a EXCEPT !.carry = c]
    OBVIOUS
  <1>13. b \in NetRecords /\ b.pos = a.pos /\ b.consumed = a.consumed /\ b.carry = c
    BY <1>9, <1>11, <1>12 DEF NetRecords
  <1>14. r.yield = y /\ r.net = b
    <2>1. b = [n EXCEPT !.pos = @ + Len(piece), !.carry = c]
      BY <1>10, <1>12
    <2> QED BY <1>2, <1>4, <1>6, <1>7, <2>1 DEF StreamRead
  <1>15. Len(r.yield) + Len(r.net.carry) = Len(n.carry) + Len(piece)
    <2>1. Len(r.yield) = usable /\ Len(r.net.carry) = Len(combined) - usable
      BY <1>8, <1>9, <1>13, <1>14
    <2>2. Len(combined) \in Nat /\ usable \in Nat /\ Len(combined) = Len(n.carry) + Len(piece)
      BY <1>3, <1>5
    <2> QED BY <2>1, <2>2
  <1>16. /\ \A i \in 1..Len(r.yield) : r.yield[i] = combined[i]
         /\ \A i \in 1..Len(r.net.carry) : r.net.carry[i] = combined[Len(r.yield) + i]
    BY <1>8, <1>9, <1>13, <1>14
  <1> QED BY <1>2, <1>8, <1>11, <1>13, <1>14, <1>15, <1>16 DEF Split

\* Whatever Groq's adapter loses, it hands on no more than its response has.
LEMMA GroqReads ==
  ASSUME NEW n \in NetRecords, NEW piece \in Seq(Samples), n.pos + Len(piece) <= Bytes + 2,
         Len(Wire) = Bytes + 2, NEW r, r = GroqRead(n, piece)
  PROVE  /\ r.yield \in Seq(Samples) /\ r.net \in NetRecords
         /\ r.net.pos = n.pos + Len(piece) /\ r.net.consumed = n.consumed + Len(r.yield)
  <1>1. /\ n.carry \in Seq(Samples) /\ n.pos \in Nat /\ n.consumed \in 0..Bytes /\ Bytes \in Nat
        /\ Len(WavHeader) = 2
    BY Bounds DEF NetRecords, WavHeader
  <1>2. PICK combined : combined = n.carry \o piece
    OBVIOUS
  <1>3. combined \in Seq(Samples)
    BY <1>1, <1>2, ConcatProperties
  <1>4. PICK reach : reach = IF Len(combined) < Len(Wire) THEN Len(combined) ELSE Len(Wire)
    OBVIOUS
  <1> PICK done : done = n.consumed
    OBVIOUS
  <1>5. PICK available : available = reach - 2 - done
    OBVIOUS
  <1>6. PICK aligned : aligned = IF available > 0 THEN available - (available % 2) ELSE 0
    OBVIOUS
  <1>7. PICK end : end = 2 + done + aligned
    OBVIOUS
  <1>8. /\ reach \in 0..Bytes + 2 /\ reach <= Len(combined) /\ Len(combined) \in Nat
        /\ available \in Int /\ done \in Nat
    BY <1>1, <1>3, <1>4, <1>5, SMTT(30)
  <1>9. aligned \in Nat /\ (aligned > 0 => end <= reach)
    <2>1. CASE available > 0
      <3>1. available - (available % 2) \in 0..available
        BY <1>8, <2>1, Even
      <3>2. aligned \in 0..available
        BY <1>6, <2>1, <3>1
      <3> QED BY <1>5, <1>7, <1>8, <2>1, <3>2
    <2>2. CASE ~(available > 0)
      BY <1>6, <2>2
    <2> QED BY <2>1, <2>2
  <1>10. PICK y : y = SubSeq(combined, 3 + done, end)
    OBVIOUS
  <1>11. y \in Seq(Samples) /\ Len(y) = aligned
    <2>1. CASE aligned > 0
      <3>1. /\ 3 + done \in Nat \ {0} /\ end \in Int /\ end <= Len(combined)
            /\ 3 + done <= end /\ end - (3 + done) + 1 = aligned
        <4>1. reach \in Int
          BY <1>1, <1>8
        <4>2. end \in Int /\ 3 + done <= end /\ end - (3 + done) + 1 = aligned
          BY <1>7, <1>8, <1>9, <2>1, SMTT(30)
        <4>3. 3 + done \in Nat \ {0}
          BY <1>8
        <4>4. end <= reach /\ reach <= Len(combined) /\ Len(combined) \in Int
          BY <1>8, <1>9, <2>1
        <4>5. end <= Len(combined)
          BY <4>1, <4>2, <4>4
        <4> QED BY <4>2, <4>3, <4>4, <4>5
      <3> QED BY <1>3, <1>10, <3>1, Part
    <2>2. CASE aligned = 0
      <3>1. y = <<>>
        BY <1>1, <1>7, <1>10, <2>2, SubSeqEmpty
      <3> QED BY <2>2, <3>1
    <2> QED BY <1>9, <2>1, <2>2
  <1>12. PICK c : c = SubSeq(combined, end + 1, Len(combined))
    OBVIOUS
  <1>13. c \in Seq(Samples)
    <2>1. end + 1 \in Nat \ {0} /\ Len(combined) \in Int /\ Len(combined) <= Len(combined)
      BY <1>7, <1>8, <1>9
    <2> QED BY <1>3, <1>12, <2>1, Part
  <1>14. PICK a : a = [n EXCEPT !.pos = n.pos + Len(piece)]
    OBVIOUS
  <1>15. a \in NetRecords /\ a.pos = n.pos + Len(piece) /\ a.consumed = n.consumed
    BY <1>1, <1>14 DEF NetRecords
  <1>16. PICK b : b = [a EXCEPT !.carry = combined]
    OBVIOUS
  <1>17. b \in NetRecords /\ b.pos = a.pos /\ b.consumed = a.consumed
    BY <1>3, <1>15, <1>16 DEF NetRecords
  <1>18. PICK d : d = [pos |-> n.pos + Len(piece), header |-> TRUE, consumed |-> done + aligned,
                       carry |-> c]
    OBVIOUS
  <1>19. done + aligned \in 0..Bytes
    BY <1>1, <1>7, <1>8, <1>9, SMTT(30)
  <1>20. d \in NetRecords /\ d.pos = n.pos + Len(piece) /\ d.consumed = done + aligned
    BY <1>1, <1>13, <1>18, <1>19 DEF NetRecords
  <1>21. \/ r = [yield |-> <<>>, net |-> b]
         \/ r = [yield |-> y, net |-> d]
    <2>1. b = [n EXCEPT !.pos = @ + Len(piece), !.carry = combined]
      BY <1>14, <1>16
    <2>2. 2 + done + 1 = 3 + done
      BY <1>1
    <2> QED BY <1>1, <1>2, <1>4, <1>5, <1>6, <1>7, <1>8, <1>10, <1>12, <1>18, <2>1, <2>2, ZenonT(60) DEF GroqRead
  <1>22. CASE r = [yield |-> <<>>, net |-> b]
    BY <1>1, <1>15, <1>17, <1>22
  <1>23. CASE r = [yield |-> y, net |-> d]
    BY <1>11, <1>20, <1>23
  <1> QED BY <1>21, <1>22, <1>23

-----------------------------------------------------------------------------
(* Speaking *)

MouthTypes ==
  /\ mouth \in MouthRecords /\ net \in NetRecords /\ played \in Seq(Samples)
  /\ outcome \in Outcomes /\ Len(mouth.pending) < FrameBytes + Bytes
MouthInv == MouthTypes /\ SpokenTrue /\ InvMouth
Heard(p) == Reliable => \A i \in 1..Len(p) : p[i] = IF i <= Bytes THEN Audio[i] ELSE Pad

\* A mouth that is silent and a response of which nothing has been read.
LEMMA AtRest ==
  /\ Silent \in MouthRecords /\ Silent.at = "idle" /\ Silent.pending = <<>> /\ Silent.sent = 0
  /\ Silent.cut = FALSE /\ Silent.ended = FALSE
  /\ Unread \in NetRecords /\ Unread.pos = 0 /\ Unread.carry = <<>> /\ Unread.consumed = 0
  <1>1. <<>> \in Seq(Samples) /\ 0 \in 0..Bytes /\ 0 \in 0..RetryLimit /\ 0 \in 0..Bytes + 2
    BY Bounds
  <1> QED BY <1>1 DEF Silent, Unread, MouthRecords, NetRecords

\* The bytes of a reply and the places of a reply do not depend on where speak() waits.
LEMMA PlacedAgain ==
  ASSUME NEW m, NEW n, NEW p, NEW o, Placed(m, n, p),
         o.pending = m.pending, o.sent = m.sent, o.ended = m.ended, kind' = kind
  PROVE  Placed(o, n, p) /\ (Wire' = Wire) /\ (Reliable' <=> Reliable)
  BY DEF Placed, Wire, Reliable

\* A reply whose audio is played as it is from its first byte to its last has been heard.
LEMMA HeardWhole ==
  ASSUME NEW p \in Seq(Samples), Heard(p), Reliable, Len(p) >= Bytes
  PROVE  SubSeq(p, 1, Bytes) = Audio
  <1>1. /\ SubSeq(p, 1, Bytes) \in Seq(Samples) /\ Len(SubSeq(p, 1, Bytes)) = Bytes
        /\ \A i \in 1..Bytes : SubSeq(p, 1, Bytes)[i] = p[i]
    BY Bounds, Part
  <1>2. Audio \in Seq(Samples) /\ Len(Audio) = Bytes
    BY Bounds DEF Audio, Samples
  <1>3. ASSUME NEW i \in 1..Bytes PROVE SubSeq(p, 1, Bytes)[i] = Audio[i]
    <2>1. i \in 1..Len(p) /\ i <= Bytes
      BY Bounds
    <2> QED BY <1>1, <2>1 DEF Heard
  <1> QED BY <1>1, <1>2, <1>3, SeqEqual

\* The end of a speech.
LEMMA FinishKeeps ==
  ASSUME kind' = kind, NEW m \in MouthRecords, NEW result \in {"spoken", "failed"},
         Finish(m, result), played' \in Seq(Samples), Heard(played'),
         Reliable /\ result = "spoken" /\ ~m.cut => Len(played') >= Bytes
  PROVE  MouthInv'
  <1>1. mouth' = Silent /\ net' = Unread
    BY DEF Finish
  <1>2. outcome' \in Outcomes /\ (outcome' = "spoken" => result = "spoken" /\ ~m.cut)
    BY DEF Finish, Outcomes
  <1>3. MouthTypes'
    BY Bounds, AtRest, <1>1, <1>2 DEF MouthTypes
  <1>4. Reliable' <=> Reliable
    BY DEF Reliable
  <1>5. HeardOnce'
    BY <1>4 DEF HeardOnce, Heard, Audio
  <1>6. SpokenWhole'
    BY <1>2, <1>4, HeardWhole DEF SpokenWhole, Audio
  <1>7. InvMouth'
    BY <1>1, AtRest DEF InvMouth
  <1> QED BY <1>3, <1>5, <1>6, <1>7 DEF MouthInv, SpokenTrue

\* speak() goes on, with each byte in its place, or has spoken.
LEMMA GoOnKeeps ==
  ASSUME kind \in Pinned, kind' = kind, NEW m \in MouthRecords, NEW n \in NetRecords,
         m.at # "idle", outcome = "none", GoOn(m, n), played' \in Seq(Samples), Heard(played'),
         \/ Placed(m, n, played')
         \/ m.ended /\ m.pending = <<>> /\ (Reliable => Len(played') >= Bytes)
  PROVE  MouthInv'
  <1>1. m.pending \in Seq(Samples) /\ n.carry \in Seq(Samples)
    BY DEF MouthRecords, NetRecords
  <1>2. CASE m.cut \/ (m.ended /\ m.pending = <<>>)
    <2>1. Finish(m, "spoken")
      BY <1>2 DEF GoOn
    <2>2. ASSUME Reliable, ~m.cut PROVE Len(played') >= Bytes
      <3>1. CASE Placed(m, n, played')
        <4>1. n.carry = <<>> /\ n.pos = Bytes /\ Len(played') + Len(m.pending) + Len(n.carry) = n.pos
          BY <1>2, <2>2, <3>1, WireBytes DEF Placed, InPlace
        <4>2. Len(m.pending) = 0 /\ Len(n.carry) = 0 /\ Len(played') \in Nat /\ Bytes \in Nat
          BY Bounds, <1>2, <2>2, <4>1
        <4> QED BY <4>1, <4>2
      <3> QED BY <2>2, <3>1
    <2> QED BY <2>1, <2>2, FinishKeeps
  <1>3. CASE ~(m.cut \/ (m.ended /\ m.pending = <<>>))
    <2>1. Placed(m, n, played')
      BY <1>3
    <2>2. PICK place \in {"pace", "chunk"} :
            place = IF m.ended \/ Len(m.pending) >= FrameBytes THEN "pace" ELSE "chunk"
      OBVIOUS
    <2>3. mouth' = [m EXCEPT !.at = place] /\ net' = n /\ outcome' = "none"
      BY <1>3, <2>2 DEF GoOn
    <2>4. /\ mouth' \in MouthRecords /\ mouth'.at = place /\ mouth'.pending = m.pending
          /\ mouth'.sent = m.sent /\ mouth'.ended = m.ended
      BY <2>3, MouthFields DEF MouthRecords
    <2>5. Placed(mouth, net, played)'
      BY <2>1, <2>3, <2>4, PlacedAgain DEF Placed
    <2>6. Len(m.pending) <= Bytes
      BY Bounds, <1>1, <2>1 DEF Placed
    <2>7. MouthTypes'
      BY Bounds, <1>1, <2>3, <2>4, <2>6 DEF MouthTypes, Outcomes
    <2>8. Reliable' <=> Reliable
      BY DEF Reliable
    <2>9. SpokenTrue'
      BY <2>3, <2>8 DEF SpokenTrue, HeardOnce, SpokenWhole, Heard, Audio
    <2>10. InvMouth'
      BY <1>3, <2>2, <2>3, <2>4, <2>5 DEF InvMouth
    <2> QED BY <2>7, <2>9, <2>10 DEF MouthInv
  <1> QED BY <1>2, <1>3

\* An attempt fails: it is repeated from the first byte, when none has been heard.
LEMMA ThrowKeeps ==
  ASSUME kind \in Pinned, kind' = kind, MouthInv, mouth.at # "idle", Throw(mouth),
         UNCHANGED played
  PROVE  MouthInv'
  <1>1. /\ mouth \in MouthRecords /\ played \in Seq(Samples) /\ Heard(played) /\ outcome = "none"
        /\ Placed(mouth, net, played)
    BY DEF MouthInv, MouthTypes, SpokenTrue, HeardOnce, Heard, InvMouth
  <1>2. CASE Finish(mouth, "failed")
    BY <1>1, <1>2, FinishKeeps
  <1>3. ASSUME mouth.sent = 0, ~mouth.ended, mouth.attempt < RetryLimit, net' = Unread, UNCHANGED outcome,
               mouth' = [mouth EXCEPT !.at = "chunk", !.attempt = @ + 1, !.pending = <<>>]
        PROVE  MouthInv'
    <2>1. PICK a : a = [mouth EXCEPT !.at = "chunk"]
      OBVIOUS
    <2>2. PICK b : b = [a EXCEPT !.attempt = a.attempt + 1]
      OBVIOUS
    <2>3. PICK c : c = [b EXCEPT !.pending = <<>>]
      OBVIOUS
    <2>4. a \in MouthRecords /\ a.at = "chunk" /\ a.attempt = mouth.attempt /\ a.ended = FALSE /\ a.sent = 0
      BY <1>1, <1>3, <2>1, MouthFields DEF MouthRecords
    <2>5. b \in MouthRecords /\ b.at = "chunk" /\ b.ended = FALSE /\ b.sent = 0
      <3>1. a.attempt + 1 \in 0..RetryLimit
        BY Bounds, <1>1, <1>3, <2>4 DEF MouthRecords
      <3>2. b \in MouthRecords
        BY <2>2, <2>4, <3>1, MouthFields
      <3> QED BY <2>2, <2>4, <3>2 DEF MouthRecords
    <2>6. c \in MouthRecords /\ c.at = "chunk" /\ c.ended = FALSE /\ c.sent = 0 /\ c.pending = <<>>
      <3>1. <<>> \in Seq(Samples)
        OBVIOUS
      <3>2. c \in MouthRecords
        BY <2>3, <2>5, <3>1, MouthFields
      <3> QED BY <2>3, <2>5, <3>2 DEF MouthRecords
    <2>7. mouth' = c
      BY <1>1, <1>3, <2>1, <2>2, <2>3, <2>4 DEF MouthRecords
    <2>8. played = <<>> /\ (Wire' = Wire) /\ (Reliable' <=> Reliable) /\ Len(Wire) \in Nat
      BY Bounds, <1>1, <1>3, WireBytes DEF Placed, Wire, Reliable
    <2>9. Placed(mouth, net, played)'
      BY Bounds, <1>3, <2>6, <2>7, <2>8, AtRest DEF Placed, InPlace
    <2>10. MouthTypes'
      BY Bounds, <1>1, <1>3, <2>6, <2>7, AtRest DEF MouthTypes, Outcomes
    <2>11. SpokenTrue'
      BY <1>1, <1>3, <2>8 DEF SpokenTrue, HeardOnce, SpokenWhole, Heard, Audio
    <2>12. InvMouth'
      BY <1>1, <1>3, <2>6, <2>7, <2>9 DEF InvMouth
    <2> QED BY <2>10, <2>11, <2>12 DEF MouthInv
  <1>4. mouth.attempt \in Nat /\ RetryLimit \in Nat /\ mouth.sent \in Nat
    BY Bounds, <1>1 DEF MouthRecords
  <1> QED BY <1>2, <1>3, <1>4 DEF Throw

\* A piece of a sequence.
LEMMA PieceOf ==
  ASSUME NEW w \in Seq(Samples), NEW x \in Nat, NEW k \in Nat \ {0}, x + k <= Len(w),
         NEW e, e = SubSeq(w, x + 1, x + k)
  PROVE  e \in Seq(Samples) /\ Len(e) = k /\ \A i \in 1..k : e[i] = w[x + i]
  <1>1. x + 1 \in Nat \ {0} /\ x + k \in Int /\ x + 1 <= x + k /\ x + k - (x + 1) + 1 = k
    OBVIOUS
  <1>2. /\ e \in Seq(Samples) /\ Len(e) = k
        /\ \A i \in 1..x + k - (x + 1) + 1 : e[i] = w[x + 1 + i - 1]
    BY <1>1, Part
  <1>3. ASSUME NEW i \in 1..k PROVE e[i] = w[x + i]
    <2>1. x + 1 + i - 1 = x + i
      OBVIOUS
    <2> QED BY <1>1, <1>2, <2>1
  <1> QED BY <1>2, <1>3

\* A piece with the next bytes is read and split.
Reading(p, c, e, y, d, P, x) ==
  /\ {p, c, e, y, d} \subseteq Seq(Samples) /\ P \in Nat /\ x \in Nat
  /\ InPlace(p, c, P, x)
  /\ \A i \in 1..Len(e) : e[i] = x + i
  /\ Split(c, e, y, d)

\* What is pending and what is carried, after a piece, are the next bytes.
LEMMA Shifted ==
  ASSUME NEW p, NEW c, NEW e, NEW y, NEW d, NEW P, NEW x, Reading(p, c, e, y, d, P, x)
  PROVE  InPlace(p \o y, d, P, x + Len(e))
  <1> USE DEF Reading, Split, InPlace
  <1>0. /\ P \in Nat /\ x \in Nat /\ Len(p) \in Nat /\ Len(c) \in Nat /\ Len(e) \in Nat
        /\ P + Len(p) + Len(c) = x
    OBVIOUS
  <1>1. ASSUME NEW i \in 1..Len(c) + Len(e) PROVE (c \o e)[i] = P + Len(p) + i
    <2>0. i \in 1..Len(c) + Len(e)
      OBVIOUS
    <2>1. (c \o e)[i] = IF i <= Len(c) THEN c[i] ELSE e[i - Len(c)]
      BY ConcatProperties
    <2>2. CASE i <= Len(c)
      BY <2>1, <2>2
    <2>3. CASE ~(i <= Len(c))
      <3>1. i - Len(c) \in 1..Len(e) /\ x + (i - Len(c)) = P + Len(p) + i
        BY ONLY <1>0, <2>0, <2>3
      <3> QED BY <2>1, <2>3, <3>1
    <2> QED BY <2>2, <2>3
  <1>2. Len(p \o y) = Len(p) + Len(y)
    BY ConcatProperties
  <1>3. ASSUME NEW i \in 1..Len(p \o y) PROVE (p \o y)[i] = P + i
    <2>1. (p \o y)[i] = IF i <= Len(p) THEN p[i] ELSE y[i - Len(p)]
      BY <1>2, ConcatProperties
    <2>2. CASE i <= Len(p)
      BY <2>1, <2>2
    <2>3. CASE ~(i <= Len(p))
      <3>1. /\ i - Len(p) \in 1..Len(y) /\ i - Len(p) \in 1..Len(c) + Len(e)
            /\ P + Len(p) + (i - Len(p)) = P + i
        BY <1>2, <2>3
      <3>2. y[i - Len(p)] = P + i
        BY <1>1, <3>1
      <3> QED BY <2>1, <2>3, <3>2
    <2> QED BY <2>2, <2>3
  <1>4. ASSUME NEW i \in 1..Len(d) PROVE d[i] = P + Len(p \o y) + i
    <2>1. Len(y) + i \in 1..Len(c) + Len(e) /\ P + Len(p) + (Len(y) + i) = P + Len(p \o y) + i
      BY <1>2
    <2> QED BY <1>1, <2>1
  <1> QED BY <1>2, <1>3, <1>4

\* The next piece of the response.
LEMMA NextPiece ==
  ASSUME kind \in Pinned, net \in NetRecords, NEW k \in Nat \ {0}, net.pos + k <= Len(Wire)
  PROVE  /\ Piece(k) \in Seq(Samples) /\ Len(Piece(k)) = k
         /\ net.pos + Len(Piece(k)) <= Bytes + 2
         /\ Reliable => \A i \in 1..k : Piece(k)[i] = net.pos + i
  <1> PICK x : x = net.pos
    OBVIOUS
  <1> PICK w : w = Wire
    OBVIOUS
  <1>1. x \in Nat /\ w \in Seq(Samples) /\ x + k <= Len(w)
        /\ Len(w) = (IF Reliable THEN Bytes ELSE Bytes + 2)
        /\ (Reliable => \A i \in 1..Bytes : w[i] = i)
    BY WireBytes DEF NetRecords
  <1>2. Piece(k) \in Seq(Samples) /\ Len(Piece(k)) = k /\ \A i \in 1..k : Piece(k)[i] = w[x + i]
    <2>1. PICK e : e = SubSeq(w, x + 1, x + k)
      OBVIOUS
    <2>2. e \in Seq(Samples) /\ Len(e) = k /\ \A i \in 1..k : e[i] = w[x + i]
      <3>1. x \in Nat /\ w \in Seq(Samples) /\ x + k <= Len(w)
        BY <1>1
      <3>2. k \in Nat \ {0}
        OBVIOUS
      <3> QED BY ONLY <2>1, <3>1, <3>2, PieceOf
    <2>3. Piece(k) = e
      BY <2>1 DEF Piece
    <2> QED BY <2>2, <2>3
  <1>3. Len(w) \in Nat /\ Bytes \in Nat /\ Len(w) <= Bytes + 2
    BY <1>1, Bounds
  <1>4. ASSUME Reliable, NEW i \in 1..k PROVE Piece(k)[i] = net.pos + i
    <2>1. x + i \in 1..Bytes
      BY <1>1, <1>3, <1>4
    <2> QED BY <1>1, <1>2, <1>4, <2>1
  <1>5. x + k <= Bytes + 2
    BY <1>1, <1>3
  <1> QED BY <1>2, <1>4, <1>5

\* A piece is read: what it yields is pending, the rest is carried.
LEMMA ReadKeeps ==
  ASSUME kind \in Pinned, MouthTypes, Placed(mouth, net, played), ~mouth.ended,
         NEW k \in Nat \ {0}, net.pos + k <= Len(Wire),
         NEW r, r = Read(net, Piece(k)), NEW m, m = [mouth EXCEPT !.pending = @ \o r.yield]
  PROVE  /\ r.net \in NetRecords /\ m \in MouthRecords /\ Placed(m, r.net, played)
         /\ m.at = mouth.at /\ m.ended = mouth.ended
         /\ r.yield = <<>> => m.pending = mouth.pending
  <1>1. /\ mouth \in MouthRecords /\ net \in NetRecords /\ played \in Seq(Samples)
        /\ mouth.pending \in Seq(Samples) /\ net.carry \in Seq(Samples) /\ net.pos \in Nat
        /\ mouth.at \in {"idle", "chunk", "pace", "send"}
    BY DEF MouthTypes, MouthRecords, NetRecords
  <1>2. PICK e : e = Piece(k)
    OBVIOUS
  <1>3. /\ e \in Seq(Samples) /\ Len(e) = k /\ net.pos + Len(e) <= Bytes + 2
        /\ Reliable => \A i \in 1..k : e[i] = net.pos + i
    BY <1>1, <1>2, NextPiece
  <1>4. r.yield \in Seq(Samples) /\ r.net \in NetRecords /\ r.net.pos = net.pos + k
    <2>1. CASE Reliable
      <3>1. r = StreamRead(net, e)
        BY <1>2, <2>1 DEF Read, Reliable
      <3> QED BY <1>1, <1>3, <3>1, StreamReads
    <2>2. CASE ~Reliable
      <3>1. r = GroqRead(net, e)
        BY <1>2, <2>2 DEF Read, Reliable
      <3>2. Len(Wire) = Bytes + 2
        BY <2>2, WireBytes
      <3> QED BY <1>1, <1>3, <3>1, <3>2, GroqReads
    <2> QED BY <2>1, <2>2
  <1>5. PICK q : q = mouth.pending \o r.yield
    OBVIOUS
  <1>6. q \in Seq(Samples) /\ Len(q) = Len(mouth.pending) + Len(r.yield)
    BY <1>1, <1>4, <1>5, ConcatProperties
  <1>7. m = [mouth EXCEPT !.pending = q]
    BY <1>1, <1>5 DEF MouthRecords
  <1>8. /\ m \in MouthRecords /\ m.pending = q /\ m.at = mouth.at /\ m.ended = mouth.ended
        /\ m.sent = mouth.sent
    <2>1. [mouth EXCEPT !.pending = q] \in MouthRecords
      BY <1>1, <1>6, MouthFields, Zenon
    <2> QED BY <1>1, <1>7, <2>1 DEF MouthRecords
  <1>9. r.yield = <<>> => q = mouth.pending
    BY <1>1, <1>5, ConcatEmptySeq
  <1> PICK P : P = Len(played)
    OBVIOUS
  <1>10. P \in Nat /\ Bytes \in Nat /\ Len(q) \in Nat
    <2>1. P \in Nat
      BY <1>1, LenProperties
    <2>2. Len(q) \in Nat
      BY <1>6, LenProperties
    <2> QED BY Bounds, <2>1, <2>2
  <1>11. ASSUME Reliable
         PROVE  InPlace(q, r.net.carry, P, r.net.pos)
    <2> PICK c, d, y, x, p : c = net.carry /\ d = r.net.carry /\ y = r.yield /\ x = net.pos
                             /\ p = mouth.pending
      OBVIOUS
    <2>1. r = StreamRead(net, e)
      BY <1>2, <1>11 DEF Read, Reliable
    <2>2. Split(c, e, y, d)
      BY <1>1, <1>3, <2>1, StreamReads
    <2>3. /\ p \in Seq(Samples) /\ c \in Seq(Samples) /\ y \in Seq(Samples) /\ x \in Nat
          /\ d \in Seq(Samples)
      BY <1>1, <1>4 DEF NetRecords
    <2>4. InPlace(p, c, P, x)
      BY <1>11 DEF Placed
    <2>5. \A i \in 1..Len(e) : e[i] = x + i
      BY <1>3, <1>11
    <2>6. InPlace(p \o y, d, P, x + Len(e))
      <3>1. Reading(p, c, e, y, d, P, x)
        BY <1>3, <1>10, <2>2, <2>3, <2>4, <2>5 DEF Reading
      <3> QED BY <3>1, Shifted, Zenon
    <2>7. q = p \o y /\ r.net.pos = x + Len(e)
      BY <1>3, <1>4, <1>5
    <2> QED BY <2>6, <2>7
  <1>12. ASSUME ~Reliable PROVE P + Len(q) = r.net.consumed
    <2>1. r = GroqRead(net, e) /\ Len(Wire) = Bytes + 2
      BY <1>2, <1>12, WireBytes DEF Read, Reliable
    <2>2. r.net.consumed = net.consumed + Len(r.yield)
      BY <1>1, <1>3, <2>1, GroqReads
    <2>3. P + Len(mouth.pending) = net.consumed
      BY <1>12 DEF Placed
    <2>4. Len(mouth.pending) \in Nat
      BY <1>1, LenProperties
    <2>5. Len(r.yield) \in Nat
      BY <1>4, LenProperties
    <2>6. PICK a, b, c, d, f : a = Len(mouth.pending) /\ b = Len(r.yield) /\ c = Len(q)
                               /\ d = net.consumed /\ f = r.net.consumed
      OBVIOUS
    <2>7. a \in Nat /\ b \in Nat /\ P \in Nat
      BY <1>10, <2>4, <2>5, <2>6
    <2>8. f = d + b /\ P + a = d /\ c = a + b
      BY <1>6, <2>2, <2>3, <2>6
    <2>9. P + c = f
      BY ONLY <2>7, <2>8
    <2> QED BY <2>6, <2>9
  <1>13. P + Len(q) <= Bytes
    <2>1. CASE Reliable
      <3>1. Len(Wire) = Bytes
        BY <2>1, WireBytes
      <3>2. r.net.carry \in Seq(Samples)
        BY <1>4 DEF NetRecords
      <3>3. Len(r.net.carry) \in Nat
        BY <3>2, LenProperties
      <3>4. P + Len(q) + Len(r.net.carry) <= Bytes
        <4>1. r.net.pos <= Bytes
          BY <1>4, <3>1
        <4>2. P + Len(q) + Len(r.net.carry) = r.net.pos
          BY <1>11, <2>1 DEF InPlace
        <4> QED BY ONLY <4>1, <4>2
      <3>5. PICK a, b : a = Len(q) /\ b = Len(r.net.carry)
        OBVIOUS
      <3>6. a \in Nat /\ b \in Nat /\ P + a + b <= Bytes
        BY <1>10, <3>3, <3>4, <3>5
      <3>7. P + a <= Bytes
        BY ONLY <1>10, <3>6
      <3> QED BY <3>5, <3>7
    <2>2. CASE ~Reliable
      <3>1. r.net.consumed <= Bytes
        BY <1>4, Bounds DEF NetRecords
      <3> QED BY <1>12, <2>2, <3>1
    <2> QED BY <2>1, <2>2
  <1>14. Placed(m, r.net, played)
    <2>1. r.net.pos <= Len(Wire)
      BY <1>4
    <2>2. m.sent <= P /\ (m.sent = 0 => played = <<>>) /\ ~m.ended
      BY <1>8 DEF Placed
    <2> QED BY <1>8, <1>11, <1>12, <1>13, <2>1, <2>2 DEF Placed
  <1> QED BY <1>4, <1>8, <1>9, <1>14

\* A frame of what is pending, filled up with silence, continues what was heard.
LEMMA FrameHeard ==
  ASSUME NEW p \in Seq(Samples), NEW q \in Seq(Samples), Heard(p),
         NEW f, f = [i \in 1..FrameBytes |-> IF i <= Len(q) THEN q[i] ELSE Pad],
         Reliable => /\ \A i \in 1..Len(q) : q[i] = Len(p) + i
                     /\ Len(p) + Len(q) <= Bytes
                     /\ Len(q) >= FrameBytes \/ Len(p) + Len(q) = Bytes
  PROVE  p \o f \in Seq(Samples) /\ Len(p \o f) = Len(p) + FrameBytes /\ Heard(p \o f)
  <1>1. f \in Seq(Samples) /\ Len(f) = FrameBytes
    <2>1. ASSUME NEW i \in 1..FrameBytes
          PROVE  (IF i <= Len(q) THEN q[i] ELSE Pad) \in Samples
      <3>1. Pad \in Samples
        BY Bounds DEF Pad, Samples
      <3>2. CASE i <= Len(q)
        <4>1. i \in 1..Len(q)
          BY Bounds, <3>2
        <4> QED BY <3>2, <4>1, ElementOfSeq
      <3> QED BY <3>1, <3>2
    <2>2. f \in [1..FrameBytes -> Samples]
      BY <2>1
    <2>3. FrameBytes \in Nat
      BY Bounds
    <2> QED BY <2>2, <2>3
  <1>2. PICK r : r = p \o f
    OBVIOUS
  <1>0. p \in Seq(Samples)
    OBVIOUS
  <1>3. r \in Seq(Samples) /\ Len(r) = Len(p) + FrameBytes
    BY ONLY <1>0, <1>1, <1>2, ConcatProperties
  <1>4. ASSUME Reliable, NEW i \in 1..Len(r)
        PROVE  r[i] = IF i <= Bytes THEN Audio[i] ELSE Pad
    <2> PICK a, b : a = Len(p) /\ b = Len(q)
      OBVIOUS
    <2>1. a \in Nat /\ b \in Nat /\ FrameBytes \in Nat \ {0} /\ Bytes \in Nat \ {0} /\ i \in 1..a + FrameBytes
      BY Bounds, <1>3
    <2>2. r[i] = IF i <= a THEN p[i] ELSE f[i - a]
      <3>1. i \in 1..Len(p) + Len(f)
        BY ONLY <1>1, <1>3, <1>4
      <3>2. r[i] = IF i <= Len(p) THEN p[i] ELSE f[i - Len(p)]
        BY ONLY <1>0, <1>1, <1>2, <3>1, ConcatProperties
      <3> QED BY <3>2
    <2>3. CASE i <= a
      <3>1. i \in 1..a
        BY ONLY <2>1, <2>3
      <3> QED BY <1>4, <2>2, <2>3, <3>1 DEF Heard
    <2>4. CASE ~(i <= a) /\ i <= a + b
      <3>0. i \in Nat
        BY ONLY <2>1
      <3>1. i - a \in 1..FrameBytes /\ i - a <= b /\ i - a \in 1..b /\ a + (i - a) = i
        BY ONLY <2>1, <2>4, <3>0
      <3>2. f[i - a] = q[i - a]
        BY <3>1
      <3>3. q[i - a] = i
        BY <1>4, <3>1
      <3>4. a + b <= Bytes
        BY <1>4
      <3>5. i \in 1..Bytes /\ i <= Bytes
        BY ONLY <2>1, <2>4, <3>0, <3>4
      <3>6. Audio[i] = i
        BY <3>5 DEF Audio
      <3> QED BY <2>2, <2>4, <3>2, <3>3, <3>5, <3>6
    <2>5. CASE ~(i <= a) /\ ~(i <= a + b)
      <3>0. i \in Nat
        BY ONLY <2>1
      <3>1. i - a \in 1..FrameBytes /\ ~(i - a <= b) /\ ~(b >= FrameBytes)
        BY ONLY <2>1, <2>5, <3>0
      <3>2. f[i - a] = Pad
        BY <3>1
      <3>3. a + b = Bytes
        BY <1>4, <3>1
      <3> QED BY <2>2, <2>5, <3>2, <3>3
    <2> QED BY <2>3, <2>4, <2>5
  <1> QED BY <1>2, <1>3, <1>4 DEF Heard

\* What is left of what is pending.
LEMMA RestOf ==
  ASSUME NEW q \in Seq(Samples), NEW r, r = SubSeq(q, FrameBytes + 1, Len(q))
  PROVE  /\ r \in Seq(Samples)
         /\ Len(r) = IF Len(q) >= FrameBytes THEN Len(q) - FrameBytes ELSE 0
         /\ \A i \in 1..Len(r) : r[i] = q[FrameBytes + i]
  <1> PICK x : x = FrameBytes + 1
    OBVIOUS
  <1>1. x \in Nat \ {0} /\ Len(q) \in Int /\ Len(q) <= Len(q) /\ FrameBytes \in Nat \ {0}
    BY Bounds
  <1>2. /\ r \in Seq(Samples) /\ Len(r) = IF x <= Len(q) THEN Len(q) - x + 1 ELSE 0
        /\ \A i \in 1..Len(q) - x + 1 : r[i] = q[x + i - 1]
    BY <1>1, Part
  <1>3. Len(r) = IF Len(q) >= FrameBytes THEN Len(q) - FrameBytes ELSE 0
    BY <1>1, <1>2
  <1>4. ASSUME NEW i \in 1..Len(r) PROVE r[i] = q[FrameBytes + i]
    <2>1. i \in 1..Len(q) - x + 1 /\ x + i - 1 = FrameBytes + i
      BY <1>1, <1>2, <1>3
    <2> QED BY <1>2, <2>1
  <1> QED BY <1>2, <1>3, <1>4

\* What is known wherever speak() waits.
LEMMA Speaking ==
  ASSUME kind \in Pinned, MouthInv, mouth.at # "idle"
  PROVE  /\ mouth \in MouthRecords /\ net \in NetRecords /\ played \in Seq(Samples) /\ Heard(played)
         /\ outcome = "none" /\ Placed(mouth, net, played)
         /\ mouth.at = "chunk" => ~mouth.ended
         /\ mouth.at \in {"pace", "send"} => mouth.ended \/ Len(mouth.pending) >= FrameBytes
         /\ mouth.ended => mouth.pending # <<>>
         /\ mouth.pending \in Seq(Samples) /\ net.carry \in Seq(Samples)
  BY DEF MouthInv, MouthTypes, SpokenTrue, HeardOnce, Heard, InvMouth, MouthRecords, NetRecords

\* A piece of the response arrives.
LEMMA ChunkStep ==
  ASSUME kind \in Pinned, MouthInv, ChunkArrives
  PROVE  MouthInv'
  <1>1. /\ mouth.at = "chunk" /\ kind' = kind /\ played' = played
        /\ \E k \in PieceSizes :
             /\ net.pos + k <= Len(Wire)
             /\ LET read == Read(net, Piece(k)) IN
                  IF read.yield = <<>>
                  THEN net' = read.net /\ UNCHANGED <<mouth, outcome>>
                  ELSE GoOn([mouth EXCEPT !.pending = @ \o read.yield], read.net)
    BY DEF ChunkArrives
  <1>2. PICK k \in PieceSizes :
             /\ net.pos + k <= Len(Wire)
             /\ LET read == Read(net, Piece(k)) IN
                  IF read.yield = <<>>
                  THEN net' = read.net /\ UNCHANGED <<mouth, outcome>>
                  ELSE GoOn([mouth EXCEPT !.pending = @ \o read.yield], read.net)
    BY <1>1
  <1>3. k \in Nat \ {0}
    BY Bounds, WireBytes DEF PieceSizes
  <1>4. PICK r : r = Read(net, Piece(k))
    OBVIOUS
  <1>5. PICK m : m = [mouth EXCEPT !.pending = @ \o r.yield]
    OBVIOUS
  <1>6. /\ mouth \in MouthRecords /\ net \in NetRecords /\ played \in Seq(Samples) /\ Heard(played)
        /\ outcome = "none" /\ Placed(mouth, net, played) /\ ~mouth.ended
    BY <1>1, Speaking
  <1>7. /\ r.net \in NetRecords /\ m \in MouthRecords /\ Placed(m, r.net, played)
        /\ m.at = mouth.at /\ m.ended = mouth.ended
        /\ r.yield = <<>> => m.pending = mouth.pending
    <2>1. MouthTypes
      BY DEF MouthInv
    <2> QED BY <1>2, <1>3, <1>4, <1>5, <1>6, <2>1, ReadKeeps
  <1>8. CASE r.yield = <<>>
    <2>1. net' = r.net /\ UNCHANGED <<mouth, outcome>>
      BY <1>2, <1>4, <1>8
    <2>2. Placed(mouth, r.net, played) /\ (Wire' = Wire) /\ (Reliable' <=> Reliable)
      <3>1. m.pending = mouth.pending /\ m.sent = mouth.sent /\ m.ended = mouth.ended
        BY <1>5, <1>6, <1>7, <1>8 DEF MouthRecords
      <3> QED BY <1>1, <1>7, <3>1, PlacedAgain
    <2>3. Placed(mouth, net, played)'
      BY <1>1, <2>1, <2>2 DEF Placed, InPlace
    <2>4. MouthTypes'
      BY <1>1, <1>7, <2>1 DEF MouthInv, MouthTypes
    <2>5. SpokenTrue'
      BY <1>1, <2>1, <2>2 DEF MouthInv, SpokenTrue, HeardOnce, SpokenWhole, Audio
    <2>6. InvMouth'
      BY <1>1, <2>1, <2>3 DEF MouthInv, InvMouth
    <2> QED BY <2>4, <2>5, <2>6 DEF MouthInv
  <1>9. CASE r.yield # <<>>
    <2>1. GoOn(m, r.net)
      BY <1>2, <1>4, <1>5, <1>9
    <2>2. m.at # "idle" /\ played' \in Seq(Samples) /\ Heard(played') /\ Placed(m, r.net, played')
      BY <1>1, <1>6, <1>7
    <2> QED BY <1>1, <1>6, <1>7, <2>1, <2>2, GoOnKeeps
  <1> QED BY <1>8, <1>9

\* The response ends, fails or takes too long.
LEMMA EndStep ==
  ASSUME kind \in Pinned, MouthInv, StreamEnds \/ ProviderFails \/ Timeout
  PROVE  MouthInv'
  <1>1. mouth.at = "chunk" /\ kind' = kind /\ played' = played
    BY DEF StreamEnds, ProviderFails, Timeout
  <1>2. CASE Throw(mouth)
    BY <1>1, <1>2, ThrowKeeps
  <1>3. CASE net.pos = Len(Wire) /\ net.carry = <<>> /\ GoOn([mouth EXCEPT !.ended = TRUE], net)
    <2>1. PICK m : m = [mouth EXCEPT !.ended = TRUE]
      OBVIOUS
    <2>2. /\ mouth \in MouthRecords /\ net \in NetRecords /\ played \in Seq(Samples) /\ Heard(played)
          /\ outcome = "none" /\ Placed(mouth, net, played)
      BY <1>1, Speaking
    <2>3. m \in MouthRecords
      BY <2>1, <2>2, MouthFields
    <2>4. m.at = mouth.at /\ m.ended = TRUE /\ m.pending = mouth.pending /\ m.sent = mouth.sent
      BY <2>1, <2>2 DEF MouthRecords
    <2>5. Placed(m, net, played')
      BY <1>1, <1>3, <2>2, <2>4 DEF Placed
    <2> QED BY <1>1, <1>3, <2>1, <2>2, <2>3, <2>4, <2>5, GoOnKeeps
  <1> QED BY <1>2, <1>3 DEF StreamEnds, ProviderFails, Timeout

\* Where speak() waits is not what is known of the reply.
LEMMA SamePlace ==
  ASSUME kind \in Pinned, MouthInv, kind' = kind, UNCHANGED <<net, played, outcome>>,
         mouth' \in MouthRecords, mouth'.pending = mouth.pending, mouth'.sent = mouth.sent,
         mouth'.ended = mouth.ended,
         \/ mouth'.at = mouth.at
         \/ mouth.at = "pace" /\ mouth'.at = "send"
  PROVE  MouthInv'
  <1>1. Reliable' <=> Reliable
    BY DEF Reliable
  <1>2. MouthTypes'
    BY DEF MouthInv, MouthTypes
  <1>3. SpokenTrue'
    BY <1>1 DEF MouthInv, SpokenTrue, HeardOnce, SpokenWhole, Audio
  <1>4. ASSUME mouth.at # "idle" PROVE Placed(mouth, net, played)'
    <2>1. Placed(mouth, net, played)
      BY <1>4 DEF MouthInv, InvMouth
    <2>2. Placed(mouth', net, played) /\ Wire' = Wire
      BY <2>1, PlacedAgain
    <2> QED BY <1>1, <2>2 DEF Placed, InPlace
  <1>5. InvMouth'
    BY <1>4 DEF MouthInv, InvMouth
  <1> QED BY <1>2, <1>3, <1>5 DEF MouthInv

\* The time of a frame has come, or the caller has cut the reply off.
LEMMA PacedStep ==
  ASSUME kind \in Pinned, MouthInv, Paced
  PROVE  MouthInv'
  <1>1. mouth.at = "pace" /\ kind' = kind /\ played' = played
    BY DEF Paced
  <1>2. mouth \in MouthRecords /\ played \in Seq(Samples) /\ Heard(played)
    BY <1>1, Speaking
  <1>3. CASE mouth.cut /\ Finish(mouth, "spoken")
    BY <1>1, <1>2, <1>3, FinishKeeps
  <1>4. CASE mouth' = [mouth EXCEPT !.at = "send"] /\ UNCHANGED <<net, outcome>>
    <2>1. mouth' \in MouthRecords
      BY <1>2, <1>4, MouthFields
    <2>2. /\ mouth'.at = "send" /\ mouth'.pending = mouth.pending /\ mouth'.sent = mouth.sent
          /\ mouth'.ended = mouth.ended
      BY <1>2, <1>4 DEF MouthRecords
    <2> QED BY <1>1, <1>4, <2>1, <2>2, SamePlace
  <1> QED BY <1>3, <1>4 DEF Paced

\* The caller begins to speak: the reply may be cut off, and nothing else of it changes.
LEMMA BargeStep ==
  ASSUME kind \in Pinned, MouthInv, kind' = kind, mouth' = BargedIn(mouth) \/ mouth' = mouth,
         UNCHANGED <<net, played, outcome>>
  PROVE  MouthInv'
  <1>1. mouth \in MouthRecords
    BY DEF MouthInv, MouthTypes
  <1>2. CASE mouth' = mouth
    BY <1>1, <1>2, SamePlace
  <1>3. CASE mouth' = [mouth EXCEPT !.cut = TRUE]
    <2>1. mouth' \in MouthRecords
      BY <1>1, <1>3, MouthFields
    <2>2. /\ mouth'.at = mouth.at /\ mouth'.pending = mouth.pending /\ mouth'.sent = mouth.sent
          /\ mouth'.ended = mouth.ended
      BY <1>1, <1>3 DEF MouthRecords
    <2> QED BY <2>1, <2>2, SamePlace
  <1> QED BY <1>2, <1>3 DEF BargedIn

\* A reply begins, of which nothing has been heard.
LEMMA SpeakStep ==
  ASSUME kind \in Pinned, MouthInv, NEW inter \in BOOLEAN, Speak(inter)
  PROVE  MouthInv'
  <1>1. /\ mouth' = [Silent EXCEPT !.at = "chunk", !.inter = inter] /\ kind' = kind
        /\ net' = Unread /\ played' = <<>> /\ outcome' = "none"
    BY DEF Speak
  <1>2. PICK a : a = [Silent EXCEPT !.at = "chunk"]
    OBVIOUS
  <1>3. PICK b : b = [a EXCEPT !.inter = inter]
    OBVIOUS
  <1>4. a \in MouthRecords /\ b \in MouthRecords
    BY AtRest, <1>2, <1>3, MouthFields
  <1>5. /\ a.at = "chunk" /\ a.pending = <<>> /\ a.sent = 0 /\ a.ended = FALSE
    BY AtRest, <1>2 DEF MouthRecords
  <1>6. b.at = "chunk" /\ b.pending = <<>> /\ b.sent = 0 /\ b.ended = FALSE
    BY <1>3, <1>4, <1>5 DEF MouthRecords
  <1>7. mouth' = b
    BY AtRest, <1>1, <1>2, <1>3 DEF MouthRecords
  <1>8. (Wire' = Wire) /\ (Reliable' <=> Reliable) /\ Len(Wire) \in Nat
    BY Bounds, <1>1, WireBytes DEF Wire, Reliable
  <1>9. mouth'.pending = <<>> /\ mouth'.sent = 0 /\ mouth'.ended = FALSE
    BY <1>6, <1>7
  <1>10. played' \in Seq(Samples) /\ Len(played') = 0 /\ Len(mouth'.pending) = 0
    <2>1. <<>> \in Seq(Samples) /\ Len(<<>>) = 0
      OBVIOUS
    <2> QED BY <1>1, <1>9, <2>1, Zenon
  <1>11. Placed(mouth, net, played)'
    <2>1. net'.pos = 0 /\ net'.consumed = 0 /\ net'.carry = <<>> /\ Len(net'.carry) = 0
      BY AtRest, <1>1
    <2>2. InPlace(mouth'.pending, net'.carry, Len(played'), net'.pos)
      BY <1>10, <2>1 DEF InPlace
    <2>3. InPlace(mouth.pending, net.carry, Len(played), net.pos)'
      BY <2>2 DEF InPlace
    <2> QED BY Bounds, <1>1, <1>8, <1>9, <1>10, <2>1, <2>3 DEF Placed
  <1>12. MouthTypes'
    BY Bounds, AtRest, <1>1, <1>4, <1>7, <1>10 DEF MouthTypes, Outcomes
  <1>13. SpokenTrue'
    BY <1>1, <1>10 DEF SpokenTrue, HeardOnce, SpokenWhole
  <1>14. InvMouth'
    BY <1>1, <1>6, <1>7, <1>11 DEF InvMouth
  <1> QED BY <1>12, <1>13, <1>14 DEF MouthInv

\* A frame has been recorded and sent.
LEMMA FrameStep ==
  ASSUME kind \in Pinned, MouthInv, mouth.at = "send", kind' = kind, played' = played \o Frame,
         GoOn([mouth EXCEPT !.sent = @ + 1, !.pending = Rest], net)
  PROVE  MouthInv'
  <1>1. /\ mouth \in MouthRecords /\ net \in NetRecords /\ played \in Seq(Samples) /\ Heard(played)
        /\ outcome = "none" /\ Placed(mouth, net, played)
        /\ mouth.ended \/ Len(mouth.pending) >= FrameBytes
        /\ mouth.ended => mouth.pending # <<>>
        /\ mouth.pending \in Seq(Samples) /\ net.carry \in Seq(Samples)
    BY Speaking
  <1>2. PICK q, p : q = mouth.pending /\ p = played
    OBVIOUS
  <1>3. PICK f : f = [i \in 1..FrameBytes |-> IF i <= Len(q) THEN q[i] ELSE Pad]
    OBVIOUS
  <1>4. PICK s : s = SubSeq(q, FrameBytes + 1, Len(q))
    OBVIOUS
  <1>5. PICK r : r = p \o f
    OBVIOUS
  <1>6. PICK a, b : a = Len(p) /\ b = Len(q)
    OBVIOUS
  <1>7. q \in Seq(Samples) /\ p \in Seq(Samples)
    BY <1>1, <1>2
  <1>8. /\ a \in Nat /\ b \in Nat \ {0} /\ a + b <= Bytes /\ mouth.sent <= a /\ mouth.sent \in Nat
        /\ FrameBytes \in Nat \ {0} /\ Bytes \in Nat \ {0}
    <2>1. a + b <= Bytes /\ mouth.sent <= a /\ mouth.sent \in Nat
      BY <1>1, <1>2, <1>6 DEF Placed, MouthRecords
    <2>2. b # 0
      BY Bounds, <1>1, <1>2, <1>6, <1>7, EmptySeq
    <2> QED BY Bounds, <1>6, <1>7, <2>1, <2>2, LenProperties
  <1>9. Reliable => InPlace(q, net.carry, a, net.pos)
    BY <1>1, <1>2, <1>6 DEF Placed
  <1>10. Reliable => b >= FrameBytes \/ a + b = Bytes
    <2>1. ASSUME Reliable, mouth.ended PROVE a + b = Bytes
      <3>1. net.pos = Bytes /\ Len(net.carry) = 0
        BY <1>1, <2>1, WireBytes DEF Placed
      <3>2. a + b + 0 = Bytes
        BY <1>6, <1>9, <2>1, <3>1 DEF InPlace
      <3> QED BY ONLY <1>8, <3>2
    <2> QED BY <1>1, <1>2, <1>6, <2>1
  <1>11. r \in Seq(Samples) /\ Len(r) = a + FrameBytes /\ Heard(r)
    <2>1. Reliable => \A i \in 1..Len(q) : q[i] = Len(p) + i
      BY <1>6, <1>9 DEF InPlace
    <2>2. Reliable => /\ \A i \in 1..Len(q) : q[i] = Len(p) + i
                      /\ Len(p) + Len(q) <= Bytes
                      /\ Len(q) >= FrameBytes \/ Len(p) + Len(q) = Bytes
      BY <1>6, <1>8, <1>10, <2>1
    <2>3. Heard(p)
      BY <1>1, <1>2
    <2> QED BY <1>3, <1>5, <1>6, <1>7, <2>2, <2>3, FrameHeard
  <1>12. /\ s \in Seq(Samples) /\ Len(s) = IF b >= FrameBytes THEN b - FrameBytes ELSE 0
         /\ \A i \in 1..Len(s) : s[i] = q[FrameBytes + i]
    BY <1>4, <1>6, <1>7, RestOf
  <1>13. PICK m : m = [mouth EXCEPT !.sent = mouth.sent + 1]
    OBVIOUS
  <1>14. PICK n : n = [m EXCEPT !.pending = s]
    OBVIOUS
  <1>15. m \in MouthRecords /\ n \in MouthRecords
    <2>1. mouth.sent + 1 \in 0..Bytes
      BY ONLY <1>8
    <2>2. m \in MouthRecords
      BY <1>1, <1>13, <2>1, MouthFields
    <2> QED BY <1>12, <1>14, <2>2, MouthFields
  <1>16. m.sent = mouth.sent + 1 /\ m.at = mouth.at /\ m.ended = mouth.ended
    BY <1>1, <1>13 DEF MouthRecords
  <1>17. n.sent = mouth.sent + 1 /\ n.at = "send" /\ n.ended = mouth.ended /\ n.pending = s
    BY <1>14, <1>15, <1>16 DEF MouthRecords
  <1>18. GoOn(n, net) /\ played' = r
    <2>1. n = [mouth EXCEPT !.sent = @ + 1, !.pending = Rest]
      BY <1>1, <1>2, <1>4, <1>13, <1>14 DEF Rest, MouthRecords
    <2>2. f = Frame
      BY <1>2, <1>3 DEF Frame
    <2> QED BY <1>2, <1>5, <2>1, <2>2
  <1>19. CASE b >= FrameBytes
    <2>1. PICK t : t = Len(s)
      OBVIOUS
    <2>2. t = b - FrameBytes /\ t \in Nat
      BY <1>8, <1>12, <1>19, <2>1
    <2>3. Len(r) + t <= Bytes /\ n.sent <= Len(r) /\ n.sent # 0
      <3>1. a + FrameBytes + t <= Bytes /\ mouth.sent + 1 <= a + FrameBytes /\ mouth.sent + 1 # 0
        BY ONLY <1>8, <2>2
      <3> QED BY <1>11, <1>17, <3>1
    <2>4. Reliable => InPlace(s, net.carry, Len(r), net.pos)
      <3>1. ASSUME Reliable PROVE InPlace(s, net.carry, a + FrameBytes, net.pos)
        <4>1. PICK c : c = Len(net.carry)
          OBVIOUS
        <4>2. a + b + c = net.pos
          BY <1>6, <1>9, <3>1, <4>1 DEF InPlace
        <4>3. c \in Nat
          BY <1>1, <4>1
        <4>4. a + FrameBytes + t + c = net.pos /\ a + FrameBytes + t = a + b
          BY ONLY <1>8, <2>2, <4>2, <4>3
        <4>5. ASSUME NEW i \in 1..t PROVE s[i] = a + FrameBytes + i
          <5>1. FrameBytes + i \in 1..b /\ a + (FrameBytes + i) = a + FrameBytes + i
            BY ONLY <1>8, <2>2, <4>5
          <5>2. q[FrameBytes + i] = a + (FrameBytes + i)
            BY <1>6, <1>9, <3>1, <5>1 DEF InPlace
          <5> QED BY <1>12, <2>1, <5>1, <5>2
        <4>6. ASSUME NEW i \in 1..c PROVE net.carry[i] = a + b + i
          BY <1>6, <1>9, <3>1, <4>1 DEF InPlace
        <4>7. \A i \in 1..Len(net.carry) : net.carry[i] = a + FrameBytes + Len(s) + i
          BY <2>1, <4>1, <4>4, <4>6
        <4> QED BY <2>1, <4>1, <4>4, <4>5, <4>7 DEF InPlace
      <3> QED BY <1>11, <3>1
    <2>5. ~Reliable => Len(r) + t = net.consumed
      <3>1. ASSUME ~Reliable PROVE a + FrameBytes + t = net.consumed
        <4>1. a + b = net.consumed
          BY <1>1, <1>2, <1>6, <3>1 DEF Placed
        <4> QED BY ONLY <1>8, <2>2, <4>1
      <3> QED BY <1>11, <3>1
    <2>6. net.pos <= Len(Wire) /\ (mouth.ended => net.carry = <<>> /\ net.pos = Len(Wire))
      BY <1>1 DEF Placed
    <2>7. Placed(n, net, r)
      BY <1>17, <2>1, <2>3, <2>4, <2>5, <2>6 DEF Placed
    <2> QED BY <1>1, <1>11, <1>15, <1>17, <1>18, <2>7, GoOnKeeps
  <1>20. CASE ~(b >= FrameBytes)
    <2>1. n.ended /\ n.pending = <<>>
      <3>1. Len(s) = 0
        BY <1>12, <1>20
      <3>2. s = <<>>
        BY <1>12, <3>1, EmptySeq
      <3> QED BY <1>1, <1>2, <1>6, <1>17, <1>20, <3>2
    <2>2. ASSUME Reliable PROVE Len(r) >= Bytes
      <3>1. a + b = Bytes
        BY <1>10, <1>20, <2>2
      <3>2. a + FrameBytes >= Bytes
        BY ONLY <1>8, <1>20, <3>1
      <3> QED BY <1>11, <3>2
    <2> QED BY <1>1, <1>11, <1>15, <1>17, <1>18, <2>1, <2>2, GoOnKeeps
  <1> QED BY <1>19, <1>20

\* A frame is recorded and handed to the phone, or there is no recorder.
LEMMA SentStep ==
  ASSUME kind \in Pinned, MouthInv, Sent
  PROVE  MouthInv'
  <1>1. mouth.at = "send" /\ kind' = kind
    BY DEF Sent
  <1>2. CASE played' = played \o Frame /\ GoOn([mouth EXCEPT !.sent = @ + 1, !.pending = Rest], net)
    BY <1>1, <1>2, FrameStep
  <1>3. CASE Throw(mouth) /\ UNCHANGED played
    BY <1>1, <1>3, ThrowKeeps
  <1> QED BY <1>2, <1>3 DEF Sent

\* Each step keeps what is known of the reply.
LEMMA MouthStep ==
  ASSUME kind \in Pinned, MouthInv, [Next]_vars
  PROVE  MouthInv'
  <1>1. CASE \/ \E verdict \in Verdicts(ear.vad) : HearFrame(verdict)
             \/ Close
    BY <1>1, BargeStep DEF HearFrame, Close
  <1>2. CASE \/ UNCHANGED vars \/ HandleEvent \/ CallEnds \/ Closed
             \/ \E i \in 1..Len(asked) : Answer(i)
             \/ \E failed \in BOOLEAN : ConnectionLost(failed)
    BY <1>2, BargeStep DEF vars, mouthVars, HandleEvent, CallEnds, Closed, Answer, ConnectionLost
  <1>3. CASE \E inter \in BOOLEAN : Speak(inter)
    BY <1>3, SpeakStep
  <1>4. CASE ChunkArrives
    BY <1>4, ChunkStep
  <1>5. CASE StreamEnds \/ ProviderFails
    BY <1>5, EndStep
  <1>6. CASE Settles
    BY <1>6, EndStep, PacedStep, SentStep DEF Settles
  <1> QED BY <1>1, <1>2, <1>3, <1>4, <1>5, <1>6 DEF Next

-----------------------------------------------------------------------------
(* Listening: what happens to the three sequences *)

\* w is v without its first element, or with one more at its end.
Shorter(w, v) == Len(w) \in Nat /\ Len(v) = Len(w) + 1 /\ \A i \in 1..Len(w) : w[i] = v[i + 1]
Longer(w, v, x) ==
  Len(v) \in Nat /\ Len(w) = Len(v) + 1 /\ w[Len(w)] = x /\ \A i \in 1..Len(v) : w[i] = v[i]

\* The first element is taken off.
LEMMA TailShorter ==
  ASSUME NEW S, NEW v \in Seq(S), v # <<>>
  PROVE  /\ Tail(v) \in Seq(S) /\ Shorter(Tail(v), v) /\ Head(v) = v[1] /\ v[1] \in S
         /\ RemoveAt(v, 1) \in Seq(S) /\ Shorter(RemoveAt(v, 1), v)
  <1>1. Len(v) \in Nat \ {0}
    BY EmptySeq, LenProperties
  <1>2. /\ Tail(v) \in Seq(S) /\ Len(Tail(v)) = Len(v) - 1 /\ Head(v) = v[1] /\ v[1] \in S
        /\ \A i \in 1..Len(Tail(v)) : Tail(v)[i] = v[i + 1]
    <2>1. Head(v) \in S /\ Head(v) = v[1] /\ Tail(v) \in Seq(S) /\ Len(Tail(v)) = Len(v) - 1
      BY HeadTailProperties
    <2>2. \A i \in 1..Len(Tail(v)) : Tail(v)[i] = v[i + 1]
      BY HeadTailProperties
    <2> QED BY <2>1, <2>2
  <1>3. Shorter(Tail(v), v)
    BY <1>1, <1>2 DEF Shorter
  <1>4. PICK t : t = SubSeq(v, 2, Len(v))
    OBVIOUS
  <1>5. /\ t \in Seq(S) /\ Len(t) = Len(v) - 1
        /\ \A i \in 1..Len(t) : t[i] = v[i + 1]
    <2>1. /\ t \in Seq(S) /\ Len(t) = IF 2 <= Len(v) THEN Len(v) - 2 + 1 ELSE 0
          /\ \A i \in 1..Len(v) - 2 + 1 : t[i] = v[2 + i - 1]
      BY <1>1, <1>4, Part
    <2>2. Len(t) = Len(v) - 1
      <3> PICK x, y : x = Len(v) /\ y = Len(t)
        OBVIOUS
      <3>1. x \in Nat \ {0} /\ y = IF 2 <= x THEN x - 2 + 1 ELSE 0
        BY <1>1, <2>1
      <3>2. y = x - 1
        BY ONLY <3>1
      <3> QED BY <3>2
    <2>3. ASSUME NEW i \in 1..Len(t) PROVE t[i] = v[i + 1]
      <3>1. i \in 1..Len(v) - 2 + 1 /\ 2 + i - 1 = i + 1
        BY <1>1, <2>2
      <3> QED BY <2>1, <3>1
    <2> QED BY <2>1, <2>2, <2>3
  <1>6. Shorter(t, v)
    BY <1>1, <1>5 DEF Shorter
  <1>7. RemoveAt(v, 1) = t
    <2>1. SubSeq(v, 1, 0) = <<>>
      BY SubSeqEmpty
    <2>2. RemoveAt(v, 1) = SubSeq(v, 1, 0) \o t
      BY <1>4 DEF RemoveAt
    <2>3. <<>> \o t = t
      BY <1>5, ConcatEmptySeq
    <2> QED BY <2>1, <2>2, <2>3
  <1> QED BY <1>2, <1>3, <1>5, <1>6, <1>7

\* An element is put at the end.
LEMMA AppendLonger ==
  ASSUME NEW S, NEW v \in Seq(S), NEW x \in S
  PROVE  Append(v, x) \in Seq(S) /\ Longer(Append(v, x), v, x)
  <1>1. /\ Append(v, x) \in Seq(S) /\ Len(Append(v, x)) = Len(v) + 1
        /\ \A i \in 1..Len(v) : Append(v, x)[i] = v[i]
        /\ Append(v, x)[Len(v) + 1] = x
    BY AppendProperties
  <1>2. Len(v) \in Nat
    BY LenProperties
  <1> QED BY <1>1, <1>2 DEF Longer

\* What is left of a sequence is as its elements were.
LEMMA ShorterKeeps ==
  ASSUME NEW v, NEW w, Shorter(w, v), NEW n
  PROVE  /\ Within(v, n) => Within(w, n)
         /\ Rising(v) => Rising(w)
         /\ Proper(v) => Proper(w)
         /\ \A u : Before(u, v) => Before(u, w)
         /\ \A u : Before(v, u) => Before(w, u)
  <1>1. \A i \in 1..Len(w) : i \in Int /\ i + 1 \in 1..Len(v) /\ w[i] = v[i + 1]
    BY DEF Shorter
  <1>2. Within(v, n) => Within(w, n)
    BY <1>1 DEF Within
  <1>3. ASSUME Rising(v) PROVE Rising(w)
    <2>1. ASSUME NEW i \in 1..Len(w), NEW j \in 1..Len(w), i < j, w[j].turn # 0
          PROVE  w[i].turn < w[j].turn
      <3>1. /\ i + 1 \in 1..Len(v) /\ w[i] = v[i + 1] /\ j + 1 \in 1..Len(v) /\ w[j] = v[j + 1]
            /\ i + 1 < j + 1
        BY <1>1, <2>1
      <3> QED BY <1>3, <2>1, <3>1 DEF Rising
    <2> QED BY <2>1 DEF Rising
  <1>4. Proper(v) => Proper(w)
    BY <1>1 DEF Proper
  <1>5. ASSUME NEW u, Before(u, v) PROVE Before(u, w)
    BY <1>1, <1>5 DEF Before
  <1>6. ASSUME NEW u, Before(v, u) PROVE Before(w, u)
    BY <1>1, <1>6 DEF Before
  <1> QED BY <1>2, <1>3, <1>4, <1>5, <1>6

\* What an element is, the longer sequence is.
LEMMA LongerKeeps ==
  ASSUME NEW v, NEW w, NEW x, Longer(w, v, x), NEW n
  PROVE  /\ Within(v, n) /\ x.turn \in 0..n => Within(w, n)
         /\ Rising(v) /\ (x.turn # 0 => \A i \in 1..Len(v) : v[i].turn < x.turn) => Rising(w)
         /\ Proper(v) /\ x.turn # 0 => Proper(w)
         /\ \A u : Before(u, v) /\ (x.turn # 0 => \A i \in 1..Len(u) : u[i].turn < x.turn)
                     => Before(u, w)
         /\ \A u : Before(v, u) /\ (\A i \in 1..Len(u) : u[i].turn # 0 => x.turn < u[i].turn)
                     => Before(w, u)
  <1>1. \A i \in 1..Len(w) : \/ i \in 1..Len(v) /\ w[i] = v[i]
                             \/ i = Len(w) /\ w[i] = x
    BY DEF Longer
  <1>2. Within(v, n) /\ x.turn \in 0..n => Within(w, n)
    BY <1>1 DEF Within
  <1>3. ASSUME Rising(v), x.turn # 0 => \A i \in 1..Len(v) : v[i].turn < x.turn PROVE Rising(w)
    <2>1. ASSUME NEW i \in 1..Len(w), NEW j \in 1..Len(w), i < j, w[j].turn # 0
          PROVE  w[i].turn < w[j].turn
      <3>1. i \in 1..Len(v) /\ w[i] = v[i]
        <4>1. Len(w) \in Nat
          BY DEF Longer
        <4>2. i # Len(w)
          BY <2>1, <4>1
        <4> QED BY <1>1, <4>2
      <3>2. CASE j \in 1..Len(v) /\ w[j] = v[j]
        BY <1>3, <2>1, <3>1, <3>2 DEF Rising
      <3>3. CASE w[j] = x
        BY <1>3, <2>1, <3>1, <3>3
      <3> QED BY <1>1, <3>2, <3>3
    <2> QED BY <2>1 DEF Rising
  <1>4. Proper(v) /\ x.turn # 0 => Proper(w)
    BY <1>1 DEF Proper
  <1>5. ASSUME NEW u, Before(u, v), x.turn # 0 => \A i \in 1..Len(u) : u[i].turn < x.turn
        PROVE  Before(u, w)
    BY <1>1, <1>5 DEF Before
  <1>6. ASSUME NEW u, Before(v, u), \A i \in 1..Len(u) : u[i].turn # 0 => x.turn < u[i].turn
        PROVE  Before(w, u)
    BY <1>1, <1>6 DEF Before
  <1> QED BY <1>2, <1>3, <1>4, <1>5, <1>6

\* A turn is asked for.
LEMMA OrderedAsk ==
  ASSUME NEW a, NEW v, NEW s, NEW n \in Nat, NEW b, NEW x, Ordered(a, v, s, n), Longer(b, a, x),
         x.turn = n + 1
  PROVE  Ordered(b, v, s, n + 1)
  <1>1. ASSUME NEW u, Within(u, n)
        PROVE  Within(u, n + 1) /\ \A i \in 1..Len(u) : u[i].turn < n + 1
    BY <1>1 DEF Within
  <1>2. x.turn \in 0..n + 1 /\ x.turn # 0
    OBVIOUS
  <1>3. Within(b, n + 1) /\ Rising(b) /\ Proper(b)
    BY <1>1, <1>2, LongerKeeps DEF Ordered
  <1>4. ASSUME NEW u, Before(u, a), Within(u, n) PROVE Before(u, b)
    BY <1>1, <1>4, LongerKeeps
  <1> QED BY <1>1, <1>3, <1>4 DEF Ordered

\* A problem is told of.
LEMMA OrderedProblem ==
  ASSUME NEW a, NEW v, NEW s, NEW n \in Nat, NEW w, NEW x, Ordered(a, v, s, n), Longer(w, v, x),
         x.turn = 0
  PROVE  Ordered(a, w, s, n)
  <1>1. Within(w, n) /\ Rising(w)
    BY LongerKeeps DEF Ordered
  <1>2. Before(s, w)
    BY LongerKeeps DEF Ordered
  <1>3. Before(w, a)
    <2>1. \A i \in 1..Len(a) : a[i].turn # 0 => 0 < a[i].turn
      BY DEF Ordered, Within
    <2> QED BY <2>1, LongerKeeps DEF Ordered
  <1> QED BY <1>1, <1>2, <1>3 DEF Ordered

\* The first turn that was asked for is not answered.
LEMMA OrderedForget ==
  ASSUME NEW a, NEW v, NEW s, NEW n \in Nat, NEW b, Ordered(a, v, s, n), Shorter(b, a)
  PROVE  Ordered(b, v, s, n)
  BY ShorterKeeps DEF Ordered

\* The first turn that was asked for is answered.
LEMMA OrderedAnswer ==
  ASSUME NEW a, NEW v, NEW s, NEW n \in Nat, NEW b, NEW w, Ordered(a, v, s, n), Shorter(b, a),
         Longer(w, v, a[1])
  PROVE  Ordered(b, w, s, n)
  <1>1. Ordered(b, v, s, n)
    BY OrderedForget
  <1>2. 1 \in 1..Len(a) /\ \A i \in 1..Len(b) : i + 1 \in 1..Len(a) /\ 1 < i + 1 /\ b[i] = a[i + 1]
    BY DEF Shorter
  <1>3. PICK x : x = a[1]
    OBVIOUS
  <1>4. /\ x.turn \in 0..n /\ x.turn # 0
        /\ \A i \in 1..Len(v) : v[i].turn < x.turn
        /\ \A i \in 1..Len(s) : s[i].turn < x.turn
    BY <1>2, <1>3 DEF Ordered, Within, Proper, Before
  <1>5. \A i \in 1..Len(b) : b[i].turn # 0 => x.turn < b[i].turn
    BY <1>2, <1>3 DEF Ordered, Rising
  <1>6. Longer(w, v, x)
    BY <1>3
  <1>7. Within(w, n) /\ Rising(w)
    BY <1>1, <1>4, <1>6, LongerKeeps DEF Ordered
  <1>8. Before(s, w)
    BY <1>1, <1>4, <1>6, LongerKeeps DEF Ordered
  <1>9. Before(w, b)
    BY <1>1, <1>5, <1>6, LongerKeeps DEF Ordered
  <1> QED BY <1>1, <1>7, <1>8, <1>9 DEF Ordered

\* The first event is handled, and may be recorded.
LEMMA OrderedHandle ==
  ASSUME NEW a, NEW v, NEW s, NEW n \in Nat, NEW w, Ordered(a, v, s, n), Shorter(w, v)
  PROVE  /\ Ordered(a, w, s, n)
         /\ \A t, x : Longer(t, s, x) /\ x.turn = v[1].turn /\ x.turn # 0 => Ordered(a, w, t, n)
  <1>1. Ordered(a, w, s, n)
    BY ShorterKeeps DEF Ordered
  <1>2. ASSUME NEW t, NEW x, Longer(t, s, x), x.turn = v[1].turn, x.turn # 0
        PROVE  Ordered(a, w, t, n)
    <2>1. 1 \in 1..Len(v) /\ \A i \in 1..Len(w) : i + 1 \in 1..Len(v) /\ 1 < i + 1 /\ w[i] = v[i + 1]
      BY DEF Shorter
    <2>2. /\ x.turn \in 0..n
          /\ \A i \in 1..Len(s) : s[i].turn < x.turn
          /\ \A i \in 1..Len(a) : a[i].turn # 0 => x.turn < a[i].turn
      BY <1>2, <2>1 DEF Ordered, Within, Before
    <2>3. \A i \in 1..Len(w) : w[i].turn # 0 => x.turn < w[i].turn
      BY <1>2, <2>1 DEF Ordered, Rising
    <2>4. Within(t, n) /\ Rising(t) /\ Proper(t)
      BY <1>1, <1>2, <2>2, LongerKeeps DEF Ordered
    <2>5. Before(t, w)
      BY <1>1, <1>2, <2>3, LongerKeeps DEF Ordered
    <2>6. Before(t, a)
      BY <1>1, <1>2, <2>2, LongerKeeps DEF Ordered
    <2> QED BY <1>1, <2>4, <2>5, <2>6 DEF Ordered
  <1> QED BY <1>1, <1>2

\* Nothing is asked for any more, or no event is handled any more.
LEMMA OrderedNone ==
  ASSUME NEW a, NEW v, NEW s, NEW n \in Nat, Ordered(a, v, s, n)
  PROVE  Ordered(<<>>, v, s, n) /\ Ordered(a, <<>>, s, n)
  <1>1. ASSUME NEW i \in 1..Len(<<>>) PROVE FALSE
    OBVIOUS
  <1> QED BY <1>1 DEF Ordered, Within, Proper, Rising, Before

\* A turn is asked for: its number is that of its place, and it has no gap.
LEMMA CountedAsk ==
  ASSUME NEW a, NEW v, NEW S \in Nat, NEW n, NEW gap, NEW b, NEW x, Len(v) \in Nat,
         Counted(a, v, S, n, FALSE, gap), Longer(b, a, x), x.turn = n + 1, x.gap = gap
  PROVE  Counted(b, v, S, n + 1, FALSE, gap)
  <1>1. ASSUME Clear(v, Len(v))
        PROVE  /\ \A i \in 1..Len(b) : b[i].turn = S + Len(v) + i /\ ~b[i].gap
               /\ ~gap /\ n + 1 = S + Len(v) + Len(b)
    <2>1. /\ \A i \in 1..Len(a) : a[i].turn = S + Len(v) + i /\ ~a[i].gap
          /\ ~gap /\ n = S + Len(v) + Len(a)
      BY <1>1 DEF Counted
    <2>2. PICK k, l : k = Len(v) /\ l = Len(a)
      OBVIOUS
    <2>3. k \in Nat /\ l \in Nat /\ Len(b) = l + 1 /\ n = S + k + l
      BY <2>1, <2>2 DEF Longer
    <2>4. n + 1 = S + k + (l + 1)
      BY ONLY <2>3
    <2>5. ASSUME NEW i \in 1..Len(b) PROVE b[i].turn = S + k + i /\ ~b[i].gap
      <3>1. CASE i \in 1..Len(a)
        BY <2>1, <2>2, <3>1 DEF Longer
      <3>2. CASE i = Len(b)
        BY <2>1, <2>3, <2>4, <3>2 DEF Longer
      <3> QED BY <2>2, <2>3, <3>1, <3>2
    <2> QED BY <2>1, <2>2, <2>3, <2>4, <2>5
  <1> QED BY <1>1 DEF Counted

\* A problem is told of: what comes after it is not counted.
LEMMA CountedProblem ==
  ASSUME NEW a, NEW v, NEW S, NEW n, NEW lost, NEW gap, NEW w, NEW x,
         Counted(a, v, S, n, lost, gap), Longer(w, v, x), x.turn = 0
  PROVE  \A b, m, l, g : Counted(b, w, S, m, l, g)
  <1>1. ~Clear(w, Len(w))
    BY DEF Clear, Longer
  <1>2. ASSUME NEW j \in 1..Len(w), Clear(w, j) PROVE w[j].turn = S + j /\ ~w[j].gap
    <2>1. j \in 1..Len(v)
      BY <1>1, <1>2 DEF Longer
    <2>2. w[j] = v[j] /\ Clear(v, j)
      BY <1>2, <2>1 DEF Clear, Longer
    <2> QED BY <2>1, <2>2 DEF Counted
  <1> QED BY <1>1, <1>2 DEF Counted

\* The first turn that was asked for is answered.
LEMMA CountedAnswer ==
  ASSUME NEW a, NEW v, NEW S \in Nat, NEW n, NEW lost, NEW gap, NEW b, NEW w,
         Counted(a, v, S, n, lost, gap), Shorter(b, a), Longer(w, v, a[1])
  PROVE  Counted(b, w, S, n, lost, gap)
  <1>1. /\ Len(v) \in Nat /\ Len(w) = Len(v) + 1 /\ \A j \in 1..Len(v) : w[j] = v[j]
        /\ w[Len(w)] = a[1] /\ Len(b) \in Nat /\ Len(a) = Len(b) + 1 /\ 1 \in 1..Len(a)
    BY DEF Longer, Shorter
  <1>2. \A j \in 1..Len(v) : Clear(w, j) => Clear(v, j)
    BY <1>1 DEF Clear
  <1>3. Clear(w, Len(w)) => Clear(v, Len(v))
    BY <1>1 DEF Clear
  <1>4. ASSUME NEW j \in 1..Len(w), Clear(w, j) PROVE w[j].turn = S + j /\ ~w[j].gap
    <2>1. CASE j \in 1..Len(v)
      BY <1>1, <1>2, <1>4, <2>1 DEF Counted
    <2>2. CASE j = Len(w)
      BY <1>1, <1>3, <1>4, <2>2 DEF Counted
    <2> QED BY <1>1, <2>1, <2>2
  <1>5. ASSUME Clear(w, Len(w))
        PROVE  /\ \A i \in 1..Len(b) : b[i].turn = S + Len(w) + i /\ ~b[i].gap
               /\ ~lost => ~gap /\ n = S + Len(w) + Len(b)
    <2>1. /\ \A i \in 1..Len(a) : a[i].turn = S + Len(v) + i /\ ~a[i].gap
          /\ ~lost => ~gap /\ n = S + Len(v) + Len(a)
      BY <1>3, <1>5 DEF Counted
    <2>2. PICK k, l : k = Len(v) /\ l = Len(b)
      OBVIOUS
    <2>3. k \in Nat /\ l \in Nat /\ S + k + (l + 1) = S + (k + 1) + l
      BY <1>1, <2>2
    <2>4. ASSUME NEW i \in 1..l PROVE b[i].turn = S + (k + 1) + i /\ ~b[i].gap
      <3>1. i + 1 \in 1..Len(a) /\ S + k + (i + 1) = S + (k + 1) + i /\ b[i] = a[i + 1]
        BY <1>1, <2>2, <2>3 DEF Shorter
      <3> QED BY <2>1, <2>2, <3>1
    <2> QED BY <1>1, <2>1, <2>2, <2>3, <2>4
  <1> QED BY <1>4, <1>5 DEF Counted

\* The first event is handled: its number is that of its place among the transcripts.
LEMMA CountedHandle ==
  ASSUME NEW a, NEW v, NEW S \in Nat, NEW n, NEW lost, NEW gap, NEW w,
         Counted(a, v, S, n, lost, gap), Shorter(w, v), v[1].turn # 0
  PROVE  /\ v[1].turn = S + 1 /\ ~v[1].gap
         /\ Counted(a, w, S + 1, n, lost, gap)
  <1>1. /\ Len(w) \in Nat /\ Len(v) = Len(w) + 1 /\ 1 \in 1..Len(v)
        /\ \A j \in 1..Len(w) : j + 1 \in 1..Len(v) /\ w[j] = v[j + 1] /\ S + (j + 1) = S + 1 + j
    BY DEF Shorter
  <1>2. v[1].turn = S + 1 /\ ~v[1].gap
    BY <1>1 DEF Counted, Clear
  <1>3. ASSUME NEW k \in 0..Len(w), Clear(w, k) PROVE Clear(v, k + 1)
    <2>1. ASSUME NEW i \in 1..k + 1 PROVE v[i].turn # 0
      <3>1. CASE i = 1
        BY <3>1
      <3>2. CASE i # 1
        <4>1. i - 1 \in 1..k /\ i - 1 \in 1..Len(w) /\ i - 1 + 1 = i
          BY <1>1, <3>2
        <4> QED BY <1>1, <1>3, <4>1 DEF Clear
      <3> QED BY <3>1, <3>2
    <2> QED BY <2>1 DEF Clear
  <1>4. ASSUME NEW j \in 1..Len(w), Clear(w, j) PROVE w[j].turn = S + 1 + j /\ ~w[j].gap
    <2>1. Clear(v, j + 1)
      <3>1. j \in 0..Len(w)
        BY <1>1
      <3> QED BY <1>3, <1>4, <3>1
    <2> QED BY <1>1, <2>1 DEF Counted
  <1>5. ASSUME Clear(w, Len(w))
        PROVE  /\ \A i \in 1..Len(a) : a[i].turn = S + 1 + Len(w) + i /\ ~a[i].gap
               /\ ~lost => ~gap /\ n = S + 1 + Len(w) + Len(a)
    <2>1. Clear(v, Len(v))
      <3>1. Len(w) \in 0..Len(w)
        BY <1>1
      <3> QED BY <1>1, <1>3, <1>5, <3>1
    <2>2. S + Len(v) = S + 1 + Len(w)
      BY <1>1
    <2>3. /\ \A i \in 1..Len(a) : a[i].turn = S + Len(v) + i /\ ~a[i].gap
          /\ ~lost => ~gap /\ n = S + Len(v) + Len(a)
      BY <2>1 DEF Counted
    <2> QED BY <2>2, <2>3
  <1> QED BY <1>2, <1>4, <1>5 DEF Counted

\* The connection is lost: no more turns are counted.
LEMMA CountedLost ==
  ASSUME NEW a, NEW v, NEW S, NEW n, NEW lost, NEW gap, Counted(a, v, S, n, lost, gap)
  PROVE  \A g : Counted(<<>>, v, S, n, TRUE, g)
  <1>1. ASSUME NEW i \in 1..Len(<<>>) PROVE FALSE
    OBVIOUS
  <1> QED BY <1>1 DEF Counted

-----------------------------------------------------------------------------
(* Listening: the steps *)

EarTypes ==
  /\ kind \in Pinned /\ ear \in EarRecords
  /\ asked \in Seq(Events) /\ events \in Seq(Events) /\ said \in Seq(Transcripts)
  /\ recorder \in BOOLEAN /\ down \in BOOLEAN /\ count \in Counts
  /\ ear.phase # "open" => asked = <<>>
EarInv == EarTypes /\ CompleteHonest /\ InvOrder /\ InvCounted /\ InvBounds

\* The fields of what the session hears, one at a time.
LEMMA EarFields ==
  ASSUME NEW e \in EarRecords
  PROVE  /\ \A x \in {"open", "closing", "closed"} : [e EXCEPT !.phase = x] \in EarRecords
         /\ \A x \in BOOLEAN : /\ [e EXCEPT !.vad = x] \in EarRecords
                               /\ [e EXCEPT !.complete = x] \in EarRecords
                               /\ [e EXCEPT !.error = x] \in EarRecords
                               /\ [e EXCEPT !.lost = x] \in EarRecords
                               /\ [e EXCEPT !.ended = x] \in EarRecords
                               /\ [e EXCEPT !.gap = x] \in EarRecords
         /\ \A x \in 0..MaxTurnFrames + MaxFrames : [e EXCEPT !.chunks = x] \in EarRecords
  <1>1. ASSUME NEW x \in {"open", "closing", "closed"} PROVE [e EXCEPT !.phase = x] \in EarRecords
    BY DEF EarRecords
  <1>2. ASSUME NEW x \in BOOLEAN PROVE [e EXCEPT !.vad = x] \in EarRecords
    BY DEF EarRecords
  <1>3. ASSUME NEW x \in BOOLEAN PROVE [e EXCEPT !.complete = x] \in EarRecords
    BY DEF EarRecords
  <1>4. ASSUME NEW x \in BOOLEAN PROVE [e EXCEPT !.error = x] \in EarRecords
    BY DEF EarRecords
  <1>5. ASSUME NEW x \in BOOLEAN PROVE [e EXCEPT !.lost = x] \in EarRecords
    BY DEF EarRecords
  <1>6. ASSUME NEW x \in BOOLEAN PROVE [e EXCEPT !.ended = x] \in EarRecords
    BY DEF EarRecords
  <1>7. ASSUME NEW x \in BOOLEAN PROVE [e EXCEPT !.gap = x] \in EarRecords
    BY DEF EarRecords
  <1>8. ASSUME NEW x \in 0..MaxTurnFrames + MaxFrames PROVE [e EXCEPT !.chunks = x] \in EarRecords
    BY DEF EarRecords
  <1> QED BY <1>1, <1>2, <1>3, <1>4, <1>5, <1>6, <1>7, <1>8

\* The number of a turn tells whether an event is a problem.
LEMMA EventTurns ==
  /\ Problem \in Events /\ Problem.turn = 0
  /\ \A x \in Events : /\ x.turn \in 0..MaxFrames /\ x.gap \in BOOLEAN
                       /\ x # Problem <=> x.turn # 0
  /\ \A x \in Events : x.turn # 0 => x.turn \in Turns
  /\ \A t \in Turns, g \in BOOLEAN : [turn |-> t, gap |-> g] \in Events
  <1>1. Problem \in Events /\ Problem.turn = 0 /\ Problem.gap = FALSE
    BY DEF Events, Problem
  <1>2. ASSUME NEW x \in Events
        PROVE  /\ x.turn \in 0..MaxFrames /\ x.gap \in BOOLEAN
               /\ x # Problem <=> x.turn # 0
    <2>1. CASE x \in [turn : Turns, gap : BOOLEAN]
      <3>1. x.turn \in Turns /\ x.gap \in BOOLEAN
        BY <2>1
      <3>2. x.turn \in 0..MaxFrames /\ x.turn # 0
        BY Bounds, <3>1 DEF Turns
      <3> QED BY <1>1, <3>1, <3>2
    <2>2. CASE x = Problem
      <3>1. 0 \in 0..MaxFrames
        BY Bounds
      <3> QED BY <1>1, <2>2, <3>1
    <2> QED BY <2>1, <2>2 DEF Events
  <1>3. \A x \in Events : x.turn # 0 => x.turn \in Turns
    BY <1>2, Bounds DEF Turns
  <1>4. \A t \in Turns, g \in BOOLEAN : [turn |-> t, gap |-> g] \in Events
    BY DEF Events
  <1> QED BY <1>1, <1>2, <1>3, <1>4

\* The bounds on the counters.
LEMMA CountFields ==
  ASSUME count \in Counts
  PROVE  /\ count.heard \in 0..MaxFrames /\ count.turns \in 0..MaxFrames
         /\ count.speaks \in 0..MaxSpeaks /\ count.faults \in 0..MaxFaults
         /\ \A x \in 0..MaxFrames : [count EXCEPT !.heard = x] \in Counts
         /\ \A x \in 0..MaxSpeaks : [count EXCEPT !.speaks = x] \in Counts
         /\ \A x \in 0..MaxFaults : [count EXCEPT !.faults = x] \in Counts
  BY DEF Counts

\* One more frame is heard.
LEMMA OneHeard ==
  ASSUME count \in Counts, count.heard < MaxFrames, count' = [count EXCEPT !.heard = @ + 1]
  PROVE  count' \in Counts /\ count'.heard = count.heard + 1 /\ count'.turns = count.turns
  <1>1. count.heard + 1 \in 0..MaxFrames
    BY Bounds, CountFields
  <1>2. count' \in Counts
    BY <1>1, CountFields
  <1> QED BY <1>2 DEF Counts

\* One more fault of a provider.
LEMMA OneFault ==
  ASSUME count \in Counts, Fault
  PROVE  count' \in Counts /\ count'.heard = count.heard /\ count'.turns = count.turns
  <1>1. count.faults + 1 \in 0..MaxFaults
    BY Bounds, CountFields DEF Fault
  <1>2. count' \in Counts
    BY <1>1, CountFields DEF Fault
  <1> QED BY <1>2 DEF Counts, Fault

\* The transcripts that were recorded stay what they are.
LEMMA StillHonest ==
  ASSUME CompleteHonest, UNCHANGED said
  PROVE  CompleteHonest'
  BY DEF CompleteHonest

\* A frame that is refused: the transcript is not complete any more.
LEMMA RefusedStep ==
  ASSUME EarInv, NEW vad \in BOOLEAN, NEW e, e = [ear EXCEPT !.vad = vad],
         count.heard < MaxFrames, count' = [count EXCEPT !.heard = @ + 1],
         ear' = [e EXCEPT !.complete = FALSE, !.gap = TRUE, !.chunks = 0],
         events' = Append(events, Problem) \/ events' = events,
         UNCHANGED <<kind, asked, said, recorder, down>>
  PROVE  EarInv'
  <1>1. EarTypes /\ InvBounds /\ ear \in EarRecords /\ count \in Counts
    BY DEF EarInv, EarTypes
  <1>2. count' \in Counts /\ count'.heard = count.heard + 1 /\ count'.turns = count.turns
    BY <1>1, OneHeard
  <1>3. PICK a : a = [e EXCEPT !.complete = FALSE]
    OBVIOUS
  <1>4. PICK b : b = [a EXCEPT !.gap = TRUE]
    OBVIOUS
  <1>5. PICK c : c = [b EXCEPT !.chunks = 0]
    OBVIOUS
  <1>6. e \in EarRecords /\ a \in EarRecords /\ b \in EarRecords /\ c \in EarRecords
    <2>1. e \in EarRecords
      BY <1>1, EarFields
    <2>2. a \in EarRecords
      BY <1>3, <2>1, EarFields
    <2>3. b \in EarRecords
      BY <1>4, <2>2, EarFields
    <2>4. 0 \in 0..MaxTurnFrames + MaxFrames
      BY Bounds
    <2>5. c \in EarRecords
      BY <1>5, <2>3, <2>4, EarFields
    <2> QED BY <2>1, <2>2, <2>3, <2>5
  <1>7. ear' = c
    BY <1>3, <1>4, <1>5, <1>6 DEF EarRecords
  <1>8. e.phase = ear.phase /\ e.lost = ear.lost
    BY <1>1, <1>6 DEF EarRecords
  <1>9. a.phase = ear.phase /\ a.lost = ear.lost /\ a.complete = FALSE
    BY <1>3, <1>6, <1>8 DEF EarRecords
  <1>10. b.phase = ear.phase /\ b.lost = ear.lost /\ b.complete = FALSE
    BY <1>4, <1>6, <1>9 DEF EarRecords
  <1>11. c.phase = ear.phase /\ c.lost = ear.lost /\ c.complete = FALSE /\ c.chunks = 0
    BY <1>5, <1>6, <1>10 DEF EarRecords
  <1>12. events \in Seq(Events) /\ Problem \in Events
    BY <1>1, EventTurns DEF EarTypes
  <1>13. events' \in Seq(Events)
    BY <1>12, AppendLonger
  <1>14. EarTypes'
    BY <1>1, <1>2, <1>6, <1>7, <1>11, <1>13 DEF EarTypes
  <1>15. InvOrder'
    <2>1. Ordered(asked, events, said, count.turns) /\ count.turns \in Nat
      BY <1>1, CountFields DEF EarInv, InvOrder
    <2>2. Ordered(asked, events', said, count.turns)
      BY <1>12, <2>1, AppendLonger, EventTurns, OrderedProblem
    <2> QED BY <1>2, <2>2 DEF InvOrder
  <1>16. InvCounted'
    BY <1>7, <1>11 DEF InvCounted
  <1>17. InvBounds'
    BY <1>1, <1>2, <1>7, <1>11, CountFields DEF InvBounds
  <1> QED BY <1>14, <1>15, <1>16, <1>17, StillHonest DEF EarInv

\* A frame that the adapter drops or takes: only the gap and the frames of the turn change.
LEMMA TakenStep ==
  ASSUME EarInv, NEW vad \in BOOLEAN, NEW e, e = [ear EXCEPT !.vad = vad],
         count.heard < MaxFrames, count' = [count EXCEPT !.heard = @ + 1],
         \/ ear.lost /\ ear' = [e EXCEPT !.gap = TRUE]
         \/ ear' = [e EXCEPT !.chunks = @ + 1],
         UNCHANGED <<kind, asked, events, said, recorder, down>>
  PROVE  EarInv'
  <1>1. EarTypes /\ InvBounds /\ ear \in EarRecords /\ count \in Counts
    BY DEF EarInv, EarTypes
  <1>2. count' \in Counts /\ count'.heard = count.heard + 1 /\ count'.turns = count.turns
    BY <1>1, OneHeard
  <1>3. e \in EarRecords
    BY <1>1, EarFields
  <1>4. /\ e.phase = ear.phase /\ e.lost = ear.lost /\ e.complete = ear.complete /\ e.gap = ear.gap
        /\ e.chunks = ear.chunks
    BY <1>1, <1>3 DEF EarRecords
  <1>5. count.heard \in 0..MaxFrames /\ ear.chunks <= count.heard /\ ear.chunks \in Nat
    BY <1>1, CountFields DEF InvBounds, EarRecords
  <1>6. /\ ear' \in EarRecords /\ ear'.phase = ear.phase /\ ear'.lost = ear.lost
        /\ ear'.complete = ear.complete /\ (ear'.gap = ear.gap \/ ear.lost)
        /\ ear'.chunks \in {ear.chunks, ear.chunks + 1}
    <2>1. CASE ear.lost /\ ear' = [e EXCEPT !.gap = TRUE]
      <3>1. ear' \in EarRecords
        BY <1>3, <2>1, EarFields
      <3> QED BY <1>3, <1>4, <2>1, <3>1 DEF EarRecords
    <2>2. CASE ear' = [e EXCEPT !.chunks = @ + 1]
      <3>1. ear.chunks + 1 \in 0..MaxTurnFrames + MaxFrames
        BY Bounds, <1>5
      <3>2. ear' = [e EXCEPT !.chunks = ear.chunks + 1]
        BY <1>4, <2>2
      <3>3. ear' \in EarRecords
        BY <1>3, <3>1, <3>2, EarFields
      <3> QED BY <1>3, <1>4, <3>2, <3>3 DEF EarRecords
    <2> QED BY <2>1, <2>2
  <1>7. EarTypes'
    BY <1>1, <1>2, <1>6 DEF EarTypes
  <1>8. InvOrder'
    BY <1>2 DEF EarInv, InvOrder
  <1>9. InvCounted'
    BY <1>2, <1>6 DEF EarInv, InvCounted, Counted
  <1>10. InvBounds'
    BY <1>1, <1>2, <1>5, <1>6, CountFields DEF InvBounds
  <1> QED BY <1>7, <1>8, <1>9, <1>10, StillHonest DEF EarInv

\* The end of a turn is heard: the turn is asked for.
LEMMA CommitStep ==
  ASSUME EarInv, NEW vad \in BOOLEAN, NEW e, e = [ear EXCEPT !.vad = vad],
         count.heard < MaxFrames, Commit(e), ear.phase = "open", ~ear.lost,
         UNCHANGED <<kind, events, said, recorder, down>>
  PROVE  EarInv'
  <1>1. EarTypes /\ InvBounds /\ ear \in EarRecords /\ count \in Counts
    BY DEF EarInv, EarTypes
  <1>2. e \in EarRecords
    BY <1>1, EarFields
  <1>3. /\ e.phase = ear.phase /\ e.lost = ear.lost /\ e.complete = ear.complete /\ e.gap = ear.gap
    BY <1>1, <1>2 DEF EarRecords
  <1>4. ear' \in EarRecords
    <2>1. 0 \in 0..MaxTurnFrames + MaxFrames
      BY Bounds
    <2> QED BY <1>2, <2>1, EarFields DEF Commit
  <1>5. /\ ear'.phase = "open" /\ ear'.lost = FALSE /\ ear'.complete = ear.complete
        /\ ear'.gap = ear.gap /\ ear'.chunks = 0
    <2>1. ear.lost = FALSE
      BY <1>1 DEF EarRecords
    <2> QED BY <1>2, <1>3, <1>4, <2>1 DEF Commit, EarRecords
  <1>6. /\ count.turns \in Nat /\ count.turns + 1 \in Turns /\ count.turns + 1 <= count.heard + 1
        /\ count.heard + 1 \in 0..MaxFrames /\ count.turns + 1 \in 0..MaxFrames
    BY <1>1, Bounds, CountFields DEF InvBounds, Turns
  <1>7. count' \in Counts /\ count'.heard = count.heard + 1 /\ count'.turns = count.turns + 1
    <2>1. PICK a : a = [count EXCEPT !.heard = count.heard + 1]
      OBVIOUS
    <2>2. PICK b : b = [a EXCEPT !.turns = count.turns + 1]
      OBVIOUS
    <2>3. a \in Counts /\ a.heard = count.heard + 1 /\ a.turns = count.turns
      <3>1. a \in Counts
        BY <1>1, <1>6, <2>1, CountFields
      <3> QED BY <1>1, <2>1, <3>1 DEF Counts
    <2>4. b \in Counts
      BY <1>6, <2>2, <2>3 DEF Counts
    <2>5. b.heard = count.heard + 1 /\ b.turns = count.turns + 1
      BY <2>2, <2>3, <2>4 DEF Counts
    <2>6. count' = b
      BY <1>1, <2>1, <2>2, <2>3 DEF Commit, Counts
    <2> QED BY <2>4, <2>5, <2>6
  <1>8. PICK x : x = [turn |-> count.turns + 1, gap |-> ear.gap]
    OBVIOUS
  <1>9. x.turn = count.turns + 1 /\ x.gap = ear.gap /\ x \in Events
    <2>1. ear.gap \in BOOLEAN
      BY <1>1 DEF EarRecords
    <2> QED BY <1>6, <1>8, <2>1, EventTurns
  <1>10. asked' = Append(asked, x)
    BY <1>3, <1>8 DEF Commit
  <1>11. asked' \in Seq(Events) /\ Longer(asked', asked, x)
    <2>1. asked \in Seq(Events)
      BY <1>1 DEF EarTypes
    <2> QED BY <1>9, <1>10, <2>1, AppendLonger
  <1>12. EarTypes'
    BY <1>1, <1>4, <1>5, <1>7, <1>11 DEF EarTypes
  <1>13. InvOrder'
    <2>1. Ordered(asked, events, said, count.turns)
      BY DEF EarInv, InvOrder
    <2>2. Ordered(asked', events, said, count.turns + 1)
      BY <1>6, <1>9, <1>11, <2>1, OrderedAsk
    <2> QED BY <1>7, <2>2 DEF InvOrder
  <1>14. InvCounted'
    <2>1. ASSUME recorder, ear.complete
          PROVE  Counted(asked', events, Len(said), count.turns + 1, FALSE, ear.gap)
      <3>1. Counted(asked, events, Len(said), count.turns, ear.lost, ear.gap)
        BY <2>1 DEF EarInv, InvCounted
      <3>2. Counted(asked, events, Len(said), count.turns, FALSE, ear.gap)
        BY <3>1 DEF Counted
      <3>3. Len(said) \in Nat /\ Len(events) \in Nat
        <4>1. said \in Seq(Transcripts) /\ events \in Seq(Events)
          BY <1>1 DEF EarTypes
        <4> QED BY <4>1, LenProperties
      <3> QED BY <1>9, <1>11, <3>2, <3>3, CountedAsk
    <2> QED BY <1>5, <1>7, <2>1 DEF InvCounted
  <1>15. InvBounds'
    BY <1>5, <1>6, <1>7, Bounds DEF InvBounds
  <1> QED BY <1>12, <1>13, <1>14, <1>15, StillHonest DEF EarInv

\* A frame is heard.
LEMMA HearStep ==
  ASSUME EarInv, NEW verdict \in Verdicts(ear.vad), HearFrame(verdict)
  PROVE  EarInv'
  <1>1. PICK vad : vad = IF verdict = "none" THEN ear.vad ELSE verdict = "speech_started"
    OBVIOUS
  <1>2. PICK e : e = [ear EXCEPT !.vad = vad]
    OBVIOUS
  <1>3. ear \in EarRecords /\ kind \in Pinned
    BY DEF EarInv, EarTypes
  <1>4. vad \in BOOLEAN
    <2>1. ear.vad \in BOOLEAN
      BY <1>3 DEF EarRecords
    <2>2. (verdict = "speech_started") \in BOOLEAN
      OBVIOUS
    <2> QED BY <1>1, <2>1, <2>2
  <1>5. e = [ear EXCEPT !.vad = IF verdict = "none" THEN @ ELSE verdict = "speech_started"]
    BY <1>1, <1>2
  <1>6. ear.phase = "open" /\ count.heard < MaxFrames /\ UNCHANGED <<kind, said, recorder, down>>
    BY DEF HearFrame
  <1>7. \/ /\ ear' = [e EXCEPT !.complete = FALSE, !.gap = TRUE, !.chunks = 0]
           /\ events' = Append(events, Problem) \/ events' = events
           /\ count' = [count EXCEPT !.heard = @ + 1]
           /\ UNCHANGED asked
        \/ /\ (ear.lost /\ ear' = [e EXCEPT !.gap = TRUE]) \/ ear' = [e EXCEPT !.chunks = @ + 1]
           /\ count' = [count EXCEPT !.heard = @ + 1]
           /\ UNCHANGED <<asked, events>>
        \/ /\ ~Refuses(ear) /\ ~(kind.stt = "openai" /\ OpenAiDrops(ear))
           /\ Commit(e)
           /\ UNCHANGED events
    BY <1>5 DEF HearFrame, OpenAiDrops
  <1>8. ~Refuses(ear) /\ ~(kind.stt = "openai" /\ OpenAiDrops(ear)) => ~ear.lost
    BY <1>3, RealtimeSessionAssumption
    DEF EarInv, InvBounds, Refuses, ElevenLabsRefuses, OpenAiDrops, Pinned
  <1>9. CASE /\ ear' = [e EXCEPT !.complete = FALSE, !.gap = TRUE, !.chunks = 0]
             /\ events' = Append(events, Problem) \/ events' = events
             /\ count' = [count EXCEPT !.heard = @ + 1]
             /\ UNCHANGED asked
    BY <1>2, <1>4, <1>6, <1>9, RefusedStep
  <1>10. CASE /\ (ear.lost /\ ear' = [e EXCEPT !.gap = TRUE]) \/ ear' = [e EXCEPT !.chunks = @ + 1]
              /\ count' = [count EXCEPT !.heard = @ + 1]
              /\ UNCHANGED <<asked, events>>
    BY <1>2, <1>4, <1>6, <1>10, TakenStep
  <1>11. CASE /\ ~ear.lost
              /\ Commit(e)
              /\ UNCHANGED events
    BY <1>2, <1>4, <1>6, <1>11, CommitStep
  <1> QED BY <1>7, <1>8, <1>9, <1>10, <1>11

\* The provider answers a turn.
LEMMA AnswerStep ==
  ASSUME EarInv, NEW i \in 1..Len(asked), Answer(i)
  PROVE  EarInv'
  <1>1. /\ asked' = RemoveAt(asked, 1) /\ asked # <<>>
        /\ \/ events' = Append(events, asked[1]) /\ UNCHANGED <<ear, count>>
           \/ events' = Append(events, Problem) /\ ear' = [ear EXCEPT !.gap = TRUE] /\ Fault
        /\ UNCHANGED <<kind, said, recorder, down>>
    <2>1. i = 1 /\ i \in 1..Len(asked)
      BY DEF Answer, Answerable
    <2>2. asked # <<>>
      BY <2>1
    <2> QED BY <2>1, <2>2 DEF Answer
  <1>2. EarTypes /\ InvBounds /\ ear \in EarRecords /\ count \in Counts
        /\ asked \in Seq(Events) /\ events \in Seq(Events) /\ said \in Seq(Transcripts)
    BY DEF EarInv, EarTypes
  <1>3. Ordered(asked, events, said, count.turns) /\ count.turns \in Nat /\ Len(said) \in Nat
    BY <1>2, CountFields, LenProperties DEF EarInv, InvOrder
  <1>4. asked' \in Seq(Events) /\ Shorter(asked', asked) /\ asked[1] \in Events
    BY <1>1, <1>2, TailShorter
  <1>5. ear.phase = "open"
    BY <1>1, <1>2 DEF EarTypes
  <1>6. CASE events' = Append(events, asked[1]) /\ UNCHANGED <<ear, count>>
    <2>1. events' \in Seq(Events) /\ Longer(events', events, asked[1])
      BY <1>2, <1>4, <1>6, AppendLonger
    <2>2. EarTypes'
      BY <1>1, <1>2, <1>4, <1>5, <1>6, <2>1 DEF EarTypes
    <2>3. Ordered(asked', events', said, count.turns)
      BY <1>3, <1>4, <2>1, OrderedAnswer
    <2>4. InvOrder'
      BY <1>1, <1>6, <2>3 DEF InvOrder
    <2>5. ASSUME recorder, ear.complete
          PROVE  Counted(asked', events', Len(said), count.turns, ear.lost, ear.gap)
      <3>1. Counted(asked, events, Len(said), count.turns, ear.lost, ear.gap)
        BY <2>5 DEF EarInv, InvCounted
      <3> QED BY <1>3, <1>4, <2>1, <3>1, CountedAnswer
    <2>6. InvCounted'
      BY <1>1, <1>6, <2>5 DEF InvCounted
    <2>7. InvBounds'
      BY <1>1, <1>2, <1>6 DEF InvBounds
    <2> QED BY <1>1, <2>2, <2>4, <2>6, <2>7, StillHonest DEF EarInv
  <1>7. CASE events' = Append(events, Problem) /\ ear' = [ear EXCEPT !.gap = TRUE] /\ Fault
    <2>1. events' \in Seq(Events) /\ Longer(events', events, Problem)
      BY <1>2, <1>7, AppendLonger, EventTurns
    <2>2. ear' \in EarRecords
      BY <1>2, <1>7, EarFields
    <2>3. /\ ear'.phase = ear.phase /\ ear'.lost = ear.lost /\ ear'.complete = ear.complete
          /\ ear'.chunks = ear.chunks
      BY <1>2, <1>7, <2>2 DEF EarRecords
    <2>4. count' \in Counts /\ count'.heard = count.heard /\ count'.turns = count.turns
      BY <1>2, <1>7, OneFault
    <2>5. EarTypes'
      BY <1>1, <1>2, <1>4, <1>5, <2>1, <2>2, <2>3, <2>4 DEF EarTypes
    <2>6. Ordered(asked', events, said, count.turns)
      BY <1>3, <1>4, OrderedForget
    <2>7. Ordered(asked', events', said, count.turns)
      BY <1>3, <2>1, <2>6, EventTurns, OrderedProblem
    <2>8. InvOrder'
      BY <1>1, <2>4, <2>7 DEF InvOrder
    <2>9. ASSUME recorder, ear.complete
          PROVE  \A b, m, l, g : Counted(b, events', Len(said), m, l, g)
      <3>1. Counted(asked, events, Len(said), count.turns, ear.lost, ear.gap)
        BY <2>9 DEF EarInv, InvCounted
      <3> QED BY <2>1, <3>1, CountedProblem, EventTurns
    <2>10. InvCounted'
      BY <1>1, <2>3, <2>9 DEF InvCounted
    <2>11. InvBounds'
      BY <1>1, <1>2, <2>3, <2>4 DEF InvBounds
    <2> QED BY <1>1, <2>5, <2>8, <2>10, <2>11, StillHonest DEF EarInv
  <1> QED BY <1>1, <1>6, <1>7

\* The connection of the transcription is lost.
LEMMA LostStep ==
  ASSUME EarInv, NEW failed \in BOOLEAN, ConnectionLost(failed)
  PROVE  EarInv'
  <1>1. /\ kind.stt # "groq" /\ ear.phase = "open" /\ Fault /\ asked' = <<>>
        /\ ear' = [ear EXCEPT !.lost = TRUE, !.ended = TRUE,
                              !.gap = @ \/ asked # <<>> \/ ear.chunks > 0]
        /\ events' = Append(events, Problem) \/ events' = events
        /\ UNCHANGED <<kind, said, recorder, down>>
    BY DEF ConnectionLost
  <1>2. EarTypes /\ InvBounds /\ ear \in EarRecords /\ count \in Counts
        /\ asked \in Seq(Events) /\ events \in Seq(Events) /\ said \in Seq(Transcripts)
    BY DEF EarInv, EarTypes
  <1>3. PICK gap : gap = (ear.gap \/ asked # <<>> \/ ear.chunks > 0)
    OBVIOUS
  <1>4. gap \in BOOLEAN
    <2>1. ear.gap \in BOOLEAN
      BY <1>2 DEF EarRecords
    <2> QED BY <1>3, <2>1
  <1>5. PICK a : a = [ear EXCEPT !.lost = TRUE]
    OBVIOUS
  <1>6. PICK b : b = [a EXCEPT !.ended = TRUE]
    OBVIOUS
  <1>7. PICK c : c = [b EXCEPT !.gap = gap]
    OBVIOUS
  <1>8. a \in EarRecords
    BY <1>2, <1>5, EarFields
  <1>9. b \in EarRecords
    BY <1>6, <1>8, EarFields
  <1>10. c \in EarRecords
    BY <1>4, <1>7, <1>9, EarFields
  <1>11. /\ a.lost = TRUE /\ a.phase = "open" /\ a.complete = ear.complete /\ a.chunks = ear.chunks
         /\ a.gap = ear.gap
    BY <1>1, <1>2, <1>5, <1>8 DEF EarRecords
  <1>12. /\ b.lost = TRUE /\ b.phase = "open" /\ b.complete = ear.complete /\ b.chunks = ear.chunks
         /\ b.gap = ear.gap
    BY <1>6, <1>9, <1>11 DEF EarRecords
  <1>13. /\ c.lost = TRUE /\ c.phase = "open" /\ c.complete = ear.complete /\ c.chunks = ear.chunks
    BY <1>7, <1>10, <1>12 DEF EarRecords
  <1>14. ear' = c
    <2>1. c = [ear EXCEPT !.lost = TRUE, !.ended = TRUE, !.gap = gap]
      BY <1>5, <1>6, <1>7
    <2>2. [ear EXCEPT !.lost = TRUE, !.ended = TRUE, !.gap = gap]
            = [ear EXCEPT !.lost = TRUE, !.ended = TRUE,
                          !.gap = @ \/ asked # <<>> \/ ear.chunks > 0]
      BY <1>3, Zenon
    <2> QED BY <1>1, <2>1, <2>2
  <1>15. count' \in Counts /\ count'.heard = count.heard /\ count'.turns = count.turns
    BY <1>1, <1>2, OneFault
  <1>16. events' \in Seq(Events) /\ (events' = events \/ Longer(events', events, Problem))
    BY <1>1, <1>2, AppendLonger, EventTurns
  <1>17. EarTypes'
    <2>1. asked' \in Seq(Events)
      BY <1>1
    <2> QED BY <1>1, <1>2, <1>10, <1>13, <1>14, <1>15, <1>16, <2>1 DEF EarTypes
  <1>18. Ordered(asked, events, said, count.turns) /\ count.turns \in Nat
    BY <1>2, CountFields DEF EarInv, InvOrder
  <1>19. Ordered(<<>>, events', said, count.turns)
    <2>1. Ordered(<<>>, events, said, count.turns)
      BY <1>18, OrderedNone
    <2> QED BY <1>16, <1>18, <2>1, EventTurns, OrderedProblem
  <1>20. InvOrder'
    BY <1>1, <1>15, <1>19 DEF InvOrder
  <1>21. ASSUME recorder, ear.complete, NEW g
         PROVE  Counted(<<>>, events', Len(said), count.turns, TRUE, g)
    <2>1. Counted(asked, events, Len(said), count.turns, ear.lost, ear.gap)
      BY <1>21 DEF EarInv, InvCounted
    <2>2. CASE events' = events
      BY <2>1, <2>2, CountedLost
    <2>3. CASE Longer(events', events, Problem)
      <3>1. \A d, m, l, h : Counted(d, events', Len(said), m, l, h)
        BY <2>1, <2>3, CountedProblem, EventTurns
      <3> QED BY <3>1
    <2> QED BY <1>16, <2>2, <2>3
  <1>22. InvCounted'
    BY <1>1, <1>13, <1>14, <1>15, <1>21, ZenonT(60) DEF InvCounted
  <1>23. InvBounds'
    BY <1>1, <1>2, <1>13, <1>14, <1>15 DEF InvBounds
  <1> QED BY <1>1, <1>17, <1>20, <1>22, <1>23, StillHonest DEF EarInv

\* An event is handled.
LEMMA HandleStep ==
  ASSUME EarInv, HandleEvent
  PROVE  EarInv'
  <1>1. EarTypes /\ InvBounds /\ ear \in EarRecords /\ count \in Counts
        /\ asked \in Seq(Events) /\ events \in Seq(Events) /\ said \in Seq(Transcripts)
        /\ CompleteHonest
    BY DEF EarInv, EarTypes
  <1>2. events # <<>> /\ UNCHANGED <<kind, asked, recorder, count>>
    BY DEF HandleEvent
  <1>3. PICK event : event = Head(events)
    OBVIOUS
  <1>4. /\ Tail(events) \in Seq(Events) /\ Shorter(Tail(events), events)
        /\ event = events[1] /\ event \in Events
    BY <1>1, <1>2, <1>3, TailShorter
  <1>5. Ordered(asked, events, said, count.turns) /\ count.turns \in Nat
    BY <1>1, CountFields DEF EarInv, InvOrder
  <1>6. \/ ear' = Noted(ear) /\ events' = Tail(events) /\ UNCHANGED <<said, down>>
        \/ /\ event # Problem /\ recorder
           /\ said' = Append(said, [turn |-> event.turn, gap |-> event.gap,
                                    complete |-> ear.complete])
           /\ events' = Tail(events) /\ UNCHANGED <<ear, down>>
        \/ /\ ~recorder /\ events' = <<>> /\ down' = (ear.phase = "open")
           /\ UNCHANGED <<ear, said>>
    BY <1>3 DEF HandleEvent
  <1>7. CASE ear' = Noted(ear) /\ events' = Tail(events) /\ UNCHANGED <<said, down>>
    <2>1. PICK a : a = [ear EXCEPT !.error = TRUE]
      OBVIOUS
    <2>2. PICK b : b = [a EXCEPT !.complete = FALSE]
      OBVIOUS
    <2>3. a \in EarRecords
      BY <1>1, <2>1, EarFields
    <2>4. b \in EarRecords
      BY <2>2, <2>3, EarFields
    <2>5. a.phase = ear.phase /\ a.lost = ear.lost /\ a.chunks = ear.chunks
      BY <1>1, <2>1, <2>3 DEF EarRecords
    <2>6. /\ b.phase = ear.phase /\ b.lost = ear.lost /\ b.chunks = ear.chunks
          /\ b.complete = FALSE
      BY <2>2, <2>3, <2>4, <2>5 DEF EarRecords
    <2>7. ear' = b
      BY <1>7, <2>1, <2>2 DEF Noted
    <2>8. EarTypes'
      BY <1>1, <1>2, <1>4, <1>7, <2>4, <2>6, <2>7 DEF EarTypes
    <2>9. Ordered(asked, Tail(events), said, count.turns)
      BY <1>4, <1>5, OrderedHandle
    <2>10. InvOrder'
      BY <1>2, <1>7, <2>9 DEF InvOrder
    <2>11. InvCounted'
      BY <2>6, <2>7 DEF InvCounted
    <2>12. InvBounds'
      BY <1>1, <1>2, <2>6, <2>7 DEF InvBounds
    <2> QED BY <1>1, <1>7, <2>8, <2>10, <2>11, <2>12, StillHonest DEF EarInv
  <1>8. CASE /\ event # Problem /\ recorder
             /\ said' = Append(said, [turn |-> event.turn, gap |-> event.gap,
                                      complete |-> ear.complete])
             /\ events' = Tail(events) /\ UNCHANGED <<ear, down>>
    <2>1. PICK x : x = [turn |-> event.turn, gap |-> event.gap, complete |-> ear.complete]
      OBVIOUS
    <2>2. event.turn # 0 /\ event.turn \in Turns /\ event.gap \in BOOLEAN /\ ear.complete \in BOOLEAN
      BY <1>1, <1>4, <1>8, EventTurns DEF EarRecords
    <2>3. /\ x \in Transcripts /\ x.turn = event.turn /\ x.gap = event.gap
          /\ x.complete = ear.complete
      BY <2>1, <2>2 DEF Transcripts
    <2>4. said' \in Seq(Transcripts) /\ Longer(said', said, x)
      BY <1>1, <1>8, <2>1, <2>3, AppendLonger
    <2>5. EarTypes'
      BY <1>1, <1>2, <1>4, <1>8, <2>4 DEF EarTypes
    <2>6. Ordered(asked, Tail(events), said', count.turns)
      BY <1>4, <1>5, <2>2, <2>3, <2>4, OrderedHandle
    <2>7. InvOrder'
      BY <1>2, <1>8, <2>6 DEF InvOrder
    <2>8. Len(said) \in Nat /\ Len(said') = Len(said) + 1
      BY <2>4 DEF Longer
    <2>9. ASSUME ear.complete
          PROVE  /\ event.turn = Len(said) + 1 /\ ~event.gap
                 /\ Counted(asked, Tail(events), Len(said) + 1, count.turns, ear.lost, ear.gap)
      <3>1. Counted(asked, events, Len(said), count.turns, ear.lost, ear.gap)
        BY <1>8, <2>9 DEF EarInv, InvCounted
      <3> QED BY <1>4, <2>2, <2>8, <3>1, CountedHandle
    <2>10. InvCounted'
      BY <1>2, <1>8, <2>8, <2>9 DEF InvCounted
    <2>11. CompleteHonest'
      <3>1. ASSUME NEW i \in 1..Len(said'), said'[i].complete
            PROVE  said'[i].turn = i /\ ~said'[i].gap
        <4>1. CASE i \in 1..Len(said)
          BY <1>1, <2>4, <3>1, <4>1 DEF CompleteHonest, Longer
        <4>2. CASE i = Len(said')
          BY <2>3, <2>4, <2>8, <2>9, <3>1, <4>2 DEF Longer
        <4> QED BY <2>8, <4>1, <4>2
      <3> QED BY <3>1 DEF CompleteHonest
    <2>12. InvBounds'
      BY <1>1, <1>2, <1>8 DEF InvBounds
    <2> QED BY <2>5, <2>7, <2>10, <2>11, <2>12 DEF EarInv
  <1>9. CASE /\ ~recorder /\ events' = <<>> /\ down' = (ear.phase = "open")
             /\ UNCHANGED <<ear, said>>
    <2>1. <<>> \in Seq(Events) /\ (ear.phase = "open") \in BOOLEAN
      OBVIOUS
    <2>2. EarTypes'
      BY <1>1, <1>2, <1>9, <2>1 DEF EarTypes
    <2>3. Ordered(asked, <<>>, said, count.turns)
      BY <1>5, OrderedNone
    <2>4. InvOrder'
      BY <1>2, <1>9, <2>3 DEF InvOrder
    <2>5. InvCounted'
      BY <1>2, <1>9 DEF InvCounted
    <2>6. InvBounds'
      BY <1>1, <1>2, <1>9 DEF InvBounds
    <2> QED BY <1>1, <1>9, <2>2, <2>4, <2>5, <2>6, StillHonest DEF EarInv
  <1> QED BY <1>6, <1>7, <1>8, <1>9

\* The session is closed, and has closed.
LEMMA CloseStep ==
  ASSUME EarInv, Close \/ Closed
  PROVE  EarInv'
  <1>1. EarTypes /\ InvBounds /\ ear \in EarRecords /\ count \in Counts
        /\ asked \in Seq(Events) /\ events \in Seq(Events)
    BY DEF EarInv, EarTypes
  <1>2. Ordered(asked, events, said, count.turns) /\ count.turns \in Nat
    BY <1>1, CountFields DEF EarInv, InvOrder
  <1>3. CASE Close
    <2>1. /\ ~recorder /\ ear' = [ear EXCEPT !.phase = "closing", !.ended = TRUE] /\ asked' = <<>>
          /\ UNCHANGED <<kind, events, said, recorder, down, count>>
      BY <1>3 DEF Close
    <2>2. PICK a : a = [ear EXCEPT !.phase = "closing"]
      OBVIOUS
    <2>3. PICK b : b = [a EXCEPT !.ended = TRUE]
      OBVIOUS
    <2>4. a \in EarRecords
      BY <1>1, <2>2, EarFields
    <2>5. b \in EarRecords
      BY <2>3, <2>4, EarFields
    <2>6. a.lost = ear.lost /\ a.chunks = ear.chunks
      BY <1>1, <2>2, <2>4 DEF EarRecords
    <2>7. b.lost = ear.lost /\ b.chunks = ear.chunks
      BY <2>3, <2>4, <2>5, <2>6 DEF EarRecords
    <2>8. ear' = b
      BY <2>1, <2>2, <2>3
    <2>9. <<>> \in Seq(Events)
      OBVIOUS
    <2>10. EarTypes'
      BY <1>1, <2>1, <2>5, <2>8, <2>9 DEF EarTypes
    <2>11. InvOrder'
      <3>1. Ordered(<<>>, events, said, count.turns)
        BY <1>2, OrderedNone
      <3> QED BY <2>1, <3>1 DEF InvOrder
    <2>12. InvCounted'
      BY <2>1 DEF InvCounted
    <2>13. InvBounds'
      BY <1>1, <2>1, <2>7, <2>8 DEF InvBounds
    <2> QED BY <2>1, <2>10, <2>11, <2>12, <2>13, StillHonest DEF EarInv
  <1>4. CASE Closed
    <2>1. /\ ear' = [ear EXCEPT !.phase = "closed"] /\ ear.phase = "closing"
          /\ UNCHANGED <<kind, asked, events, said, recorder, down, count>>
      BY <1>4 DEF Closed
    <2>2. ear' \in EarRecords
      BY <1>1, <2>1, EarFields
    <2>3. /\ ear'.lost = ear.lost /\ ear'.chunks = ear.chunks /\ ear'.complete = ear.complete
          /\ ear'.gap = ear.gap
      BY <1>1, <2>1, <2>2 DEF EarRecords
    <2>4. EarTypes'
      BY <1>1, <2>1, <2>2 DEF EarTypes
    <2>5. InvOrder'
      BY <1>2, <2>1 DEF InvOrder
    <2>6. InvCounted'
      BY <2>1, <2>3 DEF EarInv, InvCounted
    <2>7. InvBounds'
      BY <1>1, <2>1, <2>3 DEF InvBounds
    <2> QED BY <2>1, <2>4, <2>5, <2>6, <2>7, StillHonest DEF EarInv
  <1> QED BY <1>3, <1>4

\* The recorder is given up, or the mouth alone moves.
LEMMA OtherStep ==
  ASSUME EarInv, UNCHANGED <<kind, down>>, UNCHANGED earVars,
         recorder' \in BOOLEAN, recorder' => recorder,
         count' \in Counts, count'.heard = count.heard, count'.turns = count.turns
  PROVE  EarInv'
  <1>1. UNCHANGED <<ear, asked, events, said>>
    BY DEF earVars
  <1>2. EarTypes'
    BY <1>1 DEF EarInv, EarTypes
  <1>3. InvOrder'
    BY <1>1 DEF EarInv, InvOrder
  <1>4. InvCounted'
    BY <1>1 DEF EarInv, InvCounted
  <1>5. InvBounds'
    BY <1>1 DEF EarInv, InvBounds
  <1> QED BY <1>1, <1>2, <1>3, <1>4, <1>5, StillHonest DEF EarInv

\* Each step keeps what is known of the transcript.
LEMMA EarStep ==
  ASSUME EarInv, [Next]_vars
  PROVE  EarInv'
  <1>1. count \in Counts /\ recorder \in BOOLEAN
    BY DEF EarInv, EarTypes
  <1>2. CASE \E verdict \in Verdicts(ear.vad) : HearFrame(verdict)
    BY <1>2, HearStep
  <1>3. CASE \E i \in 1..Len(asked) : Answer(i)
    BY <1>3, AnswerStep
  <1>4. CASE \E failed \in BOOLEAN : ConnectionLost(failed)
    BY <1>4, LostStep
  <1>5. CASE HandleEvent
    BY <1>5, HandleStep
  <1>6. CASE Close \/ Closed
    BY <1>6, CloseStep
  <1>7. CASE CallEnds
    BY <1>1, <1>7, OtherStep DEF CallEnds
  <1>8. CASE \E inter \in BOOLEAN : Speak(inter)
    <2>1. /\ count' = [count EXCEPT !.speaks = @ + 1] /\ count.speaks < MaxSpeaks
          /\ UNCHANGED <<kind, recorder, down>> /\ UNCHANGED earVars
      BY <1>8 DEF Speak
    <2>2. count.speaks + 1 \in 0..MaxSpeaks
      BY <1>1, <2>1, Bounds, CountFields
    <2>3. count' \in Counts
      BY <1>1, <2>1, <2>2, CountFields
    <2>4. count'.heard = count.heard /\ count'.turns = count.turns
      BY <1>1, <2>1 DEF Counts
    <2> QED BY <1>1, <2>1, <2>3, <2>4, OtherStep
  <1>9. CASE ProviderFails
    <2>1. Fault /\ UNCHANGED <<kind, recorder, down>> /\ UNCHANGED earVars
      BY <1>9 DEF ProviderFails
    <2>2. count' \in Counts /\ count'.heard = count.heard /\ count'.turns = count.turns
      BY <1>1, <2>1, OneFault
    <2> QED BY <1>1, <2>1, <2>2, OtherStep
  <1>10. CASE ChunkArrives \/ StreamEnds \/ Settles \/ UNCHANGED vars
    <2>1. UNCHANGED <<kind, recorder, down, count>> /\ UNCHANGED earVars
      BY <1>10 DEF ChunkArrives, StreamEnds, Settles, Timeout, Paced, Sent, vars, earVars
    <2> QED BY <1>1, <2>1, OtherStep
  <1> QED BY <1>2, <1>3, <1>4, <1>5, <1>6, <1>7, <1>8, <1>9, <1>10 DEF Next

-----------------------------------------------------------------------------
(* The theorems *)

\* The inductive invariant consists of what is known of the transcript and of the reply.
LEMMA Parts == IInv <=> EarInv /\ MouthInv
  <1>1. TypeOK <=> EarTypes /\ MouthTypes
    BY DEF TypeOK, EarTypes, MouthTypes, EarRecords, MouthRecords, NetRecords, Transcripts,
           Counts, Samples
  <1>2. ASSUME EarInv PROVE TranscriptInOrder
    <2>1. Rising(said) /\ Proper(said)
      BY <1>2 DEF EarInv, InvOrder, Ordered
    <2> QED BY <2>1 DEF TranscriptInOrder, Rising, Proper
  <1> QED BY <1>1, <1>2 DEF IInv, SpeechInv, EarInv, MouthInv

\* The invariant holds at first.
LEMMA InitInv ==
  ASSUME Init
  PROVE  IInv
  <1>1. EarTypes
    <2>1. ear \in EarRecords
      <3>1. 0 \in 0..MaxTurnFrames + MaxFrames
        BY Bounds
      <3> QED BY <3>1 DEF Init, EarRecords
    <2>2. count \in Counts
      BY Bounds DEF Init, Counts
    <2>3. <<>> \in Seq(Events) /\ <<>> \in Seq(Transcripts)
      OBVIOUS
    <2> QED BY <2>1, <2>2, <2>3 DEF Init, EarTypes
  <1>2. ASSUME NEW i \in 1..Len(<<>>) PROVE FALSE
    OBVIOUS
  <1>3. Len(<<>>) = 0
    OBVIOUS
  <1>4. CompleteHonest /\ InvOrder
    BY <1>2 DEF Init, CompleteHonest, InvOrder, Ordered, Within, Proper, Rising, Before
  <1>5. InvCounted
    BY <1>2, <1>3 DEF Init, InvCounted, Counted
  <1>6. InvBounds
    BY DEF Init, InvBounds
  <1>7. MouthTypes
    <2>1. Silent \in MouthRecords /\ Unread \in NetRecords /\ Len(Silent.pending) = 0
      BY <1>3, AtRest
    <2>2. <<>> \in Seq(Samples)
      OBVIOUS
    <2> QED BY <2>1, <2>2, Bounds DEF Init, MouthTypes, Outcomes
  <1>8. SpokenTrue
    BY <1>2 DEF Init, SpokenTrue, HeardOnce, SpokenWhole
  <1>9. InvMouth
    BY AtRest DEF Init, InvMouth
  <1> QED BY <1>1, <1>4, <1>5, <1>6, <1>7, <1>8, <1>9, Parts DEF EarInv, MouthInv

\* The invariant of the session, in every state.
THEOREM Inductive == Spec => []IInv
  <1>1. Init => EarInv /\ MouthInv
    BY InitInv, Parts
  <1>2. EarInv /\ MouthInv /\ [Next]_vars => EarInv' /\ MouthInv'
    <2> SUFFICES ASSUME EarInv, MouthInv, [Next]_vars PROVE EarInv' /\ MouthInv'
      OBVIOUS
    <2>1. kind \in Pinned
      BY DEF EarInv, EarTypes
    <2> QED BY <2>1, EarStep, MouthStep
  <1>3. EarInv /\ MouthInv => IInv
    BY Parts
  <1> QED BY <1>1, <1>2, <1>3, PTL DEF Spec

\* The transcripts of a call are recorded in its order, and those that call themselves complete
\* are: whatever the providers fail to do (#handleSttEvent, pushRemotePcm).
THEOREM TranscriptTrue == Spec => []SpeechInv
  <1>1. IInv => SpeechInv
    BY DEF IInv
  <1> QED BY <1>1, Inductive, PTL

\* The phone is sent the audio of a reply, each byte once and in its place, and all of it when
\* speak() reports it spoken, wherever the network cuts the response (speak, sendFrame).
THEOREM AudioTrue == Spec => []SpokenTrue
  <1>1. IInv => SpokenTrue
    BY DEF IInv
  <1> QED BY <1>1, Inductive, PTL

\* No frame of a reply begins to be sent once the caller has cut it off (bargeIn, sendFrame).
THEOREM CutHeld == Spec => CutStaysCut
  <1>1. TypeOK /\ [Next]_vars => [mouth.cut => mouth'.at # "send" \/ mouth.at = "send"]_vars
    <2> SUFFICES ASSUME TypeOK, Next, mouth.cut PROVE mouth'.at # "send" \/ mouth.at = "send"
      BY DEF vars
    <2>1. mouth \in MouthRecords
      BY DEF TypeOK, MouthRecords, Samples
    <2>2. mouth' = mouth \/ mouth' = BargedIn(mouth) => mouth'.at = mouth.at
      BY <2>1 DEF BargedIn, MouthRecords
    <2>3. ASSUME NEW m, NEW n, m.cut, GoOn(m, n) \/ Throw(m) \/ Finish(m, "spoken")
          PROVE  mouth'.at # "send"
      BY <2>3, AtRest DEF GoOn, Throw, Finish
    <2>4. CASE ChunkArrives
      BY <2>1, <2>2, <2>3, <2>4, SMTT(30) DEF ChunkArrives, MouthRecords
    <2>5. CASE StreamEnds \/ ProviderFails \/ Timeout \/ Paced
      <3>1. [mouth EXCEPT !.ended = TRUE].cut
        BY <2>1 DEF MouthRecords
      <3>2. \/ Throw(mouth)
            \/ GoOn([mouth EXCEPT !.ended = TRUE], net)
            \/ Finish(mouth, "spoken")
        BY <2>5 DEF StreamEnds, ProviderFails, Timeout, Paced
      <3>3. CASE Throw(mouth) \/ Finish(mouth, "spoken")
        BY <2>3, <3>3
      <3>4. CASE GoOn([mouth EXCEPT !.ended = TRUE], net)
        BY <2>3, <3>1, <3>4
      <3> QED BY <3>2, <3>3, <3>4
    <2>6. CASE Sent
      BY <2>6 DEF Sent
    <2>7. CASE \E inter \in BOOLEAN : Speak(inter)
      BY <2>7, AtRest DEF Speak, MouthRecords
    <2>8. CASE \/ \E verdict \in Verdicts(ear.vad) : HearFrame(verdict)
               \/ \E i \in 1..Len(asked) : Answer(i)
               \/ \E failed \in BOOLEAN : ConnectionLost(failed)
               \/ HandleEvent \/ CallEnds \/ Close \/ Closed
      BY <2>2, <2>8 DEF HearFrame, Answer, ConnectionLost, HandleEvent, CallEnds, Close, Closed,
                        mouthVars
    <2> QED BY <2>4, <2>5, <2>6, <2>7, <2>8 DEF Next, Settles
  <1>2. IInv => TypeOK
    BY DEF IInv, SpeechInv
  <1> QED BY <1>1, <1>2, Inductive, PTL DEF Spec, CutStaysCut

================================================================================
