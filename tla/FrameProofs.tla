----------------------------- MODULE FrameProofs -----------------------------
(***************************************************************************)
(* A proof that a binary port dispatches every frame sent in step with its *)
(* parser, for every timeout, every set of requests and every length of    *)
(* the wire that meets the assumptions.                                    *)
(***************************************************************************)
EXTENDS LinkProofs

-----------------------------------------------------------------------------
(* Frames: the parser's state is what it has collected.                     *)

\* The payload length a frame announces in its third and fourth byte.
Announced(s, i) == s[i + 2].val + Base * s[i + 3].val

ParserExact(p) ==
  /\ p.state = "SOF" <=> Len(p.got) = 0
  /\ p.state = "CMD" <=> Len(p.got) = 1
  /\ p.state = "LEN_LO" <=> Len(p.got) = 2
  /\ p.state = "LEN_HI" <=> Len(p.got) = 3
  /\ p.state = "LEN_HI" => p.len = p.got[3].val
  /\ p.state \in {"PAYLOAD", "CRC_LO", "CRC_HI"} => p.len = Announced(p.got, 1)
  /\ p.state = "PAYLOAD" => Len(p.got) < HeaderLength + p.len
  /\ p.state = "CRC_LO" => Len(p.got) = HeaderLength + p.len
  /\ p.state = "CRC_HI" => Len(p.got) = HeaderLength + p.len + 1

LEMMA FreshExact == ParserExact(ParserFresh)
<1>1. ParserFresh.state = "SOF" /\ Len(ParserFresh.got) = 0
  BY FreshShaped
<1>2. QED
  BY <1>1 DEF ParserExact

LEMMA ResyncedExact ==
  ASSUME NEW p, ParserExact(p)
  PROVE  ParserExact(Resynced(p))
  BY FreshExact DEF Resynced

\* What one byte does to a parser that has collected g bytes.
LEMMA FedBy ==
  ASSUME NEW p, ParserShaped(p), ParserExact(p), NEW b \in WireBytes
  PROVE  LET q == Resynced(p)
             f == Fed(p, b)
         IN  /\ f.got = <<>> \/ f.got = Append(q.got, b)
             /\ f.age = 0
             /\ ParserExact(f)
             /\ f.got = <<>> =>
                  \/ q.state = "SOF" /\ b.val # Sof
                  \/ q.state = "LEN_HI" /\ q.len + Base * b.val > MaxPayload
                  \/ q.state = "CRC_HI"
<1> DEFINE q == Resynced(p)
           f == Fed(p, b)
           took == [q EXCEPT !.got = Append(@, b), !.age = 0]
           len == q.len + Base * b.val
           g == Len(q.got)
<1>1. ParserShaped(q) /\ ParserExact(q)
  BY ResyncedShaped, ResyncedExact
<1>2. /\ DOMAIN q = {"state", "len", "got", "age"} /\ q.got \in Seq(WireBytes)
      /\ q.state \in ParserStates /\ q.len \in Nat
  BY <1>1 DEF ParserShaped
<1>3. /\ ParserFresh.got = <<>> /\ ParserFresh.age = 0 /\ ParserExact(ParserFresh)
  BY FreshExact DEF ParserFresh
<1> HIDE DEF q
<1>4. /\ DOMAIN took = {"state", "len", "got", "age"}
      /\ took.state = q.state /\ took.len = q.len /\ took.age = 0 /\ took.got = Append(q.got, b)
  BY <1>2
<1>5. /\ g \in Nat /\ Len(Append(q.got, b)) = g + 1 /\ Append(q.got, b) # <<>>
      /\ \A i \in 1 .. g : Append(q.got, b)[i] = q.got[i]
      /\ Append(q.got, b)[g + 1] = b
  BY <1>2, AppendProperties, LenProperties
<1>6. /\ q.state = "SOF" <=> g = 0
      /\ q.state = "CMD" <=> g = 1
      /\ q.state = "LEN_LO" <=> g = 2
      /\ q.state = "LEN_HI" <=> g = 3
      /\ q.state = "LEN_HI" => q.len = q.got[3].val
      /\ q.state \in {"PAYLOAD", "CRC_LO", "CRC_HI"} => q.len = Announced(q.got, 1)
      /\ q.state = "PAYLOAD" => g < HeaderLength + q.len
      /\ q.state = "CRC_LO" => g = HeaderLength + q.len
      /\ q.state = "CRC_HI" => g = HeaderLength + q.len + 1
  BY <1>1 DEF ParserExact
<1> HIDE DEF took, len, g
\* The announced length does not change once its bytes are there.
<1>7. g >= 4 => Announced(Append(q.got, b), 1) = Announced(q.got, 1)
  <2>1. SUFFICES ASSUME g >= 4
                 PROVE  /\ Append(q.got, b)[1 + 2] = q.got[1 + 2]
                        /\ Append(q.got, b)[1 + 3] = q.got[1 + 3]
    BY DEF Announced
  <2>2. 1 + 2 \in 1 .. g /\ 1 + 3 \in 1 .. g
    BY <1>5, <2>1
  <2>3. QED
    BY <1>5, <2>2
<1>8. CASE q.state = "SOF"
  <2> DEFINE r == [took EXCEPT !.state = "CMD"]
  <2>1. f = IF b.val = Sof THEN r ELSE ParserFresh
    BY <1>8 DEF Fed, q, took
  <2>2. r.state = "CMD" /\ r.got = Append(q.got, b) /\ r.age = 0
    BY <1>4
  <2> HIDE DEF f, r
  <2>3. ParserExact(r)
    BY <1>5, <1>6, <1>8, <2>2 DEF ParserExact
  <2>4. QED
    BY <1>3, <1>5, <1>8, <2>1, <2>2, <2>3 DEF f, q
<1>9. CASE q.state = "CMD"
  <2>1. f = [took EXCEPT !.state = "LEN_LO"]
    BY <1>9 DEF Fed, q, took
  <2> HIDE DEF f
  <2>2. f.state = "LEN_LO" /\ f.got = Append(q.got, b) /\ f.age = 0
    BY <1>4, <2>1
  <2>3. ParserExact(f)
    BY <1>5, <1>6, <1>9, <2>2 DEF ParserExact
  <2>4. QED
    BY <1>5, <2>2, <2>3 DEF f, q
<1>10. CASE q.state = "LEN_LO"
  <2>1. f = [took EXCEPT !.state = "LEN_HI", !.len = b.val]
    BY <1>10 DEF Fed, q, took
  <2> HIDE DEF f
  <2>2. f.state = "LEN_HI" /\ f.got = Append(q.got, b) /\ f.age = 0 /\ f.len = b.val
    BY <1>4, <2>1
  <2>3. f.got[3] = b /\ Len(f.got) = 3
    BY <1>5, <1>6, <1>10, <2>2
  <2>4. ParserExact(f)
    BY <2>2, <2>3 DEF ParserExact
  <2>5. QED
    BY <1>5, <2>2, <2>4 DEF f, q
<1>11. CASE q.state = "LEN_HI"
  <2> DEFINE r == [took EXCEPT !.len = len, !.state = IF len = 0 THEN "CRC_LO" ELSE "PAYLOAD"]
  <2>1. f = IF len > MaxPayload THEN ParserFresh ELSE r
    BY <1>11 DEF Fed, q, took, len
  <2>2. /\ r.state = IF len = 0 THEN "CRC_LO" ELSE "PAYLOAD"
        /\ r.got = Append(q.got, b) /\ r.age = 0 /\ r.len = len
    BY <1>4
  <2> HIDE DEF f, r
  <2>3. /\ Append(q.got, b)[3] = q.got[3] /\ Append(q.got, b)[4] = b
        /\ Len(Append(q.got, b)) = 4
    BY <1>5, <1>6, <1>11
  <2>4. Announced(r.got, 1) = len
    BY <1>6, <1>11, <2>2, <2>3 DEF Announced, len
  <2>5. len \in Nat
    <3>1. b.val \in Nat /\ Base \in Nat
      BY BytesAreNat DEF WireBytes
    <3>2. Base * b.val \in Nat
      BY <3>1
    <3>3. QED
      BY <1>2, <3>2 DEF len
  <2>6. ParserExact(r)
    BY <2>2, <2>3, <2>4, <2>5 DEF ParserExact, HeaderLength
  <2>7. QED
    BY <1>3, <1>5, <1>11, <2>1, <2>2, <2>6 DEF f, q, len
<1>12. CASE q.state = "PAYLOAD"
  <2> DEFINE r == [took EXCEPT !.state = "CRC_LO"]
  <2>1. f = IF Len(took.got) = HeaderLength + q.len THEN r ELSE took
    BY <1>12 DEF Fed, q, took
  <2>2. r.state = "CRC_LO" /\ r.got = Append(q.got, b) /\ r.age = 0 /\ r.len = q.len
    BY <1>4
  <2> HIDE DEF f, r
  <2>3. g >= 4
    BY <1>2, <1>5, <1>6, <1>12
  <2>4. CASE g + 1 = HeaderLength + q.len
    <3>1. ParserExact(r)
      BY <1>2, <1>5, <1>6, <1>7, <1>12, <2>2, <2>3, <2>4 DEF ParserExact, HeaderLength
    <3>2. QED
      BY <1>4, <1>5, <2>1, <2>2, <2>4, <3>1 DEF f, q
  <2>5. CASE g + 1 # HeaderLength + q.len
    <3>1. ParserExact(took)
      BY <1>2, <1>4, <1>5, <1>6, <1>7, <1>12, <2>3, <2>5 DEF ParserExact, HeaderLength
    <3>2. QED
      BY <1>4, <1>5, <2>1, <2>5, <3>1 DEF f, q
  <2>6. QED
    BY <2>4, <2>5
<1>13. CASE q.state = "CRC_LO"
  <2>1. f = [took EXCEPT !.state = "CRC_HI"]
    BY <1>13 DEF Fed, q, took
  <2> HIDE DEF f
  <2>2. f.state = "CRC_HI" /\ f.got = Append(q.got, b) /\ f.age = 0 /\ f.len = q.len
    BY <1>4, <2>1
  <2>3. g >= 4
    BY <1>2, <1>6, <1>13 DEF HeaderLength
  <2>4. ParserExact(f)
    BY <1>2, <1>5, <1>6, <1>7, <1>13, <2>2, <2>3 DEF ParserExact, HeaderLength
  <2>5. QED
    BY <1>5, <2>2, <2>4 DEF f, q
<1>14. CASE q.state = "CRC_HI"
  <2>1. f = ParserFresh
    BY <1>14 DEF Fed, q
  <2>2. QED
    BY <1>3, <1>14, <2>1 DEF q
<1>15. QED
  BY <1>2, <1>8, <1>9, <1>10, <1>11, <1>12, <1>13, <1>14 DEF ParserStates

-----------------------------------------------------------------------------
(* Frames: what is in the parser and behind it.                             *)

\* The bytes still to be dispatched or dropped.
Behind(p, w) == Resynced(p).got \o w
Stream == Behind(parser, wire)

LengthAt(s, i) == FrameLength(Announced(s, i))
Start(s, i) == i - s[i].place + 1

\* A whole frame lies at i, within the first k bytes.
WholeAt(s, i, k) ==
  /\ i + FrameLength(0) - 1 <= k
  /\ i + LengthAt(s, i) - 1 <= k
  /\ Announced(s, i) <= MaxPayload
  /\ s[i].val = Sof
  /\ \A j \in i .. i + LengthAt(s, i) - 1 : s[j].frame = s[i].frame /\ s[j].place = j - i + 1

\* The first k bytes are whole frames, one behind the other.
Clean(s, k) ==
  \A i \in 1 .. k :
    /\ Start(s, i) >= 1
    /\ WholeAt(s, Start(s, i), k)
    /\ i <= Start(s, i) + LengthAt(s, Start(s, i)) - 1

\* The bytes of a frame lie together.
Contiguous(s) ==
  \A i, j \in 1 .. Len(s) :
    i <= j /\ s[i].frame = s[j].frame => s[j].place = s[i].place + (j - i)

\* t is s without its first m bytes.
Drops(s, t, m) ==
  /\ t \in Seq(WireBytes) /\ m \in 0 .. Len(s) /\ Len(t) = Len(s) - m
  /\ \A i \in 1 .. Len(s) - m : t[i] = s[i + m]

\* Behind its first m bytes, s goes on in t, as far as k.
GoesOn(s, t, m, k) ==
  /\ m \in Nat /\ k \in Nat /\ k <= Len(s) /\ k - m <= Len(t)
  /\ \A j \in m + 1 .. k : t[j - m] = s[j]

LEMMA ByteIs ==
  ASSUME NEW s \in Seq(WireBytes), NEW i \in 1 .. Len(s)
  PROVE  s[i].place \in Nat \ {0} /\ s[i].val \in Nat /\ s[i].frame \in Nat
<1>1. s[i] \in WireBytes
  BY ElementOfSeq
<1>2. QED
  BY <1>1, BytesAreNat DEF WireBytes

LEMMA AnnouncedIsNat ==
  ASSUME NEW s \in Seq(WireBytes), NEW i \in Nat \ {0}, i + 5 <= Len(s)
  PROVE  Announced(s, i) \in Nat /\ LengthAt(s, i) = Announced(s, i) + 6
<1>1. i + 2 \in 1 .. Len(s) /\ i + 3 \in 1 .. Len(s)
  BY LenProperties
<1>2. s[i + 2].val \in Nat /\ s[i + 3].val \in Nat /\ Base \in Nat
  BY <1>1, ByteIs, BytesAreNat
<1>3. Base * s[i + 3].val \in Nat
  BY <1>2
<1>4. Announced(s, i) \in Nat
  <2> DEFINE low == s[i + 2].val
             high == Base * s[i + 3].val
  <2>1. low \in Nat /\ high \in Nat
    BY <1>2, <1>3
  <2>2. Announced(s, i) = low + high
    BY DEF Announced
  <2> HIDE DEF low, high
  <2>3. QED
    BY <2>1, <2>2
<1>5. QED
  BY <1>4 DEF LengthAt, FrameLength, HeaderLength

\* Whether bytes are whole frames depends on these bytes only, wherever they lie.
LEMMA WholeMoves ==
  ASSUME NEW s \in Seq(WireBytes), NEW t \in Seq(WireBytes), NEW m, NEW k, GoesOn(s, t, m, k),
         NEW i \in Nat, i > m, WholeAt(s, i, k)
  PROVE  WholeAt(t, i - m, k - m) /\ LengthAt(t, i - m) = LengthAt(s, i)
<1>1. /\ Len(s) \in Nat /\ Len(t) \in Nat
      /\ m \in Nat /\ k \in Nat /\ k <= Len(s) /\ k - m <= Len(t)
      /\ \A j \in m + 1 .. k : t[j - m] = s[j]
  BY LenProperties DEF GoesOn
<1>2. /\ i + 5 <= k /\ i + LengthAt(s, i) - 1 <= k
      /\ Announced(s, i) <= MaxPayload /\ s[i].val = Sof
      /\ \A j \in i .. i + LengthAt(s, i) - 1 : s[j].frame = s[i].frame /\ s[j].place = j - i + 1
  BY DEF WholeAt, FrameLength, HeaderLength
<1>3. Announced(s, i) \in Nat /\ LengthAt(s, i) = Announced(s, i) + 6
  BY <1>1, <1>2, AnnouncedIsNat
<1>4. Announced(t, i - m) = Announced(s, i)
  <2>1. i + 2 \in m + 1 .. k /\ i + 3 \in m + 1 .. k
    BY <1>1, <1>2
  <2>2. t[(i + 2) - m] = s[i + 2] /\ t[(i + 3) - m] = s[i + 3]
    BY <1>1, <2>1
  <2>3. (i - m) + 2 = (i + 2) - m /\ (i - m) + 3 = (i + 3) - m
    BY <1>1
  <2>4. QED
    BY <2>2, <2>3 DEF Announced
<1>5. LengthAt(t, i - m) = LengthAt(s, i)
  BY <1>4 DEF LengthAt
<1>6. t[i - m] = s[i]
  BY <1>1, <1>2
<1>7. ASSUME NEW j \in i - m .. (i - m) + LengthAt(t, i - m) - 1
      PROVE  t[j].frame = t[i - m].frame /\ t[j].place = j - (i - m) + 1
  <2>1. j + m \in i .. i + LengthAt(s, i) - 1 /\ j + m \in m + 1 .. k /\ (j + m) - m = j
    BY <1>1, <1>2, <1>3, <1>5
  <2>2. t[j] = s[j + m]
    BY <1>1, <2>1
  <2>3. s[j + m].frame = s[i].frame /\ s[j + m].place = (j + m) - i + 1
    BY <1>2, <2>1
  <2>4. QED
    BY <1>1, <1>6, <2>1, <2>2, <2>3
<1>8. QED
  BY <1>1, <1>2, <1>3, <1>4, <1>5, <1>6, <1>7 DEF WholeAt, FrameLength, HeaderLength

\* The first frame of a clean stream.
LEMMA FirstFrame ==
  ASSUME NEW s \in Seq(WireBytes), NEW k \in 1 .. Len(s), Clean(s, k)
  PROVE  /\ WholeAt(s, 1, k)
         /\ Announced(s, 1) \in Nat /\ LengthAt(s, 1) = Announced(s, 1) + 6
         /\ LengthAt(s, 1) <= k
<1>1. Len(s) \in Nat /\ 1 \in 1 .. k /\ 1 \in 1 .. Len(s)
  BY LenProperties
<1>2. s[1].place \in Nat \ {0}
  BY <1>1, ByteIs
<1>3. Start(s, 1) >= 1 /\ WholeAt(s, Start(s, 1), k)
  BY <1>1 DEF Clean
<1>4. Start(s, 1) = 1
  BY <1>2, <1>3 DEF Start
<1>5. WholeAt(s, 1, k)
  BY <1>3, <1>4
<1>6. 1 + 5 <= Len(s)
  BY <1>1, <1>5 DEF WholeAt, FrameLength, HeaderLength
<1>7. Announced(s, 1) \in Nat /\ LengthAt(s, 1) = Announced(s, 1) + 6
  BY <1>6, AnnouncedIsNat
<1>8. QED
  BY <1>1, <1>5, <1>7 DEF WholeAt

\* Without its first frame a clean stream is clean.
LEMMA CleanBehindFirst ==
  ASSUME NEW s \in Seq(WireBytes), NEW k \in 1 .. Len(s), Clean(s, k),
         NEW t, Drops(s, t, LengthAt(s, 1))
  PROVE  Clean(t, k - LengthAt(s, 1))
<1> DEFINE m == LengthAt(s, 1)
<1>1. WholeAt(s, 1, k) /\ m \in Nat /\ m >= 6 /\ m <= k /\ Len(s) \in Nat
  BY FirstFrame, LenProperties
<1>2. /\ t \in Seq(WireBytes) /\ Len(t) = Len(s) - m
      /\ \A j \in 1 .. Len(s) - m : t[j] = s[j + m]
  BY DEF Drops
<1>3. \A j \in 1 .. m : s[j].place = j
  <2>1. \A j \in 1 .. 1 + m - 1 : s[j].place = j - 1 + 1
    BY <1>1 DEF WholeAt
  <2>2. QED
    BY <1>1, <2>1
<1> HIDE DEF m
<1>4. \A j \in m + 1 .. k : t[j - m] = s[j]
  <2>1. SUFFICES ASSUME NEW j \in m + 1 .. k
                 PROVE  t[j - m] = s[j]
    OBVIOUS
  <2>2. j - m \in 1 .. Len(s) - m /\ (j - m) + m = j
    BY <1>1
  <2>3. QED
    BY <1>2, <2>2
<1>5. ASSUME NEW i \in 1 .. k - m
      PROVE  /\ Start(t, i) >= 1
             /\ WholeAt(t, Start(t, i), k - m)
             /\ i <= Start(t, i) + LengthAt(t, Start(t, i)) - 1
  <2> DEFINE at == i + m
             from == Start(s, at)
  <2>1. at \in 1 .. k /\ at \in 1 .. Len(s) /\ at \in m + 1 .. k /\ at - m = i
    BY <1>1
  <2>2. s[at].place \in Nat \ {0}
    BY <2>1, ByteIs
  <2>3. from >= 1 /\ WholeAt(s, from, k) /\ at <= from + LengthAt(s, from) - 1
    BY <2>1 DEF Clean
  <2>4. from \in Nat
    BY <2>1, <2>2, <2>3 DEF Start
  <2>5. t[i] = s[at]
    BY <1>4, <2>1
  <2>6. Start(t, i) = from - m
    BY <1>1, <2>1, <2>2, <2>5 DEF Start
  <2> HIDE DEF from
  <2>7. from > m
    <3>1. SUFFICES ASSUME from <= m
                   PROVE  FALSE
      BY <1>1, <2>4
    <3>2. from + 5 <= k /\ from \in Nat \ {0}
      BY <2>3, <2>4 DEF WholeAt, FrameLength, HeaderLength
    <3>3. LengthAt(s, from) \in Nat /\ LengthAt(s, from) >= 6
      BY <1>1, <3>2, AnnouncedIsNat
    <3>4. s[from].place = from - from + 1
      BY <2>3, <2>4, <3>3 DEF WholeAt
    <3>5. s[from].place = from
      BY <1>3, <2>3, <2>4, <3>1
    <3>6. from = 1
      BY <2>4, <3>4, <3>5
    <3>7. at <= m
      BY <1>1, <2>3, <3>6 DEF m
    <3>8. QED
      BY <1>1, <2>1, <3>7
  <2>8. k - m <= Len(t) /\ k \in Nat /\ k <= Len(s)
    BY <1>1, <1>2
  <2>9. WholeAt(t, from - m, k - m) /\ LengthAt(t, from - m) = LengthAt(s, from)
    <3>1. GoesOn(s, t, m, k)
      BY <1>1, <1>4, <2>8 DEF GoesOn
    <3>2. WholeAt(s, from, k) /\ t \in Seq(WireBytes)
      BY <1>2, <2>3
    <3>3. QED
      BY <2>4, <2>7, <3>1, <3>2, WholeMoves
  <2>10. LengthAt(s, from) \in Nat
    <3>1. from + 5 <= k
      BY <2>3, <2>4 DEF WholeAt, FrameLength, HeaderLength
    <3>2. QED
      BY <1>1, <2>4, <2>7, <2>8, <3>1, AnnouncedIsNat
  <2>11. QED
    BY <1>1, <2>1, <2>3, <2>4, <2>6, <2>7, <2>9, <2>10
<1>6. QED
  BY <1>5 DEF Clean, m

\* A clean stream stays clean when bytes are put behind it.
LEMMA CleanInFront ==
  ASSUME NEW s \in Seq(WireBytes), NEW t \in Seq(WireBytes), NEW k \in 0 .. Len(s),
         Clean(s, k), k <= Len(t), \A i \in 1 .. k : t[i] = s[i]
  PROVE  Clean(t, k)
<1>1. Len(s) \in Nat /\ Len(t) \in Nat /\ k \in Nat
  BY LenProperties
<1>2. ASSUME NEW i \in 1 .. k
      PROVE  /\ Start(t, i) >= 1
             /\ WholeAt(t, Start(t, i), k)
             /\ i <= Start(t, i) + LengthAt(t, Start(t, i)) - 1
  <2> DEFINE from == Start(s, i)
  <2>1. from >= 1 /\ WholeAt(s, from, k) /\ i <= from + LengthAt(s, from) - 1
    BY DEF Clean
  <2>2. i \in 1 .. Len(s)
    BY <1>1
  <2>3. s[i].place \in Nat \ {0}
    BY <2>2, ByteIs
  <2>4. from \in Nat
    BY <2>1, <2>3 DEF Start
  <2>5. Start(t, i) = from
    BY DEF Start
  <2> HIDE DEF from
  <2>6. GoesOn(s, t, 0, k)
    BY <1>1 DEF GoesOn
  <2>7. WholeAt(t, from - 0, k - 0) /\ LengthAt(t, from - 0) = LengthAt(s, from)
    <3>1. from > 0 /\ WholeAt(s, from, k)
      BY <2>1, <2>4
    <3>2. QED
      BY <2>4, <2>6, <3>1, WholeMoves
  <2>8. from - 0 = from /\ k - 0 = k
    BY <1>1, <2>4
  <2>9. QED
    BY <2>1, <2>5, <2>7, <2>8
<1>3. QED
  BY <1>2 DEF Clean

LEMMA ContiguousBehind ==
  ASSUME NEW s \in Seq(WireBytes), NEW t, NEW m, Drops(s, t, m), Contiguous(s)
  PROVE  Contiguous(t)
<1>1. /\ Len(s) \in Nat /\ m \in 0 .. Len(s) /\ Len(t) = Len(s) - m
      /\ \A i \in 1 .. Len(s) - m : t[i] = s[i + m]
  BY LenProperties DEF Drops
<1>2. ASSUME NEW i \in 1 .. Len(t), NEW j \in 1 .. Len(t), i <= j, t[i].frame = t[j].frame
      PROVE  t[j].place = t[i].place + (j - i)
  <2>1. i + m \in 1 .. Len(s) /\ j + m \in 1 .. Len(s) /\ i + m <= j + m
    BY <1>1, <1>2
  <2>2. t[i] = s[i + m] /\ t[j] = s[j + m]
    BY <1>1
  <2>3. s[j + m].place = s[i + m].place + ((j + m) - (i + m))
    BY <1>2, <2>1, <2>2 DEF Contiguous
  <2>4. (j + m) - (i + m) = j - i
    BY <1>1
  <2>5. QED
    BY <2>2, <2>3, <2>4
<1>3. QED
  BY <1>2 DEF Contiguous

-----------------------------------------------------------------------------
(* What the pump and time do to the stream.                                 *)

LEMMA BehindShaped ==
  ASSUME NEW p, ParserShaped(p), NEW w \in Seq(WireBytes)
  PROVE  LET g == Resynced(p).got
         IN  /\ g \in Seq(WireBytes) /\ Len(g) \in Nat /\ Len(w) \in Nat
             /\ Behind(p, w) \in Seq(WireBytes)
             /\ Len(Behind(p, w)) = Len(g) + Len(w)
             /\ \A i \in 1 .. Len(g) : Behind(p, w)[i] = g[i]
             /\ \A i \in 1 .. Len(w) : Behind(p, w)[Len(g) + i] = w[i]
<1> DEFINE g == Resynced(p).got
<1>1. g \in Seq(WireBytes)
  BY ResyncedShaped DEF ParserShaped
<1>2. Len(g) \in Nat /\ Len(w) \in Nat
  BY <1>1, LenProperties
<1>3. Behind(p, w) = g \o w
  BY DEF Behind
<1> HIDE DEF g
<1>4. /\ g \o w \in Seq(WireBytes)
      /\ Len(g \o w) = Len(g) + Len(w)
      /\ \A i \in 1 .. Len(g) + Len(w) : (g \o w)[i] = IF i <= Len(g) THEN g[i] ELSE w[i - Len(g)]
  BY <1>1, ConcatProperties
<1>5. \A i \in 1 .. Len(g) : (g \o w)[i] = g[i]
  BY <1>2, <1>4
<1>6. ASSUME NEW i \in 1 .. Len(w)
      PROVE  (g \o w)[Len(g) + i] = w[i]
  <2>1. Len(g) + i \in 1 .. Len(g) + Len(w) /\ ~(Len(g) + i <= Len(g)) /\ (Len(g) + i) - Len(g) = i
    BY <1>2
  <2>2. QED
    BY <1>4, <2>1
<1>7. QED
  BY <1>1, <1>2, <1>3, <1>4, <1>5, <1>6 DEF g

\* A parser that collects nothing has dropped what lay in front of the wire.
LEMMA Forgets ==
  ASSUME NEW p, ParserShaped(p), NEW w \in Seq(WireBytes), NEW q, NEW v \in Seq(WireBytes),
         Resynced(q).got = <<>>, NEW m \in Nat, m <= Len(w), Len(v) = Len(w) - m,
         \A i \in 1 .. Len(v) : v[i] = w[m + i]
  PROVE  Behind(q, v) = v /\ Drops(Behind(p, w), Behind(q, v), Len(Resynced(p).got) + m)
<1> DEFINE s == Behind(p, w)
           g == Len(Resynced(p).got)
<1>1. /\ s \in Seq(WireBytes) /\ g \in Nat /\ Len(w) \in Nat /\ Len(s) = g + Len(w)
      /\ \A i \in 1 .. Len(w) : s[g + i] = w[i]
  BY BehindShaped
<1>2. Behind(q, v) = v
  BY ConcatEmptySeq DEF Behind
<1> HIDE DEF s, g
<1>3. g + m \in 0 .. Len(s) /\ Len(v) = Len(s) - (g + m)
  BY <1>1
<1>4. ASSUME NEW i \in 1 .. Len(s) - (g + m)
      PROVE  v[i] = s[i + (g + m)]
  <2>1. i \in 1 .. Len(v) /\ m + i \in 1 .. Len(w) /\ g + (m + i) = i + (g + m)
    BY <1>1, <1>3
  <2>2. v[i] = w[m + i] /\ s[g + (m + i)] = w[m + i]
    BY <1>1, <2>1
  <2>3. QED
    BY <2>1, <2>2
<1>5. Drops(s, v, g + m)
  BY <1>3, <1>4 DEF Drops
<1>6. QED
  BY <1>2, <1>5 DEF s, g

\* One byte goes from the wire to the parser, or takes what is collected with it.
LEMMA FeedMoves ==
  ASSUME NEW p, ParserShaped(p), ParserExact(p), NEW w \in Seq(WireBytes), w # <<>>
  PROVE  LET q == Resynced(p)
             f == Fed(p, Head(w))
         IN  \/ /\ Behind(f, Tail(w)) = Behind(p, w)
                /\ Len(Resynced(f).got) = Len(q.got) + 1
                /\ f.got = Append(q.got, Head(w))
             \/ /\ Drops(Behind(p, w), Behind(f, Tail(w)), Len(q.got) + 1)
                /\ Resynced(f).got = <<>> /\ f.got = <<>>
<1> DEFINE g == Resynced(p).got
           b == Head(w)
           f == Fed(p, b)
<1>1. /\ b \in WireBytes /\ Tail(w) \in Seq(WireBytes) /\ Len(Tail(w)) = Len(w) - 1
      /\ Len(w) \in Nat /\ Len(w) >= 1
      /\ \A i \in 1 .. Len(Tail(w)) : Tail(w)[i] = w[i + 1]
  BY HeadTailProperties, LenProperties, EmptySeq
<1>2. f.got = <<>> \/ f.got = Append(g, b)
  BY <1>1, FedBy
<1>3. f.age = 0
  BY <1>1, FedBy
<1>4. Resynced(f) = f
  BY <1>3, FrameAssumption DEF Resynced, Expired
<1>5. g \in Seq(WireBytes) /\ Len(g) \in Nat
  BY BehindShaped
<1> HIDE DEF g, f
<1>6. CASE f.got = <<>>
  <2>1. \A i \in 1 .. Len(Tail(w)) : Tail(w)[i] = w[1 + i]
    BY <1>1
  <2>2. Drops(Behind(p, w), Behind(f, Tail(w)), Len(Resynced(p).got) + 1)
    BY <1>1, <1>4, <1>6, <2>1, Forgets
  <2>3. QED
    BY <1>4, <1>6, <2>2 DEF f
<1>7. CASE f.got = Append(g, b)
  <2>1. <<b>> \o Tail(w) = w
    BY <1>1
  <2>2. Append(g, b) = g \o <<b>>
    BY <1>1, <1>5, AppendIsConcat
  <2>3. <<b>> \in Seq(WireBytes)
    BY <1>1
  <2>4. (g \o <<b>>) \o Tail(w) = g \o (<<b>> \o Tail(w))
    BY <1>1, <1>5, <2>3, ConcatAssociative
  <2>5. Behind(f, Tail(w)) = Behind(p, w)
    BY <1>4, <1>7, <2>1, <2>2, <2>4 DEF Behind, g
  <2>6. Len(Append(g, b)) = Len(g) + 1
    BY <1>1, <1>5, AppendProperties
  <2>7. QED
    BY <1>4, <1>7, <2>5, <2>6 DEF f, g
<1>8. QED
  BY <1>2, <1>6, <1>7

\* The pause is too long, or it is not.
LEMMA PauseMoves ==
  ASSUME NEW p, ParserShaped(p), NEW q, ParserShaped(q), NEW w \in Seq(WireBytes),
         q.got = p.got, q.state = p.state, q.age >= p.age \/ p.state = "SOF"
  PROVE  \/ Resynced(q).got = Resynced(p).got /\ Behind(q, w) = Behind(p, w)
         \/ Resynced(q).got = <<>> /\ Drops(Behind(p, w), Behind(q, w), Len(Resynced(p).got))
<1>1. Resynced(q).got = Resynced(p).got \/ Resynced(q).got = <<>>
  BY FreshShaped, FrameAssumption DEF Resynced, Expired, ParserShaped
<1>2. CASE Resynced(q).got = Resynced(p).got
  BY <1>2 DEF Behind
<1>3. CASE Resynced(q).got = <<>>
  <2>1. Len(w) \in Nat /\ Len(Resynced(p).got) \in Nat
    BY BehindShaped
  <2>2. 0 <= Len(w) /\ Len(w) = Len(w) - 0 /\ \A i \in 1 .. Len(w) : w[i] = w[0 + i]
    BY <2>1
  <2>3. Drops(Behind(p, w), Behind(q, w), Len(Resynced(p).got) + 0)
    BY <1>3, <2>2, Forgets
  <2>4. QED
    BY <1>3, <2>1, <2>3
<1>4. QED
  BY <1>1, <1>2, <1>3

\* The parser in front of a clean stream collects the first frame to its end and
\* takes it for a frame.
LEMMA FirstIsReady ==
  ASSUME NEW p, ParserShaped(p), ParserExact(p), NEW w \in Seq(WireBytes), w # <<>>,
         NEW k \in 1 .. Len(Behind(p, w)), Clean(Behind(p, w), k),
         Len(Resynced(p).got) < LengthAt(Behind(p, w), 1)
  PROVE  LET s == Behind(p, w)
             f == Fed(p, Head(w))
             t == Behind(f, Tail(w))
             frame == Append(Resynced(p).got, Head(w))
         IN  \/ /\ t = s /\ f.got = frame
                /\ Len(Resynced(f).got) < LengthAt(s, 1)
             \/ /\ Drops(s, t, LengthAt(s, 1)) /\ Resynced(f).got = <<>> /\ f.got = <<>>
                /\ FrameReady(p, Head(w)) /\ frame[1].frame = s[1].frame
<1> DEFINE s == Behind(p, w)
           q == Resynced(p)
           g == Len(q.got)
           b == Head(w)
           f == Fed(p, b)
           t == Behind(f, Tail(w))
           L == LengthAt(s, 1)
           A == Announced(s, 1)
           frame == Append(q.got, b)
<1>1. /\ ParserShaped(q) /\ ParserExact(q)
  BY ResyncedShaped, ResyncedExact
<1>2. /\ q.got \in Seq(WireBytes) /\ g \in Nat /\ Len(w) \in Nat
      /\ s \in Seq(WireBytes) /\ Len(s) = g + Len(w)
      /\ \A i \in 1 .. g : s[i] = q.got[i]
      /\ \A i \in 1 .. Len(w) : s[g + i] = w[i]
  BY BehindShaped
<1>3. b \in WireBytes /\ b = w[1] /\ 1 \in 1 .. Len(w)
  BY <1>2, HeadTailProperties, EmptySeq
<1>4. s[g + 1] = b
  BY <1>2, <1>3
<1>5. /\ WholeAt(s, 1, k) /\ A \in Nat /\ L = A + 6 /\ L <= k
  BY <1>2, FirstFrame
<1>6. /\ A <= MaxPayload /\ s[1].val = Sof
      /\ \A j \in 1 .. 1 + L - 1 : s[j].frame = s[1].frame /\ s[j].place = j - 1 + 1
  BY <1>5 DEF WholeAt
<1>7. \/ t = s /\ Len(Resynced(f).got) = g + 1 /\ f.got = frame
      \/ Drops(s, t, g + 1) /\ Resynced(f).got = <<>> /\ f.got = <<>>
  BY FeedMoves
<1>8. f.got = <<>> =>
        \/ q.state = "SOF" /\ b.val # Sof
        \/ q.state = "LEN_HI" /\ q.len + Base * b.val > MaxPayload
        \/ q.state = "CRC_HI"
  BY <1>3, FedBy
<1>9. q.state = "CRC_HI" => f.got = <<>>
  <2>1. q.state = "CRC_HI" => f = ParserFresh
    BY DEF Fed
  <2>2. QED
    BY <2>1, FreshShaped
<1>10. /\ q.state = "SOF" <=> g = 0
       /\ q.state = "CMD" <=> g = 1
       /\ q.state = "LEN_LO" <=> g = 2
       /\ q.state = "LEN_HI" <=> g = 3
       /\ q.state = "LEN_HI" => q.len = q.got[3].val
       /\ q.state \in {"PAYLOAD", "CRC_LO", "CRC_HI"} => q.len = Announced(q.got, 1)
       /\ q.state = "PAYLOAD" => g < HeaderLength + q.len
       /\ q.state = "CRC_LO" => g = HeaderLength + q.len
       /\ q.state = "CRC_HI" => g = HeaderLength + q.len + 1
  BY <1>1 DEF ParserExact
<1>11. q.state \in ParserStates /\ q.len \in Nat
  BY <1>1 DEF ParserShaped
<1>12. g >= 4 => Announced(q.got, 1) = A
  <2>1. SUFFICES ASSUME g >= 4
                 PROVE  s[1 + 2] = q.got[1 + 2] /\ s[1 + 3] = q.got[1 + 3]
    BY DEF Announced
  <2>2. 1 + 2 \in 1 .. g /\ 1 + 3 \in 1 .. g
    BY <1>2, <2>1
  <2>3. QED
    BY <1>2, <2>2
<1>13. g < L
  OBVIOUS
<1>14. frame \in Seq(WireBytes) /\ Len(frame) = g + 1 /\ \A i \in 1 .. g + 1 : frame[i] = s[i]
  <2>1. /\ frame \in Seq(WireBytes) /\ Len(frame) = g + 1
        /\ \A i \in 1 .. g : frame[i] = q.got[i]
        /\ frame[g + 1] = b
    BY <1>2, <1>3, AppendProperties
  <2> HIDE DEF frame, s, g, b
  <2>2. QED
    BY <1>2, <1>4, <2>1
<1> HIDE DEF s, q, g, b, f, t, L, A, frame
<1>15. CASE f.got = <<>>
  <2>1. q.state = "CRC_HI"
    <3>1. ~(q.state = "SOF" /\ b.val # Sof)
      BY <1>2, <1>4, <1>6, <1>10
    <3>2. ~(q.state = "LEN_HI" /\ q.len + Base * b.val > MaxPayload)
      <4>1. SUFFICES ASSUME q.state = "LEN_HI"
                     PROVE  q.len + Base * b.val = A
        <5>1. A \in Nat /\ MaxPayload \in Nat
          BY <1>5, FrameAssumption
        <5>2. QED
          BY <1>6, <4>1, <5>1
      <4>2. g = 3 /\ q.len = q.got[3].val /\ 3 \in 1 .. g
        BY <1>10, <4>1
      <4>3. s[3] = q.got[3] /\ s[4] = b
        BY <1>2, <1>4, <4>2
      <4>4. A = s[1 + 2].val + Base * s[1 + 3].val
        BY DEF A, Announced
      <4>5. QED
        BY <4>2, <4>3, <4>4
    <3>3. QED
      BY <1>8, <1>15, <3>1, <3>2
  <2>2. g >= 4
    BY <1>2, <1>10, <1>11, <2>1
  <2>3. g + 1 = L
    BY <1>5, <1>10, <1>11, <1>12, <2>1, <2>2 DEF HeaderLength
  <2>4. Drops(s, t, L) /\ Resynced(f).got = <<>>
    <3>1. Len(frame) # Len(<<>>)
      BY <1>2, <1>14
    <3>2. f.got # frame
      BY <1>15, <3>1
    <3>3. QED
      BY <1>7, <2>3, <3>2
  <2>5. \A i \in 1 .. L : frame[i].frame = frame[1].frame /\ frame[i].place = i
    <3>1. \A i \in 1 .. L : s[i].frame = s[1].frame /\ s[i].place = i
      BY <1>5, <1>6
    <3>2. 1 \in 1 .. L /\ \A i \in 1 .. L : frame[i] = s[i]
      BY <1>5, <1>14, <2>3
    <3>3. QED
      BY <3>1, <3>2
  <2>6. DOMAIN frame = 1 .. L
    BY <1>14, <2>3, LenProperties
  <2>7. CrcMatches(frame)
    BY <2>5, <2>6 DEF CrcMatches
  <2>8. FrameReady(p, b)
    BY <2>1, <2>7 DEF FrameReady, q, frame
  <2>9. frame[1].frame = s[1].frame
    BY <1>5, <1>14, <2>3
  <2>10. QED
    BY <1>15, <2>4, <2>8, <2>9 DEF s, q, g, b, f, t, L, A, frame
<1>16. CASE f.got # <<>>
  <2>1. t = s /\ Len(Resynced(f).got) = g + 1 /\ f.got = frame
    BY <1>7, <1>16
  <2>2. g + 1 # L
    <3>1. SUFFICES ASSUME g + 1 = L
                   PROVE  q.state = "CRC_HI"
      BY <1>9, <1>16
    <3>2. g = 5 + A /\ g >= 5
      BY <1>2, <1>5, <3>1
    <3>3. QED
      BY <1>10, <1>11, <1>12, <3>2, <1>5 DEF ParserStates, HeaderLength
  <2>3. g + 1 < L
    BY <1>2, <1>5, <1>13, <2>2
  <2>4. QED
    BY <2>1, <2>3 DEF s, q, g, b, f, t, L, A, frame
<1>17. QED
  BY <1>15, <1>16

-----------------------------------------------------------------------------
(* The frames the port owes an answer.                                      *)

\* The first k bytes of s are whole frames and have all that is owed among them;
\* behind them lies something only if the host is in doubt, and the parser has
\* collected no more of them than a part of the first.
Sound(s, g, k, promised, doubt) ==
  /\ k \in 0 .. Len(s) /\ Clean(s, k)
  /\ \A f \in promised : \E i \in 1 .. k : s[i].frame = f
  /\ k < Len(s) => doubt
  /\ k > 0 => g < LengthAt(s, 1)

\* The first frame is dispatched.
LEMMA SoundBehindFirst ==
  ASSUME NEW s \in Seq(WireBytes), NEW g \in Nat, NEW k, NEW promised, NEW doubt,
         Sound(s, g, k, promised, doubt), k > 0,
         NEW t, Drops(s, t, LengthAt(s, 1)),
         NEW left \in SUBSET promised, s[1].frame \notin left
  PROVE  Sound(t, 0, k - LengthAt(s, 1), left, doubt)
<1> DEFINE L == LengthAt(s, 1)
<1>1. k \in 0 .. Len(s) /\ k \in 1 .. Len(s) /\ Len(s) \in Nat /\ Clean(s, k)
  BY LenProperties DEF Sound
<1>2. WholeAt(s, 1, k) /\ L \in Nat /\ L >= 6 /\ L <= k
  BY <1>1, FirstFrame
<1>3. Clean(t, k - L)
  BY <1>1, CleanBehindFirst
<1>4. /\ t \in Seq(WireBytes) /\ Len(t) = Len(s) - L
      /\ \A i \in 1 .. Len(s) - L : t[i] = s[i + L]
  BY DEF Drops
<1>5. \A j \in 1 .. L : s[j].frame = s[1].frame
  <2>1. \A j \in 1 .. 1 + L - 1 : s[j].frame = s[1].frame
    BY <1>2 DEF WholeAt
  <2>2. QED
    BY <1>2, <2>1
<1> HIDE DEF L
<1>6. ASSUME NEW f \in left
      PROVE  \E i \in 1 .. k - L : t[i].frame = f
  <2>1. PICK i \in 1 .. k : s[i].frame = f
    BY <1>6 DEF Sound
  <2>2. i > L
    BY <1>1, <1>2, <1>5, <2>1
  <2>3. i - L \in 1 .. k - L /\ i - L \in 1 .. Len(s) - L /\ (i - L) + L = i
    BY <1>1, <1>2, <2>2
  <2>4. t[i - L] = s[i]
    BY <1>4, <2>3
  <2>5. QED
    BY <2>1, <2>3, <2>4
<1>7. k - L \in 0 .. Len(t) /\ (k - L < Len(t) => doubt)
  BY <1>1, <1>2, <1>4 DEF Sound
<1>8. k - L > 0 => 0 < LengthAt(t, 1)
  <2>1. SUFFICES ASSUME k - L > 0
                 PROVE  0 < LengthAt(t, 1)
    OBVIOUS
  <2>2. k - L \in 1 .. Len(t)
    BY <1>1, <1>2, <1>7, <2>1
  <2>3. Announced(t, 1) \in Nat /\ LengthAt(t, 1) = Announced(t, 1) + 6
    BY <1>3, <1>4, <2>2, FirstFrame
  <2>4. QED
    BY <2>3
<1>9. QED
  BY <1>3, <1>6, <1>7, <1>8 DEF Sound, L

LEMMA CleanNothing == ASSUME NEW s PROVE Clean(s, 0)
  BY DEF Clean

\* Nothing is owed, and the host is in doubt about whatever is left.
LEMMA SoundNothing ==
  ASSUME NEW s \in Seq(WireBytes), NEW g, NEW promised, NEW doubt,
         Sound(s, g, 0, promised, doubt),
         NEW t \in Seq(WireBytes), Len(t) <= Len(s), NEW h, NEW left \in SUBSET promised
  PROVE  Sound(t, h, 0, left, doubt)
<1>1. promised = {} /\ Len(s) \in Nat /\ Len(t) \in Nat /\ (0 < Len(s) => doubt)
  BY LenProperties DEF Sound
<1>2. 0 \in 0 .. Len(t) /\ (0 < Len(t) => doubt) /\ left = {}
  BY <1>1
<1>3. QED
  BY <1>2, CleanNothing DEF Sound

-----------------------------------------------------------------------------
(* What the host puts behind the stream.                                    *)

Marked(f, k, id) == [i \in 1 .. k |-> [frame |-> id, place |-> i, val |-> Encoded(f)[i]]]

LEMMA LengthJoined ==
  ASSUME NEW n \in 0 .. MaxPayload
  PROVE  (n % Base) + Base * (n \div Base) = n
<1>1. Base \in Nat \ {0} /\ n \in Nat
  BY FrameAssumption
<1>2. QED
  BY <1>1

\* A sequence put behind another.
LEMMA Joined ==
  ASSUME NEW S, NEW s \in Seq(S), NEW new \in Seq(S)
  PROVE  /\ s \o new \in Seq(S)
         /\ Len(s \o new) = Len(s) + Len(new) /\ Len(s) \in Nat /\ Len(new) \in Nat
         /\ \A i \in 1 .. Len(s) : (s \o new)[i] = s[i]
         /\ \A i \in 1 .. Len(new) : (s \o new)[Len(s) + i] = new[i]
<1>1. Len(s) \in Nat /\ Len(new) \in Nat
  BY LenProperties
<1>2. /\ s \o new \in Seq(S)
      /\ Len(s \o new) = Len(s) + Len(new)
      /\ \A i \in 1 .. Len(s) + Len(new) : (s \o new)[i] = IF i <= Len(s) THEN s[i] ELSE new[i - Len(s)]
  BY ConcatProperties
<1>3. ASSUME NEW i \in 1 .. Len(new)
      PROVE  (s \o new)[Len(s) + i] = new[i]
  <2>1. Len(s) + i \in 1 .. Len(s) + Len(new) /\ ~(Len(s) + i <= Len(s)) /\ (Len(s) + i) - Len(s) = i
    BY <1>1
  <2>2. QED
    BY <1>2, <2>1
<1>4. QED
  BY <1>1, <1>2, <1>3

LEMMA BytesJoined ==
  ASSUME NEW s \in Seq(WireBytes), NEW new \in Seq(WireBytes)
  PROVE  /\ s \o new \in Seq(WireBytes)
         /\ Len(s \o new) = Len(s) + Len(new) /\ Len(s) \in Nat /\ Len(new) \in Nat
         /\ \A i \in 1 .. Len(s) : (s \o new)[i] = s[i]
         /\ \A i \in 1 .. Len(new) : (s \o new)[Len(s) + i] = new[i]
  BY Joined

LEMMA BytesGrouped ==
  ASSUME NEW a \in Seq(WireBytes), NEW b \in Seq(WireBytes), NEW c \in Seq(WireBytes)
  PROVE  (a \o b) \o c = a \o (b \o c)
  BY ConcatAssociative

\* The first bytes of a request.
LEMMA EncodedHeader ==
  ASSUME NEW f \in Frames
  PROVE  /\ Encoded(f)[1] = Sof
         /\ Encoded(f)[3] = Len(f.payload) % Base
         /\ Encoded(f)[4] = Len(f.payload) \div Base
<1> DEFINE n == Len(f.payload)
           head == <<Sof, f.cmd, n % Base, n \div Base>>
<1>1. f.cmd \in Bytes /\ f.payload \in Seq(Bytes) /\ f.crc \in Bytes \X Bytes
  BY FramesAssumption
<1>2. n \in 0 .. MaxPayload /\ n \in Nat
  BY <1>1, EncodedShaped, LenProperties
<1>3. n % Base \in Bytes /\ n \div Base \in Bytes /\ Sof \in Bytes
  BY <1>2, LengthBytes, BytesAreNat
<1> HIDE DEF n
<1>4. head \in Seq(Bytes) /\ Len(head) = 4 /\ head[1] = Sof /\ head[3] = n % Base /\ head[4] = n \div Base
  BY <1>1, <1>3
<1>5. f.crc \in Seq(Bytes)
  <2>1. PICK a, b \in Bytes : f.crc = <<a, b>>
    BY <1>1
  <2>2. QED
    BY <2>1
<1> HIDE DEF head
<1> DEFINE front == head \o f.payload
<1>6. front \in Seq(Bytes) /\ Len(front) >= 4 /\ \A i \in 1 .. 4 : front[i] = head[i]
  <2>1. /\ front \in Seq(Bytes)
        /\ Len(front) = Len(head) + Len(f.payload) /\ Len(f.payload) \in Nat
        /\ \A i \in 1 .. Len(head) : front[i] = head[i]
    BY <1>1, <1>4, Joined
  <2> HIDE DEF front
  <2>2. QED
    BY <1>4, <2>1
<1> HIDE DEF front
<1>7. \A i \in 1 .. Len(front) : (front \o f.crc)[i] = front[i]
  BY <1>5, <1>6, Joined
<1>8. \A i \in 1 .. 4 : (front \o f.crc)[i] = head[i]
  <2>1. Len(front) \in Nat
    BY <1>6, LenProperties
  <2>2. \A i \in 1 .. 4 : i \in 1 .. Len(front)
    BY <1>6, <2>1
  <2>3. QED
    BY <1>6, <1>7, <2>2
<1>9. Encoded(f) = front \o f.crc
  BY DEF Encoded, front, head, n
<1>10. /\ Encoded(f)[1] = head[1] /\ Encoded(f)[3] = head[3] /\ Encoded(f)[4] = head[4]
  <2>1. 1 \in 1 .. 4 /\ 3 \in 1 .. 4 /\ 4 \in 1 .. 4
    OBVIOUS
  <2>2. /\ (front \o f.crc)[1] = head[1]
        /\ (front \o f.crc)[3] = head[3]
        /\ (front \o f.crc)[4] = head[4]
    BY <1>8, <2>1
  <2>3. QED
    BY <1>9, <2>2
<1>11. QED
  BY <1>4, <1>10 DEF n

LEMMA MarkedIs ==
  ASSUME NEW f \in Frames, NEW k \in 1 .. Len(Encoded(f)), NEW id \in Nat
  PROVE  /\ Marked(f, k, id) \in Seq(WireBytes)
         /\ k \in Nat /\ Len(Marked(f, k, id)) = k
         /\ \A i \in 1 .. k : Marked(f, k, id)[i].frame = id /\ Marked(f, k, id)[i].place = i
         /\ k = Len(Encoded(f)) => Marked(f, k, id)[1].val = Sof
         /\ k = Len(Encoded(f)) => Announced(Marked(f, k, id), 1) \in 0 .. MaxPayload
         /\ k = Len(Encoded(f)) => k = Announced(Marked(f, k, id), 1) + 6
<1> DEFINE new == Marked(f, k, id)
           n == Len(f.payload)
<1>1. Encoded(f) \in Seq(Bytes) /\ Len(Encoded(f)) = n + 6 /\ n \in 0 .. MaxPayload /\ n \in Nat
  BY EncodedShaped, FrameAssumption DEF FrameLength, HeaderLength
<1>2. k \in Nat /\ \A i \in 1 .. k : Encoded(f)[i] \in Bytes
  BY <1>1, ElementOfSeq
<1>3. \A i \in 1 .. k : [frame |-> id, place |-> i, val |-> Encoded(f)[i]] \in WireBytes
  BY <1>2 DEF WireBytes
<1>4. /\ new = [i \in 1 .. k |-> [frame |-> id, place |-> i, val |-> Encoded(f)[i]]]
      /\ \A i \in 1 .. k : new[i] = [frame |-> id, place |-> i, val |-> Encoded(f)[i]]
  BY DEF Marked
<1>5. new \in Seq(WireBytes) /\ Len(new) = k
  BY <1>2, <1>3, <1>4
<1>6. \A i \in 1 .. k : new[i].frame = id /\ new[i].place = i /\ new[i].val = Encoded(f)[i]
  BY <1>4
<1>7. ASSUME k = Len(Encoded(f))
      PROVE  new[1].val = Sof /\ Announced(new, 1) = n
  <2>1. 1 \in 1 .. k /\ 1 + 2 \in 1 .. k /\ 1 + 3 \in 1 .. k
    BY <1>1, <1>7
  <2>2. /\ new[1].val = Encoded(f)[1] /\ new[1 + 2].val = Encoded(f)[3]
        /\ new[1 + 3].val = Encoded(f)[4]
    BY <1>6, <2>1
  <2>3. Announced(new, 1) = (n % Base) + Base * (n \div Base)
    BY <2>2, EncodedHeader DEF Announced
  <2>4. (n % Base) + Base * (n \div Base) = n
    BY <1>1, LengthJoined
  <2>5. QED
    BY <2>2, <2>3, <2>4, EncodedHeader
<1> HIDE DEF new, n
<1>8. QED
  BY <1>1, <1>2, <1>5, <1>6, <1>7 DEF new

\* What is in front stays sound.
LEMMA SoundInFront ==
  ASSUME NEW s \in Seq(WireBytes), NEW new \in Seq(WireBytes), NEW g, NEW k, NEW promised, NEW doubt,
         Sound(s, g, k, promised, doubt)
  PROVE  Sound(s \o new, g, k, promised, TRUE)
<1> DEFINE t == s \o new
<1>1. /\ t \in Seq(WireBytes) /\ Len(t) = Len(s) + Len(new) /\ Len(s) \in Nat /\ Len(new) \in Nat
      /\ \A i \in 1 .. Len(s) : t[i] = s[i]
  BY BytesJoined
<1> HIDE DEF t
<1>2. k \in 0 .. Len(s) /\ Clean(s, k)
  BY DEF Sound
<1>3. k <= Len(t) /\ k \in 0 .. Len(t) /\ \A i \in 1 .. k : t[i] = s[i]
  BY <1>1, <1>2
<1>4. Clean(t, k)
  BY <1>1, <1>2, <1>3, CleanInFront
<1>5. \A f \in promised : \E i \in 1 .. k : t[i].frame = f
  BY <1>3 DEF Sound
<1>6. k > 0 => g < LengthAt(t, 1)
  <2>1. SUFFICES ASSUME k > 0
                 PROVE  LengthAt(t, 1) = LengthAt(s, 1)
    BY <1>2 DEF Sound
  <2>2. k \in 1 .. Len(s)
    BY <1>1, <1>2, <2>1
  <2>3. Announced(s, 1) \in Nat /\ LengthAt(s, 1) = Announced(s, 1) + 6 /\ LengthAt(s, 1) <= k
    BY <1>2, <2>2, FirstFrame
  <2>4. 1 + 2 \in 1 .. k /\ 1 + 3 \in 1 .. k
    BY <2>2, <2>3
  <2>5. Announced(t, 1) = Announced(s, 1)
    BY <1>3, <2>4 DEF Announced
  <2>6. QED
    BY <2>5 DEF LengthAt
<1>7. QED
  BY <1>3, <1>4, <1>5, <1>6 DEF Sound, t

\* A whole frame put behind a stream that is sound to its end.
LEMMA SoundBehindAll ==
  ASSUME NEW s \in Seq(WireBytes), NEW g \in Nat, g <= Len(s), NEW promised, NEW doubt,
         Sound(s, g, Len(s), promised, doubt),
         NEW f \in Frames, NEW id \in Nat, NEW K \in 1 .. Len(Encoded(f)), K = Len(Encoded(f))
  PROVE  Sound(s \o Marked(f, K, id), g, Len(s) + K, promised \cup {id}, FALSE)
<1> DEFINE new == Marked(f, K, id)
           t == s \o new
           m == Len(s)
<1>1. K \in 1 .. Len(Encoded(f)) /\ K \in Nat
  <2>1. Len(Encoded(f)) = FrameLength(Len(f.payload)) /\ Len(f.payload) \in 0 .. MaxPayload
    BY EncodedShaped
  <2>2. QED
    BY <2>1, FrameAssumption DEF FrameLength, HeaderLength
<1>2. /\ new \in Seq(WireBytes) /\ Len(new) = K
      /\ \A i \in 1 .. K : new[i].frame = id /\ new[i].place = i
      /\ new[1].val = Sof
      /\ Announced(new, 1) \in 0 .. MaxPayload
      /\ K = Announced(new, 1) + 6
  <2>1. new \in Seq(WireBytes) /\ Len(new) = K
    BY MarkedIs
  <2>2. \A i \in 1 .. K : new[i].frame = id /\ new[i].place = i
    <3>1. SUFFICES ASSUME NEW i \in 1 .. K
                   PROVE  new[i].frame = id /\ new[i].place = i
      OBVIOUS
    <3>2. new[i] = [frame |-> id, place |-> i, val |-> Encoded(f)[i]]
      BY DEF Marked
    <3>3. QED
      BY <3>2
  <2>3. new[1].val = Sof
    BY MarkedIs
  <2>4. Announced(new, 1) \in 0 .. MaxPayload
    BY MarkedIs
  <2>5. K = Announced(new, 1) + 6
    BY MarkedIs
  <2>6. QED
    BY <2>1, <2>2, <2>3, <2>4, <2>5
<1>3. /\ t \in Seq(WireBytes) /\ Len(t) = m + Len(new) /\ m \in Nat
      /\ \A i \in 1 .. m : t[i] = s[i]
      /\ \A i \in 1 .. Len(new) : t[m + i] = new[i]
  BY <1>2, BytesJoined
<1>4. Sound(t, g, m, promised, TRUE)
  BY <1>2, SoundInFront
<1> HIDE DEF new, t, m
<1>5. K >= 6 /\ Len(t) = m + K /\ MaxPayload \in Nat
  <2>1. MaxPayload \in Nat
    BY FrameAssumption
  <2>2. Announced(new, 1) \in 0 .. MaxPayload /\ K = Announced(new, 1) + 6
    BY <1>2
  <2>3. K >= 6
    BY <2>1, <2>2
  <2>4. Len(t) = m + K
    BY <1>2, <1>3
  <2>5. QED
    BY <2>1, <2>3, <2>4
<1>6. WholeAt(t, m + 1, m + K) /\ LengthAt(t, m + 1) = K
  <2>1. (m + 1) + 2 = m + 3 /\ (m + 1) + 3 = m + 4 /\ 1 + 2 = 3 /\ 1 + 3 = 4
    BY <1>3
  <2>2. t[m + 3] = new[3] /\ t[m + 4] = new[4] /\ t[m + 1] = new[1]
    BY <1>2, <1>3, <1>5
  <2>3. Announced(t, m + 1) = Announced(new, 1)
    BY <2>1, <2>2 DEF Announced
  <2>4. LengthAt(t, m + 1) = K
    BY <1>2, <2>3 DEF LengthAt, FrameLength, HeaderLength
  <2>5. ASSUME NEW j \in m + 1 .. (m + 1) + K - 1
        PROVE  t[j].frame = t[m + 1].frame /\ t[j].place = j - (m + 1) + 1
    <3>1. j - m \in 1 .. K /\ m + (j - m) = j /\ j - (m + 1) + 1 = j - m /\ 1 \in 1 .. K
      <4>1. K \in Nat /\ K >= 6 /\ m \in Nat
        BY <1>1, <1>3, <1>5
      <4> HIDE DEF m
      <4>2. QED
        BY <4>1
    <3>2. t[j] = new[j - m]
      BY <1>2, <1>3, <3>1
    <3>3. QED
      BY <1>2, <2>2, <3>1, <3>2
  <2>6. QED
    BY <1>1, <1>2, <1>3, <1>5, <2>2, <2>3, <2>4, <2>5 DEF WholeAt, FrameLength, HeaderLength
<1>7. ASSUME NEW i \in 1 .. m + K
      PROVE  /\ Start(t, i) >= 1
             /\ WholeAt(t, Start(t, i), m + K)
             /\ i <= Start(t, i) + LengthAt(t, Start(t, i)) - 1
  <2>1. CASE i \in 1 .. m
    <3> DEFINE from == Start(t, i)
    <3>1. from >= 1 /\ WholeAt(t, from, m) /\ i <= from + LengthAt(t, from) - 1
      BY <1>4, <2>1 DEF Sound, Clean
    <3>2. t[i].place \in Nat \ {0}
      BY <1>3, <1>5, <2>1, ByteIs
    <3>3. from \in Nat \ {0}
      BY <2>1, <3>1, <3>2 DEF Start
    <3> HIDE DEF from
    <3>4. from + 5 <= m /\ from + LengthAt(t, from) - 1 <= m
      BY <3>1, <3>3 DEF WholeAt, FrameLength, HeaderLength
    <3>5. LengthAt(t, from) = Announced(t, from) + 6 /\ Announced(t, from) \in Nat
      BY <1>1, <1>3, <1>5, <3>3, <3>4, AnnouncedIsNat
    <3>6. WholeAt(t, from, m + K)
      BY <1>1, <1>3, <3>1, <3>3, <3>4, <3>5 DEF WholeAt, FrameLength, HeaderLength
    <3>7. QED
      BY <3>1, <3>6 DEF from
  <2>2. CASE i \in m + 1 .. m + K
    <3>1. i - m \in 1 .. K /\ m + (i - m) = i
      BY <1>1, <1>3, <2>2
    <3>2. t[i] = new[i - m] /\ new[i - m].place = i - m
      BY <1>2, <1>3, <3>1
    <3>3. Start(t, i) = m + 1
      BY <1>1, <1>3, <2>2, <3>2 DEF Start
    <3>4. QED
      BY <1>1, <1>3, <1>6, <2>2, <3>3
  <2>3. QED
    BY <1>1, <1>3, <2>1, <2>2
<1>8. Clean(t, m + K)
  BY <1>7 DEF Clean
<1>9. ASSUME NEW o \in promised \cup {id}
      PROVE  \E i \in 1 .. m + K : t[i].frame = o
  <2>1. CASE o \in promised
    <3>1. PICK i \in 1 .. m : t[i].frame = o
      BY <1>4, <2>1 DEF Sound
    <3>2. QED
      BY <1>1, <1>3, <3>1
  <2>2. CASE o = id
    <3>1. m + 1 \in 1 .. m + K /\ 1 \in 1 .. K
      BY <1>1, <1>3
    <3>2. t[m + 1].frame = id
      BY <1>2, <1>3, <3>1
    <3>3. QED
      BY <2>2, <3>1, <3>2
  <2>3. QED
    BY <2>1, <2>2
<1>10. g < LengthAt(t, 1)
  <2>1. CASE m > 0
    BY <1>4, <2>1 DEF Sound
  <2>2. CASE m = 0
    <3>1. g = 0 /\ m + 1 = 1
      BY <2>2 DEF m
    <3>2. QED
      BY <1>5, <1>6, <1>1, <3>1
  <2>3. QED
    BY <1>3, <2>1, <2>2
<1>11. m + K \in 0 .. Len(t) /\ ~(m + K < Len(t))
  BY <1>1, <1>3, <1>5
<1>12. Sound(t, g, m + K, promised \cup {id}, FALSE)
  BY <1>8, <1>9, <1>10, <1>11 DEF Sound
<1>13. QED
  BY <1>12 DEF t, m, new

\* A frame nobody sent before keeps the bytes of each frame together.
LEMMA ContiguousInFront ==
  ASSUME NEW s \in Seq(WireBytes), Contiguous(s), NEW id \in Nat,
         \A i \in 1 .. Len(s) : s[i].frame < id,
         NEW f \in Frames, NEW k \in 1 .. Len(Encoded(f))
  PROVE  /\ Contiguous(s \o Marked(f, k, id))
         /\ \A i \in 1 .. Len(s \o Marked(f, k, id)) : (s \o Marked(f, k, id))[i].frame < id + 1
<1> DEFINE new == Marked(f, k, id)
           t == s \o new
           m == Len(s)
<1>1. /\ new \in Seq(WireBytes) /\ k \in Nat /\ Len(new) = k
      /\ \A i \in 1 .. k : new[i].frame = id /\ new[i].place = i
  BY MarkedIs
<1>2. /\ t \in Seq(WireBytes) /\ Len(t) = m + Len(new) /\ m \in Nat
      /\ \A i \in 1 .. m : t[i] = s[i]
      /\ \A i \in 1 .. Len(new) : t[m + i] = new[i]
  BY <1>1, BytesJoined
<1>3. \A i \in 1 .. m : s[i].frame \in Nat
  BY ByteIs DEF m
<1>4. \A i \in 1 .. m : s[i].frame < id
  BY DEF m
<1>5. \A i, j \in 1 .. m : i <= j /\ s[i].frame = s[j].frame => s[j].place = s[i].place + (j - i)
  BY DEF Contiguous, m
<1> HIDE DEF new, t, m
<1>6. ASSUME NEW i \in 1 .. Len(t), i > m
      PROVE  t[i].frame = id /\ t[i].place = i - m
  <2>1. i - m \in 1 .. k /\ m + (i - m) = i
    BY <1>1, <1>2, <1>6
  <2>2. QED
    BY <1>1, <1>2, <2>1
<1>7. ASSUME NEW i \in 1 .. Len(t), ~(i > m)
      PROVE  i \in 1 .. m /\ t[i] = s[i] /\ t[i].frame < id /\ t[i].frame \in Nat
  <2>1. i \in 1 .. m
    BY <1>1, <1>2, <1>7
  <2>2. QED
    BY <1>2, <1>3, <1>4, <2>1
<1>8. \A i \in 1 .. Len(t) : t[i].frame < id + 1
  BY <1>6, <1>7
<1>9. ASSUME NEW i \in 1 .. Len(t), NEW j \in 1 .. Len(t), i <= j, t[i].frame = t[j].frame
      PROVE  t[j].place = t[i].place + (j - i)
  <2>1. CASE i > m
    <3>1. j > m
      BY <1>1, <1>2, <1>9, <2>1
    <3>2. QED
      BY <1>1, <1>2, <1>6, <2>1, <3>1
  <2>2. CASE ~(i > m) /\ j > m
    BY <1>6, <1>7, <1>9, <2>2
  <2>3. CASE ~(i > m) /\ ~(j > m)
    <3>1. i \in 1 .. m /\ j \in 1 .. m /\ t[i] = s[i] /\ t[j] = s[j]
      BY <1>7, <2>3
    <3>2. QED
      BY <1>5, <1>9, <3>1
  <2>4. QED
    BY <2>1, <2>2, <2>3
<1>10. QED
  BY <1>8, <1>9 DEF Contiguous, t, new

-----------------------------------------------------------------------------
(* The invariant.                                                           *)

\* The pump takes a byte within Latency, so the host has not been quiet for
\* longer than that for each byte that was under way, and then for as long as the
\* parser has been waiting.
Paces ==
  /\ waited \in 0 .. Latency /\ quiet \in Nat /\ Len(wire) <= MaxWire
  /\ wire = <<>> => waited = 0
  /\ wire # <<>> => quiet + Latency * Len(wire) <= Latency * MaxWire + waited
  /\ wire = <<>> /\ parser.state # "SOF" /\ parser.age <= Interbyte
       => quiet <= Latency * MaxWire + parser.age

Tags == Contiguous(Stream) /\ \A i \in 1 .. Len(Stream) : Stream[i].frame < sent

InFront(k) ==
  /\ Sound(Stream, Len(Resynced(parser).got), k, owed, unsure)
  /\ k > 0 /\ Len(Resynced(parser).got) > 0 => parser.age <= waited

FramesInv ==
  BytesShaped /\ ParserExact(parser) /\ Paces /\ Tags /\ \E k \in Nat : InFront(k)

LEMMA Products ==
  ASSUME NEW n \in Nat
  PROVE  /\ Latency \in Nat /\ MaxWire \in Nat /\ Interbyte \in Nat /\ Latency <= Interbyte
         /\ Latency * n \in Nat
         /\ Latency * (n + 1) = Latency * n + Latency
         /\ n <= MaxWire => Latency * n <= Latency * MaxWire
<1>1. Latency \in Nat /\ MaxWire \in Nat /\ Interbyte \in Nat /\ Latency <= Interbyte
  BY LinkAssumption, FrameAssumption
<1>2. Latency * n \in Nat /\ Latency * (n + 1) = Latency * n + Latency
  BY <1>1
<1>3. ASSUME n <= MaxWire
      PROVE  Latency * n <= Latency * MaxWire
  BY <1>1, <1>3
<1>4. QED
  BY <1>1, <1>2, <1>3

\* After the recovery pause the parser waits for a frame and nothing is under way.
LEMMA Forgotten ==
  ASSUME BytesShaped, ParserExact(parser), Paces, quiet > Recovery
  PROVE  Len(Stream) = 0 /\ Resynced(parser).got = <<>>
<1> DEFINE all == Latency * MaxWire
           rest == Latency * Len(wire)
<1>1. wire \in Seq(WireBytes) /\ ParserShaped(parser) /\ Len(wire) \in Nat
  BY LenProperties DEF BytesShaped
<1>2. /\ Latency \in Nat /\ Interbyte \in Nat /\ Latency <= Interbyte /\ all \in Nat /\ rest \in Nat
  BY <1>1, Products
<1>3. quiet > Interbyte + all
  BY DEF Recovery
<1>4. wire # <<>> => quiet + rest <= all + waited
  BY DEF Paces
<1>5. waited \in 0 .. Latency /\ quiet \in Nat
  BY DEF Paces
<1> HIDE DEF all, rest
<1>6. wire = <<>>
  BY <1>2, <1>3, <1>4, <1>5
<1>7. ~(parser.state # "SOF" /\ parser.age <= Interbyte)
  <2>1. parser.state # "SOF" /\ parser.age <= Interbyte => quiet <= all + parser.age
    BY <1>6 DEF Paces, all
  <2>2. parser.age \in Nat
    BY <1>1 DEF ParserShaped
  <2>3. QED
    BY <1>2, <1>3, <1>5, <2>1, <2>2
<1>8. Resynced(parser).got = <<>>
  <2>1. CASE parser.state = "SOF"
    <3>1. Len(parser.got) = 0 /\ Resynced(parser) = parser
      BY <2>1 DEF ParserExact, Resynced, Expired
    <3>2. QED
      BY <1>1, <3>1, EmptySeq DEF ParserShaped
  <2>2. CASE parser.state # "SOF"
    <3>1. parser.age > Interbyte
      BY <1>1, <1>2, <1>7, <2>2 DEF ParserShaped
    <3>2. QED
      BY <2>2, <3>1, FreshShaped DEF Resynced, Expired
  <2>3. QED
    BY <2>1, <2>2
<1>9. Len(Stream) = Len(Resynced(parser).got) + Len(wire)
  BY <1>1, BehindShaped DEF Stream
<1>10. QED
  BY <1>6, <1>8, <1>9

LEMMA TagsBehind ==
  ASSUME NEW s \in Seq(WireBytes), NEW m, NEW t, Drops(s, t, m), Contiguous(s), NEW id,
         \A i \in 1 .. Len(s) : s[i].frame < id
  PROVE  Contiguous(t) /\ \A i \in 1 .. Len(t) : t[i].frame < id
<1>1. /\ Len(s) \in Nat /\ m \in 0 .. Len(s) /\ Len(t) = Len(s) - m
      /\ \A i \in 1 .. Len(s) - m : t[i] = s[i + m]
  BY LenProperties DEF Drops
<1>2. ASSUME NEW i \in 1 .. Len(t)
      PROVE  t[i].frame < id
  <2>1. i + m \in 1 .. Len(s) /\ t[i] = s[i + m]
    BY <1>1
  <2>2. QED
    BY <2>1
<1>3. QED
  BY <1>2, ContiguousBehind

LEMMA PumpPaces ==
  ASSUME BytesShaped, ParserExact(parser), Paces, PumpByte
  PROVE  ParserExact(parser') /\ parser'.age = 0 /\ waited' = 0 /\ Paces'
<1>1. /\ wire \in Seq(WireBytes) /\ ParserShaped(parser) /\ wire # <<>>
      /\ wire' = Tail(wire) /\ waited' = 0 /\ parser' = Fed(parser, Head(wire)) /\ quiet' = quiet
  BY DEF BytesShaped, PumpByte
<1>2. /\ Head(wire) \in WireBytes /\ Tail(wire) \in Seq(WireBytes)
      /\ Len(Tail(wire)) \in Nat /\ Len(wire) = Len(Tail(wire)) + 1
  BY <1>1, HeadTailProperties, LenProperties
<1>3. ParserExact(parser') /\ parser'.age = 0
  BY <1>1, <1>2, FedBy
<1> DEFINE all == Latency * MaxWire
           rest == Latency * Len(wire')
<1>4. /\ Latency \in Nat /\ all \in Nat /\ rest \in Nat /\ Latency * Len(wire) = rest + Latency
  <2>1. Latency * (Len(Tail(wire)) + 1) = Latency * Len(Tail(wire)) + Latency
    BY <1>2, Products
  <2>2. MaxWire \in Nat
    BY <1>2, Products
  <2>3. QED
    BY <1>1, <1>2, <2>1, <2>2, Products
<1>5. /\ waited \in 0 .. Latency /\ quiet \in Nat /\ Len(wire) <= MaxWire
      /\ quiet + Latency * Len(wire) <= all + waited
  BY <1>1 DEF Paces
<1>6. MaxWire \in Nat
  BY <1>2, Products
<1> HIDE DEF all, rest
<1>7. quiet + rest <= all
  BY <1>4, <1>5
<1>8. Paces'
  <2>1. /\ waited' \in 0 .. Latency /\ quiet' \in Nat /\ Len(wire') <= MaxWire /\ waited' = 0
    BY <1>1, <1>2, <1>4, <1>5, <1>6
  <2>2. quiet' + rest <= all + waited' /\ quiet' <= all + parser'.age
    BY <1>1, <1>3, <1>4, <1>5, <1>7
  <2>3. QED
    BY <2>1, <2>2 DEF Paces, all, rest
<1>9. QED
  BY <1>1, <1>3, <1>8

\* A byte is read: it is collected, or it ends the first frame, or nothing is owed.
LEMMA PumpFrames ==
  ASSUME FramesInv, BytesShaped', PumpByte
  PROVE  FramesInv'
<1> DEFINE s == Stream
           t == Stream'
           g == Len(Resynced(parser).got)
           h == Len(Resynced(parser').got)
           L == LengthAt(s, 1)
<1>1. BytesShaped /\ ParserExact(parser) /\ Paces /\ Tags
  BY DEF FramesInv
<1>2. ParserExact(parser') /\ parser'.age = 0 /\ waited' = 0 /\ Paces'
  BY <1>1, PumpPaces
<1>3. /\ wire \in Seq(WireBytes) /\ ParserShaped(parser) /\ wire # <<>>
      /\ wire' = Tail(wire) /\ parser' = Fed(parser, Head(wire))
      /\ unsure' = unsure /\ sent' = sent
  BY <1>1 DEF BytesShaped, PumpByte
<1>4. s = Behind(parser, wire) /\ t = Behind(Fed(parser, Head(wire)), Tail(wire))
  BY <1>3 DEF Stream
<1>5. s \in Seq(WireBytes) /\ g \in Nat /\ Len(s) \in Nat
  BY <1>3, <1>4, BehindShaped, LenProperties
<1>6. \/ t = s /\ h = g + 1
      \/ Drops(s, t, g + 1) /\ h = 0
  <2>1. Len(<<>>) = 0
    OBVIOUS
  <2>2. QED
    BY <1>1, <1>3, <1>4, <2>1, FeedMoves
<1>7. t \in Seq(WireBytes) /\ Len(t) <= Len(s)
  <2> HIDE DEF s, t, g, h
  <2>1. CASE t = s
    BY <1>5, <2>1
  <2>2. CASE Drops(s, t, g + 1)
    BY <1>5, <2>2 DEF Drops
  <2>3. QED
    BY <1>6, <2>1, <2>2
<1>8. Tags'
  <2>1. Contiguous(s) /\ \A i \in 1 .. Len(s) : s[i].frame < sent
    BY <1>1 DEF Tags
  <2>2. Contiguous(t) /\ \A i \in 1 .. Len(t) : t[i].frame < sent
    BY <1>5, <1>6, <2>1, TagsBehind
  <2>3. QED
    BY <1>3, <2>2 DEF Tags
<1>9. owed' \subseteq owed
  BY DEF PumpByte, Dispatch
<1>10. PICK k \in Nat : InFront(k)
  BY DEF FramesInv
<1>11. Sound(s, g, k, owed, unsure) /\ k \in 0 .. Len(s) /\ Clean(s, k)
  BY <1>10 DEF InFront, Sound
<1> SUFFICES \E j \in Nat : Sound(t, h, j, owed', unsure')
  <2>1. parser'.age <= waited'
    BY <1>2
  <2>2. QED
    BY <1>2, <1>8, <2>1 DEF FramesInv, InFront
<1> HIDE DEF s, t, g, h
<1>12. CASE k = 0
  <2>1. Sound(t, h, 0, owed', unsure)
    BY <1>5, <1>7, <1>9, <1>11, <1>12, SoundNothing
  <2>2. QED
    BY <1>3, <2>1
<1>13. CASE k > 0
  <2>1. k \in 1 .. Len(s) /\ g < L
    BY <1>5, <1>11, <1>13 DEF Sound
  <2>2. \/ t = s /\ h < L
        \/ /\ Drops(s, t, L) /\ h = 0
           /\ FrameReady(parser, Head(wire))
           /\ Append(Resynced(parser).got, Head(wire))[1].frame = s[1].frame
    <3>1. Len(<<>>) = 0
      OBVIOUS
    <3>2. QED
      BY <1>1, <1>3, <1>4, <1>11, <2>1, <3>1, FirstIsReady DEF FramesInv, s, t, g, h
  <2>3. CASE t = s /\ h < L
    <3>1. Sound(t, h, k, owed', unsure)
      BY <1>9, <1>11, <2>3 DEF Sound
    <3>2. QED
      BY <1>3, <3>1
  <2>4. CASE /\ Drops(s, t, L) /\ h = 0
             /\ FrameReady(parser, Head(wire))
             /\ Append(Resynced(parser).got, Head(wire))[1].frame = s[1].frame
    <3>1. owed' = owed \ {s[1].frame}
      BY <2>4 DEF PumpByte, Dispatch
    <3>2. Sound(t, 0, k - L, owed', unsure)
      BY <1>5, <1>11, <1>13, <2>4, <3>1, SoundBehindFirst
    <3>3. k - L \in Nat
      <4>1. L \in Nat /\ L <= k
        BY <1>5, <1>11, <2>1, FirstFrame
      <4>2. QED
        BY <4>1
    <3>4. QED
      BY <1>3, <2>4, <3>2, <3>3
  <2>5. QED
    BY <2>2, <2>3, <2>4
<1>14. QED
  BY <1>12, <1>13

LEMMA ElapsePaces ==
  ASSUME BytesShaped, Paces, Elapse
  PROVE  Paces'
<1> DEFINE all == Latency * MaxWire
           rest == Latency * Len(wire)
<1>1. wire \in Seq(WireBytes) /\ ParserShaped(parser) /\ Len(wire) \in Nat
  BY LenProperties DEF BytesShaped
<1>2. Latency \in Nat /\ Interbyte \in Nat /\ all \in Nat /\ rest \in Nat /\ Recovery = Interbyte + all
  BY <1>1, Products DEF Recovery
<1>3. /\ waited \in 0 .. Latency /\ quiet \in Nat /\ Len(wire) <= MaxWire
      /\ wire = <<>> => waited = 0
      /\ wire # <<>> => quiet + rest <= all + waited
      /\ wire = <<>> /\ parser.state # "SOF" /\ parser.age <= Interbyte => quiet <= all + parser.age
  BY DEF Paces
<1>4. /\ wire' = wire /\ (wire # <<>> => waited < Latency)
      /\ waited' = IF wire = <<>> THEN 0 ELSE waited + 1
      /\ quiet' = LowerOf(quiet + 1, Recovery + 1)
      /\ parser' = [parser EXCEPT !.age = IF parser.state = "SOF" THEN 0
                                          ELSE LowerOf(@ + 1, Interbyte + 1)]
  BY DEF Elapse
<1>5. parser.age \in Nat /\ DOMAIN parser = {"state", "len", "got", "age"}
  BY <1>1 DEF ParserShaped
<1>6. /\ parser'.state = parser.state
      /\ parser'.age = IF parser.state = "SOF" THEN 0 ELSE LowerOf(parser.age + 1, Interbyte + 1)
  BY <1>4, <1>5
<1> HIDE DEF all, rest
<1>7. quiet' \in Nat /\ quiet' <= quiet + 1
  BY <1>2, <1>3, <1>4 DEF LowerOf
<1>8. wire = <<>> /\ parser.state # "SOF" /\ parser'.age <= Interbyte => quiet' <= all + parser'.age
  BY <1>2, <1>3, <1>5, <1>6, <1>7 DEF LowerOf
<1>9. wire # <<>> => quiet' + rest <= all + waited'
  BY <1>2, <1>3, <1>4, <1>7
<1>10. waited' \in 0 .. Latency /\ (wire = <<>> => waited' = 0)
  BY <1>2, <1>3, <1>4
<1>11. QED
  BY <1>3, <1>4, <1>6, <1>7, <1>8, <1>9, <1>10 DEF Paces, all, rest

\* Time passes: the parser does not forget what is in front of it and owed.
LEMMA ElapseFrames ==
  ASSUME FramesInv, BytesShaped', Elapse
  PROVE  FramesInv'
<1> DEFINE s == Stream
           t == Stream'
           g == Len(Resynced(parser).got)
           h == Len(Resynced(parser').got)
<1>1. BytesShaped /\ ParserExact(parser) /\ Paces /\ Tags
  BY DEF FramesInv
<1>2. Paces'
  BY <1>1, ElapsePaces
<1>3. /\ wire \in Seq(WireBytes) /\ ParserShaped(parser) /\ ParserShaped(parser')
      /\ wire' = wire /\ unsure' = unsure /\ sent' = sent /\ owed' = owed
      /\ (wire # <<>> => waited < Latency)
      /\ waited' = IF wire = <<>> THEN 0 ELSE waited + 1
      /\ parser' = [parser EXCEPT !.age = IF parser.state = "SOF" THEN 0
                                          ELSE LowerOf(@ + 1, Interbyte + 1)]
  BY <1>1 DEF BytesShaped, Elapse
<1>4. parser.age \in Nat /\ DOMAIN parser = {"state", "len", "got", "age"} /\ Interbyte \in Nat
  BY <1>3, FrameAssumption DEF ParserShaped
<1>5. /\ parser'.state = parser.state /\ parser'.got = parser.got /\ parser'.len = parser.len
      /\ parser'.age = IF parser.state = "SOF" THEN 0 ELSE LowerOf(parser.age + 1, Interbyte + 1)
  BY <1>3, <1>4
<1>6. ParserExact(parser')
  BY <1>1, <1>5 DEF ParserExact
<1>7. s = Behind(parser, wire) /\ t = Behind(parser', wire)
  BY <1>3 DEF Stream
<1>8. /\ s \in Seq(WireBytes) /\ g \in Nat /\ Len(s) = g + Len(wire) /\ Len(wire) \in Nat
  BY <1>3, <1>7, BehindShaped
<1>9. \/ Resynced(parser').got = Resynced(parser).got /\ t = s /\ h = g
      \/ Resynced(parser').got = <<>> /\ Drops(s, t, g) /\ h = 0
  <2>1. CASE parser.age <= Interbyte + 1
    <3>1. parser'.age >= parser.age \/ parser.state = "SOF"
      BY <1>4, <1>5, <2>1 DEF LowerOf
    <3>2. Len(<<>>) = 0
      OBVIOUS
    <3>3. \/ /\ Resynced(parser').got = Resynced(parser).got
             /\ Behind(parser', wire) = Behind(parser, wire)
          \/ /\ Resynced(parser').got = <<>>
             /\ Drops(Behind(parser, wire), Behind(parser', wire), Len(Resynced(parser).got))
      <4>1. parser'.got = parser.got /\ parser'.state = parser.state
        BY <1>5
      <4>2. wire \in Seq(WireBytes) /\ ParserShaped(parser) /\ ParserShaped(parser')
        BY <1>3
      <4>3. QED
        BY <3>1, <4>1, <4>2, PauseMoves
    <3>4. QED
      BY <1>7, <3>2, <3>3
  <2>2. CASE ~(parser.age <= Interbyte + 1)
    <3>1. Resynced(parser').got = Resynced(parser).got
      BY <1>4, <1>5, <2>2, FreshShaped DEF Resynced, Expired, LowerOf
    <3>2. QED
      BY <1>7, <3>1 DEF Behind
  <2>3. QED
    BY <2>1, <2>2
<1>10. t \in Seq(WireBytes) /\ Len(t) <= Len(s)
  BY <1>8, <1>9 DEF Drops
<1>11. Tags'
  <2>1. Contiguous(s) /\ \A i \in 1 .. Len(s) : s[i].frame < sent
    BY <1>1 DEF Tags
  <2>2. Contiguous(t) /\ \A i \in 1 .. Len(t) : t[i].frame < sent
    BY <1>8, <1>9, <2>1, TagsBehind
  <2>3. QED
    BY <1>3, <2>2 DEF Tags
<1>12. PICK k \in Nat : InFront(k)
  BY DEF FramesInv
<1>13. Sound(s, g, k, owed, unsure) /\ k \in 0 .. Len(s) /\ Clean(s, k)
  BY <1>12 DEF InFront, Sound
<1> SUFFICES \E j \in Nat : InFront(j)'
  BY <1>2, <1>6, <1>11 DEF FramesInv
<1>14. CASE k = 0
  <2> HIDE DEF s, t, g, h
  <2>1. Sound(t, h, 0, owed, unsure)
    BY <1>8, <1>10, <1>13, <1>14, SoundNothing
  <2>2. QED
    BY <1>3, <2>1 DEF InFront, t, h
<1>15. CASE k > 0
  <2>1. k \in 1 .. Len(s) /\ g < LengthAt(s, 1)
    BY <1>8, <1>13, <1>15 DEF Sound
  <2>2. LengthAt(s, 1) <= k
    BY <1>8, <1>13, <2>1, FirstFrame
  <2>3. wire # <<>>
    <3>1. Announced(s, 1) \in Nat /\ LengthAt(s, 1) = Announced(s, 1) + 6
      BY <1>8, <1>13, <2>1, FirstFrame
    <3>2. Len(wire) # 0
      BY <1>8, <2>1, <2>2, <3>1
    <3>3. QED
      BY <3>2
  <2>4. /\ waited \in Nat /\ waited < Latency /\ waited' = waited + 1
        /\ Latency \in Nat /\ Latency <= Interbyte
    BY <1>1, <1>3, <2>3, LinkAssumption DEF Paces
  <2>5. g > 0 => parser.age <= waited
    BY <1>12, <1>15 DEF InFront
  <2>6. t = s /\ h = g /\ (g > 0 => parser'.age <= waited')
    <3>1. CASE g = 0
      <4>1. Resynced(parser).got = <<>>
        BY <1>3, <3>1, BehindShaped, EmptySeq
      <4>2. Resynced(parser').got = Resynced(parser).got
        BY <1>9, <4>1
      <4>3. QED
        BY <1>7, <3>1, <4>2 DEF Behind
    <3>2. CASE g > 0
      <4>1. parser.age <= waited
        BY <2>5, <3>2
      <4>2. parser'.age <= waited + 1 /\ parser'.age <= Interbyte
        BY <1>4, <1>5, <2>4, <4>1 DEF LowerOf
      <4>3. Resynced(parser') = parser' /\ Resynced(parser) = parser
        BY <1>4, <2>4, <4>1, <4>2, <1>5 DEF Resynced, Expired, LowerOf
      <4>4. Resynced(parser').got = Resynced(parser).got
        BY <1>5, <4>3
      <4>5. QED
        BY <1>7, <2>4, <4>2, <4>4 DEF Behind
    <3>3. QED
      BY <1>8, <3>1, <3>2
  <2>7. QED
    BY <1>3, <1>13, <2>6 DEF InFront
<1>16. QED
  BY <1>14, <1>15

LEMMA SendPaces ==
  ASSUME BytesShaped, Paces, HostSend
  PROVE  Paces'
<1>1. PICK f \in Frames : \E k \in 1 .. Len(Encoded(f)) :
        /\ Len(wire) + k <= MaxWire
        /\ wire' = wire \o Marked(f, k, sent)
  BY DEF HostSend, Marked
<1>2. PICK k \in 1 .. Len(Encoded(f)) : Len(wire) + k <= MaxWire /\ wire' = wire \o Marked(f, k, sent)
  BY <1>1
<1>3. sent \in Nat /\ wire \in Seq(WireBytes)
  BY DEF BytesShaped
<1>4. Marked(f, k, sent) \in Seq(WireBytes) /\ k \in Nat /\ Len(Marked(f, k, sent)) = k
  BY <1>3, MarkedIs
<1>5. wire' \in Seq(WireBytes) /\ Len(wire') = Len(wire) + k /\ Len(wire) \in Nat
  BY <1>2, <1>3, <1>4, BytesJoined
<1>6. k >= 1
  BY <1>4
<1>7. Len(wire') \in Nat /\ Len(wire') >= 1 /\ Len(wire') <= MaxWire /\ wire' # <<>>
  <2>1. Len(wire') \in Nat /\ Len(wire') >= 1 /\ Len(wire') <= MaxWire
    BY <1>2, <1>4, <1>5, <1>6
  <2>2. Len(<<>>) = 0
    OBVIOUS
  <2>3. QED
    BY <2>1, <2>2
<1>8. waited' = waited /\ parser' = parser /\ quiet' = 0
  BY DEF HostSend
<1> DEFINE all == Latency * MaxWire
           rest == Latency * Len(wire')
<1>9. rest \in Nat /\ all \in Nat /\ rest <= all
  <2>1. MaxWire \in Nat
    BY <1>7, Products
  <2>2. QED
    BY <1>7, <2>1, Products
<1>10. waited \in 0 .. Latency /\ Latency \in Nat
  BY <1>7, Products DEF Paces
<1> HIDE DEF all, rest
<1>11. quiet' + rest <= all + waited' /\ waited' \in 0 .. Latency /\ quiet' \in Nat
  BY <1>8, <1>9, <1>10
<1>12. QED
  BY <1>7, <1>11 DEF Paces, all, rest

\* A request is put behind the stream: it is owed if nothing doubtful is before it.
LEMMA SendFrames ==
  ASSUME FramesInv, BytesShaped', HostSend
  PROVE  FramesInv'
<1> DEFINE s == Stream
           t == Stream'
           g == Len(Resynced(parser).got)
<1>1. BytesShaped /\ ParserExact(parser) /\ Paces /\ Tags
  BY DEF FramesInv
<1>2. Paces'
  BY <1>1, SendPaces
<1>3. PICK f \in Frames : \E k \in 1 .. Len(Encoded(f)) :
        LET whole  == k = Len(Encoded(f))
            inStep == ~unsure \/ quiet > Recovery
        IN  /\ wire' = wire \o Marked(f, k, sent)
            /\ unsure' = ~(whole /\ inStep)
            /\ owed' = IF whole /\ inStep THEN owed \cup {sent} ELSE owed
  BY DEF HostSend, Marked
<1>4. PICK n \in 1 .. Len(Encoded(f)) :
        LET whole  == n = Len(Encoded(f))
            inStep == ~unsure \/ quiet > Recovery
        IN  /\ wire' = wire \o Marked(f, n, sent)
            /\ unsure' = ~(whole /\ inStep)
            /\ owed' = IF whole /\ inStep THEN owed \cup {sent} ELSE owed
  BY <1>3
<1> DEFINE new == Marked(f, n, sent)
<1>5. /\ sent \in Nat /\ wire \in Seq(WireBytes) /\ ParserShaped(parser)
      /\ parser' = parser /\ sent' = sent + 1 /\ waited' = waited
  BY <1>1 DEF BytesShaped, HostSend
<1>6. new \in Seq(WireBytes)
  BY <1>5, MarkedIs
<1>7. s = Behind(parser, wire) /\ Resynced(parser).got \in Seq(WireBytes)
  BY <1>5, BehindShaped DEF Stream
<1>8. t = s \o new
  <2>1. s = Resynced(parser).got \o wire /\ t = Resynced(parser).got \o (wire \o new)
    BY <1>4, <1>5 DEF Stream, Behind
  <2>2. (Resynced(parser).got \o wire) \o new = Resynced(parser).got \o (wire \o new)
    BY <1>5, <1>6, <1>7, BytesGrouped
  <2>3. QED
    BY <2>1, <2>2
<1>9. s \in Seq(WireBytes) /\ g \in Nat /\ Len(s) \in Nat /\ g <= Len(s)
  BY <1>5, <1>7, BehindShaped, LenProperties
<1>10. Tags'
  <2>1. Contiguous(s) /\ \A i \in 1 .. Len(s) : s[i].frame < sent
    BY <1>1 DEF Tags
  <2>2. Contiguous(t) /\ \A i \in 1 .. Len(t) : t[i].frame < sent + 1
    BY <1>5, <1>8, <1>9, <2>1, ContiguousInFront
  <2>3. QED
    BY <1>5, <2>2 DEF Tags
<1>11. PICK k \in Nat : InFront(k)
  BY DEF FramesInv
<1>12. Sound(s, g, k, owed, unsure) /\ (k > 0 /\ g > 0 => parser.age <= waited)
  BY <1>11 DEF InFront
<1> SUFFICES \E j \in Nat : InFront(j)'
  BY <1>1, <1>2, <1>5, <1>10 DEF FramesInv
<1>13. CASE n = Len(Encoded(f)) /\ (~unsure \/ quiet > Recovery)
  <2>1. owed' = owed \cup {sent} /\ unsure' = FALSE
    BY <1>4, <1>13
  <2>2. /\ Sound(s, g, Len(s), owed, unsure)
        /\ g > 0 => parser.age <= waited
    <3>1. CASE ~unsure
      <4>1. k = Len(s)
        BY <1>9, <1>12, <3>1 DEF Sound
      <4>2. QED
        BY <1>9, <1>12, <4>1
    <3>2. CASE quiet > Recovery
      <4>1. Len(s) = 0 /\ g = 0
        <5>1. Len(Stream) = 0 /\ Resynced(parser).got = <<>>
          BY <1>1, <3>2, Forgotten
        <5>2. Len(<<>>) = 0
          OBVIOUS
        <5>3. QED
          BY <5>1, <5>2
      <4>2. k = 0
        BY <1>12, <4>1 DEF Sound
      <4>3. QED
        BY <1>12, <4>1, <4>2
    <3>3. QED
      BY <1>13, <3>1, <3>2
  <2>3. Sound(s \o new, g, Len(s) + n, owed \cup {sent}, FALSE)
    BY <1>5, <1>9, <1>13, <2>2, SoundBehindAll
  <2>4. PICK j \in Nat : j = Len(s) + n
    BY <1>5, <1>9, MarkedIs
  <2>5. InFront(j)'
    <3>1. Sound(t, g, j, owed', unsure')
      BY <1>8, <2>1, <2>3, <2>4
    <3>2. g > 0 => parser'.age <= waited'
      BY <1>5, <2>2
    <3> HIDE DEF s, new
    <3>3. QED
      BY <1>5, <3>1, <3>2 DEF InFront
  <2>6. QED
    BY <2>5
<1>14. CASE ~(n = Len(Encoded(f)) /\ (~unsure \/ quiet > Recovery))
  <2>1. owed' = owed /\ unsure' = TRUE
    BY <1>4, <1>14
  <2>2. Sound(t, g, k, owed', unsure')
    BY <1>6, <1>8, <1>9, <1>12, <2>1, SoundInFront
  <2>3. InFront(k)'
    <3> HIDE DEF s, t, new
    <3>1. QED
      BY <1>5, <1>12, <2>2 DEF InFront, t
  <2>4. QED
    BY <2>3
<1>15. QED
  BY <1>13, <1>14

LEMMA FramesKept ==
  ASSUME FramesInv, UNCHANGED <<wire, parser, waited, quiet, unsure, sent, owed>>
  PROVE  FramesInv'
<1>1. Stream' = Stream
  BY DEF Stream
<1>2. Paces' /\ Tags'
  BY <1>1 DEF FramesInv, Paces, Tags
<1>3. PICK k \in Nat : InFront(k)
  BY DEF FramesInv
<1>4. InFront(k)'
  BY <1>1, <1>3 DEF InFront
<1>5. QED
  BY <1>2, <1>4 DEF FramesInv, BytesShaped

LEMMA InitFrames == LinkInit => FramesInv
<1> SUFFICES ASSUME LinkInit
             PROVE  FramesInv
  OBVIOUS
<1>1. BytesShaped
  BY InitAnswers DEF AnswersInv
<1>2. /\ wire = <<>> /\ parser = ParserFresh /\ waited = 0 /\ quiet = 0 /\ owed = {}
  BY DEF LinkInit
<1>3. Paces
  <2>1. 0 \in Nat /\ Len(<<>>) = 0
    OBVIOUS
  <2>2. Latency \in Nat /\ MaxWire \in Nat
    BY <2>1, Products
  <2>3. QED
    BY <1>2, <2>1, <2>2, FreshShaped DEF Paces
<1>4. Resynced(parser).got = <<>> /\ ParserExact(parser)
  BY <1>2, FreshShaped, FreshExact DEF Resynced
<1>5. <<>> \in Seq(WireBytes) /\ Len(<<>>) = 0
  OBVIOUS
<1>6. Stream = <<>>
  BY <1>2, <1>4, <1>5, ConcatEmptySeq DEF Stream, Behind
<1>7. Tags
  BY <1>5, <1>6 DEF Tags, Contiguous
<1>8. InFront(0)
  BY <1>2, <1>4, <1>5, <1>6, CleanNothing DEF InFront, Sound
<1>9. QED
  BY <1>1, <1>3, <1>4, <1>7, <1>8 DEF FramesInv

LEMMA NextFrames == FramesInv /\ [LinkNext]_linkvars => FramesInv'
<1> SUFFICES ASSUME FramesInv, [LinkNext]_linkvars
             PROVE  FramesInv'
  OBVIOUS
<1>1. BytesShaped'
  BY NextBytes DEF FramesInv
<1>2. CASE PumpByte
  BY <1>1, <1>2, PumpFrames
<1>3. CASE PushResult
  BY <1>3, FramesKept DEF PushResult
<1>4. CASE HostSend
  BY <1>1, <1>4, SendFrames
<1>5. CASE HostRead
  BY <1>5, FramesKept DEF HostRead
<1>6. CASE Elapse
  BY <1>1, <1>6, ElapseFrames
<1>7. CASE UNCHANGED linkvars
  BY <1>7, FramesKept DEF linkvars
<1>8. QED
  BY <1>2, <1>3, <1>4, <1>5, <1>6, <1>7 DEF LinkNext

\* What is owed lies whole in the stream, and none of it was read unless all of
\* what was read belongs to it.
LEMMA OwedLies == FramesInv => FramesDispatched
<1> SUFFICES ASSUME FramesInv, NEW f \in owed
             PROVE  \E i \in DOMAIN Stream :
                      /\ LiesAt(Stream, i, f)
                      /\ i = 1 \/ i > Len(Resynced(parser).got)
  BY DEF FramesDispatched, Stream, Behind
<1> DEFINE s == Stream
           g == Len(Resynced(parser).got)
<1>1. wire \in Seq(WireBytes) /\ ParserShaped(parser)
  BY DEF FramesInv, BytesShaped
<1>2. s \in Seq(WireBytes) /\ g \in Nat /\ Len(s) \in Nat /\ DOMAIN s = 1 .. Len(s)
  BY <1>1, BehindShaped, LenProperties DEF Stream
<1>3. Contiguous(s)
  BY DEF FramesInv, Tags
<1>4. PICK k \in Nat : Sound(s, g, k, owed, unsure)
  BY DEF FramesInv, InFront
<1> HIDE DEF s, g
<1>5. k \in 0 .. Len(s) /\ Clean(s, k)
  BY <1>4 DEF Sound
<1>6. PICK j \in 1 .. k : s[j].frame = f
  BY <1>4 DEF Sound
<1> DEFINE from == Start(s, j)
<1>7. from >= 1 /\ WholeAt(s, from, k) /\ j <= from + LengthAt(s, from) - 1
  BY <1>5 DEF Clean
<1>8. k \in 1 .. Len(s) /\ j \in 1 .. Len(s)
  BY <1>2, <1>5
<1>9. s[j].place \in Nat \ {0}
  BY <1>2, <1>8, ByteIs
<1>10. from \in Nat \ {0} /\ from <= j
  BY <1>7, <1>8, <1>9 DEF Start
<1> HIDE DEF from
<1>11. from \in 1 .. Len(s) /\ j \in from .. from + LengthAt(s, from) - 1
       /\ from \in from .. from + LengthAt(s, from) - 1
  <2>1. from + 5 <= k
    BY <1>7, <1>10 DEF WholeAt, FrameLength, HeaderLength
  <2>2. Announced(s, from) \in Nat /\ LengthAt(s, from) = Announced(s, from) + 6
    BY <1>2, <1>8, <1>10, <2>1, AnnouncedIsNat
  <2>3. QED
    BY <1>7, <1>8, <1>10, <2>1, <2>2
<1>12. s[from].frame = f /\ s[from].place = 1
  <2>1. s[j].frame = s[from].frame /\ s[from].place = from - from + 1
    BY <1>7, <1>11 DEF WholeAt
  <2>2. QED
    BY <1>6, <1>10, <2>1
<1>13. ASSUME NEW i \in from .. Len(s), s[i].frame = f
       PROVE  s[i].place = i - from + 1
  <2>1. i \in 1 .. Len(s) /\ from <= i
    BY <1>2, <1>10
  <2>2. s[i].place = s[from].place + (i - from)
    BY <1>3, <1>11, <1>12, <1>13, <2>1 DEF Contiguous
  <2>3. QED
    BY <1>10, <1>12, <2>1, <2>2
<1>14. from = 1 \/ from > g
  <2>1. SUFFICES ASSUME from <= g
                 PROVE  from = 1
    BY <1>2, <1>10
  <2>2. WholeAt(s, 1, k) /\ LengthAt(s, 1) \in Nat
    BY <1>2, <1>5, <1>8, FirstFrame
  <2>3. g < LengthAt(s, 1)
    BY <1>4, <1>8 DEF Sound
  <2>4. from \in 1 .. 1 + LengthAt(s, 1) - 1
    BY <1>2, <1>10, <2>1, <2>2, <2>3
  <2>5. s[from].place = from - 1 + 1
    BY <2>2, <2>4 DEF WholeAt
  <2>6. QED
    BY <1>10, <1>12, <2>5
<1>15. QED
  BY <1>2, <1>11, <1>12, <1>13, <1>14 DEF LiesAt, s, g

\* frame_proto_feed under pump_emfi_cdc and pump_crowbar_cdc: whatever the timeout,
\* the requests and the bytes of the cut ones, a frame sent in step with the parser
\* is under way as a whole, or it is what the parser has collected, until it is
\* dispatched.
THEOREM FramesAreDispatched == LinkSpec => []FramesDispatched
<1>1. QED
  BY InitFrames, NextFrames, OwedLies, PTL DEF LinkSpec
=============================================================================
