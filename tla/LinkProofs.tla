------------------------------ MODULE LinkProofs ------------------------------
(***************************************************************************)
(* Proofs about a binary port, for every timeout, every set of requests    *)
(* and every size of the buffers that meets the assumptions.               *)
(***************************************************************************)
EXTENDS LinkSafety, SequenceTheorems, TLAPS

WireBytes == [frame : Nat, place : Nat \ {0}, val : Bytes]

\* What each state of the parser has collected at least.
Collected ==
  [SOF |-> 0, CMD |-> 1, LEN_LO |-> 2, LEN_HI |-> 3, PAYLOAD |-> 4, CRC_LO |-> 4, CRC_HI |-> 5]

ParserShaped(p) ==
  /\ DOMAIN p = {"state", "len", "got", "age"}
  /\ p.state \in ParserStates
  /\ p.len \in Nat /\ p.age \in Nat
  /\ p.got \in Seq(WireBytes)
  /\ Len(p.got) >= Collected[p.state]

BytesShaped ==
  /\ wire \in Seq(WireBytes)
  /\ ParserShaped(parser)
  /\ sent \in Nat

\* The transmit buffer is empty when it says so.
AnswersShaped ==
  /\ ring \in Seq(Nat) /\ pushed \in Nat
  /\ DOMAIN tx = {"bytes", "results", "answers"}
  /\ tx.bytes \in 0 .. TxSize /\ tx.results \in Seq(Nat) /\ tx.answers \in Nat
  /\ tx.bytes = 0 => tx.results = <<>> /\ tx.answers = 0
  /\ DOMAIN told = {"asked", "answers", "results"}
  /\ told.asked \in Nat /\ told.answers \in Nat /\ told.results \in Seq(Nat)

AnswersInv == BytesShaped /\ AnswersShaped /\ AnswersArrive

-----------------------------------------------------------------------------
(* The parser.                                                              *)

LEMMA BytesAreNat == Bytes \subseteq Nat /\ Sof \in Bytes /\ Base \in Nat
  BY FrameAssumption DEF Bytes

LEMMA CollectedIs ==
  /\ Collected["SOF"] = 0 /\ Collected["CMD"] = 1 /\ Collected["LEN_LO"] = 2
  /\ Collected["LEN_HI"] = 3 /\ Collected["PAYLOAD"] = 4 /\ Collected["CRC_LO"] = 4
  /\ Collected["CRC_HI"] = 5
  BY DEF Collected

LEMMA FreshShaped == ParserShaped(ParserFresh) /\ ParserFresh.state = "SOF" /\ ParserFresh.got = <<>>
<1>1. /\ DOMAIN ParserFresh = {"state", "len", "got", "age"}
      /\ ParserFresh.state = "SOF" /\ ParserFresh.len = 0 /\ ParserFresh.age = 0
      /\ ParserFresh.got = <<>>
  BY DEF ParserFresh
<1>2. <<>> \in Seq(WireBytes) /\ Len(<<>>) = 0
  OBVIOUS
<1>3. QED
  BY <1>1, <1>2, CollectedIs DEF ParserShaped, ParserStates

LEMMA ResyncedShaped ==
  ASSUME NEW p, ParserShaped(p)
  PROVE  ParserShaped(Resynced(p))
  BY FreshShaped DEF Resynced

LEMMA FedShaped ==
  ASSUME NEW p, ParserShaped(p), NEW b \in WireBytes
  PROVE  ParserShaped(Fed(p, b))
<1> DEFINE q == Resynced(p)
           took == [q EXCEPT !.got = Append(@, b), !.age = 0]
           len == q.len + Base * b.val
<1>1. ParserShaped(q)
  BY ResyncedShaped
<1>2. b.val \in Nat /\ len \in Nat
  <2>1. b.val \in Nat /\ Base \in Nat
    BY BytesAreNat DEF WireBytes
  <2>2. q.len \in Nat
    BY <1>1 DEF ParserShaped
  <2>3. Base * b.val \in Nat
    BY <2>1
  <2>4. QED
    BY <2>1, <2>2, <2>3
<1> HIDE DEF q
<1>3. /\ DOMAIN took = {"state", "len", "got", "age"}
      /\ took.state = q.state /\ took.len = q.len /\ took.age = 0 /\ took.got = Append(q.got, b)
  BY <1>1 DEF ParserShaped
<1>4. /\ Append(q.got, b) \in Seq(WireBytes)
      /\ Len(Append(q.got, b)) = Len(q.got) + 1 /\ Len(q.got) \in Nat
  BY <1>1, AppendProperties, LenProperties DEF ParserShaped
<1>5. /\ q.state \in ParserStates /\ q.len \in Nat /\ Len(q.got) >= Collected[q.state]
  BY <1>1 DEF ParserShaped
<1> HIDE DEF took, len
<1>6. ASSUME NEW s \in ParserStates, Collected[s] <= Len(q.got) + 1
      PROVE  ParserShaped([took EXCEPT !.state = s])
  <2> DEFINE r == [took EXCEPT !.state = s]
  <2>1. /\ DOMAIN r = {"state", "len", "got", "age"} /\ r.state = s /\ r.len = q.len
        /\ r.age = 0 /\ r.got = Append(q.got, b)
    BY <1>3
  <2> HIDE DEF r
  <2>2. ParserShaped(r)
    BY <1>4, <1>5, <1>6, <2>1 DEF ParserShaped
  <2>3. QED
    BY <2>2 DEF r
<1>7. ASSUME NEW s \in ParserStates, NEW l \in Nat, Collected[s] <= Len(q.got) + 1
      PROVE  /\ ParserShaped([took EXCEPT !.state = s, !.len = l])
             /\ ParserShaped([took EXCEPT !.len = l, !.state = s])
  <2> DEFINE r == [took EXCEPT !.state = s, !.len = l]
             t == [took EXCEPT !.len = l, !.state = s]
  <2>1. /\ DOMAIN r = {"state", "len", "got", "age"} /\ r.state = s /\ r.len = l
        /\ r.age = 0 /\ r.got = Append(q.got, b)
    BY <1>3
  <2>2. /\ DOMAIN t = {"state", "len", "got", "age"} /\ t.state = s /\ t.len = l
        /\ t.age = 0 /\ t.got = Append(q.got, b)
    BY <1>3
  <2> HIDE DEF r, t
  <2>3. ParserShaped(r) /\ ParserShaped(t)
    BY <1>4, <1>7, <2>1, <2>2 DEF ParserShaped
  <2>4. QED
    BY <2>3 DEF r, t
<1>8. CASE q.state = "SOF"
  <2>1. Fed(p, b) = IF b.val = Sof THEN [took EXCEPT !.state = "CMD"] ELSE ParserFresh
    BY <1>8 DEF Fed, q, took
  <2>2. "CMD" \in ParserStates /\ Collected["CMD"] <= Len(q.got) + 1
    BY <1>4, CollectedIs DEF ParserStates
  <2>3. QED
    BY <1>6, <2>1, <2>2, FreshShaped
<1>9. CASE q.state = "CMD"
  <2>1. Fed(p, b) = [took EXCEPT !.state = "LEN_LO"]
    BY <1>9 DEF Fed, q, took
  <2>2. "LEN_LO" \in ParserStates /\ Collected["LEN_LO"] <= Len(q.got) + 1
    BY <1>4, <1>5, <1>9, CollectedIs DEF ParserStates
  <2>3. QED
    BY <1>6, <2>1, <2>2
<1>10. CASE q.state = "LEN_LO"
  <2>1. Fed(p, b) = [took EXCEPT !.state = "LEN_HI", !.len = b.val]
    BY <1>10 DEF Fed, q, took
  <2>2. "LEN_HI" \in ParserStates /\ Collected["LEN_HI"] <= Len(q.got) + 1
    BY <1>4, <1>5, <1>10, CollectedIs DEF ParserStates
  <2>3. QED
    BY <1>2, <1>7, <2>1, <2>2
<1>11. CASE q.state = "LEN_HI"
  <2>1. Fed(p, b) =
          IF len > MaxPayload
          THEN ParserFresh
          ELSE [took EXCEPT !.len = len, !.state = IF len = 0 THEN "CRC_LO" ELSE "PAYLOAD"]
    BY <1>11 DEF Fed, q, took, len
  <2>2. /\ "CRC_LO" \in ParserStates /\ Collected["CRC_LO"] <= Len(q.got) + 1
        /\ "PAYLOAD" \in ParserStates /\ Collected["PAYLOAD"] <= Len(q.got) + 1
    BY <1>4, <1>5, <1>11, CollectedIs DEF ParserStates
  <2>3. CASE len = 0
    BY <1>2, <1>7, <2>1, <2>2, <2>3, FreshShaped
  <2>4. CASE len # 0
    BY <1>2, <1>7, <2>1, <2>2, <2>4, FreshShaped
  <2>5. QED
    BY <2>3, <2>4
<1>12. CASE q.state = "PAYLOAD"
  <2>1. Fed(p, b) = IF Len(took.got) = HeaderLength + q.len
                    THEN [took EXCEPT !.state = "CRC_LO"]
                    ELSE took
    BY <1>12 DEF Fed, q, took
  <2>2. /\ "CRC_LO" \in ParserStates /\ Collected["CRC_LO"] <= Len(q.got) + 1
        /\ Collected["PAYLOAD"] <= Len(q.got) + 1
    BY <1>4, <1>5, <1>12, CollectedIs DEF ParserStates
  <2>3. ParserShaped(took)
    BY <1>3, <1>4, <1>5, <1>12, <2>2 DEF ParserShaped
  <2>4. QED
    BY <1>6, <2>1, <2>2, <2>3
<1>13. CASE q.state = "CRC_LO"
  <2>1. Fed(p, b) = [took EXCEPT !.state = "CRC_HI"]
    BY <1>13 DEF Fed, q, took
  <2>2. "CRC_HI" \in ParserStates /\ Collected["CRC_HI"] <= Len(q.got) + 1
    BY <1>4, <1>5, <1>13, CollectedIs DEF ParserStates
  <2>3. QED
    BY <1>6, <2>1, <2>2
<1>14. CASE q.state = "CRC_HI"
  <2>1. Fed(p, b) = ParserFresh
    BY <1>14 DEF Fed, q
  <2>2. QED
    BY <2>1, FreshShaped
<1>15. QED
  BY <1>5, <1>8, <1>9, <1>10, <1>11, <1>12, <1>13, <1>14 DEF ParserStates

\* A frame that is ready has a command and whatever its payload holds.
LEMMA ReadyFrame ==
  ASSUME NEW p, ParserShaped(p), NEW b \in WireBytes, FrameReady(p, b)
  PROVE  /\ Append(Resynced(p).got, b) \in Seq(WireBytes)
         /\ Len(Append(Resynced(p).got, b)) \in Nat
         /\ Len(Append(Resynced(p).got, b)) >= FrameLength(0)
<1>1. ParserShaped(Resynced(p)) /\ Resynced(p).state = "CRC_HI"
  BY ResyncedShaped DEF FrameReady
<1>2. Resynced(p).got \in Seq(WireBytes) /\ Len(Resynced(p).got) >= 5
  BY <1>1, CollectedIs DEF ParserShaped
<1>3. QED
  BY <1>2, AppendProperties, LenProperties DEF FrameLength, HeaderLength

-----------------------------------------------------------------------------
(* Answers.                                                                 *)

LEMMA LowerIsLess ==
  ASSUME NEW a \in Int, NEW b \in Int
  PROVE  LowerOf(a, b) \in {a, b} /\ LowerOf(a, b) <= a /\ LowerOf(a, b) <= b
  BY DEF LowerOf

\* An answer that fits is written whole into an empty buffer.
LEMMA AnswerFits ==
  ASSUME AnswersShaped, NEW length \in 0 .. MaxPayload, NEW results \in Seq(Nat)
  PROVE  LET t == Answered(length, results)
         IN  /\ DOMAIN t = {"bytes", "results", "answers"}
             /\ t.bytes \in 1 .. TxSize /\ t.results \in Seq(Nat) /\ t.answers \in Nat
             /\ tx.bytes = 0 => t.results = tx.results \o results /\ t.answers = tx.answers + 1
<1> DEFINE bytes == FrameLength(length)
<1>1. /\ bytes \in Nat \ {0} /\ bytes <= ReplyCap /\ ReplyCap <= TxSize
      /\ ReplyCap \in Nat /\ TxSize \in Nat
  BY LinkAssumption, FrameAssumption DEF FrameLength, HeaderLength
<1>2. /\ DOMAIN tx = {"bytes", "results", "answers"}
      /\ tx.bytes \in 0 .. TxSize /\ tx.results \in Seq(Nat) /\ tx.answers \in Nat
  BY DEF AnswersShaped
<1>3. Answered(length, results) =
        IF bytes > TxSize - tx.bytes
        THEN [tx EXCEPT !.bytes = TxSize]
        ELSE [tx EXCEPT !.bytes = @ + bytes, !.results = @ \o results, !.answers = @ + 1]
  BY <1>1, FrameAssumption, LinkAssumption DEF Answered
<1>4. tx.results \o results \in Seq(Nat)
  BY <1>2, ConcatProperties
<1> HIDE DEF bytes
<1>5. CASE bytes > TxSize - tx.bytes
  <2> DEFINE t == [tx EXCEPT !.bytes = TxSize]
  <2>1. /\ DOMAIN t = {"bytes", "results", "answers"}
        /\ t.bytes = TxSize /\ t.results = tx.results /\ t.answers = tx.answers
    BY <1>2
  <2>2. Answered(length, results) = t
    BY <1>3, <1>5
  <2> HIDE DEF t
  <2>3. tx.bytes # 0 /\ TxSize \in 1 .. TxSize
    BY <1>1, <1>2, <1>5
  <2>4. QED
    BY <1>2, <2>1, <2>2, <2>3
<1>6. CASE ~(bytes > TxSize - tx.bytes)
  <2> DEFINE t == [tx EXCEPT !.bytes = @ + bytes, !.results = @ \o results, !.answers = @ + 1]
  <2>1. /\ DOMAIN t = {"bytes", "results", "answers"}
        /\ t.bytes = tx.bytes + bytes /\ t.results = tx.results \o results
        /\ t.answers = tx.answers + 1
    BY <1>2
  <2>2. Answered(length, results) = t
    BY <1>3, <1>6
  <2> HIDE DEF t
  <2>3. tx.bytes + bytes \in 1 .. TxSize /\ tx.answers + 1 \in Nat
    BY <1>1, <1>2, <1>6
  <2>4. QED
    BY <1>4, <2>1, <2>2, <2>3
<1>7. QED
  BY <1>5, <1>6

\* campaign_proto_serialize_drain: what a DRAIN takes fits an answer.
LEMMA DrainFits ==
  ASSUME ring \in Seq(Nat), NEW payload, payload = <<>> \/ payload[1] \in Int
  PROVE  /\ DrainCount(payload) \in 0 .. Len(ring)
         /\ 1 + DrainCount(payload) * ResultSize \in 0 .. MaxPayload
<1> DEFINE asked == IF payload = <<>> THEN 1 ELSE payload[1]
           n == DrainCount(payload)
<1>1. asked \in Int /\ Len(ring) \in Nat /\ DrainMax \in Nat /\ ResultSize \in Nat /\ MaxPayload \in Nat
  BY LenProperties, LinkAssumption, FrameAssumption
<1>2. HigherOf(asked, 1) \in Nat
  BY <1>1 DEF HigherOf
<1>3. n \in 0 .. Len(ring) /\ n <= DrainMax
  <2>1. n = LowerOf(LowerOf(HigherOf(asked, 1), DrainMax), Len(ring))
    BY DEF DrainCount
  <2>2. QED
    BY <1>1, <1>2, <2>1, LowerIsLess
<1> HIDE DEF n
<1>4. n * ResultSize \in Nat /\ DrainMax * ResultSize \in Nat
  BY <1>1, <1>3
<1>5. n * ResultSize <= DrainMax * ResultSize
  BY <1>1, <1>3
<1>6. 1 + n * ResultSize <= MaxPayload
  BY <1>1, <1>4, <1>5, LinkAssumption
<1>7. QED
  BY <1>3, <1>4, <1>6 DEF n

\* No other answer is longer than a payload.
LEMMA OthersFit ==
  ASSUME NEW cmd, NEW payload, Len(payload) \in Nat,
         payload = <<>> \/ payload[1] \in Nat, payload = <<>> => Len(payload) = 0
  PROVE  AnswerLengths(cmd, payload) \subseteq 0 .. MaxPayload
<1>1. /\ CaptureMax \in 1 .. MaxPayload /\ MaxPayload \in Nat
      /\ CaptureCmd \in DOMAIN MinLen => MinLen[CaptureCmd] \in Nat \ {0}
      /\ \A c \in DOMAIN MinLen : ReplyLen[c] \in 0 .. MaxPayload /\ ShortLen[c] \in 0 .. MaxPayload
  BY LinkAssumption, FrameAssumption
<1>2. CASE cmd \notin DOMAIN MinLen
  BY <1>1, <1>2 DEF AnswerLengths
<1>3. CASE cmd \in DOMAIN MinLen /\ (Len(payload) < MinLen[cmd] \/ cmd # CaptureCmd)
  BY <1>1, <1>3 DEF AnswerLengths
<1>4. CASE cmd \in DOMAIN MinLen /\ ~(Len(payload) < MinLen[cmd]) /\ cmd = CaptureCmd
  <2>1. payload[1] \in Nat
    BY <1>1, <1>4
  <2>2. AnswerLengths(cmd, payload) = IF payload[1] > CaptureMax THEN {1} ELSE {1, payload[1]}
    BY <1>4 DEF AnswerLengths
  <2>3. QED
    BY <1>1, <2>1, <2>2
<1>5. QED
  BY <1>2, <1>3, <1>4

-----------------------------------------------------------------------------
(* Steps that move no byte between the host and the parser.                 *)

LEMMA Grouped ==
  ASSUME NEW a \in Seq(Nat), NEW b \in Seq(Nat), NEW c \in Seq(Nat)
  PROVE  (a \o b) \o c = a \o (b \o c)
  BY ConcatAssociative

LEMMA ArriveKept ==
  ASSUME AnswersShaped, AnswersArrive, UNCHANGED <<ring, tx, told, crowded, pushed>>
  PROVE  AnswersShaped' /\ AnswersArrive'
  BY DEF AnswersShaped, AnswersArrive

LEMMA DispatchArrives ==
  ASSUME AnswersShaped, AnswersArrive, NEW frame \in Seq(WireBytes),
         Len(frame) \in Nat, Len(frame) >= FrameLength(0), Dispatch(frame), UNCHANGED pushed
  PROVE  AnswersShaped' /\ AnswersArrive'
<1> DEFINE cmd == frame[2].val
           payload == [i \in 1 .. Len(frame) - FrameLength(0) |-> frame[HeaderLength + i].val]
           n == DrainCount(payload)
<1>1. Len(payload) \in Nat /\ (payload = <<>> => Len(payload) = 0)
      /\ (payload = <<>> \/ payload[1] \in Nat)
  <2>1. Len(frame) - 6 \in Nat /\ FrameLength(0) = 6 /\ HeaderLength = 4
    BY DEF FrameLength, HeaderLength
  <2>2. payload = [i \in 1 .. Len(frame) - 6 |-> frame[4 + i].val]
    BY <2>1
  <2>3. \A i \in 1 .. Len(frame) - 6 : frame[4 + i] \in WireBytes
    BY <2>1, ElementOfSeq
  <2>4. \A i \in 1 .. Len(frame) - 6 : frame[4 + i].val \in Nat
    BY <2>3, BytesAreNat DEF WireBytes
  <2>5. payload \in Seq(Nat) /\ Len(payload) = Len(frame) - 6
    <3> DEFINE k == Len(frame) - 6
    <3>1. k \in Nat /\ \A i \in 1 .. k : frame[4 + i].val \in Nat
      BY <2>1, <2>4
    <3>2. payload = [i \in 1 .. k |-> frame[4 + i].val]
      BY <2>2
    <3> HIDE DEF k, payload
    <3>3. payload \in [1 .. k -> Nat]
      BY <3>1, <3>2
    <3>4. payload \in Seq(Nat) /\ Len(payload) = k
      BY <3>1, <3>3
    <3>5. QED
      BY <3>4 DEF k
  <2> HIDE DEF payload
  <2>6. payload = <<>> \/ payload[1] \in Nat
    BY <2>5, EmptySeq, ElementOfSeq
  <2>7. QED
    BY <2>1, <2>5, <2>6
<1>2. /\ told' = [told EXCEPT !.asked = @ + 1]
      /\ crowded' = (crowded \/ tx.bytes > 0)
      /\ \/ cmd = DrainCmd /\ tx' = Answered(1 + n * ResultSize, SubSeq(ring, 1, n))
            /\ ring' = SubSeq(ring, n + 1, Len(ring))
         \/ (\E length \in AnswerLengths(cmd, payload) : tx' = Answered(length, <<>>)) /\ ring' = ring
  BY DEF Dispatch
<1> HIDE DEF payload
<1>3. /\ ring \in Seq(Nat) /\ pushed \in Nat /\ told.asked \in Nat
      /\ told.answers \in Nat /\ told.results \in Seq(Nat)
      /\ tx.results \in Seq(Nat) /\ tx.answers \in Nat /\ tx.bytes \in 0 .. TxSize
      /\ tx.bytes = 0 => tx.results = <<>> /\ tx.answers = 0
      /\ DOMAIN told = {"asked", "answers", "results"}
  BY DEF AnswersShaped
<1>4. n \in 0 .. Len(ring) /\ 1 + n * ResultSize \in 0 .. MaxPayload
  BY <1>1, <1>3, DrainFits
<1>5. AnswerLengths(cmd, payload) \subseteq 0 .. MaxPayload
  BY <1>1, OthersFit
<1> HIDE DEF cmd, n
\* Whatever was asked, `taken` comes off the ring and goes with the answer.
<1>6. PICK taken \in Seq(Nat) :
        /\ ring' \in Seq(Nat)
        /\ taken \o ring' = ring
        /\ \E length \in 0 .. MaxPayload : tx' = Answered(length, taken)
  <2>1. CASE /\ tx' = Answered(1 + n * ResultSize, SubSeq(ring, 1, n))
             /\ ring' = SubSeq(ring, n + 1, Len(ring))
    <3>1. Len(ring) \in Nat /\ \A i \in 1 .. Len(ring) : ring[i] \in Nat
      BY <1>3, LenProperties
    <3>2. SubSeq(ring, 1, n) \in Seq(Nat)
      <4>1. n \in Int /\ \A i \in 1 .. n : ring[i] \in Nat
        BY <1>4, <3>1
      <4>2. QED
        BY <4>1, SubSeqProperties
    <3>3. SubSeq(ring, n + 1, Len(ring)) \in Seq(Nat)
      <4>1. n + 1 \in Int /\ Len(ring) \in Int /\ \A i \in n + 1 .. Len(ring) : ring[i] \in Nat
        BY <1>4, <3>1
      <4>2. QED
        BY <4>1, SubSeqProperties
    <3>4. SubSeq(ring, 1, n) \o SubSeq(ring, n + 1, Len(ring)) = ring
      <4>1. /\ 1 \in 1 .. Len(ring) + 1 /\ n \in 1 - 1 .. Len(ring)
            /\ Len(ring) \in n .. Len(ring)
        BY <1>4, <3>1
      <4>2. SubSeq(ring, 1, n) \o SubSeq(ring, n + 1, Len(ring)) = SubSeq(ring, 1, Len(ring))
        BY <1>3, <4>1, ConcatAdjacentSubSeq
      <4>3. QED
        BY <1>3, <4>2, SubSeqFull, Zenon
    <3>5. QED
      BY <1>4, <2>1, <3>2, <3>3, <3>4
  <2>2. CASE /\ \E length \in AnswerLengths(cmd, payload) : tx' = Answered(length, <<>>)
             /\ ring' = ring
    <3>1. <<>> \in Seq(Nat) /\ <<>> \o ring = ring
      BY <1>3, ConcatEmptySeq
    <3>2. QED
      BY <1>3, <1>5, <2>2, <3>1
  <2>3. QED
    BY <1>2, <2>1, <2>2
<1>7. /\ DOMAIN tx' = {"bytes", "results", "answers"}
      /\ tx'.bytes \in 1 .. TxSize /\ tx'.results \in Seq(Nat) /\ tx'.answers \in Nat
      /\ tx.bytes = 0 => tx'.results = tx.results \o taken /\ tx'.answers = tx.answers + 1
  BY <1>6, AnswerFits
<1>8. /\ DOMAIN told' = {"asked", "answers", "results"} /\ told'.asked = told.asked + 1
      /\ told'.answers = told.answers /\ told'.results = told.results
  BY <1>2, <1>3
<1>9. AnswersShaped'
  <2>1. tx'.bytes \in 0 .. TxSize /\ tx'.bytes # 0
    BY <1>7, LinkAssumption
  <2>2. told'.asked \in Nat
    BY <1>3, <1>8
  <2>3. QED
    BY <1>3, <1>6, <1>7, <1>8, <2>1, <2>2 DEF AnswersShaped
<1>10. AnswersArrive'
  <2>1. SUFFICES ASSUME ~crowded'
                 PROVE  /\ told'.answers + tx'.answers = told'.asked
                        /\ told'.results \o tx'.results \o ring' = [i \in 1 .. pushed' |-> i]
    BY DEF AnswersArrive
  <2>2. ~crowded /\ tx.bytes = 0
    <3>1. ~(crowded \/ tx.bytes > 0)
      BY <1>2, <2>1, Zenon
    <3>2. QED
      BY <1>3, <3>1, LinkAssumption
  <2>3. /\ told.answers + tx.answers = told.asked
        /\ told.results \o tx.results \o ring = [i \in 1 .. pushed |-> i]
    BY <2>2 DEF AnswersArrive
  <2>4. tx.results = <<>> /\ <<>> \o taken = taken /\ told.results \o <<>> = told.results
    BY <1>3, <1>6, <2>2, ConcatEmptySeq
  <2>5. tx'.results = taken
    BY <1>7, <2>2, <2>4
  <2>6. (told.results \o taken) \o ring' = told.results \o (taken \o ring')
    <3>1. told.results \in Seq(Nat) /\ taken \in Seq(Nat) /\ ring' \in Seq(Nat)
      BY <1>3, <1>6
    <3>2. QED
      BY <3>1, Grouped, Zenon
  <2>7. told'.results \o tx'.results \o ring' = told.results \o ring
    BY <1>6, <1>8, <2>5, <2>6, Zenon
  <2>8. told.results \o ring = [i \in 1 .. pushed |-> i]
    BY <2>3, <2>4, Zenon
  <2>9. told'.answers + tx'.answers = told'.asked
    BY <1>3, <1>7, <1>8, <2>2, <2>3
  <2>10. QED
    BY <2>7, <2>8, <2>9
<1>11. QED
  BY <1>9, <1>10

LEMMA PushArrives ==
  ASSUME AnswersShaped, AnswersArrive, PushResult
  PROVE  AnswersShaped' /\ AnswersArrive'
<1>1. /\ pushed' = pushed + 1 /\ ring' = Append(ring, pushed + 1)
      /\ UNCHANGED <<tx, told, crowded>>
  BY DEF PushResult
<1>2. /\ ring \in Seq(Nat) /\ pushed \in Nat /\ told.results \in Seq(Nat)
      /\ tx.results \in Seq(Nat)
  BY DEF AnswersShaped
<1>3. ring' \in Seq(Nat)
  BY <1>1, <1>2, AppendProperties
<1>4. AnswersShaped'
  BY <1>1, <1>2, <1>3 DEF AnswersShaped
<1>5. AnswersArrive'
  <2>1. SUFFICES ASSUME ~crowded
                 PROVE  told.results \o tx.results \o ring' = [i \in 1 .. pushed + 1 |-> i]
    BY <1>1 DEF AnswersArrive
  <2> DEFINE front == told.results \o tx.results
             all == front \o ring
             more == front \o ring'
  <2>2. all = [i \in 1 .. pushed |-> i]
    BY <2>1 DEF AnswersArrive
  <2>3. front \in Seq(Nat)
    BY <1>2, ConcatProperties
  <2>4. Len(all) = pushed /\ \A i \in 1 .. pushed : all[i] = i
    BY <1>2, <2>2
  <2> HIDE DEF front
  <2>5. /\ Len(all) = Len(front) + Len(ring)
        /\ \A i \in 1 .. Len(front) + Len(ring) :
             all[i] = IF i <= Len(front) THEN front[i] ELSE ring[i - Len(front)]
    BY <1>2, <2>3, ConcatProperties
  <2>6. /\ Len(ring') = Len(ring) + 1
        /\ \A i \in 1 .. Len(ring) : ring'[i] = ring[i]
        /\ ring'[Len(ring) + 1] = pushed + 1
    BY <1>1, <1>2, AppendProperties
  <2>7. /\ more \in Seq(Nat) /\ Len(more) = Len(front) + Len(ring')
        /\ \A i \in 1 .. Len(front) + Len(ring') :
             more[i] = IF i <= Len(front) THEN front[i] ELSE ring'[i - Len(front)]
    BY <1>3, <2>3, ConcatProperties
  <2>8. Len(front) \in Nat /\ Len(ring) \in Nat
    BY <1>2, <2>3, LenProperties
  <2> HIDE DEF all, more
  <2>9. /\ Len(more) = pushed + 1
        /\ Len(front) + Len(ring) = pushed /\ Len(front) + Len(ring') = pushed + 1
    BY <2>4, <2>5, <2>6, <2>7, <2>8
  <2>10. ASSUME NEW i \in 1 .. pushed + 1
         PROVE  more[i] = i
    <3>1. CASE i <= Len(front)
      <4>1. i \in 1 .. pushed
        BY <1>2, <2>8, <2>9, <3>1
      <4>2. all[i] = front[i] /\ more[i] = front[i]
        BY <2>5, <2>7, <2>9, <3>1, <4>1
      <4>3. QED
        BY <2>4, <4>1, <4>2
    <3>2. CASE ~(i <= Len(front)) /\ i <= pushed
      <4>1. /\ i - Len(front) \in 1 .. Len(ring) /\ i \in 1 .. pushed
            /\ i \in 1 .. Len(front) + Len(ring) /\ i \in 1 .. Len(front) + Len(ring')
        BY <1>2, <2>4, <2>5, <2>6, <2>8, <3>2
      <4>2. more[i] = ring'[i - Len(front)] /\ all[i] = ring[i - Len(front)]
        BY <2>5, <2>7, <3>2, <4>1
      <4>3. QED
        BY <2>4, <2>6, <4>1, <4>2
    <3>3. CASE i = pushed + 1
      <4>1. /\ i - Len(front) = Len(ring) + 1 /\ ~(i <= Len(front))
            /\ i \in 1 .. Len(front) + Len(ring')
        BY <1>2, <2>8, <2>9, <3>3
      <4>2. QED
        BY <2>6, <2>7, <3>3, <4>1
    <3>4. QED
      BY <1>2, <3>1, <3>2, <3>3
  <2>11. more = [i \in 1 .. pushed + 1 |-> i]
    <3> DEFINE numbers == [i \in 1 .. pushed + 1 |-> i]
    <3>1. /\ numbers \in Seq(Nat) /\ Len(numbers) = pushed + 1
          /\ \A i \in 1 .. pushed + 1 : numbers[i] = i
      BY <1>2
    <3> HIDE DEF numbers
    <3>2. numbers = more
      <4>1. Len(numbers) = Len(more) /\ \A i \in 1 .. Len(numbers) : numbers[i] = more[i]
        BY <2>9, <2>10, <3>1
      <4>2. QED
        BY <2>7, <3>1, <4>1, SeqEqual
    <3>3. QED
      BY <3>2 DEF numbers
  <2>12. QED
    BY <2>11 DEF more, front
<1>6. QED
  BY <1>4, <1>5

LEMMA ReadArrives ==
  ASSUME AnswersShaped, AnswersArrive, HostRead
  PROVE  AnswersShaped' /\ AnswersArrive'
<1>1. /\ told' = [told EXCEPT !.answers = @ + tx.answers, !.results = @ \o tx.results]
      /\ tx' = NothingWritten /\ UNCHANGED <<ring, crowded, pushed>>
  BY DEF HostRead
<1>2. /\ ring \in Seq(Nat) /\ pushed \in Nat /\ told.asked \in Nat
      /\ told.answers \in Nat /\ told.results \in Seq(Nat)
      /\ tx.results \in Seq(Nat) /\ tx.answers \in Nat
      /\ DOMAIN told = {"asked", "answers", "results"}
  BY DEF AnswersShaped
<1>3. /\ DOMAIN told' = {"asked", "answers", "results"}
      /\ told'.asked = told.asked /\ told'.answers = told.answers + tx.answers
      /\ told'.results = told.results \o tx.results
  BY <1>1, <1>2
<1>4. /\ DOMAIN tx' = {"bytes", "results", "answers"}
      /\ tx'.bytes = 0 /\ tx'.results = <<>> /\ tx'.answers = 0
  BY <1>1 DEF NothingWritten
<1>5. told'.results \in Seq(Nat) /\ told'.results \o <<>> = told'.results
  BY <1>2, <1>3, ConcatProperties, ConcatEmptySeq
<1>6. AnswersShaped'
  <2>1. <<>> \in Seq(Nat) /\ 0 \in 0 .. TxSize /\ 0 \in Nat
    BY LinkAssumption
  <2>2. told'.answers \in Nat
    BY <1>2, <1>3
  <2>3. QED
    BY <1>1, <1>2, <1>3, <1>4, <1>5, <2>1, <2>2 DEF AnswersShaped
<1>7. AnswersArrive'
  <2>1. SUFFICES ASSUME ~crowded
                 PROVE  /\ told'.answers + tx'.answers = told'.asked
                        /\ told'.results \o tx'.results \o ring = [i \in 1 .. pushed |-> i]
    BY <1>1 DEF AnswersArrive
  <2>2. /\ told.answers + tx.answers = told.asked
        /\ told.results \o tx.results \o ring = [i \in 1 .. pushed |-> i]
    BY <2>1 DEF AnswersArrive
  <2>3. told'.answers + tx'.answers = told'.asked
    BY <1>2, <1>3, <1>4, <2>2
  <2>4. told'.results \o tx'.results = told.results \o tx.results
    BY <1>3, <1>4, <1>5
  <2>5. QED
    BY <2>2, <2>3, <2>4
<1>8. QED
  BY <1>6, <1>7

-----------------------------------------------------------------------------
(* All steps.                                                               *)

LEMMA InitAnswers == LinkInit => AnswersInv
<1> SUFFICES ASSUME LinkInit
             PROVE  AnswersInv
  OBVIOUS
<1>1. BytesShaped
  BY FreshShaped DEF LinkInit, BytesShaped
<1>2. /\ tx.bytes = 0 /\ tx.results = <<>> /\ tx.answers = 0
      /\ DOMAIN tx = {"bytes", "results", "answers"}
  BY DEF LinkInit, NothingWritten
<1>3. /\ told.asked = 0 /\ told.answers = 0 /\ told.results = <<>>
      /\ DOMAIN told = {"asked", "answers", "results"}
  BY DEF LinkInit
<1>4. ring = <<>> /\ pushed = 0 /\ 0 \in 0 .. TxSize
  BY LinkAssumption DEF LinkInit
<1>5. AnswersShaped
  BY <1>2, <1>3, <1>4 DEF AnswersShaped
<1>6. AnswersArrive
  BY <1>2, <1>3, <1>4 DEF AnswersArrive
<1>7. QED
  BY <1>1, <1>5, <1>6 DEF AnswersInv

\* The two bytes of a length.
LEMMA LengthBytes ==
  ASSUME NEW n \in 0 .. MaxPayload
  PROVE  n % Base \in Bytes /\ n \div Base \in Bytes
<1>1. Base \in Nat \ {0} /\ MaxPayload \in 0 .. Base * Base - 1 /\ Base * Base \in Nat
  BY FrameAssumption
<1>2. n \in Nat /\ n < Base * Base
  BY <1>1
<1>3. n % Base \in Bytes
  BY <1>1, <1>2 DEF Bytes
<1> DEFINE q == n \div Base
<1>4. q \in Int /\ Base * q <= n /\ n < Base * q + Base
  BY <1>1, <1>2
<1> HIDE DEF q
<1>5. q >= 0
  <2>1. SUFFICES ASSUME q <= -1
                 PROVE  FALSE
    BY <1>4
  <2>2. Base * q <= Base * (-1)
    BY <1>1, <1>4, <2>1
  <2>3. QED
    BY <1>1, <1>2, <1>4, <2>2
<1>6. q < Base
  <2>1. SUFFICES ASSUME Base <= q
                 PROVE  FALSE
    BY <1>1, <1>4
  <2>2. Base * Base <= Base * q
    BY <1>1, <1>4, <2>1
  <2>3. QED
    BY <1>1, <1>2, <1>4, <2>2
<1>7. q \in Bytes
  BY <1>1, <1>4, <1>5, <1>6 DEF Bytes
<1>8. QED
  BY <1>3, <1>7 DEF q

\* The bytes of a request.
LEMMA EncodedShaped ==
  ASSUME NEW f \in Frames
  PROVE  /\ Encoded(f) \in Seq(Bytes)
         /\ Len(Encoded(f)) = FrameLength(Len(f.payload))
         /\ Len(f.payload) \in 0 .. MaxPayload
<1> DEFINE n == Len(f.payload)
           head == <<Sof, f.cmd, n % Base, n \div Base>>
<1>1. f.cmd \in Bytes /\ f.payload \in Seq(Bytes) /\ n <= MaxPayload
  BY FramesAssumption
<1>2. f.crc \in Bytes \X Bytes
  BY FramesAssumption
<1>3. n \in 0 .. MaxPayload
  BY <1>1, LenProperties, FrameAssumption
<1>4. n % Base \in Bytes /\ n \div Base \in Bytes
  BY <1>3, LengthBytes
<1>5. head \in Seq(Bytes) /\ Len(head) = 4
  <2>1. Sof \in Bytes
    BY BytesAreNat
  <2> HIDE DEF n
  <2>2. QED
    BY <1>1, <1>4, <2>1
<1>6. f.crc \in Seq(Bytes) /\ Len(f.crc) = 2
  <2>1. PICK a, b \in Bytes : f.crc = <<a, b>>
    BY <1>2
  <2>2. QED
    BY <2>1
<1> HIDE DEF head
<1>7. head \o f.payload \in Seq(Bytes) /\ Len(head \o f.payload) = Len(head) + n
  BY <1>1, <1>5, ConcatProperties, Zenon
<1>8. /\ (head \o f.payload) \o f.crc \in Seq(Bytes)
      /\ Len((head \o f.payload) \o f.crc) = Len(head \o f.payload) + Len(f.crc)
  BY <1>6, <1>7, ConcatProperties, Zenon
<1>9. Encoded(f) = (head \o f.payload) \o f.crc
  BY DEF Encoded, head
<1>10. QED
  BY <1>3, <1>5, <1>6, <1>7, <1>8, <1>9 DEF FrameLength, HeaderLength

LEMMA SendShaped ==
  ASSUME BytesShaped, HostSend
  PROVE  BytesShaped'
<1>1. PICK f \in Frames : \E k \in 1 .. Len(Encoded(f)) :
        wire' = wire \o [i \in 1 .. k |-> [frame |-> sent, place |-> i, val |-> Encoded(f)[i]]]
  BY DEF HostSend
<1>0. PICK k \in 1 .. Len(Encoded(f)) :
        wire' = wire \o [i \in 1 .. k |-> [frame |-> sent, place |-> i, val |-> Encoded(f)[i]]]
  BY <1>1
<1>2. Encoded(f) \in Seq(Bytes) /\ Len(Encoded(f)) \in Nat
  BY EncodedShaped, LenProperties
<1>3. k \in Nat /\ \A i \in 1 .. k : Encoded(f)[i] \in Bytes
  <2>1. \A i \in 1 .. Len(Encoded(f)) : Encoded(f)[i] \in Bytes
    BY <1>2, ElementOfSeq
  <2>2. QED
    BY <1>2, <2>1
<1> DEFINE new == [i \in 1 .. k |-> [frame |-> sent, place |-> i, val |-> Encoded(f)[i]]]
<1>4. \A i \in 1 .. k : [frame |-> sent, place |-> i, val |-> Encoded(f)[i]] \in WireBytes
  BY <1>3 DEF BytesShaped, WireBytes
<1>5. new \in Seq(WireBytes)
  BY <1>3, <1>4
<1>6. wire' \in Seq(WireBytes)
  <2> HIDE DEF new
  <2>1. wire \o new \in Seq(WireBytes)
    BY <1>5, ConcatProperties DEF BytesShaped
  <2>2. QED
    BY <1>0, <2>1 DEF new
<1>7. QED
  BY <1>6 DEF BytesShaped, HostSend

LEMMA NextBytes == BytesShaped /\ [LinkNext]_linkvars => BytesShaped'
<1> SUFFICES ASSUME BytesShaped, [LinkNext]_linkvars
             PROVE  BytesShaped'
  OBVIOUS
<1>1. wire \in Seq(WireBytes) /\ ParserShaped(parser) /\ sent \in Nat
  BY DEF BytesShaped
<1>2. CASE PumpByte
  <2>1. wire # <<>> /\ Head(wire) \in WireBytes /\ Tail(wire) \in Seq(WireBytes)
    BY <1>1, <1>2, HeadTailProperties DEF PumpByte
  <2>2. QED
    BY <1>1, <1>2, <2>1, FedShaped DEF PumpByte, BytesShaped
<1>3. CASE PushResult
  BY <1>1, <1>3 DEF PushResult, BytesShaped
<1>4. CASE HostSend
  BY <1>4, SendShaped
<1>5. CASE HostRead
  BY <1>1, <1>5 DEF HostRead, BytesShaped
<1>6. CASE Elapse
  <2> DEFINE age == IF parser.state = "SOF" THEN 0 ELSE LowerOf(parser.age + 1, Interbyte + 1)
  <2>1. age \in Nat
    BY <1>1, FrameAssumption DEF ParserShaped, LowerOf
  <2>2. parser' = [parser EXCEPT !.age = age]
    BY <1>6 DEF Elapse
  <2> HIDE DEF age
  <2>3. ParserShaped(parser')
    BY <1>1, <2>1, <2>2 DEF ParserShaped
  <2>4. QED
    BY <1>1, <1>6, <2>3 DEF Elapse, BytesShaped
<1>7. CASE UNCHANGED linkvars
  BY <1>1, <1>7 DEF linkvars, BytesShaped
<1>8. QED
  BY <1>2, <1>3, <1>4, <1>5, <1>6, <1>7 DEF LinkNext

LEMMA NextAnswers == AnswersInv /\ [LinkNext]_linkvars => AnswersInv'
<1> SUFFICES ASSUME AnswersInv, [LinkNext]_linkvars
             PROVE  AnswersInv'
  OBVIOUS
<1>1. BytesShaped /\ AnswersShaped /\ AnswersArrive /\ BytesShaped'
  BY NextBytes DEF AnswersInv
<1>2. wire \in Seq(WireBytes) /\ ParserShaped(parser)
  BY <1>1 DEF BytesShaped
<1>3. CASE PumpByte
  <2>1. wire # <<>> /\ Head(wire) \in WireBytes
    BY <1>2, <1>3, HeadTailProperties DEF PumpByte
  <2>2. AnswersShaped' /\ AnswersArrive'
    <3>1. CASE FrameReady(parser, Head(wire))
      <4>1. Dispatch(Append(Resynced(parser).got, Head(wire))) /\ UNCHANGED pushed
        BY <1>3, <3>1 DEF PumpByte
      <4>2. QED
        BY <1>1, <1>2, <2>1, <3>1, <4>1, ReadyFrame, DispatchArrives
    <3>2. CASE ~FrameReady(parser, Head(wire))
      BY <1>1, <1>3, <3>2, ArriveKept DEF PumpByte
    <3>3. QED
      BY <3>1, <3>2
  <2>3. QED
    BY <1>1, <2>2 DEF AnswersInv
<1>4. CASE PushResult
  BY <1>1, <1>4, PushArrives DEF AnswersInv
<1>5. CASE HostSend
  BY <1>1, <1>5, ArriveKept DEF AnswersInv, HostSend
<1>6. CASE HostRead
  BY <1>1, <1>6, ReadArrives DEF AnswersInv
<1>7. CASE Elapse
  BY <1>1, <1>7, ArriveKept DEF AnswersInv, Elapse
<1>8. CASE UNCHANGED linkvars
  BY <1>1, <1>8, ArriveKept DEF AnswersInv, linkvars
<1>9. QED
  BY <1>3, <1>4, <1>5, <1>6, <1>7, <1>8 DEF LinkNext

\* emfi_proto_dispatch, crowbar_proto_dispatch, campaign_proto_serialize_drain
\* and frame_proto_write: whatever the requests and the sizes that meet the
\* assumptions, a host that reads each answer before it asks again gets them
\* all, and loses no result.
THEOREM AnswersAllArrive == LinkSpec => []AnswersArrive
<1>1. AnswersInv => AnswersArrive
  BY DEF AnswersInv
<1>2. QED
  BY <1>1, InitAnswers, NextAnswers, PTL DEF LinkSpec

=============================================================================
