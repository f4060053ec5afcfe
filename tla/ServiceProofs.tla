---------------------------- MODULE ServiceProofs ----------------------------
(***************************************************************************)
(* Proofs about the services behind the scanner shell.  The byte streams:  *)
(* the binary protocols keep step with hosts that keep to their rules, for *)
(* every byte width and every limit, and the UART bridge keeps order and   *)
(* count for every FIFO and staging buffer.  The pinout scanner: for every *)
(* set of channels the order the permutation iterator follows is total and *)
(* well founded, so a sweep passes over no pair.  Then the types of all    *)
(* variables of the shell, which need all of these.                        *)
(***************************************************************************)
EXTENDS ShellProofs, SequenceTheorems, WellFoundedInduction

\* A shift under way has sent one byte for each full byte of bits; one that is
\* over has sent one for the rest as well.
TapExact ==
  /\ bp.done \in Nat /\ bp.out \in Nat /\ bp.total \in Nat
  /\ IF bp.state \in {"TAP_TDI", "TAP_TMS"}
     THEN bp.done = bp.out * ByteBits /\ bp.done < bp.total
     ELSE bp.done = bp.total /\ bp.out = TdoBytes(bp.done)

TapShaped ==
  /\ DOMAIN bp = {"state", "args", "total", "done", "out"}
  /\ TapExact

\* A length byte is due as long as the parser waits for one, and so is a byte to
\* write.
SpShaped ==
  /\ DOMAIN sp = {"state", "args", "wlen", "done", "cs"}
  /\ sp.state \in SpStates /\ sp.args \in Int /\ sp.wlen \in Nat /\ sp.done \in Nat
  /\ sp.state \in {"ARGS", "WLEN", "RLEN"} => sp.args >= 1
  /\ sp.state = "WBYTES" => sp.done < sp.wlen

\* Until a length is complete, both sides know how many bytes of it are left.
BpHeader ==
  IF bp.state = "TAP_LEN_HI" THEN 2 ELSE IF bp.state = "TAP_LEN_LO" THEN 1 ELSE 0

SpHeader == IF sp.state = "WLEN" THEN sp.args ELSE 0

BpTogether ==
  /\ host.owed = BpAwaits
  /\ host.header = BpHeader
  /\ host.ocd <=> bp.state # "BBIO_IDLE"

SpTogether ==
  /\ host.owed = SpAwaits
  /\ host.header = SpHeader

\* A host in step is as far into its command as the parser.
HostsTogether ==
  /\ HostTypeOK
  /\ mode = "BUSPIRATE" /\ host.sync => BpTogether
  /\ mode = "SERPROG" /\ host.sync => SpTogether

-----------------------------------------------------------------------------
(* The TAP shift.                                                           *)

LEMMA QuotientIs ==
  ASSUME NEW x \in Nat, NEW b \in Nat \ {0}, NEW k \in Nat, k * b <= x, x < k * b + b
  PROVE  x \div b = k
<1> DEFINE q == x \div b
<1>1. q \in Int /\ b * q <= x /\ x < b * q + b
  OBVIOUS
<1>2. ~(q < k)
  <2>1. SUFFICES ASSUME q + 1 <= k
                 PROVE  FALSE
    BY <1>1
  <2>2. b * (q + 1) <= b * k
    BY <2>1, <1>1
  <2>3. QED
    BY <2>2, <1>1
<1>3. ~(k < q)
  <2>1. SUFFICES ASSUME k + 1 <= q
                 PROVE  FALSE
    BY <1>1
  <2>2. b * (k + 1) <= b * q
    BY <2>1, <1>1
  <2>3. QED
    BY <2>2, <1>1
<1>4. QED
  BY <1>1, <1>2, <1>3

\* Full bytes need no rounding, and a part of one needs one more.
LEMMA TdoOfFullBytes ==
  ASSUME NEW k \in Nat, NEW rest \in Nat, rest <= ByteBits
  PROVE  TdoBytes(k * ByteBits + rest) = IF rest = 0 THEN k ELSE k + 1
<1>1. ByteBits \in Nat \ {0}
  BY TapAssumption
<1>2. k * ByteBits \in Nat
  BY <1>1
<1> DEFINE x == k * ByteBits + rest + ByteBits - 1
<1>3. x \in Nat
  BY <1>1, <1>2
<1>4. CASE rest = 0
  <2>1. k * ByteBits <= x /\ x < k * ByteBits + ByteBits
    BY <1>1, <1>2, <1>4
  <2>2. x \div ByteBits = k
    BY <1>1, <1>3, <2>1, QuotientIs
  <2>3. QED
    BY <1>4, <2>2 DEF TdoBytes
<1>5. CASE rest # 0
  <2>1. (k + 1) * ByteBits = k * ByteBits + ByteBits
    BY <1>1
  <2>2. (k + 1) * ByteBits <= x /\ x < (k + 1) * ByteBits + ByteBits
    BY <1>1, <1>2, <1>5, <2>1
  <2>3. x \div ByteBits = k + 1
    BY <1>1, <1>3, <2>2, QuotientIs
  <2>4. QED
    BY <1>5, <2>3 DEF TdoBytes
<1>6. QED
  BY <1>4, <1>5

LEMMA NoTdoBytes == TdoBytes(0) = 0
  BY TdoOfFullBytes, TapAssumption

LEMMA BpFreshShaped ==
  /\ DOMAIN BpFresh = {"state", "args", "total", "done", "out"}
  /\ BpFresh.state \notin {"TAP_TDI", "TAP_TMS"}
  /\ BpFresh.done = 0 /\ BpFresh.total = 0 /\ BpFresh.out = 0
  BY DEF BpFresh

\* A step that only moves between states outside a shift, or inside one.
LEMMA BpMoveShaped ==
  ASSUME TapShaped, bp'.total = bp.total, bp'.done = bp.done, bp'.out = bp.out,
         DOMAIN bp' = {"state", "args", "total", "done", "out"},
         bp'.state \in {"TAP_TDI", "TAP_TMS"} <=> bp.state \in {"TAP_TDI", "TAP_TMS"}
  PROVE  TapShaped'
  BY DEF TapShaped, TapExact, TdoBytes

LEMMA BpFeedShaped ==
  ASSUME TapShaped, NEW c, NEW len \in TapLengths, BpFeed(c, len)
  PROVE  TapShaped'
<1>1. /\ DOMAIN bp = {"state", "args", "total", "done", "out"}
      /\ bp.total \in Nat /\ bp.done \in Nat /\ bp.out \in Nat
  BY DEF TapShaped, TapExact
<1>2. CASE BpGreet(c) \/ BpLeaveOcd(c) \/ BpAnswer(c) \/ BpTapShift(c) \/ BpTapLenHi \/ BpTapTdi
  <2>1. DOMAIN bp' = {"state", "args", "total", "done", "out"}
    BY <1>1, <1>2 DEF BpGreet, BpLeaveOcd, BpAnswer, BpTapShift, BpTapLenHi, BpTapTdi
  <2>2. /\ bp'.total = bp.total /\ bp'.done = bp.done /\ bp'.out = bp.out
        /\ bp'.state \in {"TAP_TDI", "TAP_TMS"} <=> bp.state \in {"TAP_TDI", "TAP_TMS"}
    BY <1>1, <1>2 DEF BpGreet, BpLeaveOcd, BpAnswer, BpTapShift, BpTapLenHi, BpTapTdi
  <2>3. QED
    BY <2>1, <2>2, BpMoveShaped
<1>3. CASE BpArgCommand(c) \/ BpArgByte
  <2>1. DOMAIN bp' = {"state", "args", "total", "done", "out"}
    BY <1>1, <1>3 DEF BpArgCommand, BpArgByte
  <2>2. /\ bp'.total = bp.total /\ bp'.done = bp.done /\ bp'.out = bp.out
        /\ bp'.state \in {"TAP_TDI", "TAP_TMS"} <=> bp.state \in {"TAP_TDI", "TAP_TMS"}
    BY <1>1, <1>3 DEF BpArgCommand, BpArgByte
  <2>3. QED
    BY <2>1, <2>2, BpMoveShaped
<1>4. CASE BpTapLenLo(len)
  <2>1. PICK total \in Nat :
          bp' = [bp EXCEPT !.total = total, !.done = 0, !.out = 0,
                           !.state = IF total = 0 THEN "OCD_IDLE" ELSE "TAP_TDI"]
    BY <1>4, TapAssumption DEF BpTapLenLo
  <2>2. DOMAIN bp' = {"state", "args", "total", "done", "out"}
    BY <1>1, <2>1
  <2>3. /\ bp'.total = total /\ bp'.done = 0 /\ bp'.out = 0
        /\ bp'.state = IF total = 0 THEN "OCD_IDLE" ELSE "TAP_TDI"
    BY <1>1, <2>1
  <2>4. TapExact'
    BY <2>3, NoTdoBytes, TapAssumption DEF TapExact, TdoBytes
  <2>5. QED
    BY <2>2, <2>4 DEF TapShaped
<1>5. CASE BpTapTms
  <2> DEFINE left == bp.total - bp.done
             bits == IF left >= ByteBits THEN ByteBits ELSE left
  <2>1. bp.state = "TAP_TMS" /\ bp.done = bp.out * ByteBits /\ bp.done < bp.total
    BY <1>5 DEF BpTapTms, TapShaped, TapExact
  <2>2. bits \in Nat \ {0} /\ bits <= ByteBits /\ bits <= left
    BY <1>1, <2>1, TapAssumption
  <2>3. bp' = [bp EXCEPT !.done = @ + bits, !.out = @ + 1,
                         !.state = IF bits = left THEN "OCD_IDLE" ELSE "TAP_TDI"]
    BY <1>5 DEF BpTapTms
  <2>4. /\ bp'.total = bp.total /\ bp'.done = bp.done + bits /\ bp'.out = bp.out + 1
        /\ bp'.state = IF bits = left THEN "OCD_IDLE" ELSE "TAP_TDI"
    BY <1>1, <2>3
  <2>5. /\ DOMAIN bp' = {"state", "args", "total", "done", "out"}
        /\ bp'.total \in Nat /\ bp'.done \in Nat /\ bp'.out \in Nat
    BY <1>1, <2>2, <2>3, <2>4
  <2>6. CASE bits = left
    <3>1. bp'.done = bp'.total
      BY <1>1, <2>4, <2>6
    <3>2. TdoBytes(bp.out * ByteBits + bits) = bp.out + 1
      BY <1>1, <2>2, TdoOfFullBytes
    <3>3. bp'.out = TdoBytes(bp'.done)
      BY <2>1, <2>4, <3>2
    <3>4. TapExact'
      BY <2>4, <2>5, <2>6, <3>1, <3>3 DEF TapExact, TdoBytes
    <3>5. QED
      BY <2>5, <3>4 DEF TapShaped
  <2>7. CASE bits # left
    <3>1. bits = ByteBits /\ bp'.done < bp'.total
      BY <1>1, <2>1, <2>2, <2>4, <2>7, TapAssumption
    <3>2. bp'.out * ByteBits = bp.out * ByteBits + ByteBits
      BY <1>1, <2>4, TapAssumption
    <3>3. bp'.done = bp'.out * ByteBits
      BY <2>1, <2>4, <3>1, <3>2
    <3>4. TapExact'
      BY <2>4, <2>5, <2>7, <3>1, <3>3 DEF TapExact
    <3>5. QED
      BY <2>5, <3>4 DEF TapShaped
  <2>8. QED
    BY <2>6, <2>7
<1>6. QED
  BY <1>2, <1>3, <1>4, <1>5 DEF BpFeed

\* The bytes a shift is still to be answered with, before it begins and while it
\* runs.
LEMMA BytesDue ==
  ASSUME TapShaped, bp.state \in {"TAP_TDI", "TAP_TMS"}
  PROVE  TdoBytes(bp.total) \in Nat /\ TdoBytes(bp.total) >= bp.out + 1
<1> DEFINE x == bp.total + ByteBits - 1
           q == x \div ByteBits
<1>1. /\ bp.done \in Nat /\ bp.out \in Nat /\ bp.total \in Nat
      /\ bp.done = bp.out * ByteBits /\ bp.done < bp.total
      /\ ByteBits \in Nat \ {0}
  BY TapAssumption DEF TapShaped, TapExact
<1>2. x \in Nat /\ q \in Int /\ ByteBits * q <= x /\ x < ByteBits * q + ByteBits
  BY <1>1
<1>3. ByteBits * bp.out < ByteBits * q
  BY <1>1, <1>2
<1>4. bp.out < q
  <2>1. SUFFICES ASSUME q <= bp.out
                 PROVE  FALSE
    BY <1>1, <1>2
  <2>2. ByteBits * q <= ByteBits * bp.out
    BY <1>1, <1>2, <2>1
  <2>3. QED
    BY <1>1, <1>2, <1>3, <2>2
<1>5. TdoBytes(bp.total) = q
  BY DEF TdoBytes
<1>6. QED
  BY <1>1, <1>2, <1>4, <1>5

LEMMA TdoBytesAreNat ==
  ASSUME NEW bits \in Nat
  PROVE  TdoBytes(bits) \in Nat
<1> DEFINE x == bits + ByteBits - 1
           q == x \div ByteBits
<1>1. ByteBits \in Nat \ {0} /\ x \in Nat
  BY TapAssumption
<1>2. q \in Int /\ x < ByteBits * q + ByteBits
  BY <1>1
<1>3. q >= 0
  <2>1. SUFFICES ASSUME q + 1 <= 0
                 PROVE  FALSE
    BY <1>2
  <2>2. ByteBits * (q + 1) <= 0
    BY <1>1, <1>2, <2>1
  <2>3. QED
    BY <1>1, <1>2, <2>2
<1>4. QED
  BY <1>2, <1>3 DEF TdoBytes

-----------------------------------------------------------------------------
(* The serprog operation.                                                   *)

LEMMA SpFreshShaped ==
  /\ DOMAIN SpFresh = {"state", "args", "wlen", "done", "cs"}
  /\ SpFresh.state = "IDLE" /\ SpFresh.args = 0 /\ SpFresh.wlen = 0 /\ SpFresh.done = 0
  BY DEF SpFresh

LEMMA SpFeedShaped ==
  ASSUME SpShaped, NEW c, NEW len \in SpLengths, SpFeed(c, len)
  PROVE  SpShaped'
<1> DEFINE Fields == {"state", "args", "wlen", "done", "cs"}
<1>1. /\ DOMAIN sp = Fields /\ sp.wlen \in Nat /\ sp.done \in Nat
      /\ sp.state \in SpStates /\ sp.args \in Int
      /\ sp.state \in {"ARGS", "WLEN", "RLEN"} => sp.args >= 1
      /\ sp.state = "WBYTES" => sp.done < sp.wlen
  BY DEF SpShaped
<1>2. SpStates = {"IDLE", "ARGS", "WLEN", "RLEN", "WBYTES"} /\ len \in Nat
  BY SpAssumption DEF SpStates
<1>3. CASE SpAnswer(c)
  BY <1>3 DEF SpAnswer, SpShaped
<1>4. CASE SpArgCommand(c)
  <2> DEFINE k == SpArgStates[c]
  <2>1. k \in {1, 4}
    BY <1>4 DEF SpArgCommand, SpArgStates
  <2>2. sp' = [sp EXCEPT !.state = "ARGS", !.args = k]
    BY <1>4 DEF SpArgCommand
  <2> HIDE DEF k
  <2>3. QED
    BY <1>1, <1>2, <2>1, <2>2 DEF SpShaped
<1>5. CASE SpArgByte
  <2> DEFINE s == IF sp.args = 1 THEN "IDLE" ELSE "ARGS"
  <2>1. sp' = [sp EXCEPT !.args = @ - 1, !.state = s] /\ sp.args >= 1
    BY <1>1, <1>5 DEF SpArgByte
  <2>2. s \in SpStates /\ s # "WBYTES" /\ (s \in {"ARGS", "WLEN", "RLEN"} => sp.args - 1 >= 1)
    BY <1>1, <1>2, <2>1
  <2> HIDE DEF s
  <2>3. QED
    BY <1>1, <2>1, <2>2 DEF SpShaped
<1>6. CASE SpOp(c)
  <2>1. sp' = [sp EXCEPT !.state = "WLEN", !.args = 3, !.wlen = 0]
    BY <1>6 DEF SpOp
  <2>2. QED
    BY <1>1, <1>2, <2>1 DEF SpShaped
<1>7. CASE SpWlenByte(len)
  <2>1. CASE sp.args > 1
    BY <1>1, <1>7, <2>1 DEF SpWlenByte, SpShaped
  <2>2. CASE ~(sp.args > 1)
    <3>1. sp' = [sp EXCEPT !.state = "RLEN", !.args = 3, !.wlen = len]
      BY <1>7, <2>2 DEF SpWlenByte
    <3>2. QED
      BY <1>1, <1>2, <3>1 DEF SpShaped
  <2>3. QED
    BY <2>1, <2>2
<1>8. CASE SpRlenByte
  <2> DEFINE selected == [sp EXCEPT !.args = 0, !.cs = TRUE]
  <2>1. /\ DOMAIN selected = Fields /\ selected.wlen = sp.wlen /\ selected.done = sp.done
        /\ selected.args = 0
    BY <1>1
  <2> HIDE DEF selected
  <2>2. CASE sp.args > 1 /\ sp' = [sp EXCEPT !.args = @ - 1]
    BY <1>1, <1>8, <2>2 DEF SpRlenByte, SpShaped
  <2>3. CASE sp' = SpFinish(selected)
    BY <1>1, <1>2, <2>1, <2>3 DEF SpFinish, SpShaped
  <2>4. CASE sp.wlen # 0 /\ sp' = [selected EXCEPT !.state = "WBYTES", !.done = 0]
    BY <1>1, <1>2, <2>1, <2>4 DEF SpShaped
  <2>5. QED
    BY <1>8, <2>2, <2>3, <2>4 DEF SpRlenByte, selected
<1>9. CASE SpWriteByte
  <2> DEFINE written == [sp EXCEPT !.done = @ + 1]
  <2>1. /\ DOMAIN written = Fields /\ written.state = "WBYTES" /\ written.args = sp.args
        /\ written.wlen = sp.wlen /\ written.done \in Nat
    BY <1>1, <1>9 DEF SpWriteByte
  <2>2. sp' = IF written.done >= sp.wlen THEN SpFinish(written) ELSE written
    BY <1>9 DEF SpWriteByte
  <2> HIDE DEF written
  <2>3. CASE written.done >= sp.wlen
    BY <1>1, <1>2, <2>1, <2>2, <2>3 DEF SpFinish, SpShaped
  <2>4. CASE ~(written.done >= sp.wlen)
    BY <1>1, <1>2, <2>1, <2>2, <2>4 DEF SpShaped
  <2>5. QED
    BY <2>3, <2>4
<1>10. QED
  BY <1>3, <1>4, <1>5, <1>6, <1>7, <1>8, <1>9 DEF SpFeed

-----------------------------------------------------------------------------
(* Both parsers in the shell.                                               *)

ParsersShaped == TapShaped /\ SpShaped

LEMMA InitParsers == ShellInit => ParsersShaped
<1> SUFFICES ASSUME ShellInit
             PROVE  ParsersShaped
  OBVIOUS
<1>1. bp = BpFresh /\ sp = SpFresh
  BY DEF ShellInit, BpInit, SpInit
<1>2. TapExact
  BY <1>1, BpFreshShaped, NoTdoBytes DEF TapExact
<1>3. QED
  BY <1>1, <1>2, BpFreshShaped, SpFreshShaped DEF ParsersShaped, TapShaped, SpShaped, SpStates

\* Entering or leaving a session starts the parser afresh.
LEMMA FreshParsers ==
  /\ bp' = BpFresh /\ TapShaped => TapShaped'
  /\ sp' = SpFresh /\ SpShaped => SpShaped'
<1>1. ASSUME bp' = BpFresh
      PROVE  TapShaped'
  BY <1>1, BpFreshShaped, NoTdoBytes DEF TapShaped, TapExact, TdoBytes
<1>2. ASSUME sp' = SpFresh
      PROVE  SpShaped'
  BY <1>2, SpFreshShaped DEF SpShaped, SpStates
<1>3. QED
  BY <1>1, <1>2

LEMMA NextParsers == ParsersShaped /\ [ShellNext]_shellvars => ParsersShaped'
<1> SUFFICES ASSUME ParsersShaped, [ShellNext]_shellvars
             PROVE  ParsersShaped'
  OBVIOUS
<1>1. BpByte \/ bp' = BpFresh \/ bp' = bp
  BY DEF ShellNext, ScanCommand, I2cProbeCommand, LaCommandBegin, SumpEnter, BuspirateEnter,
         SerprogEnter, UartEnter, UartExit, ResetCommand, BuspirateByte, BuspirateOnExit,
         SerprogByte, SumpByte, ScanProgress, LaProgress, SumpProgress, NoticeDtr, DisconnectChecks,
         CampaignWaits, CampaignReturns, PumpUart, ShiftUart, HostDtr, shellvars
<1>2. SpByte \/ sp' = SpFresh \/ sp' = sp
  BY DEF ShellNext, ScanCommand, I2cProbeCommand, LaCommandBegin, SumpEnter, BuspirateEnter,
         SerprogEnter, UartEnter, UartExit, ResetCommand, BuspirateByte, SerprogOnExit,
         SerprogByte, SumpByte, ScanProgress, LaProgress, SumpProgress, NoticeDtr, DisconnectChecks,
         CampaignWaits, CampaignReturns, PumpUart, ShiftUart, HostDtr, shellvars
<1>3. TapShaped'
  <2>1. CASE bp' = bp
    BY <2>1 DEF ParsersShaped, TapShaped, TapExact, TdoBytes
  <2>2. QED
    BY <1>1, <2>1, BpFeedShaped, FreshParsers DEF ParsersShaped, BpByte
<1>4. SpShaped'
  <2>1. CASE sp' = sp
    BY <2>1 DEF ParsersShaped, SpShaped
  <2>2. QED
    BY <1>2, <2>1, SpFeedShaped, FreshParsers DEF ParsersShaped, SpByte
<1>5. QED
  BY <1>3, <1>4 DEF ParsersShaped

-----------------------------------------------------------------------------
(* The bridge: what each of its operations does to the bytes it keeps.      *)

BridgeFields == {"on", "room", "pending", "dropped", "sent", "taken"}

Bridge(u) ==
  /\ DOMAIN u = BridgeFields
  /\ u.sent \in Seq(Nat) /\ u.pending \in Seq(Nat)
  /\ u.room \in Nat /\ u.dropped \in Nat /\ u.taken \in Nat
  /\ Len(u.pending) <= PendingCap

Kept(u) == u.sent \o u.pending

\* From u to v: the bytes in front of `bytes`' place m are kept behind the
\* others, and the rest of them is counted.
Accounts(u, v, bytes, m) ==
  /\ Kept(v) = Kept(u) \o SubSeq(bytes, 1, m)
  /\ v.dropped = u.dropped + Len(bytes) - m
  /\ v.taken = u.taken

LEMMA FewerIsLess ==
  ASSUME NEW a \in Nat, NEW b \in Nat
  PROVE  FewerOf(a, b) \in 0 .. b /\ FewerOf(a, b) <= a
  BY DEF FewerOf

LEMMA PartOfBytes ==
  ASSUME NEW bytes \in Seq(Nat), NEW m \in 0 .. Len(bytes)
  PROVE  /\ SubSeq(bytes, 1, m) \in Seq(Nat) /\ Len(SubSeq(bytes, 1, m)) = m
         /\ SubSeq(bytes, m + 1, Len(bytes)) \in Seq(Nat)
         /\ Len(SubSeq(bytes, m + 1, Len(bytes))) = Len(bytes) - m
         /\ SubSeq(bytes, 1, m) \o SubSeq(bytes, m + 1, Len(bytes)) = bytes
<1>1. Len(bytes) \in Nat /\ m \in Int /\ \A i \in 1 .. Len(bytes) : bytes[i] \in Nat
  BY LenProperties
<1>2. /\ SubSeq(bytes, 1, m) \in Seq(Nat)
      /\ Len(SubSeq(bytes, 1, m)) = IF 1 <= m THEN m - 1 + 1 ELSE 0
  <2>1. \A i \in 1 .. m : bytes[i] \in Nat
    BY <1>1
  <2>2. QED
    BY <1>1, <2>1, SubSeqProperties
<1>3. /\ SubSeq(bytes, m + 1, Len(bytes)) \in Seq(Nat)
      /\ Len(SubSeq(bytes, m + 1, Len(bytes)))
           = IF m + 1 <= Len(bytes) THEN Len(bytes) - (m + 1) + 1 ELSE 0
  <2>1. \A i \in m + 1 .. Len(bytes) : bytes[i] \in Nat
    BY <1>1
  <2>2. m + 1 \in Int
    BY <1>1
  <2>3. QED
    BY <1>1, <2>1, <2>2, SubSeqProperties
<1>4. SubSeq(bytes, 1, m) \o SubSeq(bytes, m + 1, Len(bytes)) = SubSeq(bytes, 1, Len(bytes))
  <2>1. 1 \in 1 .. Len(bytes) + 1 /\ m \in 1 - 1 .. Len(bytes) /\ Len(bytes) \in m .. Len(bytes)
    BY <1>1
  <2>2. QED
    BY <2>1, ConcatAdjacentSubSeq
<1>5. SubSeq(bytes, 1, Len(bytes)) = bytes
  BY SubSeqFull
<1>6. Len(SubSeq(bytes, 1, m)) = m /\ Len(SubSeq(bytes, m + 1, Len(bytes))) = Len(bytes) - m
  BY <1>1, <1>2, <1>3
<1>7. QED
  BY <1>2, <1>3, <1>4, <1>5, <1>6

LEMMA Regrouped ==
  ASSUME NEW a \in Seq(Nat), NEW b \in Seq(Nat), NEW c \in Seq(Nat)
  PROVE  (a \o b) \o c = a \o (b \o c)
  BY ConcatAssociative

LEMMA WriteAccepts ==
  ASSUME NEW u, Bridge(u), NEW bytes \in Seq(Nat)
  PROVE  /\ UartAccepted(u, bytes) \in 0 .. Len(bytes)
         /\ Bridge(UartWrite(u, bytes))
         /\ UartWrite(u, bytes).sent = u.sent \o SubSeq(bytes, 1, UartAccepted(u, bytes))
         /\ UartWrite(u, bytes).pending = u.pending
         /\ UartWrite(u, bytes).dropped = u.dropped
         /\ UartWrite(u, bytes).taken = u.taken
<1> DEFINE n == UartAccepted(u, bytes)
           v == UartWrite(u, bytes)
<1>1. n \in 0 .. Len(bytes) /\ n <= u.room
  BY LenProperties, FewerIsLess DEF UartAccepted, Bridge
<1>2. SubSeq(bytes, 1, n) \in Seq(Nat)
  BY <1>1, PartOfBytes
<1>3. u.sent \o SubSeq(bytes, 1, n) \in Seq(Nat)
  BY <1>2, ConcatProperties DEF Bridge
<1>4. v = [u EXCEPT !.room = @ - n, !.sent = @ \o SubSeq(bytes, 1, n)]
  BY DEF UartWrite
<1> HIDE DEF n, v
<1>5. /\ DOMAIN v = BridgeFields
      /\ v.room = u.room - n /\ v.sent = u.sent \o SubSeq(bytes, 1, n)
      /\ v.pending = u.pending /\ v.dropped = u.dropped /\ v.taken = u.taken
  BY <1>4 DEF Bridge, BridgeFields
<1>6. Bridge(v)
  <2>1. v.room \in Nat
    BY <1>1, <1>5, LenProperties DEF Bridge
  <2>2. QED
    BY <1>3, <1>5, <2>1 DEF Bridge
<1>7. QED
  BY <1>1, <1>5, <1>6 DEF n, v

LEMMA StageAccounts ==
  ASSUME NEW u, Bridge(u), NEW bytes \in Seq(Nat)
  PROVE  /\ Bridge(UartStage(u, bytes))
         /\ \E m \in 0 .. Len(bytes) : Accounts(u, UartStage(u, bytes), bytes, m)
<1> DEFINE n == FewerOf(PendingCap - Len(u.pending), Len(bytes))
           v == UartStage(u, bytes)
<1>1. n \in 0 .. Len(bytes) /\ n <= PendingCap - Len(u.pending)
  <2>1. Len(u.pending) \in Nat /\ Len(bytes) \in Nat
    BY LenProperties DEF Bridge
  <2>2. PendingCap - Len(u.pending) \in Nat
    BY <2>1, UartAssumption DEF Bridge
  <2>3. QED
    BY <2>1, <2>2, FewerIsLess
<1>2. SubSeq(bytes, 1, n) \in Seq(Nat) /\ Len(SubSeq(bytes, 1, n)) = n
  BY <1>1, PartOfBytes
<1>3. /\ u.pending \o SubSeq(bytes, 1, n) \in Seq(Nat)
      /\ Len(u.pending \o SubSeq(bytes, 1, n)) = Len(u.pending) + n
  BY <1>2, ConcatProperties DEF Bridge
<1>4. v = [u EXCEPT !.pending = @ \o SubSeq(bytes, 1, n), !.dropped = @ + Len(bytes) - n]
  BY DEF UartStage
<1> HIDE DEF n, v
<1>5. /\ DOMAIN v = BridgeFields
      /\ v.pending = u.pending \o SubSeq(bytes, 1, n)
      /\ v.dropped = u.dropped + Len(bytes) - n
      /\ v.sent = u.sent /\ v.room = u.room /\ v.taken = u.taken
  BY <1>4 DEF Bridge, BridgeFields
<1>6. Bridge(v)
  <2>1. Len(u.pending) \in Nat /\ Len(bytes) \in Nat
    BY LenProperties DEF Bridge
  <2>2. v.dropped \in Nat
    BY <1>1, <1>5, <2>1 DEF Bridge
  <2>3. Len(v.pending) <= PendingCap
    <3>1. Len(v.pending) = Len(u.pending) + n
      BY <1>3, <1>5
    <3>2. QED
      BY <1>1, <2>1, <3>1, UartAssumption
  <2>4. QED
    BY <1>3, <1>5, <2>2, <2>3 DEF Bridge
<1>7. Kept(v) = Kept(u) \o SubSeq(bytes, 1, n)
  <2>1. u.sent \in Seq(Nat) /\ u.pending \in Seq(Nat)
    BY DEF Bridge
  <2>2. (u.sent \o u.pending) \o SubSeq(bytes, 1, n) = u.sent \o (u.pending \o SubSeq(bytes, 1, n))
    BY <1>2, <2>1, Regrouped, Zenon
  <2>3. QED
    BY <1>5, <2>2 DEF Kept
<1>8. QED
  BY <1>1, <1>5, <1>6, <1>7 DEF Accounts, v

LEMMA FlushKeepsAll ==
  ASSUME NEW u, Bridge(u)
  PROVE  /\ Bridge(UartFlush(u))
         /\ Kept(UartFlush(u)) = Kept(u)
         /\ UartFlush(u).dropped = u.dropped /\ UartFlush(u).taken = u.taken
<1> DEFINE n == UartAccepted(u, u.pending)
           w == UartWrite(u, u.pending)
           rest == SubSeq(u.pending, n + 1, Len(u.pending))
           v == UartFlush(u)
<1>1. /\ n \in 0 .. Len(u.pending) /\ Bridge(w)
      /\ w.sent = u.sent \o SubSeq(u.pending, 1, n)
      /\ w.dropped = u.dropped /\ w.taken = u.taken
  BY WriteAccepts DEF Bridge
<1>2. /\ SubSeq(u.pending, 1, n) \in Seq(Nat)
      /\ rest \in Seq(Nat) /\ Len(rest) = Len(u.pending) - n
      /\ SubSeq(u.pending, 1, n) \o rest = u.pending
  BY <1>1, PartOfBytes DEF Bridge
<1>3. v = [w EXCEPT !.pending = rest]
  BY DEF UartFlush, UartRefused
<1> HIDE DEF n, w, rest, v
<1>4. /\ DOMAIN v = BridgeFields
      /\ v.pending = rest /\ v.sent = w.sent /\ v.room = w.room
      /\ v.dropped = w.dropped /\ v.taken = w.taken
  BY <1>1, <1>3 DEF Bridge, BridgeFields
<1>5. Bridge(v)
  <2>1. Len(rest) <= PendingCap
    <3>1. Len(u.pending) \in Nat /\ Len(u.pending) <= PendingCap
      BY LenProperties DEF Bridge
    <3>2. QED
      BY <1>1, <1>2, <3>1, UartAssumption
  <2>2. QED
    BY <1>1, <1>2, <1>4, <2>1 DEF Bridge
<1>6. Kept(v) = Kept(u)
  <2>1. u.sent \in Seq(Nat)
    BY DEF Bridge
  <2>2. (u.sent \o SubSeq(u.pending, 1, n)) \o rest = u.sent \o (SubSeq(u.pending, 1, n) \o rest)
    BY <1>2, <2>1, Regrouped, Zenon
  <2>3. QED
    BY <1>1, <1>2, <1>4, <2>2 DEF Kept
<1>7. QED
  BY <1>1, <1>4, <1>5, <1>6 DEF v

\* A part and the front of what is behind it are a longer part.
LEMMA PartsJoin ==
  ASSUME NEW bytes \in Seq(Nat), NEW k \in 0 .. Len(bytes), NEW m \in 0 .. Len(bytes) - k
  PROVE  SubSeq(bytes, 1, k) \o SubSeq(SubSeq(bytes, k + 1, Len(bytes)), 1, m)
           = SubSeq(bytes, 1, k + m)
<1> DEFINE part  == SubSeq(bytes, 1, k)
           rest  == SubSeq(bytes, k + 1, Len(bytes))
           front == SubSeq(rest, 1, m)
           whole == SubSeq(bytes, 1, k + m)
<1>1. Len(bytes) \in Nat /\ k \in Nat /\ m \in Nat /\ k + m \in 0 .. Len(bytes)
  BY LenProperties
<1>2. /\ part \in Seq(Nat) /\ Len(part) = k
      /\ rest \in Seq(Nat) /\ Len(rest) = Len(bytes) - k
  BY PartOfBytes
<1>3. front \in Seq(Nat) /\ Len(front) = m
  BY <1>2, PartOfBytes
<1>4. whole \in Seq(Nat) /\ Len(whole) = k + m
  BY <1>1, PartOfBytes
<1>5. \A i \in 1 .. Len(bytes) : bytes[i] \in Nat
  BY LenProperties
<1>6. \A i \in 1 .. k : part[i] = bytes[i]
  <2>1. \A i \in 1 .. k : bytes[i] \in Nat
    BY <1>1, <1>5
  <2>2. \A i \in 1 .. k - 1 + 1 : part[i] = bytes[1 + i - 1]
    BY <1>1, <2>1, SubSeqProperties
  <2>3. QED
    BY <1>1, <2>2
<1>7. \A i \in 1 .. k + m : whole[i] = bytes[i]
  <2>1. \A i \in 1 .. k + m : bytes[i] \in Nat
    BY <1>1, <1>5
  <2>2. \A i \in 1 .. k + m - 1 + 1 : whole[i] = bytes[1 + i - 1]
    BY <1>1, <2>1, SubSeqProperties
  <2>3. QED
    BY <1>1, <2>2
<1>8. \A i \in 1 .. Len(bytes) - k : rest[i] = bytes[k + i]
  <2>1. \A i \in k + 1 .. Len(bytes) : bytes[i] \in Nat
    BY <1>1, <1>5
  <2>2. \A i \in 1 .. Len(bytes) - (k + 1) + 1 : rest[i] = bytes[k + 1 + i - 1]
    BY <1>1, <2>1, SubSeqProperties
  <2>3. QED
    BY <1>1, <2>2
<1>9. \A i \in 1 .. m : front[i] = bytes[k + i]
  <2>1. \A i \in 1 .. m : rest[i] \in Nat
    BY <1>1, <1>5, <1>8
  <2>2. \A i \in 1 .. m - 1 + 1 : front[i] = rest[1 + i - 1]
    BY <1>1, <2>1, SubSeqProperties
  <2>3. QED
    BY <1>1, <1>8, <2>2
<1> HIDE DEF part, rest, front, whole
<1>10. /\ part \o front \in Seq(Nat) /\ Len(part \o front) = k + m
       /\ \A i \in 1 .. k + m : (part \o front)[i] = IF i <= k THEN part[i] ELSE front[i - k]
  BY <1>2, <1>3, ConcatProperties
<1>11. ASSUME NEW i \in 1 .. k + m
       PROVE  (part \o front)[i] = whole[i]
  <2>1. CASE i <= k
    <3>1. i \in 1 .. k
      BY <1>1, <2>1
    <3>2. part[i] = bytes[i] /\ whole[i] = bytes[i]
      BY <1>6, <1>7, <3>1
    <3>3. (part \o front)[i] = part[i]
      BY <1>10, <2>1
    <3>4. QED
      BY <3>2, <3>3
  <2>2. CASE ~(i <= k)
    <3>1. i - k \in 1 .. m /\ k + (i - k) = i
      BY <1>1, <2>2
    <3>2. QED
      BY <1>7, <1>9, <1>10, <2>2, <3>1
  <2>3. QED
    BY <2>1, <2>2
<1>12. part \o front = whole
  BY <1>4, <1>10, <1>11, SeqEqual
<1>13. QED
  BY <1>12 DEF part, rest, front, whole

\* pump_uart_passthrough: whatever the room, what is kept of new bytes is their
\* front, behind everything kept before.
LEMMA ForwardAccounts ==
  ASSUME NEW u, Bridge(u), NEW bytes \in Seq(Nat)
  PROVE  /\ Bridge(UartForward(u, bytes))
         /\ \E m \in 0 .. Len(bytes) : Accounts(u, UartForward(u, bytes), bytes, m)
<1> DEFINE f == UartFlush(u)
           w == UartWrite(f, bytes)
           k == UartAccepted(f, bytes)
           rest == SubSeq(bytes, k + 1, Len(bytes))
           v == UartForward(u, bytes)
<1>1. /\ Bridge(f) /\ Kept(f) = Kept(u)
      /\ f.dropped = u.dropped /\ f.taken = u.taken
  BY FlushKeepsAll
<1>2. v = IF f.pending = <<>> THEN UartStage(w, rest) ELSE UartStage(f, bytes)
  BY DEF UartForward, UartRefused
<1>3. /\ k \in 0 .. Len(bytes) /\ Bridge(w)
      /\ w.sent = f.sent \o SubSeq(bytes, 1, k) /\ w.pending = f.pending
      /\ w.dropped = f.dropped /\ w.taken = f.taken
  BY <1>1, WriteAccepts
<1> HIDE DEF f, w, k, rest, v
<1>4. CASE f.pending # <<>>
  <2>1. v = UartStage(f, bytes)
    BY <1>2, <1>4
  <2>2. Bridge(v) /\ \E m \in 0 .. Len(bytes) : Accounts(f, v, bytes, m)
    BY <1>1, <2>1, StageAccounts
  <2>3. \E m \in 0 .. Len(bytes) : Accounts(u, v, bytes, m)
    BY <1>1, <2>2 DEF Accounts
  <2>4. QED
    BY <2>2, <2>3 DEF v
<1>5. CASE f.pending = <<>>
  <2>1. /\ SubSeq(bytes, 1, k) \in Seq(Nat)
        /\ rest \in Seq(Nat) /\ Len(rest) = Len(bytes) - k
    BY <1>3, PartOfBytes DEF rest
  <2>2. v = UartStage(w, rest)
    BY <1>2, <1>5
  <2>3. Bridge(v) /\ \E m \in 0 .. Len(rest) : Accounts(w, v, rest, m)
    BY <1>3, <2>1, <2>2, StageAccounts
  <2>4. PICK m \in 0 .. Len(rest) : Accounts(w, v, rest, m)
    BY <2>3
  <2>5. Kept(w) = Kept(u) \o SubSeq(bytes, 1, k)
    <3>1. f.sent \in Seq(Nat) /\ f.sent \o SubSeq(bytes, 1, k) \in Seq(Nat)
      BY <1>1, <2>1, ConcatProperties DEF Bridge
    <3>2. f.sent \o <<>> = f.sent
      BY <3>1, ConcatEmptySeq
    <3>3. (f.sent \o SubSeq(bytes, 1, k)) \o <<>> = f.sent \o SubSeq(bytes, 1, k)
      BY <3>1, ConcatEmptySeq
    <3>4. QED
      BY <1>1, <1>3, <1>5, <3>2, <3>3, Zenon DEF Kept
  <2>6. SubSeq(bytes, 1, k) \o SubSeq(rest, 1, m) = SubSeq(bytes, 1, k + m)
    BY <1>3, <2>1, PartsJoin DEF rest
  <2>7. Kept(v) = Kept(u) \o SubSeq(bytes, 1, k + m)
    <3>1. Kept(u) \in Seq(Nat)
      BY ConcatProperties DEF Kept, Bridge
    <3>2. SubSeq(rest, 1, m) \in Seq(Nat)
      BY <2>1, PartOfBytes
    <3>3. (Kept(u) \o SubSeq(bytes, 1, k)) \o SubSeq(rest, 1, m)
            = Kept(u) \o (SubSeq(bytes, 1, k) \o SubSeq(rest, 1, m))
      BY <2>1, <3>1, <3>2, Regrouped, Zenon
    <3>4. Kept(v) = Kept(w) \o SubSeq(rest, 1, m)
      BY <2>4 DEF Accounts
    <3>5. QED
      BY <2>5, <2>6, <3>3, <3>4, Zenon
  <2>8. /\ v.dropped = u.dropped + Len(bytes) - (k + m) /\ v.taken = u.taken
        /\ k + m \in 0 .. Len(bytes)
    <3>1. v.dropped = w.dropped + Len(rest) - m /\ v.taken = w.taken
      BY <2>4 DEF Accounts
    <3>2. Len(bytes) \in Nat /\ u.dropped \in Nat
      BY LenProperties DEF Bridge
    <3>3. QED
      BY <1>1, <1>3, <2>1, <3>1, <3>2
  <2>9. QED
    BY <2>3, <2>7, <2>8 DEF Accounts, v
<1>6. QED
  BY <1>4, <1>5

-----------------------------------------------------------------------------
(* The bridge in the shell.                                                 *)

\* Numbers that rise and end at `top` or below.
Rising(s, top) ==
  /\ \A i, j \in 1 .. Len(s) : i < j => s[i] < s[j]
  /\ \A i \in 1 .. Len(s) : s[i] <= top

BridgeInOrder(u) ==
  /\ Bridge(u)
  /\ Rising(Kept(u), u.taken)
  /\ Len(Kept(u)) + u.dropped = u.taken

LEMMA RisesOn ==
  ASSUME NEW s \in Seq(Nat), NEW top \in Nat, Rising(s, top), NEW n \in Nat, NEW m \in 0 .. n
  PROVE  LET bytes == [i \in 1 .. n |-> top + i]
         IN  /\ bytes \in Seq(Nat) /\ Len(bytes) = n
             /\ Len(s \o SubSeq(bytes, 1, m)) = Len(s) + m
             /\ Rising(s \o SubSeq(bytes, 1, m), top + n)
<1> DEFINE bytes == [i \in 1 .. n |-> top + i]
           part  == SubSeq(bytes, 1, m)
           all   == s \o part
<1>1. bytes \in Seq(Nat) /\ Len(bytes) = n /\ \A i \in 1 .. n : bytes[i] = top + i
  OBVIOUS
<1>2. part \in Seq(Nat) /\ Len(part) = m /\ \A i \in 1 .. m : part[i] = top + i
  <2>1. \A i \in 1 .. m : bytes[i] \in Nat
    BY <1>1
  <2>2. \A i \in 1 .. m - 1 + 1 : part[i] = bytes[1 + i - 1]
    BY <2>1, SubSeqProperties
  <2>3. part \in Seq(Nat) /\ Len(part) = m
    BY <1>1, PartOfBytes
  <2>4. QED
    BY <1>1, <2>2, <2>3
<1> HIDE DEF bytes, part
<1>3. /\ Len(all) = Len(s) + m
      /\ \A i \in 1 .. Len(s) + m : all[i] = IF i <= Len(s) THEN s[i] ELSE part[i - Len(s)]
  BY <1>2, ConcatProperties
<1>4. Len(s) \in Nat /\ \A i \in 1 .. Len(s) : s[i] \in Nat /\ s[i] <= top
  BY LenProperties DEF Rising
<1> HIDE DEF all
<1>5. ASSUME NEW i \in 1 .. Len(s) + m
      PROVE  IF i <= Len(s) THEN all[i] = s[i] /\ all[i] <= top ELSE all[i] = top + (i - Len(s))
  <2>1. CASE i <= Len(s)
    BY <1>3, <1>4, <2>1
  <2>2. CASE ~(i <= Len(s))
    <3>1. i - Len(s) \in 1 .. m
      BY <1>4, <2>2
    <3>2. QED
      BY <1>2, <1>3, <2>2, <3>1
  <2>3. QED
    BY <2>1, <2>2
<1>6. ASSUME NEW i \in 1 .. Len(s) + m, NEW j \in 1 .. Len(s) + m, i < j
      PROVE  all[i] < all[j]
  <2>1. CASE j <= Len(s)
    <3>1. i \in 1 .. Len(s) /\ j \in 1 .. Len(s)
      BY <1>4, <1>6, <2>1
    <3>2. QED
      BY <1>3, <1>6, <3>1 DEF Rising
  <2>2. CASE ~(j <= Len(s)) /\ i <= Len(s)
    <3>1. all[i] \in Nat /\ all[i] <= top /\ all[j] = top + (j - Len(s))
      BY <1>4, <1>5, <2>2
    <3>2. QED
      BY <1>4, <2>2, <3>1
  <2>3. CASE ~(i <= Len(s))
    <3>1. all[i] = top + (i - Len(s)) /\ all[j] = top + (j - Len(s))
      BY <1>4, <1>5, <1>6, <2>3
    <3>2. QED
      BY <1>4, <1>6, <3>1
  <2>4. QED
    BY <2>1, <2>2, <2>3
<1>7. ASSUME NEW i \in 1 .. Len(s) + m
      PROVE  all[i] <= top + n
  <2>1. CASE i <= Len(s)
    BY <1>4, <1>5, <2>1
  <2>2. CASE ~(i <= Len(s))
    BY <1>4, <1>5, <2>2
  <2>3. QED
    BY <2>1, <2>2
<1>8. Rising(all, top + n)
  BY <1>3, <1>6, <1>7 DEF Rising
<1>9. QED
  BY <1>1, <1>3, <1>8 DEF bytes, part, all

\* A bridge that is off keeps no bytes, but the count of the last session's drops.
BridgeSafe(u) == Bridge(u) /\ (u.on => BridgeInOrder(u))

LEMMA FreshBridge == BridgeSafe(UartOff) /\ BridgeSafe(UartSession)
<1>1. ASSUME NEW u, DOMAIN u = BridgeFields, u.room = FifoRoom, u.pending = <<>>,
             u.dropped = 0, u.sent = <<>>, u.taken = 0
      PROVE  BridgeInOrder(u)
  <2>1. <<>> \in Seq(Nat) /\ Len(<<>>) = 0 /\ <<>> \o <<>> = <<>>
    OBVIOUS
  <2>2. Bridge(u)
    BY <1>1, <2>1, UartAssumption DEF Bridge
  <2>3. Kept(u) = <<>>
    BY <1>1, <2>1 DEF Kept
  <2>4. QED
    BY <1>1, <2>1, <2>2, <2>3 DEF BridgeInOrder, Rising
<1>2. /\ DOMAIN UartOff = BridgeFields /\ UartOff.room = FifoRoom /\ UartOff.pending = <<>>
      /\ UartOff.dropped = 0 /\ UartOff.sent = <<>> /\ UartOff.taken = 0
  BY DEF UartOff, BridgeFields
<1>3. /\ DOMAIN UartSession = BridgeFields /\ UartSession.room = FifoRoom
      /\ UartSession.pending = <<>> /\ UartSession.dropped = 0
      /\ UartSession.sent = <<>> /\ UartSession.taken = 0
  BY <1>2 DEF UartSession, BridgeFields
<1>4. QED
  BY <1>1, <1>2, <1>3 DEF BridgeSafe, BridgeInOrder

LEMMA ClosedBridge ==
  ASSUME NEW u, Bridge(u)
  PROVE  BridgeSafe(UartClosed(u))
<1>1. /\ DOMAIN UartOff = BridgeFields /\ UartOff.on = FALSE /\ Bridge(UartOff)
  BY FreshBridge DEF UartOff, BridgeFields, BridgeSafe
<1>2. UartClosed(u) = [UartOff EXCEPT !.dropped = u.dropped]
  BY DEF UartClosed
<1>3. u.dropped \in Nat
  BY DEF Bridge
<1>4. /\ DOMAIN UartClosed(u) = BridgeFields /\ UartClosed(u).on = FALSE
      /\ UartClosed(u).room = UartOff.room /\ UartClosed(u).pending = UartOff.pending
      /\ UartClosed(u).sent = UartOff.sent /\ UartClosed(u).taken = UartOff.taken
      /\ UartClosed(u).dropped = u.dropped
  BY <1>1, <1>2 DEF BridgeFields
<1>5. Bridge(UartClosed(u))
  BY <1>1, <1>3, <1>4 DEF Bridge
<1>6. QED
  BY <1>4, <1>5 DEF BridgeSafe

LEMMA PumpKeepsOrder ==
  ASSUME BridgeInOrder(uart), UartPump
  PROVE  BridgeInOrder(uart')
<1>1. PICK n \in 0 .. FewerOf(ReadMax, MaxBytes - uart.taken) :
        uart' = [UartForward(uart, [i \in 1 .. n |-> uart.taken + i]) EXCEPT !.taken = @ + n]
  BY DEF UartPump
<1> DEFINE bytes == [i \in 1 .. n |-> uart.taken + i]
           v == UartForward(uart, bytes)
<1>2. Bridge(uart) /\ Rising(Kept(uart), uart.taken) /\ Len(Kept(uart)) + uart.dropped = uart.taken
  BY DEF BridgeInOrder
<1>3. Kept(uart) \in Seq(Nat) /\ uart.taken \in Nat /\ uart.dropped \in Nat
  BY <1>2, ConcatProperties DEF Kept, Bridge
<1>4. n \in Nat
  OBVIOUS
<1>5. bytes \in Seq(Nat) /\ Len(bytes) = n
  BY <1>3, <1>4
<1>6. Bridge(v) /\ \E m \in 0 .. Len(bytes) : Accounts(uart, v, bytes, m)
  BY <1>2, <1>5, ForwardAccounts
<1>7. PICK m \in 0 .. n : Accounts(uart, v, bytes, m)
  BY <1>5, <1>6
<1>8. /\ Len(Kept(uart) \o SubSeq(bytes, 1, m)) = Len(Kept(uart)) + m
      /\ Rising(Kept(uart) \o SubSeq(bytes, 1, m), uart.taken + n)
  BY <1>2, <1>3, <1>4, RisesOn
<1>9. uart' = [v EXCEPT !.taken = @ + n]
  BY <1>1
<1> HIDE DEF bytes, v
<1>10. /\ Kept(v) = Kept(uart) \o SubSeq(bytes, 1, m)
       /\ v.dropped = uart.dropped + n - m /\ v.taken = uart.taken
  BY <1>5, <1>7 DEF Accounts
<1>11. /\ DOMAIN uart' = BridgeFields /\ uart'.taken = uart.taken + n
       /\ uart'.room = v.room /\ uart'.pending = v.pending
       /\ uart'.sent = v.sent /\ uart'.dropped = v.dropped
  BY <1>6, <1>9, <1>10 DEF Bridge, BridgeFields
<1>12. Bridge(uart')
  <2>1. uart'.taken \in Nat
    BY <1>3, <1>4, <1>11
  <2>2. QED
    BY <1>6, <1>11, <2>1 DEF Bridge
<1>13. Kept(uart') = Kept(uart) \o SubSeq(bytes, 1, m)
  BY <1>10, <1>11 DEF Kept
<1>14. Rising(Kept(uart'), uart'.taken)
  BY <1>8, <1>11, <1>13
<1>15. Len(Kept(uart')) + uart'.dropped = uart'.taken
  <2>1. Len(Kept(uart')) = Len(Kept(uart)) + m
    BY <1>8, <1>13
  <2>2. Len(Kept(uart)) \in Nat
    BY <1>3, LenProperties
  <2>3. QED
    BY <1>2, <1>3, <1>4, <1>10, <1>11, <2>1, <2>2
<1>16. QED
  BY <1>12, <1>14, <1>15 DEF BridgeInOrder

LEMMA ShiftKeepsOrder ==
  ASSUME BridgeInOrder(uart), UartShift
  PROVE  BridgeInOrder(uart')
<1>1. Bridge(uart)
  BY DEF BridgeInOrder
<1>2. uart' = [uart EXCEPT !.room = @ + 1]
  BY DEF UartShift
<1>3. /\ DOMAIN uart' = BridgeFields /\ uart'.taken = uart.taken
      /\ uart'.room = uart.room + 1 /\ uart'.pending = uart.pending
      /\ uart'.sent = uart.sent /\ uart'.dropped = uart.dropped
  BY <1>1, <1>2 DEF Bridge, BridgeFields
<1>4. Bridge(uart')
  BY <1>1, <1>3 DEF Bridge
<1>5. Kept(uart') = Kept(uart)
  BY <1>3 DEF Kept
<1>6. QED
  BY <1>3, <1>4, <1>5 DEF BridgeInOrder, Rising

LEMMA NextKeepsOrder ==
  ASSUME BridgeSafe(uart), [ShellNext]_shellvars
  PROVE  BridgeSafe(uart')
<1>1. UartPump \/ UartShift \/ uart' = UartSession \/ uart' = UartClosed(uart) \/ uart' = uart
  BY DEF ShellNext, ScanCommand, I2cProbeCommand, LaCommandBegin, SumpEnter, BuspirateEnter,
         SerprogEnter, UartEnter, UartExit, UartDisable, ResetCommand, BuspirateByte,
         SerprogByte, SumpByte, ScanProgress, LaProgress, SumpProgress, NoticeDtr, DisconnectChecks, CampaignWaits, CampaignReturns, PumpUart,
         ShiftUart, HostDtr, shellvars
<1>2. CASE uart' = uart
  BY <1>2, Zenon
<1>3. CASE UartPump \/ UartShift
  <2>1. BridgeInOrder(uart)
    BY <1>3 DEF UartPump, UartShift, BridgeSafe
  <2>2. BridgeInOrder(uart')
    BY <1>3, <2>1, PumpKeepsOrder, ShiftKeepsOrder
  <2>3. QED
    BY <2>2 DEF BridgeSafe, BridgeInOrder
<1>4. CASE uart' = UartSession
  BY <1>4, FreshBridge, Zenon
<1>5. CASE uart' = UartClosed(uart)
  <2>1. BridgeSafe(UartClosed(uart))
    BY ClosedBridge DEF BridgeSafe
  <2>2. QED
    BY <1>5, <2>1, Zenon
<1>6. QED
  BY <1>1, <1>2, <1>3, <1>4, <1>5

\* pump_uart_passthrough, tx_flush_pending and tx_stage: whatever the FIFO, the
\* staging buffer and the times at which the UART shifts, the bytes of the host
\* leave in order and every one is sent, staged or counted as dropped.
THEOREM BridgeKeepsOrder == ShellSpec => []UartInOrder
<1>1. ShellInit => BridgeSafe(uart)
  BY FreshBridge DEF ShellInit, UartInit
<1>2. BridgeSafe(uart) /\ [ShellNext]_shellvars => BridgeSafe(uart)'
  BY NextKeepsOrder
<1>3. BridgeSafe(uart) => UartInOrder
  BY DEF BridgeSafe, BridgeInOrder, Rising, Kept, UartInOrder
<1>4. QED
  BY <1>1, <1>2, <1>3, PTL DEF ShellSpec

-----------------------------------------------------------------------------
(* The pinout scanner.                                                      *)

\* The pairs up to and with `last`.
UpTo(last) == {p \in Pairs : last # NoPair /\ (p = last \/ Precedes(p, last))}

\* While it runs, a sweep has tried all pairs up to the last one, and none of
\* them was the target's.
ScanInStep ==
  /\ DOMAIN scan = {"kind", "last", "wired", "tried", "match"}
  /\ ScanActive =>
       /\ scan.last \in Pairs \cup {NoPair} /\ scan.wired \in Pairs \cup {NoPair}
       /\ scan.match = NoPair
       /\ scan.tried = UpTo(scan.last)
       /\ scan.wired \notin UpTo(scan.last)
  /\ ScanCovers

-----------------------------------------------------------------------------
(* The order of the pairs.                                                  *)

LEMMA PairsAreNumbers ==
  ASSUME NEW p \in Pairs
  PROVE  /\ p[1] \in Nat /\ p[2] \in Nat /\ p = <<p[1], p[2]>> /\ p # NoPair
         /\ p \in Nat \X Nat
<1>1. PICK a, b \in Channels : p = <<a, b>>
  BY DEF Pairs
<1>2. a \in Nat /\ b \in Nat
  BY ScanAssumption
<1>3. QED
  BY <1>1, <1>2 DEF NoPair

LEMMA PrecedesIsTotal ==
  ASSUME NEW p \in Pairs, NEW q \in Pairs
  PROVE  p = q \/ Precedes(p, q) \/ Precedes(q, p)
  BY PairsAreNumbers DEF Precedes

LEMMA PrecedesIsStrict ==
  ASSUME NEW p \in Pairs, NEW q \in Pairs, Precedes(p, q)
  PROVE  ~Precedes(q, p) /\ p # q
  BY PairsAreNumbers DEF Precedes

LEMMA PrecedesIsTransitive ==
  ASSUME NEW p \in Pairs, NEW q \in Pairs, NEW r \in Pairs, Precedes(p, q), Precedes(q, r)
  PROVE  Precedes(p, r)
  BY PairsAreNumbers DEF Precedes

NatLess == OpToRel(<, Nat)
PairLess == LexPairOrdering(NatLess, NatLess, Nat, Nat)

LEMMA NatLessIs ==
  ASSUME NEW a \in Nat, NEW b \in Nat
  PROVE  <<a, b>> \in NatLess <=> a < b
  BY DEF NatLess, OpToRel

LEMMA PairLessIsWellFounded == IsWellFoundedOn(PairLess, Nat \X Nat)
<1>1. IsWellFoundedOn(NatLess, Nat)
  BY NatLessThanWellFounded DEF NatLess
<1>2. QED
  BY <1>1, WFLexPairOrdering DEF PairLess

LEMMA PairLessIs ==
  ASSUME NEW p \in Pairs, NEW q \in Pairs, Precedes(p, q)
  PROVE  <<p, q>> \in PairLess
<1>1. /\ p \in Nat \X Nat /\ q \in Nat \X Nat
      /\ p[1] \in Nat /\ p[2] \in Nat /\ q[1] \in Nat /\ q[2] \in Nat
  BY PairsAreNumbers
<1>2. <<p[1], q[1]>> \in NatLess \/ (p[1] = q[1] /\ <<p[2], q[2]>> \in NatLess)
  BY <1>1, NatLessIs DEF Precedes
<1> DEFINE pq == <<p, q>>
<1>3. pq \in (Nat \X Nat) \X (Nat \X Nat) /\ pq[1] = p /\ pq[2] = q
  BY <1>1
<1> HIDE DEF pq
<1>4. pq \in PairLess
  BY <1>2, <1>3 DEF PairLess, LexPairOrdering
<1>5. QED
  BY <1>4 DEF pq

\* pinout_perm_next: unless all pairs were handed out, there is a first one
\* among those left.
LEMMA NextIsFirst ==
  ASSUME NEW last, PermCandidates(last) # {}
  PROVE  /\ PermNext(last) \in PermCandidates(last)
         /\ \A q \in PermCandidates(last) \ {PermNext(last)} : Precedes(PermNext(last), q)
<1> DEFINE C == PermCandidates(last)
<1>1. C \subseteq Pairs
  BY DEF PermCandidates
<1>2. C \subseteq Nat \X Nat
  BY <1>1, PairsAreNumbers
<1>3. PICK p \in C : \A q \in C : ~(<<q, p>> \in PairLess)
  <2> HIDE DEF C
  <2>1. C # {}
    BY DEF C
  <2>2. QED
    BY <1>2, <2>1, PairLessIsWellFounded, WFMin
<1>4. \A q \in C \ {p} : Precedes(p, q)
  BY <1>1, <1>3, PairLessIs, PrecedesIsTotal
<1>5. QED
  BY <1>4 DEF PermNext

-----------------------------------------------------------------------------
(* One candidate.                                                           *)

\* The confirming reads accept the wired pair and no other.
LEMMA ConfirmedIsWired ==
  ASSUME NEW pair, NEW wired, NEW r \in ReadsOf(pair, wired)
  PROVE  Confirmed(r) <=> pair = wired
<1>1. r \in [1 .. 1 + ConfirmReads -> Readings \cup {NoReading}] /\ Steady(r) = (pair = wired)
  BY DEF ReadsOf, Reads
<1>2. ConfirmReads \in Nat /\ NoReading \notin Readings
  BY ScanAssumption
<1>3. r[1] \in Readings \cup {NoReading} /\ DOMAIN r = 1 .. 1 + ConfirmReads
  BY <1>1, <1>2
<1>4. Steady(r) <=> Confirmed(r)
  BY <1>2, <1>3 DEF Steady, Confirmed
<1>5. QED
  BY <1>1, <1>4

LEMMA NextIsAdded ==
  ASSUME NEW last \in Pairs \cup {NoPair}, PermCandidates(last) # {}
  PROVE  /\ PermNext(last) \in Pairs
         /\ UpTo(PermNext(last)) = UpTo(last) \cup {PermNext(last)}
<1> DEFINE next == PermNext(last)
<1>1. /\ next \in Pairs /\ (last = NoPair \/ Precedes(last, next))
      /\ \A q \in PermCandidates(last) \ {next} : Precedes(next, q)
  BY NextIsFirst DEF PermCandidates
<1> HIDE DEF next
<1>2. next # NoPair
  BY <1>1, PairsAreNumbers
<1>3. ASSUME NEW p \in UpTo(next), p # next
      PROVE  p \in UpTo(last)
  <2>1. p \in Pairs /\ Precedes(p, next)
    BY <1>3 DEF UpTo
  <2>2. p \notin PermCandidates(last)
    BY <1>1, <1>3, <2>1, PrecedesIsStrict
  <2>3. last \in Pairs /\ last # NoPair /\ ~Precedes(last, p)
    BY <2>1, <2>2 DEF PermCandidates
  <2>4. QED
    BY <2>1, <2>3, PrecedesIsTotal DEF UpTo
<1>4. ASSUME NEW p \in UpTo(last)
      PROVE  p \in UpTo(next)
  <2>1. p \in Pairs /\ last \in Pairs /\ (p = last \/ Precedes(p, last))
    BY DEF UpTo
  <2>2. last # NoPair /\ Precedes(last, next)
    BY <1>1, <2>1, PairsAreNumbers
  <2>3. Precedes(p, next)
    BY <1>1, <2>1, <2>2, PrecedesIsTransitive
  <2>4. QED
    BY <1>2, <2>1, <2>3 DEF UpTo
<1>5. next \in UpTo(next)
  BY <1>1, <1>2 DEF UpTo
<1>6. QED
  BY <1>1, <1>3, <1>4, <1>5 DEF next

LEMMA NoneLeft ==
  ASSUME NEW last \in Pairs \cup {NoPair}, PermCandidates(last) = {}
  PROVE  UpTo(last) = Pairs
<1>1. CASE last = NoPair
  BY <1>1 DEF PermCandidates, UpTo
<1>2. CASE last # NoPair
  <2>1. last \in Pairs /\ \A p \in Pairs : ~Precedes(last, p)
    BY <1>2 DEF PermCandidates
  <2>2. QED
    BY <1>2, <2>1, PrecedesIsTotal DEF UpTo
<1>3. QED
  BY <1>1, <1>2

-----------------------------------------------------------------------------
(* The sweep.                                                               *)

LEMMA CandidateKeeps ==
  ASSUME ScanInStep, ScanCandidate
  PROVE  ScanInStep'
<1> DEFINE pair == PermNext(scan.last)
<1>1. /\ DOMAIN scan = {"kind", "last", "wired", "tried", "match"}
      /\ ScanActive /\ PermCandidates(scan.last) # {}
      /\ scan.last \in Pairs \cup {NoPair} /\ scan.wired \in Pairs \cup {NoPair}
      /\ scan.match = NoPair
      /\ scan.tried = UpTo(scan.last) /\ scan.wired \notin UpTo(scan.last)
  BY DEF ScanInStep, ScanCandidate
<1>2. pair \in Pairs /\ pair # NoPair /\ UpTo(pair) = UpTo(scan.last) \cup {pair}
  BY <1>1, NextIsAdded, PairsAreNumbers
<1>3. \/ /\ pair = scan.wired
         /\ scan' = [scan EXCEPT !.kind = "REPORT", !.match = pair, !.tried = @ \cup {pair}]
      \/ /\ pair # scan.wired
         /\ scan' = [scan EXCEPT !.last = pair, !.tried = @ \cup {pair}]
  BY ConfirmedIsWired DEF ScanCandidate
<1> HIDE DEF pair
<1>4. CASE /\ pair = scan.wired
           /\ scan' = [scan EXCEPT !.kind = "REPORT", !.match = pair, !.tried = @ \cup {pair}]
  <2>1. /\ DOMAIN scan' = {"kind", "last", "wired", "tried", "match"}
        /\ scan'.kind = "REPORT" /\ scan'.match = pair /\ scan'.wired = scan.wired
        /\ scan'.tried = UpTo(pair)
    BY <1>1, <1>2, <1>4
  <2>2. UpTo(pair) = {p \in Pairs : pair = NoPair \/ p = pair \/ Precedes(p, pair)}
    BY <1>2 DEF UpTo
  <2>3. QED
    BY <1>4, <2>1, <2>2 DEF ScanInStep, ScanCovers, ScanActive
<1>5. CASE /\ pair # scan.wired
           /\ scan' = [scan EXCEPT !.last = pair, !.tried = @ \cup {pair}]
  <2>1. /\ DOMAIN scan' = {"kind", "last", "wired", "tried", "match"}
        /\ scan'.kind = scan.kind /\ scan'.match = NoPair /\ scan'.wired = scan.wired
        /\ scan'.last = pair /\ scan'.tried = UpTo(pair)
    BY <1>1, <1>2, <1>5
  <2>2. scan.wired \notin UpTo(pair)
    BY <1>1, <1>2, <1>5
  <2>3. scan.kind # "REPORT"
    BY <1>1 DEF ScanActive
  <2>4. QED
    BY <1>1, <1>2, <2>1, <2>2, <2>3 DEF ScanInStep, ScanCovers, ScanActive
<1>6. QED
  BY <1>3, <1>4, <1>5

LEMMA ExhaustedKeeps ==
  ASSUME ScanInStep, ScanExhausted
  PROVE  ScanInStep'
<1>1. /\ DOMAIN scan = {"kind", "last", "wired", "tried", "match"}
      /\ PermCandidates(scan.last) = {}
      /\ scan.last \in Pairs \cup {NoPair} /\ scan.wired \in Pairs \cup {NoPair}
      /\ scan.match = NoPair
      /\ scan.tried = UpTo(scan.last) /\ scan.wired \notin UpTo(scan.last)
      /\ scan' = [scan EXCEPT !.kind = "REPORT"]
  BY DEF ScanInStep, ScanExhausted
<1>2. scan.tried = Pairs /\ scan.wired = NoPair
  BY <1>1, NoneLeft
<1>3. /\ DOMAIN scan' = {"kind", "last", "wired", "tried", "match"}
      /\ scan'.kind = "REPORT" /\ scan'.match = NoPair /\ scan'.wired = NoPair
      /\ scan'.tried = Pairs
  BY <1>1, <1>2
<1>4. QED
  BY <1>3 DEF ScanInStep, ScanCovers, ScanActive

LEMMA BeginKeeps ==
  ASSUME NEW kind \in {"SWD", "I2C"}, ScanBegin(kind)
  PROVE  ScanInStep'
<1>1. PICK wired \in Pairs \cup {NoPair} : scan' = [ScanOff EXCEPT !.kind = kind, !.wired = wired]
  BY DEF ScanBegin
<1>2. /\ DOMAIN scan' = {"kind", "last", "wired", "tried", "match"}
      /\ scan'.kind = kind /\ scan'.last = NoPair /\ scan'.wired = wired
      /\ scan'.match = NoPair /\ scan'.tried = {}
  BY <1>1 DEF ScanOff
<1>3. UpTo(NoPair) = {}
  BY DEF UpTo
<1>4. QED
  BY <1>2, <1>3 DEF ScanInStep, ScanCovers, ScanActive

LEMMA OffKeeps ==
  ASSUME scan' = ScanOff
  PROVE  ScanInStep'
<1>1. DOMAIN ScanOff = {"kind", "last", "wired", "tried", "match"} /\ ScanOff.kind = "NONE"
  BY DEF ScanOff
<1>2. QED
  BY <1>1 DEF ScanInStep, ScanCovers, ScanActive

LEMMA NextScan == ScanInStep /\ [ShellNext]_shellvars => ScanInStep'
<1> SUFFICES ASSUME ScanInStep, [ShellNext]_shellvars
             PROVE  ScanInStep'
  OBVIOUS
<1>1. \/ \E kind \in {"SWD", "I2C"} : ScanBegin(kind)
      \/ ScanStep
      \/ scan' = scan
  BY DEF ShellNext, ScanCommand, I2cProbeCommand, LaCommandBegin, SumpEnter, BuspirateEnter,
         SerprogEnter, UartEnter, UartExit, ResetCommand, BuspirateByte, SerprogByte, SumpByte,
         ScanProgress, LaProgress, SumpProgress, NoticeDtr, DisconnectChecks, CampaignWaits, CampaignReturns, PumpUart, ShiftUart, HostDtr,
         shellvars
<1>2. CASE scan' = scan
  BY <1>2 DEF ScanInStep, ScanCovers, ScanActive, UpTo
<1>3. CASE ScanStep
  BY <1>3, CandidateKeeps, ExhaustedKeeps, OffKeeps DEF ScanStep, ScanReport
<1>4. QED
  BY <1>1, <1>2, <1>3, BeginKeeps

\* pinout_scan_swd and pinout_scan_i2c: whatever the channels and however many
\* confirming reads, a sweep reports the wired pair after the pairs in front of
\* it, and nothing only after all of them.
THEOREM ScanIsComplete == ShellSpec => []ScanCovers
<1>1. ShellInit => ScanInStep
  <2>1. DOMAIN ScanOff = {"kind", "last", "wired", "tried", "match"} /\ ScanOff.kind = "NONE"
    BY DEF ScanOff
  <2>2. QED
    BY <2>1 DEF ShellInit, ScanInit, ScanInStep, ScanCovers, ScanActive
<1>2. ScanInStep => ScanCovers
  BY DEF ScanInStep
<1>3. QED
  BY <1>1, <1>2, NextScan, PTL DEF ShellSpec

-----------------------------------------------------------------------------
(* The types of the shell and its services.                                 *)

\* The parser of Bus Pirate: an argument is due as long as it waits for one, and no
\* more bytes are answered than bits were shifted.
BpTyped ==
  /\ BpTypeOK
  /\ bp.state = "ARGS" => bp.args >= 1
  /\ bp.out <= bp.done

\* The parser of serprog.
SpTyped ==
  /\ SpTypeOK
  /\ sp.state = "ARGS" => sp.args >= 1

\* A window of `la` lies within the DMA's transfer count, and a copy has a sample
\* left to copy.
LasTyped ==
  /\ LasTypeOK
  /\ las.phase = "WAIT" => las.n \in LaSizes
  /\ las.phase = "COPY" => las.cursor < las.written

\* The cursors of a SUMP capture, which CaptureSafe leaves unbounded.
SumpPlaced == sump.cursor \in 0 .. Forever /\ sump.start \in 0 .. Forever

-----------------------------------------------------------------------------
(* The two parsers.                                                         *)

LEMMA BpFreshTyped ==
  ASSUME bp' = BpFresh
  PROVE  BpTyped'
<1>1. 0 \in 0 .. TapMax /\ 0 \in 0 .. 3
  BY TapAssumption
<1>2. BpFresh \in [state : BpStates, args : 0 .. 3, total : 0 .. TapMax, done : 0 .. TapMax,
                   out : 0 .. TapMax]
  BY <1>1 DEF BpFresh, BpStates
<1>3. BpFresh.state = "BBIO_IDLE" /\ BpFresh.out = 0 /\ BpFresh.done = 0
  BY DEF BpFresh
<1>4. QED
  BY <1>2, <1>3 DEF BpTyped, BpTypeOK

LEMMA BpFeedTyped ==
  ASSUME BpTyped, TapShaped, NEW c, NEW len \in TapLengths, BpFeed(c, len)
  PROVE  BpTyped'
<1>1. /\ bp \in [state : BpStates, args : 0 .. 3, total : 0 .. TapMax, done : 0 .. TapMax,
                 out : 0 .. TapMax]
      /\ bp.state = "ARGS" => bp.args >= 1
      /\ bp.out <= bp.done
      /\ bp.args \in 0 .. 3 /\ bp.total \in 0 .. TapMax /\ bp.done \in 0 .. TapMax
      /\ bp.out \in 0 .. TapMax
      /\ TapMax \in Nat
  BY TapAssumption DEF BpTyped, BpTypeOK
<1>2. CASE BpGreet(c) \/ BpLeaveOcd(c) \/ BpAnswer(c) \/ BpTapShift(c) \/ BpTapLenHi \/ BpTapTdi
  <2>1. bp' = bp \/ \E s \in BpStates \ {"ARGS"} : bp' = [bp EXCEPT !.state = s]
    BY <1>2 DEF BpGreet, BpLeaveOcd, BpAnswer, BpTapShift, BpTapLenHi, BpTapTdi, BpStates
  <2>2. QED
    BY <1>1, <2>1 DEF BpTyped, BpTypeOK
<1>3. CASE BpArgCommand(c) \/ BpArgByte
  <2>1. PICK s \in BpStates, k \in 0 .. 3 :
          /\ bp' = [bp EXCEPT !.state = s, !.args = k]
          /\ s = "ARGS" => k >= 1
    <3>1. CASE BpArgCommand(c)
      <4> DEFINE k == BpArgStates[c]
      <4>1. k \in 1 .. 3
        BY <3>1 DEF BpArgCommand, BpArgStates
      <4>2. bp' = [bp EXCEPT !.state = "ARGS", !.args = k]
        BY <3>1 DEF BpArgCommand
      <4> HIDE DEF k
      <4>3. "ARGS" \in BpStates /\ k \in 0 .. 3 /\ k >= 1
        BY <4>1 DEF BpStates
      <4>4. QED
        BY <4>2, <4>3
    <3>2. CASE BpArgByte
      <4> DEFINE s == IF bp.args = 1 THEN "OCD_IDLE" ELSE "ARGS"
                 k == bp.args - 1
      <4>1. bp' = [bp EXCEPT !.state = s, !.args = k] /\ bp.args >= 1
        BY <1>1, <3>2 DEF BpArgByte
      <4>2. s \in BpStates /\ k \in 0 .. 3 /\ (s = "ARGS" => k >= 1)
        BY <1>1, <4>1 DEF BpStates
      <4> HIDE DEF s, k
      <4>3. QED
        BY <4>1, <4>2
    <3>3. QED
      BY <1>3, <3>1, <3>2
  <2>2. QED
    BY <1>1, <2>1 DEF BpTyped, BpTypeOK
<1>4. CASE BpTapLenLo(len)
  <2> DEFINE total == IF len > TapMax THEN TapMax ELSE len
             s == IF total = 0 THEN "OCD_IDLE" ELSE "TAP_TDI"
  <2>2. bp' = [bp EXCEPT !.total = total, !.done = 0, !.out = 0, !.state = s]
    BY <1>4 DEF BpTapLenLo
  <2>3. total \in 0 .. TapMax /\ 0 \in 0 .. TapMax
    BY TapAssumption
  <2>4. s \in BpStates /\ s # "ARGS"
    BY DEF BpStates
  <2> DEFINE begun == [bp EXCEPT !.total = total, !.state = s]
  <2> HIDE DEF total, s
  <2>5. /\ begun \in [state : BpStates, args : 0 .. 3, total : 0 .. TapMax, done : 0 .. TapMax,
                      out : 0 .. TapMax]
        /\ begun.state = s
    BY <1>1, <2>3, <2>4
  <2>6. bp' = [begun EXCEPT !.done = 0, !.out = 0]
    BY <2>2
  <2> HIDE DEF begun
  <2>7. BpTypeOK' /\ bp'.out = 0 /\ bp'.done = 0 /\ bp'.state = s
    BY <2>3, <2>5, <2>6 DEF BpTypeOK
  <2>8. QED
    BY <2>4, <2>7 DEF BpTyped
<1>5. CASE BpTapTms
  <2> DEFINE left == bp.total - bp.done
             bits == IF left >= ByteBits THEN ByteBits ELSE left
             s == IF bits = left THEN "OCD_IDLE" ELSE "TAP_TDI"
             done == bp.done + bits
             out == bp.out + 1
  <2>1. bp.done < bp.total
    BY <1>5 DEF BpTapTms, TapShaped, TapExact
  <2>2. bits \in 1 .. left
    BY <1>1, <2>1, TapAssumption
  <2>3. bp' = [bp EXCEPT !.done = done, !.out = out, !.state = s]
    BY <1>5 DEF BpTapTms
  <2>4. done \in 0 .. TapMax /\ out \in 0 .. TapMax /\ out <= done
    BY <1>1, <2>1, <2>2
  <2>5. s \in BpStates /\ s # "ARGS"
    BY DEF BpStates
  <2> HIDE DEF bits, s, done, out
  <2>6. QED
    BY <1>1, <2>3, <2>4, <2>5 DEF BpTyped, BpTypeOK
<1>6. QED
  BY <1>2, <1>3, <1>4, <1>5 DEF BpFeed

LEMMA SpFreshTyped ==
  ASSUME sp' = SpFresh
  PROVE  SpTyped'
<1>1. SpFresh \in [state : SpStates, args : 0 .. 4, wlen : SpLengths \cup {0},
                   done : Nat, cs : BOOLEAN]
  BY DEF SpFresh, SpStates
<1>2. SpFresh.state = "IDLE"
  BY DEF SpFresh
<1>3. QED
  BY <1>1, <1>2 DEF SpTyped, SpTypeOK

LEMMA SpFeedTyped ==
  ASSUME SpTyped, NEW c, NEW len \in SpLengths, SpFeed(c, len)
  PROVE  SpTyped'
<1>1. /\ sp \in [state : SpStates, args : 0 .. 4, wlen : SpLengths \cup {0},
                 done : Nat, cs : BOOLEAN]
      /\ sp.state = "ARGS" => sp.args >= 1
      /\ sp.args \in 0 .. 4 /\ sp.done \in Nat
  BY DEF SpTyped, SpTypeOK
<1>2. CASE SpArgCommand(c) \/ SpArgByte
  <2>1. PICK s \in SpStates, k \in 0 .. 4 :
          /\ sp' = [sp EXCEPT !.state = s, !.args = k]
          /\ s = "ARGS" => k >= 1
    <3>1. CASE SpArgCommand(c)
      <4> DEFINE k == SpArgStates[c]
      <4>1. k \in {1, 4}
        BY <3>1 DEF SpArgCommand, SpArgStates
      <4>2. sp' = [sp EXCEPT !.state = "ARGS", !.args = k]
        BY <3>1 DEF SpArgCommand
      <4> HIDE DEF k
      <4>3. "ARGS" \in SpStates /\ k \in 0 .. 4 /\ k >= 1
        BY <4>1 DEF SpStates
      <4>4. QED
        BY <4>2, <4>3
    <3>2. CASE SpArgByte
      <4> DEFINE s == IF sp.args = 1 THEN "IDLE" ELSE "ARGS"
                 k == sp.args - 1
      <4>1. sp' = [sp EXCEPT !.state = s, !.args = k] /\ sp.args >= 1
        BY <1>1, <3>2 DEF SpArgByte
      <4>2. s \in SpStates /\ k \in 0 .. 4 /\ (s = "ARGS" => k >= 1)
        BY <1>1, <4>1 DEF SpStates
      <4> HIDE DEF s, k
      <4>3. QED
        BY <4>1, <4>2
    <3>3. QED
      BY <1>2, <3>1, <3>2
  <2>2. QED
    BY <1>1, <2>1 DEF SpTyped, SpTypeOK
<1>3. CASE SpOp(c)
  <2>1. sp' = [sp EXCEPT !.state = "WLEN", !.args = 3, !.wlen = 0] /\ 3 \in 0 .. 4
    BY <1>3 DEF SpOp
  <2>2. QED
    BY <1>1, <2>1 DEF SpTyped, SpTypeOK, SpStates
<1>4. CASE SpWlenByte(len)
  <2>1. CASE sp.args > 1
    <3>1. sp' = [sp EXCEPT !.args = @ - 1] /\ sp.args - 1 \in 0 .. 4 /\ sp.state # "ARGS"
      BY <1>1, <1>4, <2>1 DEF SpWlenByte
    <3>2. QED
      BY <1>1, <3>1 DEF SpTyped, SpTypeOK
  <2>2. CASE ~(sp.args > 1)
    <3>1. sp' = [sp EXCEPT !.state = "RLEN", !.args = 3, !.wlen = len]
      BY <1>4, <2>2 DEF SpWlenByte
    <3>2. 3 \in 0 .. 4
      OBVIOUS
    <3>3. QED
      BY <1>1, <3>1, <3>2 DEF SpTyped, SpTypeOK, SpStates
  <2>3. QED
    BY <2>1, <2>2
<1>5. CASE SpRlenByte
  <2> DEFINE selected == [sp EXCEPT !.args = 0, !.cs = TRUE]
  <2>1. selected \in [state : SpStates, args : 0 .. 4, wlen : SpLengths \cup {0},
                      done : Nat, cs : BOOLEAN]
    <3>1. 0 \in 0 .. 4
      OBVIOUS
    <3>2. QED
      BY <1>1, <3>1
  <2> HIDE DEF selected
  <2>2. CASE sp' = [sp EXCEPT !.args = @ - 1] /\ sp.args > 1
    <3>1. sp.args - 1 \in 0 .. 4 /\ sp.state # "ARGS"
      BY <1>1, <1>5, <2>2 DEF SpRlenByte
    <3>2. QED
      BY <1>1, <2>2, <3>1 DEF SpTyped, SpTypeOK
  <2>3. CASE sp' = SpFinish(selected)
    BY <2>1, <2>3 DEF SpFinish, SpTyped, SpTypeOK, SpStates
  <2>4. CASE sp' = [selected EXCEPT !.state = "WBYTES", !.done = 0]
    BY <2>1, <2>4 DEF SpTyped, SpTypeOK, SpStates
  <2>5. QED
    BY <1>5, <2>2, <2>3, <2>4 DEF SpRlenByte, selected
<1>6. CASE SpWriteByte
  <2> DEFINE written == [sp EXCEPT !.done = @ + 1]
  <2>1. /\ written \in [state : SpStates, args : 0 .. 4, wlen : SpLengths \cup {0},
                        done : Nat, cs : BOOLEAN]
        /\ written.state = "WBYTES"
    BY <1>1, <1>6 DEF SpWriteByte
  <2>2. sp' = SpFinish(written) \/ sp' = written
    BY <1>6 DEF SpWriteByte
  <2> HIDE DEF written
  <2>3. QED
    BY <2>1, <2>2 DEF SpFinish, SpTyped, SpTypeOK, SpStates
<1>7. CASE SpAnswer(c)
  BY <1>1, <1>7 DEF SpAnswer, SpTyped, SpTypeOK
<1>8. QED
  BY <1>2, <1>3, <1>4, <1>5, <1>6, <1>7 DEF SpFeed

-----------------------------------------------------------------------------
(* The hosts.                                                               *)

HostFields == [owed : Nat, header : 0 .. 3, ocd : BOOLEAN, sync : BOOLEAN]

\* A further byte of a command, with the data it may announce.
LEMMA HostSendsIs ==
  ASSUME HostTypeOK, host.owed > 0, NEW payload \in Nat
  PROVE  /\ HostSends(payload) \in HostFields
         /\ HostSends(payload).owed =
              (host.owed - 1) + (IF host.header = 1 THEN payload ELSE 0)
         /\ HostSends(payload).header = (IF host.header > 0 THEN host.header - 1 ELSE 0)
         /\ HostSends(payload).ocd = host.ocd
         /\ HostSends(payload).sync = host.sync
<1>1. host \in HostFields /\ host.owed \in Nat /\ host.header \in 0 .. 3
  BY DEF HostTypeOK, HostFields
<1> DEFINE more == (host.owed - 1) + (IF host.header = 1 THEN payload ELSE 0)
           left == IF host.header > 0 THEN host.header - 1 ELSE 0
<1>2. more \in Nat /\ left \in 0 .. 3
  BY <1>1
<1>3. HostSends(payload) = [host EXCEPT !.owed = more, !.header = left]
  BY DEF HostSends
<1> HIDE DEF more, left
<1>4. /\ HostSends(payload) \in HostFields
      /\ HostSends(payload).owed = more /\ HostSends(payload).header = left
      /\ HostSends(payload).ocd = host.ocd /\ HostSends(payload).sync = host.sync
  BY <1>1, <1>2, <1>3 DEF HostFields
<1>5. QED
  BY <1>4 DEF more, left

\* What one byte of OpenOCD does to its side of the protocol.
LEMMA OcdCommandIs ==
  ASSUME HostTypeOK, NEW c \in OcdCommands, OcdCommand(c)
  PROVE  /\ HostTypeOK'
         /\ host.owed = 0
         /\ host'.owed = OcdArguments[c]
         /\ host'.header = IF c = "TAP_SHIFT" THEN 2 ELSE 0
         /\ host'.ocd <=> c # "BACK"
         /\ host'.sync = host.sync
<1>1. host \in HostFields
  BY DEF HostTypeOK, HostFields
<1>2. OcdArguments[c] \in Nat
  BY DEF OcdArguments, OcdCommands
<1> DEFINE n == OcdArguments[c]
           h == IF c = "TAP_SHIFT" THEN 2 ELSE 0
           o == c # "BACK"
<1>3. h \in 0 .. 3 /\ o \in BOOLEAN
  OBVIOUS
<1>4. host' = [host EXCEPT !.owed = n, !.header = h, !.ocd = o]
  BY DEF OcdCommand
<1>5. host.owed = 0
  BY DEF OcdCommand
<1> HIDE DEF n, h, o
<1> DEFINE begun == [host EXCEPT !.owed = n, !.header = h]
<1>6. begun \in HostFields /\ begun.owed = n /\ begun.header = h /\ begun.sync = host.sync
  BY <1>1, <1>2, <1>3 DEF HostFields, n
<1>7. host' = [begun EXCEPT !.ocd = o]
  BY <1>1, <1>4 DEF HostFields
<1> HIDE DEF begun
<1>8. /\ host' \in HostFields /\ host'.owed = n /\ host'.header = h /\ host'.ocd = o
      /\ host'.sync = host.sync
  BY <1>3, <1>6, <1>7 DEF HostFields
<1>9. QED
  BY <1>5, <1>8 DEF HostTypeOK, HostFields, n, h, o

LEMMA OcdRestIs ==
  ASSUME HostTypeOK, NEW len \in TapLengths, OcdRest(len)
  PROVE  /\ HostTypeOK'
         /\ host.owed > 0
         /\ host'.owed = (host.owed - 1) + (IF host.header = 1 THEN TapPayload(len) ELSE 0)
         /\ host'.header = IF host.header > 0 THEN host.header - 1 ELSE 0
         /\ host'.ocd = host.ocd
         /\ host'.sync => host.sync /\ (host.header = 1 => len <= TapMax)
<1>1. TapPayload(len) \in Nat
  <2>1. TdoBytes(len) \in Nat
    BY TdoBytesAreNat, TapAssumption
  <2>2. QED
    BY <2>1 DEF TapPayload
<1>2. host.owed > 0
  BY DEF OcdRest
<1> DEFINE sent == HostSends(TapPayload(len))
           kept == host.sync /\ (host.header = 1 => len <= TapMax)
<1>3. /\ sent \in HostFields
      /\ sent.owed = (host.owed - 1) + (IF host.header = 1 THEN TapPayload(len) ELSE 0)
      /\ sent.header = (IF host.header > 0 THEN host.header - 1 ELSE 0)
      /\ sent.ocd = host.ocd /\ sent.sync = host.sync
  BY <1>1, <1>2, HostSendsIs
<1>4. host' = [sent EXCEPT !.sync = kept]
  <2>1. host' = [sent EXCEPT !.sync = @ /\ (host.header = 1 => len <= TapMax)]
    BY DEF OcdRest
  <2>2. QED
    BY <1>3, <2>1
<1>5. kept \in BOOLEAN
  OBVIOUS
<1> HIDE DEF sent, kept
<1>6. /\ host' \in HostFields /\ host'.owed = sent.owed /\ host'.header = sent.header
      /\ host'.ocd = sent.ocd /\ host'.sync = kept
  BY <1>3, <1>4, <1>5 DEF HostFields
<1>7. host'.sync => host.sync /\ (host.header = 1 => len <= TapMax)
  BY <1>6 DEF kept
<1>8. QED
  BY <1>2, <1>3, <1>6, <1>7 DEF HostTypeOK, HostFields

\* The parser and OpenOCD take a command byte for the same command ...
LEMMA BpCommandTogether ==
  ASSUME TapShaped, HostTypeOK, bp.state \in BpStates, BpTogether,
         bp.state = "ARGS" => bp.args >= 1,
         NEW c \in OcdCommands, NEW len \in TapLengths, BpFeed(c, len), OcdCommand(c)
  PROVE  BpTogether'
<1>1. /\ host.owed = 0 /\ host.owed = BpAwaits
      /\ host'.owed = OcdArguments[c]
      /\ host'.header = IF c = "TAP_SHIFT" THEN 2 ELSE 0
      /\ host'.ocd <=> c # "BACK"
      /\ host.ocd <=> bp.state # "BBIO_IDLE"
  BY OcdCommandIs DEF BpTogether
<1>2. bp.state \in {"BBIO_IDLE", "OCD_IDLE"}
  <2>1. CASE bp.state \in {"TAP_TDI", "TAP_TMS"}
    <3>1. TdoBytes(bp.total) \in Nat /\ TdoBytes(bp.total) >= bp.out + 1 /\ bp.out \in Nat
      BY <2>1, BytesDue DEF TapShaped, TapExact
    <3>2. BpAwaits > 0
      BY <2>1, <3>1 DEF BpAwaits
    <3>3. QED
      BY <1>1, <3>2
  <2>2. CASE bp.state \in {"ARGS", "TAP_LEN_HI", "TAP_LEN_LO"}
    BY <1>1, <2>2 DEF BpAwaits
  <2>3. QED
    BY <2>1, <2>2 DEF BpStates
<1>3. DOMAIN bp = {"state", "args", "total", "done", "out"}
  BY DEF TapShaped
<1>4. CASE bp.state = "BBIO_IDLE"
  <2>1. c \in {"BACK", "ENTER"}
    BY <1>1, <1>4 DEF OcdCommand
  <2>2. bp' = IF c = "ENTER" THEN [bp EXCEPT !.state = "OCD_IDLE"] ELSE bp
    BY <1>4 DEF BpFeed, BpGreet, BpLeaveOcd, BpAnswer, BpArgCommand, BpArgByte, BpTapShift,
                BpTapLenHi, BpTapLenLo, BpTapTdi, BpTapTms
  <2>3. bp'.state = IF c = "ENTER" THEN "OCD_IDLE" ELSE "BBIO_IDLE"
    BY <1>3, <1>4, <2>2
  <2>4. host'.owed = 0 /\ host'.header = 0
    BY <1>1, <2>1 DEF OcdArguments
  <2>5. QED
    BY <1>1, <2>1, <2>3, <2>4 DEF BpTogether, BpAwaits, BpHeader
<1>5. CASE bp.state = "OCD_IDLE"
  <2>1. BpLeaveOcd(c) \/ BpAnswer(c) \/ BpArgCommand(c) \/ BpTapShift(c)
    BY <1>5 DEF BpFeed, BpGreet, BpArgByte, BpTapLenHi, BpTapLenLo, BpTapTdi, BpTapTms
  <2>2. CASE BpLeaveOcd(c)
    <3>1. c = "BACK" /\ bp'.state = "BBIO_IDLE"
      BY <1>3, <2>2 DEF BpLeaveOcd
    <3>2. host'.owed = 0 /\ host'.header = 0 /\ ~host'.ocd
      BY <1>1, <3>1 DEF OcdArguments
    <3>3. QED
      BY <3>1, <3>2 DEF BpTogether, BpAwaits, BpHeader
  <2>3. CASE BpAnswer(c)
    <3>1. c \in {"ENTER", "QUERY"} /\ bp' = bp
      BY <2>3 DEF BpAnswer
    <3>2. host'.owed = 0 /\ host'.header = 0 /\ host'.ocd
      BY <1>1, <3>1 DEF OcdArguments
    <3>3. QED
      BY <1>5, <3>1, <3>2 DEF BpTogether, BpAwaits, BpHeader
  <2>4. CASE BpArgCommand(c)
    <3>1. /\ c \in {"PORT_MODE", "FEATURE", "UART_SPEED", "JTAG_SPEED"}
          /\ bp'.state = "ARGS" /\ bp'.args = BpArgStates[c]
      BY <1>3, <2>4 DEF BpArgCommand
    <3>2. host'.owed = BpArgStates[c] /\ host'.header = 0 /\ host'.ocd
      BY <1>1, <3>1 DEF OcdArguments, BpArgStates
    <3>3. QED
      BY <3>1, <3>2 DEF BpTogether, BpAwaits, BpHeader
  <2>5. CASE BpTapShift(c)
    <3>1. c = "TAP_SHIFT" /\ bp'.state = "TAP_LEN_HI"
      BY <1>3, <2>5 DEF BpTapShift
    <3>2. host'.owed = 2 /\ host'.header = 2 /\ host'.ocd
      BY <1>1, <3>1 DEF OcdArguments
    <3>3. QED
      BY <3>1, <3>2 DEF BpTogether, BpAwaits, BpHeader
  <2>6. QED
    BY <2>1, <2>2, <2>3, <2>4, <2>5
<1>6. QED
  BY <1>2, <1>4, <1>5

\* ... and every other byte for the same part of one, a shift's data to the last
\* pair.
LEMMA BpRestTogether ==
  ASSUME TapShaped, HostTypeOK, bp.state \in BpStates, BpTogether, host'.sync,
         NEW c \in OcdCommands, NEW len \in TapLengths, BpFeed(c, len), OcdRest(len)
  PROVE  BpTogether'
<1>1. /\ host.owed > 0 /\ host.owed \in Nat
      /\ host.owed = BpAwaits /\ host.header = BpHeader
      /\ host'.owed = (host.owed - 1) + (IF host.header = 1 THEN TapPayload(len) ELSE 0)
      /\ host'.header = IF host.header > 0 THEN host.header - 1 ELSE 0
  BY OcdRestIs DEF BpTogether, HostTypeOK
<1>2. host.header = 1 => len <= TapMax
  BY OcdRestIs
<1>3. /\ DOMAIN bp = {"state", "args", "total", "done", "out"}
      /\ bp.done \in Nat /\ bp.out \in Nat /\ bp.total \in Nat
  BY DEF TapShaped, TapExact
<1>4. bp.state \notin {"BBIO_IDLE", "OCD_IDLE"}
  BY <1>1 DEF BpAwaits
<1>5. host'.ocd
  <2>1. host.ocd <=> bp.state # "BBIO_IDLE"
    BY DEF BpTogether
  <2>2. host'.ocd = host.ocd
    BY OcdRestIs
  <2>3. QED
    BY <1>4, <2>1, <2>2
<1>6. BpArgByte \/ BpTapLenHi \/ BpTapLenLo(len) \/ BpTapTdi \/ BpTapTms
  BY <1>4 DEF BpFeed, BpGreet, BpLeaveOcd, BpAnswer, BpArgCommand, BpTapShift
<1>7. ASSUME bp'.state # "BBIO_IDLE", host'.owed = BpAwaits', host'.header = BpHeader'
      PROVE  BpTogether'
  BY <1>5, <1>7 DEF BpTogether
<1>8. CASE BpArgByte
  <2>1. /\ bp.state = "ARGS" /\ bp'.args = bp.args - 1
        /\ bp'.state = IF bp.args = 1 THEN "OCD_IDLE" ELSE "ARGS"
    BY <1>3, <1>8 DEF BpArgByte
  <2>2. host.owed = bp.args /\ host.header = 0
    BY <1>1, <2>1 DEF BpAwaits, BpHeader
  <2>3. host'.owed = bp.args - 1 /\ host'.header = 0
    BY <1>1, <2>2
  <2>4. host'.owed = BpAwaits' /\ host'.header = BpHeader'
    BY <2>1, <2>3 DEF BpAwaits, BpHeader
  <2>5. QED
    BY <1>7, <2>1, <2>4
<1>9. CASE BpTapLenHi
  <2>1. bp.state = "TAP_LEN_HI" /\ bp'.state = "TAP_LEN_LO"
    BY <1>3, <1>9 DEF BpTapLenHi
  <2>2. host'.owed = 1 /\ host'.header = 1
    BY <1>1, <2>1 DEF BpAwaits, BpHeader
  <2>3. QED
    BY <1>7, <2>1, <2>2 DEF BpAwaits, BpHeader
<1>10. CASE BpTapLenLo(len)
  <2>1. bp.state = "TAP_LEN_LO"
    BY <1>10 DEF BpTapLenLo
  <2>2. host.owed = 1 /\ host.header = 1
    BY <1>1, <2>1 DEF BpAwaits, BpHeader
  <2>3. len \in Nat /\ len <= TapMax /\ TapMax \in Nat
    BY <1>2, <2>2, TapAssumption
  <2>4. bp' = [bp EXCEPT !.total = len, !.done = 0, !.out = 0,
                         !.state = IF len = 0 THEN "OCD_IDLE" ELSE "TAP_TDI"]
    <3> DEFINE total == IF len > TapMax THEN TapMax ELSE len
    <3>1. bp' = [bp EXCEPT !.total = total, !.done = 0, !.out = 0,
                           !.state = IF total = 0 THEN "OCD_IDLE" ELSE "TAP_TDI"]
      BY <1>10 DEF BpTapLenLo
    <3>2. total = len
      BY <2>3
    <3> HIDE DEF total
    <3>3. QED
      BY <3>1, <3>2
  <2>5. bp'.total = len /\ bp'.out = 0 /\ bp'.state = IF len = 0 THEN "OCD_IDLE" ELSE "TAP_TDI"
    BY <1>3, <2>4
  <2>6. host'.owed = 2 * TdoBytes(len) /\ host'.header = 0 /\ TdoBytes(len) \in Nat
    BY <1>1, <2>2, <2>3, TdoBytesAreNat DEF TapPayload
  <2>7. BpAwaits' = 2 * TdoBytes(len)
    <3>1. CASE len = 0
      BY <2>5, <3>1, NoTdoBytes DEF BpAwaits
    <3>2. CASE len # 0
      <4>1. TdoBytes(bp.total)' = TdoBytes(len)
        BY <2>5 DEF TdoBytes
      <4>2. BpAwaits' = 2 * (TdoBytes(len) - 0)
        BY <2>5, <3>2, <4>1 DEF BpAwaits
      <4>3. QED
        BY <2>6, <4>2
    <3>3. QED
      BY <3>1, <3>2
  <2>8. QED
    BY <1>7, <2>5, <2>6, <2>7 DEF BpHeader
<1>11. CASE BpTapTdi
  <2>1. bp.state = "TAP_TDI" /\ bp'.state = "TAP_TMS" /\ bp'.total = bp.total /\ bp'.out = bp.out
    BY <1>3, <1>11 DEF BpTapTdi
  <2>2. TdoBytes(bp.total) \in Nat
    BY <2>1, BytesDue
  <2>3. host.owed = 2 * (TdoBytes(bp.total) - bp.out) /\ host.header = 0
    BY <1>1, <2>1 DEF BpAwaits, BpHeader
  <2>4. host'.owed = 2 * (TdoBytes(bp.total) - bp.out) - 1 /\ host'.header = 0
    BY <1>1, <1>3, <2>2, <2>3
  <2>5. TdoBytes(bp.total)' = TdoBytes(bp.total)
    BY <2>1 DEF TdoBytes
  <2>6. BpAwaits' = 2 * (TdoBytes(bp.total) - bp.out) - 1
    BY <2>1, <2>5 DEF BpAwaits
  <2>7. QED
    BY <1>7, <2>1, <2>4, <2>6 DEF BpHeader
<1>12. CASE BpTapTms
  <2> DEFINE left == bp.total - bp.done
             bits == IF left >= ByteBits THEN ByteBits ELSE left
             due == TdoBytes(bp.total)
  <2>1. bp.state = "TAP_TMS" /\ bp.done = bp.out * ByteBits /\ bp.done < bp.total
    BY <1>12 DEF BpTapTms, TapShaped, TapExact
  <2>2. bp' = [bp EXCEPT !.done = @ + bits, !.out = @ + 1,
                         !.state = IF bits = left THEN "OCD_IDLE" ELSE "TAP_TDI"]
    BY <1>12 DEF BpTapTms
  <2>3. /\ bp'.total = bp.total /\ bp'.out = bp.out + 1
        /\ bp'.state = IF bits = left THEN "OCD_IDLE" ELSE "TAP_TDI"
    BY <1>3, <2>2
  <2>4. due \in Nat
    BY <2>1, BytesDue
  <2>5. host.owed = 2 * (due - bp.out) - 1 /\ host.header = 0
    BY <1>1, <2>1 DEF BpAwaits, BpHeader
  <2>6. host'.owed = 2 * (due - bp.out) - 2 /\ host'.header = 0
    <3> HIDE DEF due
    <3>1. QED
      BY <1>1, <1>3, <2>4, <2>5
  <2>7. CASE bits = left
    <3>1. left \in Nat \ {0} /\ left <= ByteBits
      BY <1>3, <2>1, <2>7, TapAssumption
    <3>2. bp.total = bp.out * ByteBits + left
      BY <1>3, <2>1, TapAssumption
    <3>3. TdoBytes(bp.out * ByteBits + left) = bp.out + 1
      <4> HIDE DEF left
      <4>1. QED
        BY <1>3, <3>1, TdoOfFullBytes
    <3>4. due = bp.out + 1
      BY <3>2, <3>3
    <3>5. host'.owed = 0
      <4> HIDE DEF due
      <4>1. QED
        BY <1>3, <2>6, <3>4
    <3>6. BpAwaits' = 0
      BY <2>3, <2>7 DEF BpAwaits
    <3>7. QED
      BY <1>7, <2>3, <2>6, <2>7, <3>5, <3>6 DEF BpHeader
  <2>8. CASE bits # left
    <3>1. TdoBytes(bp.total)' = due
      BY <2>3 DEF TdoBytes
    <3>2. BpAwaits' = 2 * (due - (bp.out + 1))
      BY <2>3, <2>8, <3>1 DEF BpAwaits
    <3>3. host'.owed = BpAwaits'
      <4> HIDE DEF due
      <4>1. QED
        BY <1>3, <2>4, <2>6, <3>2
    <3>4. QED
      BY <1>7, <2>3, <2>6, <2>8, <3>3 DEF BpHeader
  <2>9. QED
    BY <2>7, <2>8
<1>13. QED
  BY <1>6, <1>8, <1>9, <1>10, <1>11, <1>12

\* flashrom likewise.
LEMMA FlashCommandIs ==
  ASSUME HostTypeOK, NEW c \in FlashCommands, FlashCommand(c)
  PROVE  /\ HostTypeOK'
         /\ host.owed = 0
         /\ host'.owed = FlashArguments[c]
         /\ host'.header = IF c = "O_SPIOP" THEN 3 ELSE 0
         /\ host'.sync = host.sync
<1>1. host \in HostFields /\ host.owed = 0
  BY DEF HostTypeOK, HostFields, FlashCommand
<1> DEFINE n == FlashArguments[c]
           h == IF c = "O_SPIOP" THEN 3 ELSE 0
<1>2. n \in Nat /\ h \in 0 .. 3
  BY DEF FlashArguments, FlashCommands
<1>3. host' = [host EXCEPT !.owed = n, !.header = h]
  BY DEF FlashCommand
<1> HIDE DEF n, h
<1>4. host' \in HostFields /\ host'.owed = n /\ host'.header = h /\ host'.sync = host.sync
  BY <1>1, <1>2, <1>3 DEF HostFields
<1>5. QED
  BY <1>1, <1>4 DEF HostTypeOK, HostFields, n, h

LEMMA FlashRestIs ==
  ASSUME HostTypeOK, NEW len \in SpLengths, FlashRest(len)
  PROVE  /\ HostTypeOK'
         /\ host.owed > 0 /\ len \in Nat
         /\ host'.owed = (host.owed - 1) + (IF host.header = 1 THEN len ELSE 0)
         /\ host'.header = IF host.header > 0 THEN host.header - 1 ELSE 0
         /\ host'.sync = host.sync
<1>1. host.owed > 0 /\ host' = HostSends(len) /\ len \in Nat
  BY SpAssumption DEF FlashRest
<1>2. /\ HostSends(len) \in HostFields
      /\ HostSends(len).owed = (host.owed - 1) + (IF host.header = 1 THEN len ELSE 0)
      /\ HostSends(len).header = (IF host.header > 0 THEN host.header - 1 ELSE 0)
      /\ HostSends(len).sync = host.sync
  BY <1>1, HostSendsIs
<1>3. QED
  BY <1>1, <1>2 DEF HostTypeOK, HostFields

LEMMA SpCommandTogether ==
  ASSUME SpShaped, HostTypeOK, SpTogether,
         NEW c \in FlashCommands, NEW len \in SpLengths, SpFeed(c, len), FlashCommand(c)
  PROVE  SpTogether'
<1>1. /\ host.owed = 0 /\ host.owed = SpAwaits
      /\ host'.owed = FlashArguments[c]
      /\ host'.header = IF c = "O_SPIOP" THEN 3 ELSE 0
  BY FlashCommandIs DEF SpTogether
<1>2. /\ DOMAIN sp = {"state", "args", "wlen", "done", "cs"}
      /\ sp.state \in SpStates /\ sp.args \in Int /\ sp.wlen \in Nat /\ sp.done \in Nat
      /\ sp.state \in {"ARGS", "WLEN", "RLEN"} => sp.args >= 1
      /\ sp.state = "WBYTES" => sp.done < sp.wlen
  BY DEF SpShaped
<1>3. sp.state = "IDLE"
  BY <1>1, <1>2 DEF SpAwaits, SpStates
<1>4. SpAnswer(c) \/ SpArgCommand(c) \/ SpOp(c)
  BY <1>3 DEF SpFeed, SpArgByte, SpWlenByte, SpRlenByte, SpWriteByte
<1>5. CASE SpAnswer(c)
  <2>1. c = "QUERY" /\ sp' = sp
    BY <1>5 DEF SpAnswer
  <2>2. host'.owed = 0 /\ host'.header = 0
    BY <1>1, <2>1 DEF FlashArguments
  <2>3. QED
    BY <1>3, <2>1, <2>2 DEF SpTogether, SpAwaits, SpHeader
<1>6. CASE SpArgCommand(c)
  <2>1. /\ c \in {"S_BUSTYPE", "S_PIN_STATE", "S_SPI_FREQ"}
        /\ sp'.state = "ARGS" /\ sp'.args = SpArgStates[c]
    BY <1>2, <1>6 DEF SpArgCommand
  <2>2. host'.owed = SpArgStates[c] /\ host'.header = 0
    BY <1>1, <2>1 DEF FlashArguments, SpArgStates
  <2>3. QED
    BY <2>1, <2>2 DEF SpTogether, SpAwaits, SpHeader
<1>7. CASE SpOp(c)
  <2>1. c = "O_SPIOP" /\ sp'.state = "WLEN" /\ sp'.args = 3
    BY <1>2, <1>7 DEF SpOp
  <2>2. host'.owed = 6 /\ host'.header = 3
    BY <1>1, <2>1 DEF FlashArguments
  <2>3. QED
    BY <2>1, <2>2 DEF SpTogether, SpAwaits, SpHeader
<1>8. QED
  BY <1>4, <1>5, <1>6, <1>7

LEMMA SpRestTogether ==
  ASSUME SpShaped, HostTypeOK, SpTogether,
         NEW c \in FlashCommands, NEW len \in SpLengths, SpFeed(c, len), FlashRest(len)
  PROVE  SpTogether'
<1>1. /\ host.owed > 0 /\ host.owed = SpAwaits /\ host.header = SpHeader /\ len \in Nat
      /\ host'.owed = (host.owed - 1) + (IF host.header = 1 THEN len ELSE 0)
      /\ host'.header = IF host.header > 0 THEN host.header - 1 ELSE 0
  BY FlashRestIs DEF SpTogether
<1>2. /\ DOMAIN sp = {"state", "args", "wlen", "done", "cs"}
      /\ sp.state \in SpStates /\ sp.args \in Int /\ sp.wlen \in Nat /\ sp.done \in Nat
      /\ sp.state \in {"ARGS", "WLEN", "RLEN"} => sp.args >= 1
      /\ sp.state = "WBYTES" => sp.done < sp.wlen
  BY DEF SpShaped
<1>3. sp.state # "IDLE"
  BY <1>1 DEF SpAwaits
<1>4. SpArgByte \/ SpWlenByte(len) \/ SpRlenByte \/ SpWriteByte
  BY <1>3 DEF SpFeed, SpAnswer, SpArgCommand, SpOp
<1>5. CASE SpArgByte
  <2>1. /\ sp.state = "ARGS" /\ sp'.args = sp.args - 1
        /\ sp'.state = IF sp.args = 1 THEN "IDLE" ELSE "ARGS"
    BY <1>2, <1>5 DEF SpArgByte
  <2>2. host.owed = sp.args /\ host.header = 0
    BY <1>1, <2>1 DEF SpAwaits, SpHeader
  <2>3. host'.owed = sp.args - 1 /\ host'.header = 0
    BY <1>1, <1>2, <2>2
  <2>4. QED
    BY <2>1, <2>3 DEF SpTogether, SpAwaits, SpHeader
<1>6. CASE SpWlenByte(len)
  <2>1. sp.state = "WLEN" /\ sp.args >= 1
    BY <1>2, <1>6 DEF SpWlenByte
  <2>2. host.owed = 3 + sp.args /\ host.header = sp.args
    BY <1>1, <2>1 DEF SpAwaits, SpHeader
  <2>3. CASE sp.args > 1
    <3>1. sp'.state = "WLEN" /\ sp'.args = sp.args - 1
      BY <1>2, <1>6, <2>3 DEF SpWlenByte
    <3>2. host'.owed = 3 + (sp.args - 1) /\ host'.header = sp.args - 1
      BY <1>1, <1>2, <2>2, <2>3
    <3>3. QED
      BY <3>1, <3>2 DEF SpTogether, SpAwaits, SpHeader
  <2>4. CASE ~(sp.args > 1)
    <3>1. sp'.state = "RLEN" /\ sp'.args = 3 /\ sp'.wlen = len
      BY <1>2, <1>6, <2>4 DEF SpWlenByte
    <3>2. host'.owed = 3 + len /\ host'.header = 0
      BY <1>1, <1>2, <2>1, <2>2, <2>4
    <3>3. QED
      BY <3>1, <3>2 DEF SpTogether, SpAwaits, SpHeader
  <2>5. QED
    BY <2>3, <2>4
<1>7. CASE SpRlenByte
  <2> DEFINE selected == [sp EXCEPT !.args = 0, !.cs = TRUE]
  <2>1. sp.state = "RLEN" /\ sp.args >= 1
    BY <1>2, <1>7 DEF SpRlenByte
  <2>2. host.owed = sp.args + sp.wlen /\ host.header = 0
    BY <1>1, <2>1 DEF SpAwaits, SpHeader
  <2>3. host'.owed = sp.args + sp.wlen - 1 /\ host'.header = 0
    BY <1>1, <1>2, <2>2
  <2>4. CASE sp.args > 1
    <3>1. sp'.state = "RLEN" /\ sp'.args = sp.args - 1 /\ sp'.wlen = sp.wlen
      BY <1>2, <1>7, <2>4 DEF SpRlenByte
    <3>2. QED
      BY <1>2, <2>3, <3>1 DEF SpTogether, SpAwaits, SpHeader
  <2>5. CASE sp.args = 1
    <3>1. /\ sp.wlen = 0 => sp' = SpFinish(selected)
          /\ sp.wlen # 0 => sp' = [selected EXCEPT !.state = "WBYTES", !.done = 0]
      BY <1>7, <2>5 DEF SpRlenByte
    <3>2. DOMAIN selected = {"state", "args", "wlen", "done", "cs"} /\ selected.wlen = sp.wlen
      BY <1>2
    <3> HIDE DEF selected
    <3>3. host'.owed = sp.wlen
      BY <1>2, <2>3, <2>5
    <3>4. CASE sp.wlen = 0
      <4>1. sp'.state = "IDLE"
        BY <3>1, <3>2, <3>4 DEF SpFinish
      <4>2. QED
        BY <2>3, <3>3, <3>4, <4>1 DEF SpTogether, SpAwaits, SpHeader
    <3>5. CASE sp.wlen # 0
      <4>1. sp'.state = "WBYTES" /\ sp'.done = 0 /\ sp'.wlen = sp.wlen
        BY <3>1, <3>2, <3>5
      <4>2. QED
        BY <1>2, <2>3, <3>3, <4>1 DEF SpTogether, SpAwaits, SpHeader
    <3>6. QED
      BY <3>4, <3>5
  <2>6. QED
    BY <1>2, <2>1, <2>4, <2>5
<1>8. CASE SpWriteByte
  <2> DEFINE written == [sp EXCEPT !.done = @ + 1]
  <2>1. sp.state = "WBYTES" /\ sp.done < sp.wlen
    BY <1>2, <1>8 DEF SpWriteByte
  <2>2. /\ DOMAIN written = {"state", "args", "wlen", "done", "cs"}
        /\ written.state = "WBYTES" /\ written.done = sp.done + 1 /\ written.wlen = sp.wlen
    BY <1>2, <2>1
  <2>3. sp' = IF written.done >= sp.wlen THEN SpFinish(written) ELSE written
    BY <1>8 DEF SpWriteByte
  <2>4. host.owed = sp.wlen - sp.done /\ host.header = 0
    BY <1>1, <2>1 DEF SpAwaits, SpHeader
  <2>5. host'.owed = sp.wlen - sp.done - 1 /\ host'.header = 0
    BY <1>1, <1>2, <2>4
  <2> HIDE DEF written
  <2>6. CASE written.done >= sp.wlen
    <3>1. sp'.state = "IDLE"
      BY <2>2, <2>3, <2>6 DEF SpFinish
    <3>2. host'.owed = 0
      BY <1>2, <2>1, <2>2, <2>5, <2>6
    <3>3. QED
      BY <2>5, <3>1, <3>2 DEF SpTogether, SpAwaits, SpHeader
  <2>7. CASE ~(written.done >= sp.wlen)
    <3>1. sp'.state = "WBYTES" /\ sp'.done = sp.done + 1 /\ sp'.wlen = sp.wlen
      BY <2>2, <2>3, <2>7
    <3>2. host'.owed = sp.wlen - (sp.done + 1)
      BY <1>2, <2>5
    <3>3. QED
      BY <2>5, <3>1, <3>2 DEF SpTogether, SpAwaits, SpHeader
  <2>8. QED
    BY <2>6, <2>7
<1>9. QED
  BY <1>4, <1>5, <1>6, <1>7, <1>8

\* Entering a session starts both sides afresh; a host that takes a session over
\* is none the invariant speaks of.
LEMMA FreshTogether ==
  /\ BpFresh.state = "BBIO_IDLE" /\ SpFresh.state = "IDLE"
  /\ HostFresh \in HostFields /\ HostReplaced \in HostFields
  /\ HostFresh.owed = 0 /\ HostFresh.header = 0 /\ HostFresh.ocd = FALSE
  /\ HostReplaced.sync = FALSE
<1>1. BpFresh.state = "BBIO_IDLE" /\ SpFresh.state = "IDLE"
  BY DEF BpFresh, SpFresh
<1>2. /\ HostFresh \in HostFields
      /\ HostFresh.owed = 0 /\ HostFresh.header = 0 /\ HostFresh.ocd = FALSE
  BY DEF HostFresh, HostFields
<1>3. HostReplaced \in HostFields /\ HostReplaced.sync = FALSE
  BY <1>2 DEF HostReplaced, HostFields
<1>4. QED
  BY <1>1, <1>2, <1>3

LEMMA NextTogether ==
  ASSUME HostsTogether, ParsersShaped, BpTyped, [ShellNext]_shellvars
  PROVE  HostsTogether'
<1>1. /\ HostTypeOK /\ TapShaped /\ SpShaped
      /\ mode = "BUSPIRATE" /\ host.sync => BpTogether
      /\ mode = "SERPROG" /\ host.sync => SpTogether
  BY DEF HostsTogether, ParsersShaped
<1>2. bp.state \in BpStates /\ (bp.state = "ARGS" => bp.args >= 1)
  BY DEF BpTyped, BpTypeOK
<1>3. \/ BpByte /\ mode = "BUSPIRATE" /\ mode' = mode
      \/ SpByte /\ mode = "SERPROG" /\ mode' = mode
      \/ mode' = "BUSPIRATE" /\ host' = HostFresh /\ bp' = BpFresh
      \/ mode' = "SERPROG" /\ host' = HostFresh /\ sp' = SpFresh
      \/ mode' \in {"TEXT", "SUMP"} /\ host' \in {host, HostFresh}
      \/ host' = HostReplaced
      \/ UNCHANGED <<mode, host, bp, sp>>
  BY DEF ShellNext, ScanCommand, I2cProbeCommand, LaCommandBegin, SumpEnter, BuspirateEnter,
         SerprogEnter, UartEnter, UartExit, ResetCommand, BuspirateByte, BuspirateOnExit,
         SerprogByte, SerprogOnExit, SumpByte, SumpForceExit, ScanProgress, LaProgress,
         SumpProgress, NoticeDtr, DisconnectChecks, CampaignWaits, CampaignReturns, PumpUart,
         ShiftUart, HostDtr, shellvars
<1>4. CASE BpByte /\ mode = "BUSPIRATE" /\ mode' = mode
  <2>1. PICK c \in OcdCommands, len \in TapLengths :
          BpFeed(c, len) /\ (OcdCommand(c) \/ OcdRest(len))
    BY <1>4 DEF BpByte
  <2>2. CASE OcdCommand(c)
    <3>1. HostTypeOK' /\ host'.sync = host.sync
      BY <1>1, <2>2, OcdCommandIs
    <3>2. host.sync => BpTogether'
      BY <1>1, <1>2, <1>4, <2>1, <2>2, BpCommandTogether
    <3>3. QED
      BY <1>4, <3>1, <3>2 DEF HostsTogether
  <2>3. CASE OcdRest(len)
    <3>1. HostTypeOK' /\ (host'.sync => host.sync)
      BY <1>1, <2>3, OcdRestIs
    <3>2. host'.sync => BpTogether'
      BY <1>1, <1>2, <1>4, <2>1, <2>3, <3>1, BpRestTogether
    <3>3. QED
      BY <1>4, <3>1, <3>2 DEF HostsTogether
  <2>4. QED
    BY <2>1, <2>2, <2>3
<1>5. CASE SpByte /\ mode = "SERPROG" /\ mode' = mode
  <2>1. PICK c \in FlashCommands, len \in SpLengths :
          SpFeed(c, len) /\ (FlashCommand(c) \/ FlashRest(len))
    BY <1>5 DEF SpByte
  <2>2. HostTypeOK' /\ host'.sync = host.sync
    BY <1>1, <2>1, FlashCommandIs, FlashRestIs
  <2>3. host.sync => SpTogether'
    BY <1>1, <1>5, <2>1, SpCommandTogether, SpRestTogether
  <2>4. QED
    BY <1>5, <2>2, <2>3 DEF HostsTogether
<1>6. CASE mode' = "BUSPIRATE" /\ host' = HostFresh /\ bp' = BpFresh
  BY <1>6, FreshTogether
     DEF HostsTogether, HostTypeOK, HostFields, BpTogether, BpAwaits, BpHeader
<1>7. CASE mode' = "SERPROG" /\ host' = HostFresh /\ sp' = SpFresh
  BY <1>7, FreshTogether
     DEF HostsTogether, HostTypeOK, HostFields, SpTogether, SpAwaits, SpHeader
<1>8. CASE mode' \in {"TEXT", "SUMP"} /\ host' \in {host, HostFresh}
  BY <1>1, <1>8, FreshTogether DEF HostsTogether, HostTypeOK, HostFields
<1>9. CASE host' = HostReplaced
  BY <1>9, FreshTogether DEF HostsTogether, HostTypeOK, HostFields
<1>10. CASE UNCHANGED <<mode, host, bp, sp>>
  BY <1>1, <1>10 DEF HostsTogether, HostTypeOK, BpTogether, BpAwaits, BpHeader, TdoBytes,
                     SpTogether, SpAwaits, SpHeader
<1>11. QED
  BY <1>3, <1>4, <1>5, <1>6, <1>7, <1>8, <1>9, <1>10

\* Sides that are together are in step.
LEMMA TogetherInStep ==
  ASSUME HostsTogether, ParsersShaped
  PROVE  HostsInStep
<1>1. /\ mode = "BUSPIRATE" /\ host.sync => BpTogether
      /\ mode = "SERPROG" /\ host.sync => SpTogether
      /\ TapExact
  BY DEF HostsTogether, ParsersShaped, TapShaped
<1>2. bp.state = "OCD_IDLE" => bp.out = TdoBytes(bp.total)
  BY <1>1 DEF TapExact
<1>3. QED
  BY <1>1, <1>2 DEF HostsInStep, BpInStep, SpInStep, BpTogether, SpTogether

-----------------------------------------------------------------------------
(* The locals of la_stream_and_finish.                                      *)

LEMMA LasOffTyped ==
  /\ LasOff \in [phase : LasPhases, n : LaSizes \cup {0}, masked : BOOLEAN,
                 cursor : 0 .. Forever, end : 0 .. Forever, written : 0 .. Forever,
                 overflow : BOOLEAN, torn : BOOLEAN, told : LasEnds]
  /\ LasOff.phase = "NONE"
  BY ZeroSamples DEF LasOff, LasPhases, LasEnds

LEMMA LasFinishTyped ==
  ASSUME NEW told \in LasEnds, NEW torn \in BOOLEAN, LaFinish(told, torn)
  PROVE  LasTyped'
<1>1. las' = [LasOff EXCEPT !.phase = "REPORT", !.told = told, !.torn = torn]
  BY DEF LaFinish
<1>2. "REPORT" \in LasPhases
  BY DEF LasPhases
<1>3. QED
  BY <1>1, <1>2, LasOffTyped DEF LasTyped, LasTypeOK

LEMMA LasStepTyped ==
  ASSUME LaTypeOK, LasTyped, LaStep
  PROVE  LasTyped'
<1>1. /\ las \in [phase : LasPhases, n : LaSizes \cup {0}, masked : BOOLEAN,
                  cursor : 0 .. Forever, end : 0 .. Forever, written : 0 .. Forever,
                  overflow : BOOLEAN, torn : BOOLEAN, told : LasEnds]
      /\ las.cursor \in Nat /\ las.cursor <= Forever
      /\ las.end \in 0 .. Forever /\ las.written \in 0 .. Forever
      /\ Forever \in Nat /\ Ring \in Nat /\ Gap \in Nat
  BY RingAssumption DEF LasTyped, LasTypeOK
<1>2. ASSUME NEW k \in 0 .. Gap
      PROVE  LaSampled(la, k).total \in 0 .. Forever
  <2>1. k \in Nat
    BY <1>1
  <2>2. QED
    BY <2>1, SampledType
<1>3. CASE LaWait
  <2>1. PICK k \in 0 .. Gap :
          LET sampled == LaSampled(la, k)
              hits    == LaTriggerHits(las.cursor, sampled.total, las.masked)
          IN  /\ sampled.total <= TriggerWait
              /\ \/ las' = [las EXCEPT !.cursor = sampled.total]
                 \/ \E hit \in hits :
                      LET start == LaPretrigger(hit, las.n)
                      IN  las' = [las EXCEPT !.phase = "POLL", !.cursor = start,
                                             !.end = start + las.n]
    BY <1>3 DEF LaWait
  <2> DEFINE total == LaSampled(la, k).total
  <2>2. total \in 0 .. Forever /\ total <= TriggerWait /\ TriggerWait \in Nat
    BY <1>2, <2>1, LaCommandAssumption
  <2>3. /\ las.phase = "WAIT" /\ las.n \in LaSizes /\ las.n \in Nat \ {0}
        /\ TriggerWait + las.n <= Forever
    BY <1>3, LaCommandAssumption DEF LaWait, LasTyped
  <2>4. CASE las' = [las EXCEPT !.cursor = total]
    <3> HIDE DEF total
    <3>1. LasTypeOK' /\ las'.phase = las.phase /\ las'.n = las.n
      BY <1>1, <2>2, <2>4 DEF LasTypeOK
    <3>2. QED
      BY <2>3, <3>1 DEF LasTyped
  <2>5. ASSUME NEW hit \in LaTriggerHits(las.cursor, total, las.masked),
               las' = [las EXCEPT !.phase = "POLL", !.cursor = LaPretrigger(hit, las.n),
                                  !.end = LaPretrigger(hit, las.n) + las.n]
        PROVE  LasTyped'
    <3> DEFINE from == LaSkipLapped(las.cursor, total)
               start == LaPretrigger(hit, las.n)
               end == start + las.n
    <3>1. hit \in from .. total - 1
      BY <2>5 DEF LaTriggerHits
    <3> HIDE DEF total
    <3>2. from \in Nat
      BY <1>1, <2>2 DEF LaSkipLapped
    <3> HIDE DEF from
    <3>3. hit \in Nat /\ hit < TriggerWait
      BY <2>2, <3>1, <3>2
    <3>4. start \in 0 .. hit
      BY <2>3, <3>3, PretriggerBounded
    <3> HIDE DEF start
    <3>5. start \in 0 .. Forever /\ end \in 0 .. Forever
      BY <1>1, <2>2, <2>3, <3>3, <3>4
    <3>6. las' = [las EXCEPT !.phase = "POLL", !.cursor = start, !.end = end]
      BY <2>5 DEF start
    <3> HIDE DEF end
    <3>7. QED
      BY <1>1, <3>5, <3>6 DEF LasTyped, LasTypeOK, LasPhases
  <2>6. QED
    BY <2>1, <2>4, <2>5
<1>4. CASE LaTriggerTimeout
  BY <1>4, LasFinishTyped DEF LaTriggerTimeout, LasEnds
<1>5. CASE LaPoll
  <2>1. PICK k \in 0 .. Gap :
          LET sampled == LaSampled(la, k)
              written == LesserOf(sampled.total, las.end)
              from    == LaSkipLapped(las.cursor, written)
          IN  las' = [las EXCEPT !.phase = IF from < written THEN "COPY" ELSE "POLL",
                                 !.written = written, !.cursor = from,
                                 !.overflow = @ \/ from # las.cursor]
    BY <1>5 DEF LaPoll
  <2> DEFINE written == LesserOf(LaSampled(la, k).total, las.end)
             from == LaSkipLapped(las.cursor, written)
             p == IF from < written THEN "COPY" ELSE "POLL"
             o == las.overflow \/ from # las.cursor
  <2>2. written \in 0 .. Forever
    BY <1>1, <1>2 DEF LesserOf
  <2>3. las' = [las EXCEPT !.phase = p, !.written = written, !.cursor = from, !.overflow = o]
    BY <2>1
  <2>4. o \in BOOLEAN
    BY <1>1
  <2> HIDE DEF written, o
  <2>5. from \in 0 .. Forever
    BY <1>1, <2>2 DEF LaSkipLapped
  <2>6. p \in LasPhases /\ p # "WAIT" /\ (p = "COPY" => from < written)
    BY DEF LasPhases
  <2> HIDE DEF from, p
  <2>7. /\ las'.phase = p /\ las'.cursor = from /\ las'.written = written
        /\ LasTypeOK'
    BY <1>1, <2>2, <2>3, <2>4, <2>5, <2>6 DEF LasTypeOK
  <2>8. QED
    BY <2>6, <2>7 DEF LasTyped
<1>6. CASE LaCopy
  <2> DEFINE torn == las.torn \/ la.total - las.cursor > Ring
             next == las.cursor + 1
             p == IF next < las.written THEN "COPY" ELSE "POLL"
  <2>1. torn \in BOOLEAN
    BY <1>1
  <2>2. LaFinish("TRUNC", torn) \/ las' = [las EXCEPT !.cursor = next, !.torn = torn, !.phase = p]
    BY <1>6 DEF LaCopy
  <2> HIDE DEF torn
  <2>3. CASE LaFinish("TRUNC", torn)
    BY <2>1, <2>3, LasFinishTyped DEF LasEnds
  <2>4. CASE las' = [las EXCEPT !.cursor = next, !.torn = torn, !.phase = p]
    <3>1. las.cursor < las.written
      BY <1>6 DEF LaCopy, LasTyped
    <3>2. next \in 0 .. Forever
      BY <1>1, <3>1
    <3>3. p \in LasPhases /\ p # "WAIT" /\ (p = "COPY" => next < las.written)
      BY DEF LasPhases
    <3> HIDE DEF next, p
    <3>4. /\ las'.phase = p /\ las'.cursor = next /\ las'.written = las.written
          /\ LasTypeOK'
      BY <1>1, <2>1, <2>4, <3>2, <3>3 DEF LasTypeOK
    <3>5. QED
      BY <3>3, <3>4 DEF LasTyped
  <2>5. QED
    BY <2>2, <2>3, <2>4
<1>7. CASE LaDone
  <2>1. las.torn \in BOOLEAN
    BY <1>1
  <2>2. LaFinish(IF las.overflow THEN "OVERFLOW" ELSE "CLEAN", las.torn)
    BY <1>7 DEF LaDone
  <2>3. (IF las.overflow THEN "OVERFLOW" ELSE "CLEAN") \in LasEnds
    BY DEF LasEnds
  <2>4. QED
    BY <2>1, <2>2, <2>3, LasFinishTyped
<1>8. CASE LaReport
  BY <1>8, LasOffTyped DEF LaReport, LasTyped, LasTypeOK
<1>9. QED
  BY <1>3, <1>4, <1>5, <1>6, <1>7, <1>8 DEF LaStep

LEMMA LasBeginTyped ==
  ASSUME LaBegin
  PROVE  LasTyped'
<1>1. PICK n \in LaSizes, masked \in BOOLEAN :
        las' = [LasOff EXCEPT !.phase = "WAIT", !.n = n, !.masked = masked]
  BY DEF LaBegin
<1>2. "WAIT" \in LasPhases
  BY DEF LasPhases
<1>3. QED
  BY <1>1, <1>2, LasOffTyped DEF LasTyped, LasTypeOK

-----------------------------------------------------------------------------
(* The cursors of do_arm.                                                   *)

LEMMA SumpStepPlaced ==
  ASSUME LaTypeOK, CaptureSafe, SumpPlaced, SumpFeed \/ SumpCapture
  PROVE  SumpPlaced'
<1>1. /\ sump \in Parsers /\ 0 \in 0 .. Forever /\ Forever \in Nat
      /\ DOMAIN sump = {"state", "byte", "size", "post", "masked", "phase", "n", "cursor", "start"}
  BY ZeroSamples, RingAssumption DEF CaptureSafe, Parsers
<1>2. CASE SumpLongCommand \/ SumpArgument
  <2>1. sump'.cursor = sump.cursor /\ sump'.start = sump.start
    BY <1>1, <1>2 DEF SumpLongCommand, SumpArgument
  <2>2. QED
    BY <2>1 DEF SumpPlaced
<1>3. CASE SumpArm \/ SumpDump
  <2>1. sump'.cursor = 0 /\ sump'.start = 0
    BY <1>1, <1>3 DEF SumpArm, SumpDump
  <2>2. QED
    BY <1>1, <2>1 DEF SumpPlaced
<1>4. CASE SumpWait
  <2>1. sump.phase = "WAIT" /\ sump.n \in Nat \ {0}
    <3>1. sump.phase = "WAIT"
      BY <1>4 DEF SumpWait
    <3>2. QED
      BY <3>1, SumpAssumption DEF CaptureSafe, Parsers
  <2>2. PICK k \in 0 .. Gap :
          \/ sump' = [sump EXCEPT !.cursor = LaSampled(la, k).total]
          \/ \E hit \in LaTriggerHits(sump.cursor, LaSampled(la, k).total, sump.masked),
                p \in SumpPhases :
               sump' = [sump EXCEPT !.phase = p, !.cursor = hit,
                                    !.start = SumpWindowStart(hit, sump.n)]
    BY <1>4 DEF SumpWait, SumpStop, SumpPhases
  <2>3. k \in Nat /\ LaSampled(la, k).total \in 0 .. Forever
    <3>1. k \in Nat
      BY RingAssumption
    <3>2. QED
      BY <3>1, SampledType
  <2>4. CASE sump' = [sump EXCEPT !.cursor = LaSampled(la, k).total]
    <3>1. sump'.cursor = LaSampled(la, k).total /\ sump'.start = sump.start
      BY <1>1, <2>4
    <3>2. QED
      BY <2>3, <3>1 DEF SumpPlaced
  <2>5. ASSUME NEW hit \in LaTriggerHits(sump.cursor, LaSampled(la, k).total, sump.masked),
               NEW p \in SumpPhases,
               sump' = [sump EXCEPT !.phase = p, !.cursor = hit,
                                    !.start = SumpWindowStart(hit, sump.n)]
        PROVE  SumpPlaced'
    <3>1. hit \in Nat /\ hit < LaSampled(la, k).total
      BY <2>1, HitIsNew
    <3>2. SumpWindowStart(hit, sump.n) \in 0 .. hit
      BY <2>1, <3>1, WindowHoldsTrigger
    <3>3. sump'.cursor = hit /\ sump'.start = SumpWindowStart(hit, sump.n)
      BY <1>1, <2>5
    <3>4. hit \in 0 .. Forever
      BY <1>1, <2>3, <3>1
    <3>5. QED
      BY <1>1, <3>1, <3>2, <3>3, <3>4 DEF SumpPlaced
  <2>6. QED
    BY <2>2, <2>4, <2>5
<1>5. CASE SumpFill
  <2>1. sump'.cursor = sump.cursor /\ sump'.start = sump.start
    BY <1>1, <1>5 DEF SumpFill, SumpStop
  <2>2. QED
    BY <2>1 DEF SumpPlaced
<1>6. QED
  BY <1>2, <1>3, <1>4, <1>5 DEF SumpFeed, SumpCapture

-----------------------------------------------------------------------------
(* The bytes of the bridge: a pump keeps none but those it was given, and   *)
(* the FIFO's room only shrinks.                                            *)

KeptAmong(u, S) == u.sent \in Seq(S) /\ u.pending \in Seq(S)

LEMMA PartAmong ==
  ASSUME NEW S, NEW bytes \in Seq(S), NEW a \in Nat \ {0}
  PROVE  SubSeq(bytes, a, Len(bytes)) \in Seq(S)
<1>1. Len(bytes) \in Nat /\ \A i \in 1 .. Len(bytes) : bytes[i] \in S
  BY LenProperties
<1>2. \A i \in a .. Len(bytes) : bytes[i] \in S
  BY <1>1
<1>3. QED
  BY <1>1, <1>2, SubSeqProperties

LEMMA FrontAmong ==
  ASSUME NEW S, NEW bytes \in Seq(S), NEW m \in 0 .. Len(bytes)
  PROVE  SubSeq(bytes, 1, m) \in Seq(S)
<1>1. Len(bytes) \in Nat /\ m \in Int /\ \A i \in 1 .. Len(bytes) : bytes[i] \in S
  BY LenProperties
<1>2. \A i \in 1 .. m : bytes[i] \in S
  BY <1>1
<1>3. QED
  BY <1>1, <1>2, SubSeqProperties

LEMMA WriteAmong ==
  ASSUME NEW u, Bridge(u), NEW S \in SUBSET Nat, KeptAmong(u, S), NEW bytes \in Seq(S)
  PROVE  /\ KeptAmong(UartWrite(u, bytes), S)
         /\ UartRefused(u, bytes) \in Seq(S)
         /\ UartWrite(u, bytes).room <= u.room
         /\ UartWrite(u, bytes).on = u.on
<1> DEFINE n == UartAccepted(u, bytes)
           v == UartWrite(u, bytes)
<1>1. n \in 0 .. Len(bytes) /\ n <= u.room /\ u.room \in Nat
  BY LenProperties, FewerIsLess DEF UartAccepted, Bridge
<1>2. SubSeq(bytes, 1, n) \in Seq(S) /\ UartRefused(u, bytes) \in Seq(S)
  <2>1. n + 1 \in Nat \ {0}
    BY <1>1, LenProperties
  <2>2. SubSeq(bytes, n + 1, Len(bytes)) \in Seq(S)
    BY <2>1, PartAmong
  <2>3. QED
    BY <1>1, <2>2, FrontAmong DEF UartRefused
<1>3. v = [u EXCEPT !.room = @ - n, !.sent = @ \o SubSeq(bytes, 1, n)]
  BY DEF UartWrite
<1> HIDE DEF n, v
<1>4. /\ v.sent = u.sent \o SubSeq(bytes, 1, n) /\ v.pending = u.pending
      /\ v.room = u.room - n /\ v.on = u.on
  BY <1>3 DEF Bridge, BridgeFields
<1>5. u.sent \o SubSeq(bytes, 1, n) \in Seq(S)
  BY <1>2, ConcatProperties DEF KeptAmong
<1>6. v.room <= u.room
  BY <1>1, <1>4, LenProperties
<1>7. QED
  BY <1>2, <1>4, <1>5, <1>6 DEF KeptAmong, v

LEMMA StageAmong ==
  ASSUME NEW u, Bridge(u), NEW S \in SUBSET Nat, KeptAmong(u, S), NEW bytes \in Seq(S)
  PROVE  /\ KeptAmong(UartStage(u, bytes), S)
         /\ UartStage(u, bytes).room = u.room
         /\ UartStage(u, bytes).on = u.on
<1> DEFINE n == FewerOf(PendingCap - Len(u.pending), Len(bytes))
           v == UartStage(u, bytes)
<1>1. n \in 0 .. Len(bytes)
  <2>1. Len(u.pending) \in Nat /\ Len(bytes) \in Nat
    BY LenProperties DEF Bridge
  <2>2. PendingCap - Len(u.pending) \in Nat
    BY <2>1, UartAssumption DEF Bridge
  <2>3. QED
    BY <2>1, <2>2, FewerIsLess
<1>2. u.pending \o SubSeq(bytes, 1, n) \in Seq(S)
  BY <1>1, FrontAmong, ConcatProperties DEF KeptAmong
<1>3. v = [u EXCEPT !.pending = @ \o SubSeq(bytes, 1, n), !.dropped = @ + Len(bytes) - n]
  BY DEF UartStage
<1> HIDE DEF n, v
<1>4. /\ v.sent = u.sent /\ v.pending = u.pending \o SubSeq(bytes, 1, n)
      /\ v.room = u.room /\ v.on = u.on
  BY <1>3 DEF Bridge, BridgeFields
<1>5. QED
  BY <1>2, <1>4 DEF KeptAmong, v

LEMMA FlushAmong ==
  ASSUME NEW u, Bridge(u), NEW S \in SUBSET Nat, KeptAmong(u, S)
  PROVE  /\ KeptAmong(UartFlush(u), S)
         /\ UartFlush(u).room <= u.room
         /\ UartFlush(u).on = u.on
<1> DEFINE w == UartWrite(u, u.pending)
           rest == UartRefused(u, u.pending)
           v == UartFlush(u)
<1>1. /\ KeptAmong(w, S) /\ rest \in Seq(S) /\ w.room <= u.room /\ w.on = u.on
  BY WriteAmong DEF KeptAmong
<1>2. Bridge(w)
  BY WriteAccepts DEF Bridge
<1>3. v = [w EXCEPT !.pending = rest]
  BY DEF UartFlush
<1> HIDE DEF w, rest, v
<1>4. v.sent = w.sent /\ v.pending = rest /\ v.room = w.room /\ v.on = w.on
  BY <1>2, <1>3 DEF Bridge, BridgeFields
<1>5. QED
  BY <1>1, <1>4 DEF KeptAmong, v

LEMMA ForwardAmong ==
  ASSUME NEW u, Bridge(u), NEW S \in SUBSET Nat, KeptAmong(u, S), NEW bytes \in Seq(S)
  PROVE  /\ KeptAmong(UartForward(u, bytes), S)
         /\ UartForward(u, bytes).room <= u.room
         /\ UartForward(u, bytes).on = u.on
<1> DEFINE f == UartFlush(u)
           w == UartWrite(f, bytes)
           rest == UartRefused(f, bytes)
           v == UartForward(u, bytes)
<1>1. Bridge(f) /\ KeptAmong(f, S) /\ f.room <= u.room /\ f.on = u.on
  BY FlushKeepsAll, FlushAmong
<1>2. bytes \in Seq(Nat)
  <2>1. \A i \in 1 .. Len(bytes) : bytes[i] \in Nat
    BY LenProperties
  <2>2. QED
    BY <2>1, LenProperties
<1>3. /\ KeptAmong(w, S) /\ rest \in Seq(S) /\ w.room <= f.room /\ w.on = f.on
      /\ Bridge(w)
  BY <1>1, <1>2, WriteAmong, WriteAccepts
<1>4. v = IF f.pending = <<>> THEN UartStage(w, rest) ELSE UartStage(f, bytes)
  BY DEF UartForward
<1> HIDE DEF f, w, rest, v
<1>5. CASE f.pending = <<>>
  <2>1. v = UartStage(w, rest)
    BY <1>4, <1>5
  <2>2. KeptAmong(v, S) /\ v.room = w.room /\ v.on = w.on
    BY <1>3, <2>1, StageAmong
  <2>3. w.room <= u.room
    BY <1>1, <1>3 DEF Bridge
  <2>4. QED
    BY <1>1, <1>3, <2>2, <2>3 DEF v
<1>6. CASE f.pending # <<>>
  <2>1. v = UartStage(f, bytes)
    BY <1>4, <1>6
  <2>2. KeptAmong(v, S) /\ v.room = f.room /\ v.on = f.on
    BY <1>1, <2>1, StageAmong
  <2>3. QED
    BY <1>1, <2>2 DEF v
<1>7. QED
  BY <1>5, <1>6

-----------------------------------------------------------------------------
UartSafe == BridgeSafe(uart) /\ UartTypeOK

LEMMA UartFreshTyped ==
  ASSUME UartTypeOK, uart' \in {UartSession, UartClosed(uart)}
  PROVE  UartTypeOK'
<1>1. /\ FifoRoom \in 0 .. FifoRoom /\ 0 \in 0 .. MaxBytes
      /\ <<>> \in Seq(1 .. MaxBytes)
  BY UartAssumption
<1>2. UartOff \in [on : BOOLEAN, room : 0 .. FifoRoom, pending : Seq(1 .. MaxBytes),
                  dropped : 0 .. MaxBytes, sent : Seq(1 .. MaxBytes), taken : 0 .. MaxBytes]
  BY <1>1 DEF UartOff
<1>3. UartSession \in [on : BOOLEAN, room : 0 .. FifoRoom, pending : Seq(1 .. MaxBytes),
                  dropped : 0 .. MaxBytes, sent : Seq(1 .. MaxBytes), taken : 0 .. MaxBytes]
  BY <1>2 DEF UartSession
<1>4. UartClosed(uart) \in [on : BOOLEAN, room : 0 .. FifoRoom, pending : Seq(1 .. MaxBytes),
                  dropped : 0 .. MaxBytes, sent : Seq(1 .. MaxBytes), taken : 0 .. MaxBytes]
  BY <1>2 DEF UartClosed, UartTypeOK
<1>5. QED
  BY <1>3, <1>4 DEF UartTypeOK

LEMMA UartPumpTyped ==
  ASSUME UartSafe, UartPump
  PROVE  UartTypeOK'
<1> DEFINE S == 1 .. MaxBytes
<1>1. /\ uart \in [on : BOOLEAN, room : 0 .. FifoRoom, pending : Seq(S),
                   dropped : 0 .. MaxBytes, sent : Seq(S), taken : 0 .. MaxBytes]
      /\ uart.on \in BOOLEAN /\ uart.room \in 0 .. FifoRoom /\ uart.taken \in 0 .. MaxBytes
      /\ uart.sent \in Seq(S) /\ uart.pending \in Seq(S)
      /\ Bridge(uart) /\ BridgeInOrder(uart)
  BY DEF UartSafe, UartTypeOK, UartPump, BridgeSafe
<1>2. MaxBytes \in Nat /\ FifoRoom \in Nat /\ ReadMax \in Nat
  BY UartAssumption
<1>3. PICK n \in 0 .. FewerOf(ReadMax, MaxBytes - uart.taken) :
        uart' = [UartForward(uart, [i \in 1 .. n |-> uart.taken + i]) EXCEPT !.taken = @ + n]
  BY DEF UartPump
<1> DEFINE bytes == [i \in 1 .. n |-> uart.taken + i]
           v == UartForward(uart, bytes)
<1>4. n \in Nat /\ uart.taken + n <= MaxBytes
  <2>1. MaxBytes - uart.taken \in Nat
    BY <1>1, <1>2
  <2>2. FewerOf(ReadMax, MaxBytes - uart.taken) \in 0 .. MaxBytes - uart.taken
    BY <1>2, <2>1, FewerIsLess
  <2>3. QED
    BY <1>1, <1>2, <2>1, <2>2
<1>5. bytes \in Seq(S) /\ bytes \in Seq(Nat)
  <2>1. \A i \in 1 .. n : uart.taken + i \in S /\ uart.taken + i \in Nat
    BY <1>1, <1>2, <1>4
  <2>2. QED
    BY <1>4, <2>1
<1>6. /\ v.sent \in Seq(S) /\ v.pending \in Seq(S)
      /\ v.room <= uart.room /\ v.on = uart.on
  <2>1. S \in SUBSET Nat
    BY <1>2
  <2> HIDE DEF S, bytes
  <2>2. KeptAmong(uart, S)
    BY <1>1 DEF KeptAmong
  <2>3. QED
    BY <1>1, <1>5, <2>1, <2>2, ForwardAmong DEF KeptAmong
<1>7. Bridge(v) /\ \E m \in 0 .. Len(bytes) : Accounts(uart, v, bytes, m)
  BY <1>1, <1>5, ForwardAccounts
<1>8. v.taken = uart.taken
  BY <1>7 DEF Accounts
<1>9. uart' = [v EXCEPT !.taken = @ + n]
  BY <1>3
<1> HIDE DEF bytes, v, S
<1>10. v.room \in 0 .. FifoRoom
  BY <1>1, <1>2, <1>6, <1>7 DEF Bridge
<1>11. uart.taken + n \in 0 .. MaxBytes
  BY <1>1, <1>2, <1>4
<1>12. /\ DOMAIN uart' = BridgeFields
       /\ uart'.on = v.on /\ uart'.room = v.room /\ uart'.pending = v.pending
       /\ uart'.dropped = v.dropped /\ uart'.sent = v.sent /\ uart'.taken = uart.taken + n
  BY <1>7, <1>8, <1>9 DEF Bridge, BridgeFields
<1>13. uart'.dropped \in 0 .. MaxBytes
  <2>1. Bridge(uart') /\ Len(Kept(uart')) + uart'.dropped = uart'.taken
    BY <1>1, PumpKeepsOrder DEF BridgeInOrder
  <2>2. Len(Kept(uart')) \in Nat
    BY <2>1, ConcatProperties, LenProperties DEF Kept, Bridge
  <2>3. uart'.dropped \in Nat
    BY <2>1 DEF Bridge
  <2>4. QED
    BY <1>2, <1>11, <1>12, <2>1, <2>2, <2>3
<1>14. uart' = [x \in BridgeFields |-> uart'[x]]
  BY <1>9, <1>12
<1>15. uart' \in [on : BOOLEAN, room : 0 .. FifoRoom, pending : Seq(S),
                 dropped : 0 .. MaxBytes, sent : Seq(S), taken : 0 .. MaxBytes]
  <2>1. /\ uart'.on \in BOOLEAN /\ uart'.room \in 0 .. FifoRoom /\ uart'.pending \in Seq(S)
        /\ uart'.sent \in Seq(S) /\ uart'.taken \in 0 .. MaxBytes
    BY <1>1, <1>6, <1>10, <1>11, <1>12
  <2>2. QED
    BY <1>13, <1>14, <2>1 DEF BridgeFields
<1>16. QED
  BY <1>15 DEF UartTypeOK, S

LEMMA UartShiftTyped ==
  ASSUME UartSafe, UartShift
  PROVE  UartTypeOK'
<1>1. /\ uart \in [on : BOOLEAN, room : 0 .. FifoRoom, pending : Seq(1 .. MaxBytes),
                   dropped : 0 .. MaxBytes, sent : Seq(1 .. MaxBytes), taken : 0 .. MaxBytes]
      /\ uart.room \in 0 .. FifoRoom
  BY DEF UartSafe, UartTypeOK
<1>2. uart' = [uart EXCEPT !.room = @ + 1] /\ uart.room < FifoRoom /\ FifoRoom \in Nat
  BY UartAssumption DEF UartShift
<1>3. uart.room + 1 \in 0 .. FifoRoom
  BY <1>1, <1>2
<1>4. QED
  BY <1>1, <1>2, <1>3 DEF UartTypeOK

-----------------------------------------------------------------------------
(* The scan.                                                                *)

LEMMA ScanOffTyped ==
  ScanOff \in [kind : ScanKinds, last : Pairs \cup {NoPair}, wired : Pairs \cup {NoPair},
              tried : SUBSET Pairs, match : Pairs \cup {NoPair}]
  BY DEF ScanOff, ScanKinds

LEMMA ScanMoveTyped ==
  ASSUME ScanTypeOK, (\E kind \in {"SWD", "I2C"} : ScanBegin(kind)) \/ ScanStep
  PROVE  ScanTypeOK'
<1>1. /\ scan \in [kind : ScanKinds, last : Pairs \cup {NoPair}, wired : Pairs \cup {NoPair},
                   tried : SUBSET Pairs, match : Pairs \cup {NoPair}]
      /\ scan.last \in Pairs \cup {NoPair} /\ scan.tried \in SUBSET Pairs
  BY DEF ScanTypeOK
<1>2. CASE \E kind \in {"SWD", "I2C"} : ScanBegin(kind)
  <2>1. PICK kind \in {"SWD", "I2C"}, wired \in Pairs \cup {NoPair} :
          scan' = [ScanOff EXCEPT !.kind = kind, !.wired = wired]
    BY <1>2 DEF ScanBegin
  <2>2. kind \in ScanKinds
    BY DEF ScanKinds
  <2>3. QED
    BY <2>1, <2>2, ScanOffTyped DEF ScanTypeOK
<1>3. CASE ScanCandidate
  <2> DEFINE pair == PermNext(scan.last)
             tried == scan.tried \cup {pair}
  <2>1. pair \in Pairs
    BY <1>1, <1>3, NextIsAdded DEF ScanCandidate
  <2>2. tried \in SUBSET Pairs /\ "REPORT" \in ScanKinds
    BY <1>1, <2>1 DEF ScanKinds
  <2>3. \/ scan' = [scan EXCEPT !.kind = "REPORT", !.match = pair, !.tried = tried]
        \/ scan' = [scan EXCEPT !.last = pair, !.tried = tried]
    BY <1>3 DEF ScanCandidate
  <2> HIDE DEF pair, tried
  <2>4. QED
    BY <1>1, <2>1, <2>2, <2>3 DEF ScanTypeOK
<1>4. CASE ScanExhausted
  BY <1>1, <1>4 DEF ScanExhausted, ScanTypeOK, ScanKinds
<1>5. CASE ScanReport
  BY <1>5, ScanOffTyped DEF ScanReport, ScanTypeOK
<1>6. QED
  BY <1>2, <1>3, <1>4, <1>5 DEF ScanStep

-----------------------------------------------------------------------------
(* All of them.                                                             *)

\* What the types of the services rest on.
Typed ==
  /\ BpTyped /\ SpTyped /\ LasTyped /\ SumpPlaced /\ UartTypeOK /\ ScanTypeOK
  /\ held \in BOOLEAN

ServicesSafe == IInv /\ ParsersShaped /\ HostsTogether /\ BridgeSafe(uart) /\ Typed

LEMMA TypedIsTypeOK == ServicesSafe => TypeOK
<1> SUFFICES ASSUME ServicesSafe
             PROVE  TypeOK
  OBVIOUS
<1>1. ShellTypeOK /\ busOwner \in BusOwners /\ pin \in [Channels -> PinFunctions] /\ LaTypeOK
  BY DEF ServicesSafe, IInv, Shapes, ShellTypeOK, Typed
<1>2. LasTypeOK /\ HostTypeOK /\ BpTypeOK /\ SpTypeOK /\ UartTypeOK /\ ScanTypeOK
  BY DEF ServicesSafe, Typed, LasTyped, BpTyped, SpTyped, HostsTogether
<1>3. SumpTypeOK
  <2>1. sump \in Parsers
    BY DEF ServicesSafe, IInv, CaptureSafe
  <2>2. sump.cursor \in 0 .. Forever /\ sump.start \in 0 .. Forever
    BY DEF ServicesSafe, Typed, SumpPlaced
  <2>3. QED
    BY <2>1, <2>2 DEF Parsers, SumpTypeOK
<1>4. QED
  BY <1>1, <1>2, <1>3 DEF TypeOK

LEMMA InitServices == ShellInit => ServicesSafe
<1> SUFFICES ASSUME ShellInit
             PROVE  ServicesSafe
  OBVIOUS
<1>1. /\ bp = BpFresh /\ sp = SpFresh /\ las = LasOff /\ sump = SumpFresh
      /\ uart = UartOff /\ scan = ScanOff
  BY DEF ShellInit, BpInit, SpInit, LaCommandInit, SumpInit, UartInit, ScanInit
<1>2. BpTyped
  <2>1. 0 \in 0 .. TapMax /\ 0 \in 0 .. 3
    BY TapAssumption
  <2>2. BpTypeOK
    BY <1>1, <2>1 DEF BpTypeOK, BpFresh, BpStates
  <2>3. QED
    BY <1>1, <2>2 DEF BpTyped, BpFresh
<1>3. SpTyped
  BY <1>1 DEF SpTyped, SpTypeOK, SpFresh, SpStates
<1>4. LasTyped
  BY <1>1, LasOffTyped DEF LasTyped, LasTypeOK
<1>5. SumpPlaced
  BY <1>1, ZeroSamples DEF SumpPlaced, SumpFresh
<1>6. UartTypeOK
  <2>1. FifoRoom \in 0 .. FifoRoom /\ 0 \in 0 .. MaxBytes /\ <<>> \in Seq(1 .. MaxBytes)
    BY UartAssumption
  <2>2. QED
    BY <1>1, <2>1 DEF UartTypeOK, UartOff
<1>7. ScanTypeOK
  BY <1>1, ScanOffTyped DEF ScanTypeOK
<1>8. HostsTogether /\ held \in BOOLEAN
  <2>1. mode = "TEXT" /\ host = HostFresh /\ held = FALSE
    BY DEF ShellInit, HostInit
  <2>2. QED
    BY <2>1, FreshTogether DEF HostsTogether, HostTypeOK, HostFields
<1>9. QED
  BY <1>1, <1>2, <1>3, <1>4, <1>5, <1>6, <1>7, <1>8, InitIInv, InitParsers, FreshBridge
     DEF ServicesSafe, Typed

LEMMA NextServices == ServicesSafe /\ [ShellNext]_shellvars => ServicesSafe'
<1> SUFFICES ASSUME ServicesSafe, [ShellNext]_shellvars
             PROVE  ServicesSafe'
  OBVIOUS
<1>1. /\ IInv /\ ParsersShaped /\ HostsTogether /\ BridgeSafe(uart) /\ held \in BOOLEAN
      /\ BpTyped /\ SpTyped /\ LasTyped /\ SumpPlaced /\ UartTypeOK /\ ScanTypeOK
      /\ LaTypeOK /\ CaptureSafe
  BY DEF ServicesSafe, Typed, IInv, Shapes
<1>2. IInv' /\ ParsersShaped' /\ HostsTogether' /\ BridgeSafe(uart)'
  BY <1>1, NextIInv, NextParsers, NextTogether, NextKeepsOrder
<1>3. BpTyped'
  <2>1. BpByte \/ bp' = BpFresh \/ bp' = bp
    BY DEF ShellNext, ScanCommand, I2cProbeCommand, LaCommandBegin, SumpEnter, BuspirateEnter,
           SerprogEnter, UartEnter, UartExit, ResetCommand, BuspirateByte, BuspirateOnExit,
           SerprogByte, SumpByte, ScanProgress, LaProgress, SumpProgress, NoticeDtr, DisconnectChecks, CampaignWaits, CampaignReturns, PumpUart,
           ShiftUart, HostDtr, shellvars
  <2>2. CASE bp' = bp
    BY <1>1, <2>2 DEF BpTyped, BpTypeOK
  <2>3. QED
    BY <1>1, <2>1, <2>2, BpFeedTyped, BpFreshTyped DEF ParsersShaped, BpByte
<1>4. SpTyped'
  <2>1. SpByte \/ sp' = SpFresh \/ sp' = sp
    BY DEF ShellNext, ScanCommand, I2cProbeCommand, LaCommandBegin, SumpEnter, BuspirateEnter,
           SerprogEnter, UartEnter, UartExit, ResetCommand, BuspirateByte, SerprogOnExit,
           SerprogByte, SumpByte, ScanProgress, LaProgress, SumpProgress, NoticeDtr, DisconnectChecks, CampaignWaits, CampaignReturns, PumpUart,
           ShiftUart, HostDtr, shellvars
  <2>2. CASE sp' = sp
    BY <1>1, <2>2 DEF SpTyped, SpTypeOK
  <2>3. QED
    BY <1>1, <2>1, <2>2, SpFeedTyped, SpFreshTyped DEF SpByte
<1>5. LasTyped'
  <2>1. LaBegin \/ LaStep \/ las' = las
    BY DEF ShellNext, ScanCommand, I2cProbeCommand, LaCommandBegin, LaBeginFails, SumpEnter,
           BuspirateEnter, SerprogEnter, UartEnter, UartExit, ResetCommand, BuspirateByte,
           SerprogByte, SumpByte, ScanProgress, LaProgress, SumpProgress, NoticeDtr, DisconnectChecks, CampaignWaits, CampaignReturns, PumpUart,
           ShiftUart, HostDtr, shellvars
  <2>2. CASE las' = las
    BY <1>1, <2>2 DEF LasTyped, LasTypeOK
  <2>3. QED
    BY <1>1, <2>1, <2>2, LasBeginTyped, LasStepTyped
<1>6. SumpPlaced'
  <2>1. SumpFeed \/ SumpCapture \/ sump' = SumpFresh \/ sump' = sump
    BY DEF ShellNext, ScanCommand, I2cProbeCommand, LaCommandBegin, SumpEnter, BuspirateEnter,
           SerprogEnter, UartEnter, UartExit, ResetCommand, BuspirateByte, SerprogByte,
           SumpByte, SumpForceExit, ScanProgress, LaProgress, SumpProgress, NoticeDtr,
           DisconnectChecks, CampaignWaits, CampaignReturns, PumpUart, ShiftUart, HostDtr, shellvars
  <2>2. CASE sump' = sump
    BY <1>1, <2>2 DEF SumpPlaced
  <2>3. CASE sump' = SumpFresh
    BY <2>3, ZeroSamples DEF SumpPlaced, SumpFresh
  <2>4. QED
    BY <1>1, <2>1, <2>2, <2>3, SumpStepPlaced
<1>7. UartTypeOK'
  <2>1. UartPump \/ UartShift \/ uart' \in {UartSession, UartClosed(uart)} \/ uart' = uart
    BY DEF ShellNext, ScanCommand, I2cProbeCommand, LaCommandBegin, SumpEnter, BuspirateEnter,
           SerprogEnter, UartEnter, UartExit, UartDisable, ResetCommand, BuspirateByte,
           SerprogByte, SumpByte, ScanProgress, LaProgress, SumpProgress, NoticeDtr, DisconnectChecks, CampaignWaits, CampaignReturns, PumpUart,
           ShiftUart, HostDtr, shellvars
  <2>2. CASE uart' = uart
    BY <1>1, <2>2 DEF UartTypeOK
  <2>3. QED
    BY <1>1, <2>1, <2>2, UartPumpTyped, UartShiftTyped, UartFreshTyped DEF UartSafe
<1>8. ScanTypeOK'
  <2>1. (\E kind \in {"SWD", "I2C"} : ScanBegin(kind)) \/ ScanStep \/ scan' = scan
    BY DEF ShellNext, ScanCommand, I2cProbeCommand, LaCommandBegin, SumpEnter, BuspirateEnter,
           SerprogEnter, UartEnter, UartExit, ResetCommand, BuspirateByte, SerprogByte, SumpByte,
           ScanProgress, LaProgress, SumpProgress, NoticeDtr, DisconnectChecks, CampaignWaits, CampaignReturns, PumpUart, ShiftUart, HostDtr,
           shellvars
  <2>2. CASE scan' = scan
    BY <1>1, <2>2 DEF ScanTypeOK
  <2>3. QED
    BY <1>1, <2>1, <2>2, ScanMoveTyped
<1>9. (held \in BOOLEAN)'
  BY <1>1 DEF ShellNext, ScanCommand, I2cProbeCommand, LaCommandBegin, SumpEnter, BuspirateEnter,
         SerprogEnter, UartEnter, UartExit, ResetCommand, BuspirateByte, SerprogByte, SumpByte,
         ScanProgress, LaProgress, SumpProgress, NoticeDtr, CampaignWaits, CampaignReturns,
         PumpUart, ShiftUart, HostDtr, shellvars
<1>10. QED
  BY <1>2, <1>3, <1>4, <1>5, <1>6, <1>7, <1>8, <1>9 DEF ServicesSafe, Typed

\* Whatever sessions, scans and captures follow one another, every variable of the
\* shell and of its services keeps its type: the cursors of a capture stay within
\* the DMA's transfer count, the shift within the advertised maximum, and the
\* argument counters never run below zero.
THEOREM TypeCorrect == ShellSpec => []TypeOK
  BY InitServices, NextServices, TypedIsTypeOK, PTL DEF ShellSpec

\* buspirate_compat with OpenOCD and flashrom_serprog with flashrom: whatever the
\* byte width, the lengths and the commands strung together, whatever session was
\* cut off before, a host that began its session and asks for no shift longer than
\* the maximum counts the bytes of every command as the parser does, and every
\* shift was answered with its TDO bytes.
THEOREM HostsStayInStep == ShellSpec => []HostsInStep
<1>1. ServicesSafe => HostsInStep
  BY TogetherInStep DEF ServicesSafe
<1>2. QED
  BY <1>1, InitServices, NextServices, PTL DEF ShellSpec
=============================================================================
