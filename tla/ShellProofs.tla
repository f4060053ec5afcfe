----------------------------- MODULE ShellProofs -----------------------------
(***************************************************************************)
(* Proofs about the scanner shell, for every header, every size of the     *)
(* capture ring, every set of pinouts, lengths and samples.                *)
(***************************************************************************)
EXTENDS ShellSafety, TLAPS

\* The fields the arguments below look at.  The others need no type.
Shapes ==
  /\ mode \in Modes /\ dtr \in Ports /\ seen \in Ports
  /\ jtagPins \in JtagPinouts \cup {<<>>} /\ spPins \in SpPinouts \cup {<<>>}
  /\ busOwner \in BusOwners
  /\ pin \in [Channels -> PinFunctions]
  /\ LaTypeOK
  /\ "phase" \in DOMAIN las /\ las.phase \in LasPhases
  /\ "kind" \in DOMAIN scan /\ scan.kind \in ScanKinds
  /\ "on" \in DOMAIN uart /\ uart.on \in BOOLEAN

\* What keeps the users of the header apart while a command is under way.
Apart ==
  /\ scan.kind # "NONE" => las.phase = "NONE" /\ mode = "TEXT" /\ ~uart.on
  /\ las.phase # "NONE" => mode = "TEXT" /\ ~uart.on
  /\ mode # "TEXT" => ~uart.on
  /\ SumpCapturing => mode = "SUMP"

\* The parser of SUMP with no bounds on its cursors.
Parsers ==
  [state : SumpCommands, byte : 0 .. 3, size : Sizes \cup {0}, post : Sizes \cup {0},
   masked : BOOLEAN, phase : SumpPhases, n : 0 .. MaxSamples, cursor : Int, start : Int]

\* A capture of SUMP as far as it got: nothing it will dump can be overwritten.
CaptureSafe ==
  /\ sump \in Parsers
  /\ sump.phase # "NONE" => sump.n > 0
  /\ sump.phase = "WAIT" => sump.cursor = la.total
  /\ sump.phase = "FILL" =>
       /\ la.total - sump.start < sump.n
       /\ sump.cursor \in sump.start .. sump.start + sump.n - 1
  /\ SumpLossless

HeaderFree == busOwner = RightfulOwner /\ DriversMatchModes /\ DrivenPinsOwned

IInv == Shapes /\ Apart /\ HeaderFree /\ CaptureSafe

-----------------------------------------------------------------------------
(* Pins.                                                                    *)

LEMMA NoPins == PinSet(<<>>) = {}
  BY DEF PinSet

LEMMA FourPins ==
  ASSUME NEW pins \in JtagPinouts \cup SpPinouts
  PROVE  /\ pins # <<>>
         /\ PinSet(pins) = {pins[1], pins[2], pins[3], pins[4]}
         /\ PinSet(pins) \subseteq Channels
<1>1. pins \in Channels \X Channels \X Channels \X Channels
  BY PinoutAssumption
<1>2. PICK a, b, c, d \in Channels : pins = <<a, b, c, d>>
  BY <1>1
<1>3. DOMAIN pins = {1, 2, 3, 4} /\ pins # <<>>
  BY <1>2
<1>4. pins[1] = a /\ pins[2] = b /\ pins[3] = c /\ pins[4] = d
  BY <1>2
<1>5. QED
  BY <1>2, <1>3, <1>4 DEF PinSet

LEMMA MuxedType ==
  ASSUME Shapes, NEW S, NEW f \in PinFunctions
  PROVE  Muxed(S, f) \in [Channels -> PinFunctions]
  BY DEF Shapes, Muxed

-----------------------------------------------------------------------------
(* The window of a capture.                                                 *)

LEMMA ShareIsLess ==
  ASSUME NEW n \in Nat \ {0}
  PROVE  n \div PretriggerShare \in 0 .. n - 1
<1> DEFINE q == n \div PretriggerShare
<1>1. /\ q \in Int
      /\ PretriggerShare * q <= n
      /\ n < PretriggerShare * q + PretriggerShare
  BY RingAssumption
<1>2. q >= 0
  <2>1. SUFFICES ASSUME q <= -1
                 PROVE  FALSE
    BY <1>1
  <2>2. PretriggerShare * q <= PretriggerShare * (-1)
    BY <2>1, <1>1, RingAssumption
  <2>3. n < 0
    BY <2>2, <1>1, RingAssumption
  <2>4. QED
    BY <2>3
<1>3. q <= n - 1
  <2>1. SUFFICES ASSUME q >= n
                 PROVE  FALSE
    BY <1>1
  <2>2. PretriggerShare * q >= 2 * q
    BY <1>1, <1>2, RingAssumption
  <2>3. QED
    BY <2>1, <2>2, <1>1, RingAssumption
<1>4. QED
  BY <1>1, <1>2, <1>3

LEMMA LesserIsLess ==
  ASSUME NEW a \in Int, NEW b \in Int
  PROVE  LesserOf(a, b) \in {a, b} /\ LesserOf(a, b) <= a /\ LesserOf(a, b) <= b
  BY DEF LesserOf

\* la_apply_pretrigger never reaches back before the first sample, nor a whole
\* window.
LEMMA PretriggerBounded ==
  ASSUME NEW cursor \in Nat, NEW n \in Nat \ {0}
  PROVE  LaPretrigger(cursor, n) \in 0 .. cursor /\ cursor - LaPretrigger(cursor, n) < n
<1> DEFINE share == n \div PretriggerShare
           floor == LesserOf(PretriggerMin, share)
<1>1. share \in 0 .. n - 1 /\ PretriggerMin \in Nat
  BY ShareIsLess, RingAssumption
<1>2. floor \in 0 .. n - 1
  BY <1>1 DEF LesserOf
<1> HIDE DEF floor
<1>3. LesserOf(floor, cursor) \in 0 .. n - 1 /\ LesserOf(floor, cursor) <= cursor
  BY <1>2, floor \in Int DEF LesserOf
<1>4. LaPretrigger(cursor, n) = cursor - LesserOf(floor, cursor)
  BY DEF LaPretrigger, floor
<1>5. QED
  BY <1>3, <1>4

LEMMA SizesAreNat ==
  ASSUME CaptureSafe
  PROVE  sump.post \in Nat /\ sump.size \in Nat
<1>1. sump.post \in Sizes \cup {0} /\ sump.size \in Sizes \cup {0}
  BY DEF CaptureSafe, Parsers
<1>2. \A x \in Sizes \cup {0} : x \in Nat
  BY SumpAssumption
<1>3. QED
  BY <1>1, <1>2

\* The window SUMP asks for begins at or before the trigger, and less than the
\* window before it.
LEMMA WindowHoldsTrigger ==
  ASSUME CaptureSafe, NEW n \in Nat \ {0}, NEW hit \in Nat
  PROVE  SumpWindowStart(hit, n) \in 0 .. hit /\ hit - SumpWindowStart(hit, n) < n
<1> DEFINE post  == IF sump.post = 0 THEN n ELSE LesserOf(sump.post, n)
           asked == IF n - post > hit THEN 0 ELSE hit - (n - post)
<1>1. post \in 1 .. n
  BY SizesAreNat DEF LesserOf
<1>2. asked \in 0 .. hit /\ hit - asked < n
  BY <1>1
<1> HIDE DEF asked, post
<1>3. LaPretrigger(hit, n) \in 0 .. hit /\ hit - LaPretrigger(hit, n) < n
  BY PretriggerBounded
<1>4. SumpWindowStart(hit, n) \in {asked, LesserOf(asked, LaPretrigger(hit, n))}
  BY DEF SumpWindowStart, asked, post
<1>5. LesserOf(asked, LaPretrigger(hit, n)) \in {asked, LaPretrigger(hit, n)}
  BY DEF LesserOf
<1>6. QED
  BY <1>2, <1>3, <1>4, <1>5

LEMMA ZeroSamples == 0 \in 0 .. Forever
  BY RingAssumption

LEMMA SampledType ==
  ASSUME LaTypeOK, NEW k \in Nat
  PROVE  /\ LaSampled(la, k) \in [inited : BOOLEAN, running : BOOLEAN, total : 0 .. Forever]
         /\ LaSampled(la, k).inited = la.inited
         /\ LaSampled(la, k).total - la.total \in 0 .. k
  BY RingAssumption DEF LaTypeOK, LaSampled, LesserOf

-----------------------------------------------------------------------------
(* The steps of SUMP.                                                       *)

LEMMA WindowType ==
  ASSUME CaptureSafe
  PROVE  SumpWindow \in 1 .. MaxSamples
<1>1. MaxSamples \in Nat \ {0} /\ DefaultSamples \in 1 .. MaxSamples
  BY SumpAssumption
<1>2. QED
  BY <1>1, SizesAreNat DEF SumpWindow, LesserOf

LEMMA ParserKeepsCapture ==
  ASSUME LaTypeOK, CaptureSafe, SumpLongCommand \/ SumpArgument
  PROVE  CaptureSafe' /\ UNCHANGED la
<1>1. /\ sump.phase = "NONE" /\ sump'.phase = "NONE"
      /\ sump' \in Parsers
      /\ UNCHANGED la
  <2>1. CASE SumpLongCommand
    <3>1. PICK c \in SumpCommands : sump' = [sump EXCEPT !.state = c, !.byte = 0]
      BY <2>1 DEF SumpLongCommand
    <3>2. sump.phase = "NONE" /\ UNCHANGED la
      BY <2>1 DEF SumpLongCommand, SumpCapturing
    <3>3. 0 \in 0 .. 3
      OBVIOUS
    <3>4. QED
      BY <3>1, <3>2, <3>3 DEF CaptureSafe, Parsers
  <2>2. CASE SumpArgument
    <3> DEFINE idle == [sump EXCEPT !.state = "IDLE", !.byte = 0]
    <3>1. /\ sump.phase = "NONE" /\ UNCHANGED la
          /\ \/ sump.byte < 3 /\ sump' = [sump EXCEPT !.byte = @ + 1]
             \/ sump' = idle
             \/ \E s \in Sizes, p \in Sizes : sump' = [idle EXCEPT !.size = s, !.post = p]
             \/ \E m \in BOOLEAN : sump' = [idle EXCEPT !.masked = m]
      BY <2>2 DEF SumpArgument, SumpCapturing
    <3>2. 0 \in 0 .. 3 /\ (sump.byte < 3 => sump.byte + 1 \in 0 .. 3) /\ "IDLE" \in SumpCommands
      BY DEF CaptureSafe, Parsers, SumpCommands
    <3>3. sump \in Parsers
      BY DEF CaptureSafe
    <3>4. idle \in Parsers /\ idle.phase = sump.phase
      BY <3>2, <3>3 DEF Parsers
    <3> HIDE DEF idle
    <3>5. /\ sump' \in Parsers
          /\ sump'.phase = sump.phase
      <4>1. CASE sump.byte < 3 /\ sump' = [sump EXCEPT !.byte = @ + 1]
        BY <4>1, <3>2, <3>3 DEF Parsers
      <4>2. CASE sump' = idle
        BY <4>2, <3>4
      <4>3. CASE \E s \in Sizes, p \in Sizes : sump' = [idle EXCEPT !.size = s, !.post = p]
        BY <4>3, <3>4 DEF Parsers
      <4>4. CASE \E m \in BOOLEAN : sump' = [idle EXCEPT !.masked = m]
        BY <4>4, <3>4 DEF Parsers
      <4>5. QED
        BY <3>1, <4>1, <4>2, <4>3, <4>4
    <3>6. QED
      BY <3>1, <3>5
  <2>3. QED
    BY <2>1, <2>2
<1>2. QED
  BY <1>1 DEF CaptureSafe, SumpLossless

LEMMA ArmStartsCapture ==
  ASSUME LaTypeOK, CaptureSafe, SumpArm
  PROVE  CaptureSafe' /\ LaTypeOK' /\ la'.inited = la.inited
<1>1. la' = [la EXCEPT !.running = TRUE, !.total = 0]
  BY DEF SumpArm, LaStart
<1>2. sump' = [sump EXCEPT !.phase = "WAIT", !.n = SumpWindow, !.cursor = 0, !.start = 0]
  BY DEF SumpArm
<1>3. SumpWindow \in 1 .. MaxSamples
  BY WindowType
<1>4. LaTypeOK' /\ la'.inited = la.inited /\ la'.total = 0
  <2>1. 0 \in 0 .. Forever
    BY RingAssumption
  <2>2. QED
    BY <1>1, <2>1 DEF LaTypeOK
<1>5. SumpWindow \in 0 .. MaxSamples /\ SumpWindow > 0
  BY <1>3, SumpAssumption
<1>6. /\ sump'.phase = "WAIT" /\ sump'.n = SumpWindow /\ sump'.cursor = 0
      /\ sump' \in Parsers
  <2> DEFINE waiting == [sump EXCEPT !.phase = "WAIT", !.n = SumpWindow]
  <2>1. sump \in Parsers
    BY DEF CaptureSafe
  <2>2. waiting \in Parsers
    BY <1>5, <2>1 DEF Parsers, SumpPhases
  <2>3. sump' = [waiting EXCEPT !.cursor = 0, !.start = 0]
    BY <1>2
  <2> HIDE DEF waiting
  <2>4. sump' \in Parsers
    BY <2>2, <2>3, 0 \in Int DEF Parsers
  <2>5. sump'.phase = "WAIT" /\ sump'.n = SumpWindow /\ sump'.cursor = 0
    BY <1>2, <2>1 DEF Parsers
  <2>6. QED
    BY <2>4, <2>5
<1>7. QED
  BY <1>4, <1>5, <1>6 DEF CaptureSafe, SumpLossless

\* When the DMA has stopped, a window it filled is still in the ring.
LEMMA StopIsInTime ==
  ASSUME LaTypeOK, CaptureSafe, SumpCapturing, NEW k \in 0 .. Gap,
         NEW cursor \in Int, NEW start \in Int,
         la.total - start < sump.n,
         cursor \in start .. start + sump.n - 1,
         SumpFilled(LaSampled(la, k), start),
         SumpStop(LaSampled(la, k), cursor, start)
  PROVE  CaptureSafe' /\ LaTypeOK' /\ la'.inited = la.inited
<1> DEFINE sampled == LaSampled(la, k)
<1>1. PICK over \in 0 .. Overshoot :
        /\ la' = LaStop(LaSampled(sampled, over))
        /\ sump' = [sump EXCEPT !.phase = "DUMP", !.cursor = cursor, !.start = start]
  BY DEF SumpStop
<1>2. k \in Nat /\ over \in Nat /\ k <= Gap /\ over <= Overshoot
  BY RingAssumption
<1>3. /\ sampled \in [inited : BOOLEAN, running : BOOLEAN, total : 0 .. Forever]
      /\ sampled.inited = la.inited
      /\ sampled.total - la.total \in 0 .. k
  BY <1>2, SampledType
<1> DEFINE last == LaSampled(sampled, over)
<1>4. /\ last \in [inited : BOOLEAN, running : BOOLEAN, total : 0 .. Forever]
      /\ last.inited = la.inited
      /\ last.total - sampled.total \in 0 .. over
  <2> HIDE DEF sampled
  <2>1. QED
    BY <1>2, <1>3, RingAssumption DEF LaSampled, LesserOf
<1>5. sampled.total - start >= sump.n
  BY DEF SumpFilled
<1> HIDE DEF sampled, last
<1>6. la' = [last EXCEPT !.running = FALSE]
  BY <1>1 DEF LaStop, last
<1>7. LaTypeOK' /\ la'.inited = la.inited /\ la'.total = last.total
  BY <1>4, <1>6 DEF LaTypeOK
<1>8. /\ la.total \in Int /\ sampled.total \in Int /\ last.total \in Int
      /\ sump.n \in 1 .. MaxSamples
  BY <1>3, <1>4, SumpAssumption DEF LaTypeOK, CaptureSafe, Parsers, SumpCapturing
<1>9. last.total - start \in sump.n .. Ring
  <2>1. last.total - start >= sump.n
    BY <1>2, <1>4, <1>5, <1>8
  <2>2. last.total - start < sump.n + Gap + Overshoot
    BY <1>2, <1>3, <1>4, <1>8, RingAssumption
  <2>3. sump.n + Gap + Overshoot <= Ring
    BY <1>8, SumpAssumption, RingAssumption
  <2>4. QED
    BY <2>1, <2>2, <2>3, <1>8, RingAssumption, SumpAssumption
<1>10. /\ sump'.phase = "DUMP" /\ sump'.cursor = cursor /\ sump'.start = start
       /\ sump'.n = sump.n
       /\ sump' \in Parsers
  BY <1>1 DEF CaptureSafe, Parsers, SumpPhases
<1>11. QED
  BY <1>7, <1>8, <1>9, <1>10 DEF CaptureSafe, SumpLossless

\* A poll sees at most Gap new samples, so the trigger search never finds itself
\* lapped and a match is one of the new samples.
LEMMA HitIsNew ==
  ASSUME LaTypeOK, CaptureSafe, sump.phase = "WAIT", NEW k \in 0 .. Gap,
         NEW hit \in LaTriggerHits(sump.cursor, LaSampled(la, k).total, sump.masked)
  PROVE  hit \in Nat /\ la.total <= hit /\ hit < LaSampled(la, k).total
<1> DEFINE sampled == LaSampled(la, k)
<1>1. k \in Nat /\ k <= Ring
  BY RingAssumption, SumpAssumption
<1>2. la.total \in Nat /\ sampled.total \in Nat /\ sampled.total - la.total \in 0 .. k
  BY <1>1, SampledType, RingAssumption DEF LaTypeOK
<1>3. sump.cursor = la.total
  BY DEF CaptureSafe
<1> HIDE DEF sampled
<1>4. LaSkipLapped(sump.cursor, sampled.total) = la.total
  BY <1>1, <1>2, <1>3, RingAssumption DEF LaSkipLapped
<1>5. hit \in la.total .. sampled.total - 1
  BY <1>4 DEF LaTriggerHits, sampled
<1>6. QED
  BY <1>2, <1>5 DEF sampled

LEMMA WaitIsSafe ==
  ASSUME LaTypeOK, CaptureSafe, SumpWait
  PROVE  CaptureSafe' /\ LaTypeOK' /\ la'.inited = la.inited
<1>1. sump.phase = "WAIT" /\ SumpCapturing
  BY DEF SumpWait, SumpCapturing
<1>2. PICK k \in 0 .. Gap :
        \/ /\ la' = LaSampled(la, k)
           /\ sump' = [sump EXCEPT !.cursor = LaSampled(la, k).total]
        \/ \E hit \in LaTriggerHits(sump.cursor, LaSampled(la, k).total, sump.masked) :
             IF SumpFilled(LaSampled(la, k), SumpWindowStart(hit, sump.n))
             THEN SumpStop(LaSampled(la, k), hit, SumpWindowStart(hit, sump.n))
             ELSE /\ la' = LaSampled(la, k)
                  /\ sump' = [sump EXCEPT !.phase = "FILL", !.cursor = hit,
                                          !.start = SumpWindowStart(hit, sump.n)]
  BY DEF SumpWait
<1>3. /\ k \in Nat
      /\ LaSampled(la, k) \in [inited : BOOLEAN, running : BOOLEAN, total : 0 .. Forever]
      /\ LaSampled(la, k).inited = la.inited
      /\ la.total \in Nat /\ LaSampled(la, k).total \in Nat
  BY SampledType, RingAssumption DEF LaTypeOK
<1>4. sump \in Parsers /\ sump.n \in 1 .. MaxSamples /\ sump.n \in Nat \ {0}
  BY <1>1, SumpAssumption DEF CaptureSafe, Parsers
<1>5. CASE /\ la' = LaSampled(la, k)
           /\ sump' = [sump EXCEPT !.cursor = LaSampled(la, k).total]
  <2>1. LaTypeOK' /\ la'.inited = la.inited
    BY <1>3, <1>5 DEF LaTypeOK
  <2>2. /\ sump' \in Parsers /\ sump'.phase = "WAIT" /\ sump'.n = sump.n
        /\ sump'.cursor = la'.total
    BY <1>1, <1>3, <1>4, <1>5 DEF Parsers
  <2>3. QED
    BY <2>1, <2>2, <1>4 DEF CaptureSafe, SumpLossless
<1>6. ASSUME NEW hit \in LaTriggerHits(sump.cursor, LaSampled(la, k).total, sump.masked),
             IF SumpFilled(LaSampled(la, k), SumpWindowStart(hit, sump.n))
             THEN SumpStop(LaSampled(la, k), hit, SumpWindowStart(hit, sump.n))
             ELSE /\ la' = LaSampled(la, k)
                  /\ sump' = [sump EXCEPT !.phase = "FILL", !.cursor = hit,
                                          !.start = SumpWindowStart(hit, sump.n)]
      PROVE  CaptureSafe' /\ LaTypeOK' /\ la'.inited = la.inited
  <2> DEFINE start == SumpWindowStart(hit, sump.n)
  <2>1. hit \in Nat /\ la.total <= hit
    BY <1>1, HitIsNew
  <2>2. start \in 0 .. hit /\ hit - start < sump.n
    BY <1>4, <2>1, WindowHoldsTrigger
  <2>3. start \in Int /\ hit \in start .. start + sump.n - 1 /\ la.total - start < sump.n
    BY <1>3, <1>4, <2>1, <2>2
  <2> HIDE DEF start
  <2>4. CASE SumpFilled(LaSampled(la, k), start)
    <3>1. SumpStop(LaSampled(la, k), hit, start)
      BY <1>6, <2>4 DEF start
    <3>2. QED
      BY <1>1, <2>1, <2>3, <2>4, <3>1, StopIsInTime
  <2>5. CASE ~SumpFilled(LaSampled(la, k), start)
    <3>1. /\ la' = LaSampled(la, k)
          /\ sump' = [sump EXCEPT !.phase = "FILL", !.cursor = hit, !.start = start]
      BY <1>6, <2>5 DEF start
    <3>2. LaTypeOK' /\ la'.inited = la.inited
      BY <1>3, <3>1 DEF LaTypeOK
    <3>3. la'.total - start < sump.n
      BY <1>3, <1>4, <2>3, <2>5, <3>1 DEF SumpFilled
    <3>4. /\ sump' \in Parsers /\ sump'.phase = "FILL" /\ sump'.n = sump.n
          /\ sump'.cursor = hit /\ sump'.start = start
      BY <1>4, <2>1, <2>3, <3>1, hit \in Int DEF Parsers, SumpPhases
    <3>5. QED
      BY <1>4, <2>3, <3>2, <3>3, <3>4 DEF CaptureSafe, SumpLossless
  <2>6. QED
    BY <2>4, <2>5
<1>7. QED
  BY <1>2, <1>5, <1>6

LEMMA FillIsSafe ==
  ASSUME LaTypeOK, CaptureSafe, SumpFill
  PROVE  CaptureSafe' /\ LaTypeOK' /\ la'.inited = la.inited
<1>1. sump.phase = "FILL" /\ SumpCapturing
  BY DEF SumpFill, SumpCapturing
<1>2. PICK k \in 0 .. Gap :
        IF SumpFilled(LaSampled(la, k), sump.start)
        THEN SumpStop(LaSampled(la, k), sump.cursor, sump.start)
        ELSE la' = LaSampled(la, k) /\ UNCHANGED sump
  BY DEF SumpFill
<1>3. /\ k \in Nat
      /\ LaSampled(la, k) \in [inited : BOOLEAN, running : BOOLEAN, total : 0 .. Forever]
      /\ LaSampled(la, k).inited = la.inited
      /\ LaSampled(la, k).total \in Nat
  BY SampledType, RingAssumption DEF LaTypeOK
<1>4. /\ sump.n \in Nat \ {0} /\ sump.start \in Int /\ sump.cursor \in Int
      /\ la.total - sump.start < sump.n
      /\ sump.cursor \in sump.start .. sump.start + sump.n - 1
  BY <1>1, SumpAssumption DEF CaptureSafe, Parsers
<1>5. CASE SumpFilled(LaSampled(la, k), sump.start)
  BY <1>1, <1>2, <1>4, <1>5, StopIsInTime
<1>6. CASE ~SumpFilled(LaSampled(la, k), sump.start)
  <2>1. la' = LaSampled(la, k) /\ UNCHANGED sump
    BY <1>2, <1>6
  <2>2. LaTypeOK' /\ la'.inited = la.inited
    BY <1>3, <2>1 DEF LaTypeOK
  <2>3. la'.total - sump.start < sump.n
    BY <1>3, <1>4, <1>6, <2>1 DEF SumpFilled
  <2>4. QED
    BY <1>1, <1>4, <2>1, <2>2, <2>3 DEF CaptureSafe, SumpLossless
<1>7. QED
  BY <1>5, <1>6

LEMMA DumpIsSafe ==
  ASSUME LaTypeOK, CaptureSafe, SumpDump
  PROVE  CaptureSafe' /\ UNCHANGED la
<1>1. 0 \in 0 .. MaxSamples /\ 0 \in Int
  BY SumpAssumption
<1>2. /\ sump' = [sump EXCEPT !.phase = "NONE", !.n = 0, !.cursor = 0, !.start = 0]
      /\ UNCHANGED la
  BY DEF SumpDump
<1> DEFINE idle == [sump EXCEPT !.phase = "NONE", !.n = 0]
<1>3. sump \in Parsers
  BY DEF CaptureSafe
<1>4. idle \in Parsers /\ idle.phase = "NONE"
  BY <1>1, <1>3 DEF Parsers, SumpPhases
<1>5. sump' = [idle EXCEPT !.cursor = 0, !.start = 0]
  BY <1>2
<1> HIDE DEF idle
<1>6. sump' \in Parsers /\ sump'.phase = "NONE"
  BY <1>1, <1>4, <1>5 DEF Parsers
<1>7. QED
  BY <1>2, <1>6 DEF CaptureSafe, SumpLossless

\* Every step of the SUMP parser and of its capture keeps the capture safe.
LEMMA SumpStepIsSafe ==
  ASSUME LaTypeOK, CaptureSafe, SumpFeed \/ SumpCapture
  PROVE  CaptureSafe' /\ LaTypeOK' /\ la'.inited = la.inited
<1>1. CASE SumpLongCommand \/ SumpArgument \/ SumpDump
  BY <1>1, ParserKeepsCapture, DumpIsSafe DEF LaTypeOK
<1>2. CASE SumpArm
  BY <1>2, ArmStartsCapture
<1>3. CASE SumpWait
  BY <1>3, WaitIsSafe
<1>4. CASE SumpFill
  BY <1>4, FillIsSafe
<1>5. QED
  BY <1>1, <1>2, <1>3, <1>4 DEF SumpFeed, SumpCapture

LEMMA CaptureUntouched ==
  ASSUME CaptureSafe, UNCHANGED <<la, sump>>
  PROVE  CaptureSafe'
  BY DEF CaptureSafe, SumpLossless

LEMMA NoCaptureToSpoil ==
  ASSUME CaptureSafe, ~SumpCapturing, UNCHANGED sump
  PROVE  CaptureSafe'
  BY DEF CaptureSafe, SumpLossless, SumpCapturing

-----------------------------------------------------------------------------
(* The steps of the logic analyser and of a scan, as the header sees them.  *)

LEMMA LaFinishCloses ==
  ASSUME Shapes, NEW told, NEW torn, LaFinish(told, torn)
  PROVE  /\ LaTypeOK' /\ la'.inited = FALSE
         /\ "phase" \in DOMAIN las' /\ las'.phase = "REPORT"
         /\ BusRelease("I2C_SCANNER")
<1>1. 0 \in 0 .. Forever
  BY RingAssumption
<1>2. QED
  BY <1>1 DEF LaFinish, LaClosed, LasOff, LaTypeOK

LEMMA LaStepMoves ==
  ASSUME Shapes, LaStep
  PROVE  /\ LaTypeOK' /\ "phase" \in DOMAIN las'
         /\ \/ LaActive /\ LaActive' /\ la'.inited = la.inited /\ UNCHANGED busOwner
            \/ LaActive /\ las'.phase = "REPORT" /\ la'.inited = FALSE /\ BusRelease("I2C_SCANNER")
            \/ las.phase = "REPORT" /\ las'.phase = "NONE" /\ UNCHANGED <<la, busOwner>>
<1>1. LaTypeOK /\ "phase" \in DOMAIN las
  BY DEF Shapes
<1>2. ASSUME NEW k \in Nat, la' = LaSampled(la, k)
      PROVE  LaTypeOK' /\ la'.inited = la.inited
  BY <1>1, <1>2, SampledType DEF LaTypeOK
<1>3. Gap \in Nat /\ Stall \in Nat
  BY RingAssumption, LaCommandAssumption
<1>4. CASE LaWait
  <2>1. PICK k \in 0 .. Gap : la' = LaSampled(la, k)
    BY <1>4 DEF LaWait
  <2>2. LaTypeOK' /\ la'.inited = la.inited
    BY <1>2, <1>3, <2>1
  <2>3. /\ las.phase = "WAIT" /\ UNCHANGED busOwner
        /\ "phase" \in DOMAIN las' /\ las'.phase \in {"WAIT", "POLL"}
    BY <1>1, <1>4 DEF LaWait
  <2>4. QED
    BY <2>2, <2>3 DEF LaActive
<1>5. CASE LaTriggerTimeout
  BY <1>5, LaFinishCloses DEF LaTriggerTimeout, LaActive
<1>6. CASE LaPoll
  <2>1. PICK k \in 0 .. Gap : la' = LaSampled(la, k)
    BY <1>6 DEF LaPoll
  <2>2. LaTypeOK' /\ la'.inited = la.inited
    BY <1>2, <1>3, <2>1
  <2>3. /\ las.phase = "POLL" /\ UNCHANGED busOwner
        /\ "phase" \in DOMAIN las' /\ las'.phase \in {"COPY", "POLL"}
    BY <1>1, <1>6 DEF LaPoll
  <2>4. QED
    BY <2>2, <2>3 DEF LaActive
<1>7. CASE LaCopy
  <2> DEFINE torn == las.torn \/ la.total - las.cursor > Ring
  <2>1. las.phase = "COPY"
    BY <1>7 DEF LaCopy
  <2>2. CASE LaFinish("TRUNC", torn)
    BY <2>1, <2>2, LaFinishCloses DEF LaActive
  <2>3. CASE ~LaFinish("TRUNC", torn)
    <3>1. PICK k \in 0 .. Stall :
            /\ la' = LaSampled(la, k)
            /\ las' = [las EXCEPT
                         !.cursor = @ + 1, !.torn = torn,
                         !.phase = IF las.cursor + 1 < las.written THEN "COPY" ELSE "POLL"]
            /\ UNCHANGED busOwner
      BY <1>7, <2>3 DEF LaCopy
    <3>2. LaTypeOK' /\ la'.inited = la.inited
      BY <1>2, <1>3, <3>1
    <3>3. "phase" \in DOMAIN las' /\ las'.phase \in {"COPY", "POLL"}
      BY <1>1, <3>1
    <3>4. QED
      BY <2>1, <3>1, <3>2, <3>3 DEF LaActive
  <2>4. QED
    BY <2>2, <2>3
<1>8. CASE LaDone
  BY <1>8, LaFinishCloses DEF LaDone, LaActive
<1>9. CASE LaReport
  BY <1>1, <1>9 DEF LaReport, LasOff, LaTypeOK
<1>10. QED
  BY <1>4, <1>5, <1>6, <1>7, <1>8, <1>9 DEF LaStep

\* No pin becomes an output.
NoNewOutput == \A c \in Channels : pin'[c] = "OUT" => pin[c] = "OUT"

LEMMA ScanStepMoves ==
  ASSUME Shapes, ScanStep
  PROVE  /\ "kind" \in DOMAIN scan'
         /\ pin' \in [Channels -> PinFunctions] /\ NoNewOutput
         /\ \/ ScanActive /\ scan'.kind = scan.kind /\ UNCHANGED busOwner
            \/ ScanActive /\ scan'.kind = "REPORT" /\ BusRelease(ScanOwner(scan.kind))
            \/ scan.kind = "REPORT" /\ scan'.kind = "NONE" /\ UNCHANGED busOwner
<1>1. "kind" \in DOMAIN scan /\ pin \in [Channels -> PinFunctions]
  BY DEF Shapes
<1>2. CASE ScanCandidate
  <2> DEFINE pair == PermNext(scan.last)
  <2>1. ScanActive /\ pin' = Muxed({pair[1], pair[2]}, "IN")
    BY <1>2 DEF ScanCandidate
  <2>2. \/ /\ scan' = [scan EXCEPT !.kind = "REPORT", !.match = pair, !.tried = @ \cup {pair}]
           /\ BusRelease(ScanOwner(scan.kind))
        \/ /\ scan' = [scan EXCEPT !.last = pair, !.tried = @ \cup {pair}]
           /\ UNCHANGED busOwner
    BY <1>2 DEF ScanCandidate
  <2>3. pin' \in [Channels -> PinFunctions] /\ NoNewOutput
    BY <2>1, MuxedType DEF NoNewOutput, Muxed, PinFunctions
  <2>4. /\ "kind" \in DOMAIN scan'
        /\ \/ scan'.kind = scan.kind /\ UNCHANGED busOwner
           \/ scan'.kind = "REPORT" /\ BusRelease(ScanOwner(scan.kind))
    BY <1>1, <2>2
  <2>5. QED
    BY <2>1, <2>3, <2>4
<1>3. CASE ScanExhausted
  BY <1>1, <1>3 DEF ScanExhausted, NoNewOutput
<1>4. CASE ScanReport
  BY <1>1, <1>4 DEF ScanReport, ScanOff, NoNewOutput
<1>5. QED
  BY <1>2, <1>3, <1>4 DEF ScanStep

\* The bridge stays on or off while it forwards.
LEMMA BridgeStays ==
  ASSUME Shapes, UartPump \/ UartShift
  PROVE  "on" \in DOMAIN uart' /\ uart'.on = uart.on
<1>1. "on" \in DOMAIN uart
  BY DEF Shapes
<1>2. ASSUME NEW u, NEW bytes, "on" \in DOMAIN u
      PROVE  /\ "on" \in DOMAIN UartWrite(u, bytes) /\ UartWrite(u, bytes).on = u.on
             /\ "on" \in DOMAIN UartStage(u, bytes) /\ UartStage(u, bytes).on = u.on
  BY <1>2 DEF UartWrite, UartStage
<1>3. ASSUME NEW u, "on" \in DOMAIN u
      PROVE  "on" \in DOMAIN UartFlush(u) /\ UartFlush(u).on = u.on
  BY <1>2, <1>3 DEF UartFlush
<1>4. ASSUME NEW u, NEW bytes, "on" \in DOMAIN u
      PROVE  "on" \in DOMAIN UartForward(u, bytes) /\ UartForward(u, bytes).on = u.on
  BY <1>2, <1>3, <1>4 DEF UartForward
<1>5. CASE UartPump
  <2>1. PICK n \in 0 .. FewerOf(ReadMax, MaxBytes - uart.taken) :
          uart' = [UartForward(uart, [i \in 1 .. n |-> uart.taken + i]) EXCEPT !.taken = @ + n]
    BY <1>5 DEF UartPump
  <2>2. QED
    BY <1>1, <1>4, <2>1
<1>6. CASE UartShift
  BY <1>1, <1>6 DEF UartShift
<1>7. QED
  BY <1>5, <1>6

-----------------------------------------------------------------------------
(* Text commands keep the invariant.                                        *)

\* At the prompt with the header free nobody uses it.
LEMMA PromptIsFree ==
  ASSUME IInv, AtPrompt, ~ShellBusBusy
  PROVE  /\ mode = "TEXT" /\ scan.kind = "NONE" /\ las.phase = "NONE" /\ ~uart.on
         /\ sump.phase = "NONE" /\ ~SumpCapturing
         /\ jtagPins = <<>> /\ spPins = <<>> /\ ~la.inited /\ busOwner = "IDLE"
         /\ \A c \in Channels : pin[c] # "OUT"
<1>1. mode = "TEXT" /\ scan.kind = "NONE" /\ las.phase = "NONE" /\ sump.phase = "NONE" /\ ~uart.on
  BY DEF AtPrompt, Blocked, CommandRuns, SumpCapturing, ShellBusBusy, IInv, Shapes
<1>2. jtagPins = <<>> /\ spPins = <<>> /\ ~la.inited
  BY <1>1 DEF IInv, HeaderFree, DriversMatchModes, LaActive, Shapes, LaTypeOK
<1>3. \A c \in Channels : pin[c] # "OUT"
  BY <1>2, NoPins DEF IInv, HeaderFree, DrivenPinsOwned
<1>4. busOwner = "IDLE"
  BY <1>1 DEF IInv, HeaderFree, RightfulOwner, ScanActive, LaActive
<1>5. QED
  BY <1>1, <1>2, <1>3, <1>4 DEF SumpCapturing

LEMMA ScanCommandKeeps ==
  ASSUME IInv, ScanCommand
  PROVE  IInv'
<1>1. /\ mode = "TEXT" /\ scan.kind = "NONE" /\ las.phase = "NONE" /\ ~uart.on
      /\ sump.phase = "NONE"
      /\ jtagPins = <<>> /\ spPins = <<>> /\ ~la.inited
      /\ \A c \in Channels : pin[c] # "OUT"
  BY PromptIsFree DEF ScanCommand
<1>2. PICK kind \in {"SWD", "I2C"} : ScanBegin(kind)
  BY DEF ScanCommand
<1>3. /\ "kind" \in DOMAIN scan' /\ scan'.kind = kind /\ busOwner' = ScanOwner(kind)
      /\ UNCHANGED <<pin, la, las, sump, uart, mode, jtagPins, spPins, dtr, seen>>
  BY <1>2 DEF ScanCommand, ScanBegin, BusTryAcquire, ScanOff
<1>4. Shapes'
  BY <1>2, <1>3 DEF IInv, Shapes, LaTypeOK, ScanKinds, ScanOwner, BusOwners
<1>5. Apart'
  BY <1>1, <1>3 DEF Apart, SumpCapturing
<1>6. HeaderFree'
  BY <1>1, <1>2, <1>3 DEF HeaderFree, RightfulOwner, DriversMatchModes, DrivenPinsOwned,
                          ScanActive, LaActive
<1>7. CaptureSafe'
  BY <1>3, CaptureUntouched DEF IInv
<1>8. QED
  BY <1>4, <1>5, <1>6, <1>7 DEF IInv

\* A command that only muxes pins and leaves them inputs.
LEMMA MuxKeeps ==
  ASSUME IInv, pin' \in [Channels -> PinFunctions], NoNewOutput,
         UNCHANGED <<la, busOwner, las, sump, uart, scan, mode, jtagPins, spPins, dtr, seen>>
  PROVE  IInv'
<1>1. Shapes'
  BY DEF IInv, Shapes, LaTypeOK
<1>2. Apart'
  BY DEF IInv, Apart, SumpCapturing
<1>3. HeaderFree'
  BY DEF IInv, HeaderFree, RightfulOwner, DriversMatchModes, DrivenPinsOwned,
         ScanActive, LaActive, NoNewOutput, PinSet
<1>4. CaptureSafe'
  BY CaptureUntouched DEF IInv
<1>5. QED
  BY <1>1, <1>2, <1>3, <1>4 DEF IInv

LEMMA ProbeAndResetKeep ==
  ASSUME IInv, I2cProbeCommand \/ ResetCommand
  PROVE  IInv'
<1>1. \E S : pin' = Muxed(S, "IN")
  BY DEF I2cProbeCommand, ResetCommand
<1>2. pin' \in [Channels -> PinFunctions] /\ NoNewOutput
  BY <1>1, MuxedType DEF IInv, Shapes, NoNewOutput, Muxed, PinFunctions
<1>3. UNCHANGED <<la, busOwner, las, sump, uart, scan, mode, jtagPins, spPins, dtr, seen>>
  BY DEF I2cProbeCommand, ResetCommand
<1>4. QED
  BY <1>2, <1>3, MuxKeeps

LEMMA AllInputsType ==
  ASSUME AllInputs
  PROVE  pin' \in [Channels -> PinFunctions] /\ \A c \in Channels : pin'[c] # "OUT"
  BY DEF AllInputs, PinFunctions

LEMMA LaCommandKeeps ==
  ASSUME IInv, LaCommandBegin
  PROVE  IInv'
<1>1. /\ mode = "TEXT" /\ scan.kind = "NONE" /\ las.phase = "NONE" /\ ~uart.on
      /\ sump.phase = "NONE" /\ ~SumpCapturing
      /\ jtagPins = <<>> /\ spPins = <<>> /\ ~la.inited
      /\ \A c \in Channels : pin[c] # "OUT"
  BY PromptIsFree DEF LaCommandBegin
<1>2. UNCHANGED <<sump, uart, scan, mode, jtagPins, spPins, dtr, seen>>
  BY DEF LaCommandBegin
<1>3. CASE LaBegin /\ AllInputs
  <2>1. /\ la' = LaStart(LaOpen) /\ busOwner' = "I2C_SCANNER"
        /\ "phase" \in DOMAIN las' /\ las'.phase = "WAIT"
    BY <1>3 DEF LaBegin, BusTryAcquire, LasOff
  <2>2. LaTypeOK' /\ la'.inited
    BY <2>1, ZeroSamples DEF LaStart, LaOpen, LaTypeOK
  <2>3. Shapes'
    BY <1>2, <1>3, <2>1, <2>2, AllInputsType
       DEF IInv, Shapes, LasPhases, BusOwners
  <2>4. Apart'
    BY <1>1, <1>2, <2>1 DEF Apart, SumpCapturing
  <2>5. HeaderFree'
    BY <1>1, <1>2, <1>3, <2>1, <2>2, AllInputsType
       DEF HeaderFree, RightfulOwner, DriversMatchModes, DrivenPinsOwned, ScanActive, LaActive
  <2>6. CaptureSafe'
    BY <1>1, <1>2, NoCaptureToSpoil DEF IInv
  <2>7. QED
    BY <2>3, <2>4, <2>5, <2>6 DEF IInv
<1>4. CASE LaBeginFails /\ UNCHANGED pin
  <2>1. UNCHANGED <<la, busOwner, las>>
    BY <1>4 DEF LaBeginFails
  <2>2. QED
    BY <1>2, <1>4, <2>1, MuxKeeps DEF IInv, Shapes, NoNewOutput
<1>5. QED
  BY <1>3, <1>4 DEF LaCommandBegin

LEMMA SumpEnterKeeps ==
  ASSUME IInv, SumpEnter
  PROVE  IInv'
<1>1. /\ mode = "TEXT" /\ scan.kind = "NONE" /\ las.phase = "NONE" /\ ~uart.on
      /\ jtagPins = <<>> /\ spPins = <<>>
  BY PromptIsFree DEF SumpEnter
<1>2. /\ la' = LaOpen /\ AllInputs /\ sump' = SumpFresh /\ mode' = "SUMP"
      /\ busOwner' = "I2C_SCANNER"
      /\ UNCHANGED <<las, uart, scan, jtagPins, spPins, dtr, seen>>
  BY DEF SumpEnter, BusTryAcquire
<1>3. LaTypeOK' /\ la'.inited
  BY <1>2, ZeroSamples DEF LaOpen, LaTypeOK
<1>4. Shapes'
  BY <1>2, <1>3, AllInputsType DEF IInv, Shapes, Modes, BusOwners
<1>5. sump'.phase = "NONE"
  BY <1>2 DEF SumpFresh
<1>6. Apart'
  BY <1>1, <1>2, <1>5 DEF Apart, SumpCapturing
<1>7. HeaderFree'
  BY <1>1, <1>2, <1>3, AllInputsType
     DEF HeaderFree, RightfulOwner, DriversMatchModes, DrivenPinsOwned, ScanActive, LaActive
<1>8. CaptureSafe'
  <2>1. 0 \in 0 .. MaxSamples
    BY SumpAssumption
  <2>2. sump' \in Parsers
    BY <1>2, <2>1 DEF SumpFresh, Parsers, SumpCommands, SumpPhases
  <2>3. QED
    BY <1>5, <2>2 DEF CaptureSafe, SumpLossless
<1>9. QED
  BY <1>4, <1>6, <1>7, <1>8 DEF IInv

LEMMA BuspirateEnterKeeps ==
  ASSUME IInv, BuspirateEnter
  PROVE  IInv'
<1>1. /\ mode = "TEXT" /\ scan.kind = "NONE" /\ las.phase = "NONE" /\ ~uart.on
      /\ sump.phase = "NONE" /\ busOwner = "IDLE" /\ ~la.inited
      /\ jtagPins = <<>> /\ spPins = <<>>
      /\ \A c \in Channels : pin[c] # "OUT"
  BY PromptIsFree DEF BuspirateEnter
<1>2. PICK pins \in JtagPinouts :
        /\ jtagPins' = pins
        /\ pin' = [Muxed({pins[1], pins[3], pins[4]}, "OUT") EXCEPT ![pins[2]] = "IN"]
  BY DEF BuspirateEnter
<1>3. /\ mode' = "BUSPIRATE"
      /\ UNCHANGED <<la, busOwner, las, sump, uart, scan, spPins, dtr, seen>>
  BY DEF BuspirateEnter
<1>4. PinSet(pins) = {pins[1], pins[2], pins[3], pins[4]} /\ pins # <<>>
  BY FourPins
<1>5. pin' \in [Channels -> PinFunctions]
  BY <1>2, MuxedType DEF IInv, Shapes, PinFunctions
<1>6. \A c \in Channels : pin'[c] = "OUT" => c \in PinSet(jtagPins')
  BY <1>1, <1>2, <1>4 DEF Muxed
<1>7. Shapes'
  BY <1>2, <1>3, <1>5 DEF IInv, Shapes, LaTypeOK, Modes
<1>8. Apart'
  BY <1>1, <1>3 DEF Apart, SumpCapturing
<1>9. HeaderFree'
  <2>1. DrivenPinsOwned'
    BY <1>6 DEF DrivenPinsOwned, PinSet
  <2>2. DriversMatchModes'
    BY <1>1, <1>2, <1>3, <1>4 DEF DriversMatchModes, LaActive
  <2>3. QED
    BY <1>1, <1>3, <2>1, <2>2 DEF HeaderFree, RightfulOwner, ScanActive, LaActive
<1>10. CaptureSafe'
  BY <1>3, CaptureUntouched DEF IInv
<1>11. QED
  BY <1>7, <1>8, <1>9, <1>10 DEF IInv

LEMMA SerprogEnterKeeps ==
  ASSUME IInv, SerprogEnter
  PROVE  IInv'
<1>1. /\ mode = "TEXT" /\ scan.kind = "NONE" /\ las.phase = "NONE" /\ ~uart.on
      /\ sump.phase = "NONE" /\ busOwner = "IDLE" /\ ~la.inited
      /\ jtagPins = <<>> /\ spPins = <<>>
      /\ \A c \in Channels : pin[c] # "OUT"
  BY PromptIsFree DEF SerprogEnter
<1>2. PICK pins \in SpPinouts :
        /\ spPins' = pins
        /\ pin' = [Muxed({pins[1], pins[2], pins[4]}, "OUT") EXCEPT ![pins[3]] = "IN"]
  BY DEF SerprogEnter
<1>3. /\ mode' = "SERPROG"
      /\ UNCHANGED <<la, busOwner, las, sump, uart, scan, jtagPins, dtr, seen>>
  BY DEF SerprogEnter
<1>4. PinSet(pins) = {pins[1], pins[2], pins[3], pins[4]} /\ pins # <<>>
  BY FourPins
<1>5. pin' \in [Channels -> PinFunctions]
  BY <1>2, MuxedType DEF IInv, Shapes, PinFunctions
<1>6. \A c \in Channels : pin'[c] = "OUT" => c \in PinSet(spPins')
  BY <1>1, <1>2, <1>4 DEF Muxed
<1>7. Shapes'
  BY <1>2, <1>3, <1>5 DEF IInv, Shapes, LaTypeOK, Modes
<1>8. Apart'
  BY <1>1, <1>3 DEF Apart, SumpCapturing
<1>9. HeaderFree'
  <2>1. DrivenPinsOwned'
    BY <1>6 DEF DrivenPinsOwned, PinSet
  <2>2. DriversMatchModes'
    BY <1>1, <1>2, <1>3, <1>4 DEF DriversMatchModes, LaActive
  <2>3. QED
    BY <1>1, <1>3, <2>1, <2>2 DEF HeaderFree, RightfulOwner, ScanActive, LaActive
<1>10. CaptureSafe'
  BY <1>3, CaptureUntouched DEF IInv
<1>11. QED
  BY <1>7, <1>8, <1>9, <1>10 DEF IInv

LEMMA UartEnterKeeps ==
  ASSUME IInv, UartEnter
  PROVE  IInv'
<1>1. /\ mode = "TEXT" /\ scan.kind = "NONE" /\ las.phase = "NONE"
      /\ sump.phase = "NONE" /\ ~la.inited
      /\ jtagPins = <<>> /\ spPins = <<>>
      /\ \A c \in Channels : pin[c] # "OUT"
  BY PromptIsFree DEF UartEnter
<1>2. /\ busOwner' = "UART_PASSTHRU" /\ pin' = Muxed(UartPins, "UART")
      /\ "on" \in DOMAIN uart' /\ uart'.on = TRUE
      /\ UNCHANGED <<la, las, sump, scan, mode, jtagPins, spPins, dtr, seen>>
  BY DEF UartEnter, BusTryAcquire, UartSession, UartOff
<1>3. pin' \in [Channels -> PinFunctions] /\ \A c \in Channels : pin'[c] # "OUT"
  BY <1>1, <1>2, MuxedType DEF IInv, Shapes, Muxed, PinFunctions
<1>4. Shapes'
  BY <1>2, <1>3 DEF IInv, Shapes, LaTypeOK, BusOwners
<1>5. Apart'
  BY <1>1, <1>2 DEF Apart, SumpCapturing
<1>6. HeaderFree'
  BY <1>1, <1>2, <1>3
     DEF HeaderFree, RightfulOwner, DriversMatchModes, DrivenPinsOwned, ScanActive, LaActive
<1>7. CaptureSafe'
  BY <1>2, CaptureUntouched DEF IInv
<1>8. QED
  BY <1>4, <1>5, <1>6, <1>7 DEF IInv

-----------------------------------------------------------------------------
(* The ways out keep the invariant.                                         *)

LEMMA BridgeIsAlone ==
  ASSUME IInv, uart.on
  PROVE  /\ mode = "TEXT" /\ scan.kind = "NONE" /\ las.phase = "NONE"
         /\ busOwner = "UART_PASSTHRU"
<1>1. mode = "TEXT" /\ scan.kind = "NONE" /\ las.phase = "NONE"
  BY DEF IInv, Apart
<1>2. QED
  BY <1>1 DEF IInv, HeaderFree, RightfulOwner, ScanActive, LaActive

\* uart_passthrough_disable, from the shell or after a disconnect.
LEMMA UartDisableKeeps ==
  ASSUME IInv, UartDisable, dtr' \in Ports, seen' \in Ports,
         UNCHANGED <<la, las, sump, pin, scan, mode, jtagPins, spPins>>
  PROVE  IInv'
<1>1. /\ mode = "TEXT" /\ scan.kind = "NONE" /\ las.phase = "NONE"
      /\ busOwner = "UART_PASSTHRU"
  BY BridgeIsAlone DEF UartDisable
<1>2. "on" \in DOMAIN uart' /\ uart'.on = FALSE /\ busOwner' = "IDLE"
  BY <1>1 DEF UartDisable, UartClosed, UartOff, BusRelease
<1>3. Shapes'
  BY <1>2 DEF IInv, Shapes, LaTypeOK, BusOwners
<1>4. Apart'
  BY <1>1, <1>2 DEF IInv, Apart, SumpCapturing
<1>5. HeaderFree'
  BY <1>1, <1>2 DEF IInv, HeaderFree, RightfulOwner, DriversMatchModes, DrivenPinsOwned,
                    PinSet, ScanActive, LaActive
<1>6. CaptureSafe'
  BY CaptureUntouched DEF IInv
<1>7. QED
  BY <1>3, <1>4, <1>5, <1>6 DEF IInv

LEMMA BuspirateExitKeeps ==
  ASSUME IInv, mode = "BUSPIRATE", BuspirateOnExit, dtr' \in Ports, seen' \in Ports,
         UNCHANGED <<la, busOwner, las, sump, uart, scan, spPins>>
  PROVE  IInv'
<1>1. /\ scan.kind = "NONE" /\ las.phase = "NONE" /\ ~uart.on /\ sump.phase = "NONE"
      /\ spPins = <<>>
  BY DEF IInv, Apart, HeaderFree, DriversMatchModes, SumpCapturing
<1>2. jtagPins' = <<>> /\ mode' = "TEXT" /\ pin' = Muxed(PinSet(jtagPins), "IN")
  BY DEF BuspirateOnExit
<1>3. pin' \in [Channels -> PinFunctions] /\ \A c \in Channels : pin'[c] # "OUT"
  <2>1. \A c \in Channels : pin[c] = "OUT" => c \in PinSet(jtagPins)
    BY <1>1, NoPins DEF IInv, HeaderFree, DrivenPinsOwned
  <2>2. QED
    BY <1>2, <2>1, MuxedType DEF IInv, Shapes, Muxed, PinFunctions
<1>4. Shapes'
  BY <1>2, <1>3 DEF IInv, Shapes, LaTypeOK, Modes
<1>5. Apart'
  BY <1>1, <1>2 DEF Apart, SumpCapturing
<1>6. HeaderFree'
  BY <1>1, <1>2, <1>3 DEF IInv, HeaderFree, RightfulOwner, DriversMatchModes,
                          DrivenPinsOwned, ScanActive, LaActive
<1>7. CaptureSafe'
  BY CaptureUntouched DEF IInv
<1>8. QED
  BY <1>4, <1>5, <1>6, <1>7 DEF IInv

LEMMA SerprogExitKeeps ==
  ASSUME IInv, mode = "SERPROG", SerprogOnExit, dtr' \in Ports, seen' \in Ports,
         UNCHANGED <<la, busOwner, las, sump, uart, scan, jtagPins>>
  PROVE  IInv'
<1>1. /\ scan.kind = "NONE" /\ las.phase = "NONE" /\ ~uart.on /\ sump.phase = "NONE"
      /\ jtagPins = <<>>
  BY DEF IInv, Apart, HeaderFree, DriversMatchModes, SumpCapturing
<1>2. spPins' = <<>> /\ mode' = "TEXT" /\ pin' = Muxed(PinSet(spPins), "IN")
  BY DEF SerprogOnExit
<1>3. pin' \in [Channels -> PinFunctions] /\ \A c \in Channels : pin'[c] # "OUT"
  <2>1. \A c \in Channels : pin[c] = "OUT" => c \in PinSet(spPins)
    BY <1>1, NoPins DEF IInv, HeaderFree, DrivenPinsOwned
  <2>2. QED
    BY <1>2, <2>1, MuxedType DEF IInv, Shapes, Muxed, PinFunctions
<1>4. Shapes'
  BY <1>2, <1>3 DEF IInv, Shapes, LaTypeOK, Modes
<1>5. Apart'
  BY <1>1, <1>2 DEF Apart, SumpCapturing
<1>6. HeaderFree'
  BY <1>1, <1>2, <1>3 DEF IInv, HeaderFree, RightfulOwner, DriversMatchModes,
                          DrivenPinsOwned, ScanActive, LaActive
<1>7. CaptureSafe'
  BY CaptureUntouched DEF IInv
<1>8. QED
  BY <1>4, <1>5, <1>6, <1>7 DEF IInv

\* Steps that touch neither the header nor anybody's hold on it.
LEMMA QuietKeeps ==
  ASSUME IInv, "on" \in DOMAIN uart', uart'.on = uart.on, dtr' \in Ports, seen' \in Ports,
         UNCHANGED <<la, busOwner, las, sump, pin, scan, mode, jtagPins, spPins>>
  PROVE  IInv'
<1>1. Shapes'
  BY DEF IInv, Shapes, LaTypeOK
<1>2. Apart'
  BY DEF IInv, Apart, SumpCapturing
<1>3. HeaderFree'
  BY DEF IInv, HeaderFree, RightfulOwner, DriversMatchModes, DrivenPinsOwned,
         ScanActive, LaActive, PinSet
<1>4. CaptureSafe'
  BY CaptureUntouched DEF IInv
<1>5. QED
  BY <1>1, <1>2, <1>3, <1>4 DEF IInv

LEMMA DisconnectKeeps ==
  ASSUME IInv, DisconnectChecks
  PROVE  IInv'
<1>1. /\ dtr' \in Ports /\ seen' \in Ports /\ "on" \in DOMAIN uart
      /\ UNCHANGED <<la, las, sump, scan>>
  BY DEF IInv, Shapes, DisconnectChecks
<1>2. CASE mode = "BUSPIRATE" /\ Fell("scanner")
  <2>1. BuspirateOnExit /\ UNCHANGED <<sp, spPins>>
    BY <1>2 DEF DisconnectChecks
  <2>2. UNCHANGED <<uart, busOwner>>
    BY <1>2 DEF DisconnectChecks, IInv, Apart
  <2>3. QED
    BY <1>1, <1>2, <2>1, <2>2, BuspirateExitKeeps
<1>3. CASE mode = "SERPROG" /\ Fell("scanner")
  <2>1. SerprogOnExit /\ UNCHANGED <<bp, jtagPins>>
    BY <1>3 DEF DisconnectChecks
  <2>2. UNCHANGED <<uart, busOwner>>
    BY <1>3 DEF DisconnectChecks, IInv, Apart
  <2>3. QED
    BY <1>1, <1>3, <2>1, <2>2, SerprogExitKeeps
<1>4. CASE ~(mode \in {"BUSPIRATE", "SERPROG"} /\ Fell("scanner"))
  <2>1. UNCHANGED <<pin, jtagPins, spPins, mode>>
    BY <1>4 DEF DisconnectChecks
  <2>2. UartDisable \/ UNCHANGED <<uart, busOwner>>
    BY DEF DisconnectChecks
  <2>3. QED
    BY <1>1, <2>1, <2>2, UartDisableKeeps, QuietKeeps
<1>5. QED
  BY <1>2, <1>3, <1>4

\* CMD_FORCE_EXIT
LEMMA ForceExitKeeps ==
  ASSUME IInv, mode = "SUMP", SumpForceExit,
         UNCHANGED <<las, uart, scan, jtagPins, spPins, dtr, seen>>
  PROVE  IInv'
<1>1. /\ scan.kind = "NONE" /\ las.phase = "NONE" /\ ~uart.on
      /\ jtagPins = <<>> /\ spPins = <<>> /\ busOwner = "I2C_SCANNER"
  BY DEF IInv, Apart, HeaderFree, RightfulOwner, DriversMatchModes, ScanActive, LaActive
<1>2. /\ la' = LaClosed /\ AllInputs /\ busOwner' = "IDLE" /\ mode' = "TEXT" /\ sump' = SumpFresh
  BY <1>1 DEF SumpForceExit, BusRelease
<1>3. LaTypeOK' /\ ~la'.inited
  BY <1>2, ZeroSamples DEF LaClosed, LaTypeOK
<1>4. Shapes'
  BY <1>2, <1>3, AllInputsType DEF IInv, Shapes, Modes, BusOwners
<1>5. sump'.phase = "NONE"
  BY <1>2 DEF SumpFresh
<1>6. Apart'
  BY <1>1, <1>2, <1>5 DEF Apart, SumpCapturing
<1>7. HeaderFree'
  BY <1>1, <1>2, <1>3, AllInputsType
     DEF HeaderFree, RightfulOwner, DriversMatchModes, DrivenPinsOwned, ScanActive, LaActive
<1>8. CaptureSafe'
  <2>1. 0 \in 0 .. MaxSamples
    BY SumpAssumption
  <2>2. sump' \in Parsers
    BY <1>2, <2>1 DEF SumpFresh, Parsers, SumpCommands, SumpPhases
  <2>3. QED
    BY <1>5, <2>2 DEF CaptureSafe, SumpLossless
<1>9. QED
  BY <1>4, <1>6, <1>7, <1>8 DEF IInv

\* The steps of SUMP's parser and capture.
LEMMA SumpMoveKeeps ==
  ASSUME IInv, SumpFeed \/ SumpCapture, mode = "SUMP",
         UNCHANGED <<busOwner, las, uart, pin, scan, mode, jtagPins, spPins, dtr, seen>>
  PROVE  IInv'
<1>1. CaptureSafe' /\ LaTypeOK' /\ la'.inited = la.inited
  BY SumpStepIsSafe DEF IInv, Shapes
<1>2. Shapes'
  BY <1>1 DEF IInv, Shapes
<1>3. Apart'
  BY DEF IInv, Apart
<1>4. HeaderFree'
  BY <1>1 DEF IInv, HeaderFree, RightfulOwner, DriversMatchModes, DrivenPinsOwned,
              ScanActive, LaActive, PinSet
<1>5. QED
  BY <1>1, <1>2, <1>3, <1>4 DEF IInv

-----------------------------------------------------------------------------
(* A command that holds the loop keeps the invariant.                       *)

LEMMA LaProgressKeeps ==
  ASSUME IInv, LaProgress
  PROVE  IInv'
<1>1. /\ UNCHANGED <<sump, uart, scan, mode, jtagPins, spPins, dtr, seen>>
      /\ IF la'.inited THEN UNCHANGED pin ELSE AllInputs
  BY DEF LaProgress
<1>2. /\ LaTypeOK' /\ "phase" \in DOMAIN las'
      /\ \/ LaActive /\ LaActive' /\ la'.inited = la.inited /\ UNCHANGED busOwner
         \/ LaActive /\ las'.phase = "REPORT" /\ la'.inited = FALSE /\ BusRelease("I2C_SCANNER")
         \/ las.phase = "REPORT" /\ las'.phase = "NONE" /\ UNCHANGED <<la, busOwner>>
  BY LaStepMoves DEF LaProgress, IInv
<1>3. las.phase # "NONE"
  BY <1>2 DEF LaActive
<1>4. mode = "TEXT" /\ scan.kind = "NONE" /\ ~uart.on /\ ~SumpCapturing
  BY <1>3 DEF IInv, Apart
<1>5. jtagPins = <<>> /\ spPins = <<>> /\ \A c \in Channels : pin[c] # "OUT"
  BY <1>4, NoPins DEF IInv, HeaderFree, DriversMatchModes, DrivenPinsOwned
<1>6. /\ pin' \in [Channels -> PinFunctions]
      /\ \A c \in Channels : pin'[c] # "OUT"
  BY <1>1, <1>5, AllInputsType DEF IInv, Shapes
<1>7. busOwner = IF LaActive THEN "I2C_SCANNER" ELSE "IDLE"
  BY <1>4 DEF IInv, HeaderFree, RightfulOwner, ScanActive
<1>8. la.inited <=> LaActive
  BY <1>4 DEF IInv, HeaderFree, DriversMatchModes
<1>9. /\ las'.phase \in LasPhases
      /\ busOwner' = IF LaActive' THEN "I2C_SCANNER" ELSE "IDLE"
      /\ la'.inited <=> LaActive'
  <2>1. CASE LaActive /\ LaActive' /\ la'.inited = la.inited /\ UNCHANGED busOwner
    BY <2>1, <1>7, <1>8 DEF LaActive, LasPhases
  <2>2. CASE LaActive /\ las'.phase = "REPORT" /\ la'.inited = FALSE /\ BusRelease("I2C_SCANNER")
    BY <2>2, <1>7 DEF LaActive, LasPhases, BusRelease
  <2>3. CASE las.phase = "REPORT" /\ las'.phase = "NONE" /\ UNCHANGED <<la, busOwner>>
    BY <2>3, <1>7, <1>8 DEF LaActive, LasPhases
  <2>4. QED
    BY <1>2, <2>1, <2>2, <2>3
<1>10. Shapes'
  BY <1>1, <1>2, <1>6, <1>9 DEF IInv, Shapes, BusOwners
<1>11. Apart'
  BY <1>1, <1>4 DEF Apart, SumpCapturing
<1>12. HeaderFree'
  BY <1>1, <1>4, <1>5, <1>6, <1>9
     DEF HeaderFree, RightfulOwner, DriversMatchModes, DrivenPinsOwned, ScanActive
<1>13. CaptureSafe'
  BY <1>1, <1>4, NoCaptureToSpoil DEF IInv
<1>14. QED
  BY <1>10, <1>11, <1>12, <1>13 DEF IInv

LEMMA ScanProgressKeeps ==
  ASSUME IInv, ScanProgress
  PROVE  IInv'
<1>1. UNCHANGED <<la, las, sump, uart, mode, jtagPins, spPins, dtr, seen>>
  BY DEF ScanProgress
<1>2. /\ "kind" \in DOMAIN scan'
      /\ pin' \in [Channels -> PinFunctions] /\ NoNewOutput
      /\ \/ ScanActive /\ scan'.kind = scan.kind /\ UNCHANGED busOwner
         \/ ScanActive /\ scan'.kind = "REPORT" /\ BusRelease(ScanOwner(scan.kind))
         \/ scan.kind = "REPORT" /\ scan'.kind = "NONE" /\ UNCHANGED busOwner
  BY ScanStepMoves DEF ScanProgress, IInv
<1>3. scan.kind # "NONE"
  BY <1>2 DEF ScanActive
<1>4. mode = "TEXT" /\ las.phase = "NONE" /\ ~uart.on /\ ~SumpCapturing
  BY <1>3 DEF IInv, Apart
<1>5. /\ scan'.kind \in ScanKinds
      /\ busOwner' = IF ScanActive' THEN ScanOwner(scan'.kind) ELSE "IDLE"
  <2>1. busOwner = IF ScanActive THEN ScanOwner(scan.kind) ELSE "IDLE"
    BY <1>4 DEF IInv, HeaderFree, RightfulOwner, LaActive
  <2>2. QED
    BY <1>2, <2>1 DEF ScanActive, ScanKinds, BusRelease
<1>6. Shapes'
  BY <1>1, <1>2, <1>5 DEF IInv, Shapes, LaTypeOK, BusOwners, ScanOwner
<1>7. Apart'
  BY <1>1, <1>4 DEF Apart, SumpCapturing
<1>8. HeaderFree'
  <2>1. DrivenPinsOwned'
    BY <1>1, <1>2 DEF IInv, HeaderFree, DrivenPinsOwned, NoNewOutput, PinSet
  <2>2. DriversMatchModes'
    BY <1>1 DEF IInv, HeaderFree, DriversMatchModes, LaActive
  <2>3. QED
    BY <1>1, <1>4, <1>5, <2>1, <2>2 DEF HeaderFree, RightfulOwner, LaActive
<1>9. CaptureSafe'
  BY <1>1, CaptureUntouched DEF IInv
<1>10. QED
  BY <1>6, <1>7, <1>8, <1>9 DEF IInv

-----------------------------------------------------------------------------
(* The theorems.                                                            *)

THEOREM InitIInv == ShellInit => IInv
<1> SUFFICES ASSUME ShellInit
             PROVE  IInv
  OBVIOUS
<1>1. /\ mode = "TEXT" /\ jtagPins = <<>> /\ spPins = <<>> /\ busOwner = "IDLE"
      /\ dtr \in Ports /\ seen \in Ports
      /\ la = LaClosed /\ las = LasOff /\ sump = SumpFresh /\ uart = UartOff /\ scan = ScanOff
      /\ pin = [c \in Channels |-> "IN"]
  BY DEF ShellInit, BusLockInit, LogicAnalyzerInit, LaCommandInit, SumpInit, UartInit,
         ScanInit, HeaderPinsInit, Ports
<1>2. Shapes
  BY <1>1, ZeroSamples
     DEF Shapes, Modes, BusOwners, PinFunctions, LaTypeOK, LaClosed, LasOff,
         LasPhases, ScanOff, ScanKinds, UartOff
<1>3. sump.phase = "NONE" /\ las.phase = "NONE" /\ scan.kind = "NONE" /\ ~uart.on /\ ~la.inited
  BY <1>1 DEF SumpFresh, LasOff, ScanOff, UartOff, LaClosed
<1>4. Apart
  BY <1>1, <1>3 DEF Apart, SumpCapturing
<1>5. HeaderFree
  BY <1>1, <1>3 DEF HeaderFree, RightfulOwner, DriversMatchModes, DrivenPinsOwned,
                    ScanActive, LaActive
<1>6. CaptureSafe
  <2>1. 0 \in 0 .. MaxSamples
    BY SumpAssumption
  <2>2. sump \in Parsers
    BY <1>1, <2>1 DEF SumpFresh, Parsers, SumpCommands, SumpPhases
  <2>3. QED
    BY <1>3, <2>2 DEF CaptureSafe, SumpLossless
<1>7. QED
  BY <1>2, <1>4, <1>5, <1>6 DEF IInv

THEOREM NextIInv == IInv /\ [ShellNext]_shellvars => IInv'
<1> SUFFICES ASSUME IInv, [ShellNext]_shellvars
             PROVE  IInv'
  OBVIOUS
<1>1. dtr \in Ports /\ seen \in Ports /\ "on" \in DOMAIN uart
  BY DEF IInv, Shapes
<1>2. CASE ScanCommand
  BY <1>2, ScanCommandKeeps
<1>3. CASE I2cProbeCommand \/ ResetCommand
  BY <1>3, ProbeAndResetKeep
<1>4. CASE LaCommandBegin
  BY <1>4, LaCommandKeeps
<1>5. CASE SumpEnter
  BY <1>5, SumpEnterKeeps
<1>6. CASE BuspirateEnter
  BY <1>6, BuspirateEnterKeeps
<1>7. CASE SerprogEnter
  BY <1>7, SerprogEnterKeeps
<1>8. CASE UartEnter
  BY <1>8, UartEnterKeeps
<1>9. CASE UartExit
  BY <1>1, <1>9, UartDisableKeeps DEF UartExit
<1>10. CASE BuspirateByte
  BY <1>1, <1>10, BuspirateExitKeeps, QuietKeeps DEF BuspirateByte
<1>11. CASE SerprogByte
  BY <1>1, <1>11, QuietKeeps DEF SerprogByte
<1>12. CASE SumpByte
  BY <1>12, SumpMoveKeeps, ForceExitKeeps DEF SumpByte
<1>13. CASE ScanProgress
  BY <1>13, ScanProgressKeeps
<1>14. CASE LaProgress
  BY <1>14, LaProgressKeeps
<1>15. CASE SumpProgress
  <2>1. mode = "SUMP"
    BY <1>15 DEF SumpProgress, SumpCapture, SumpWait, SumpFill, SumpDump, SumpCapturing,
                 IInv, Apart
  <2>2. QED
    BY <1>15, <2>1, SumpMoveKeeps DEF SumpProgress
<1>16. CASE NoticeDtr \/ CampaignReturns
  BY <1>16, DisconnectKeeps DEF NoticeDtr, CampaignReturns
<1>17. CASE PumpUart
  BY <1>1, <1>17, BridgeStays, QuietKeeps DEF PumpUart, IInv
<1>18. CASE ShiftUart
  BY <1>1, <1>18, BridgeStays, QuietKeeps DEF ShiftUart, IInv
<1>19. CASE HostDtr
  <2>1. dtr' \in Ports
    BY <1>1, <1>19 DEF HostDtr, Ports
  <2>2. QED
    BY <1>1, <1>19, <2>1, QuietKeeps DEF HostDtr
<1>20. CASE CampaignWaits
  BY <1>1, <1>20, QuietKeeps DEF CampaignWaits
<1>21. CASE UNCHANGED shellvars
  BY <1>1, <1>21, QuietKeeps DEF shellvars
<1>22. QED
  BY <1>2, <1>3, <1>4, <1>5, <1>6, <1>7, <1>8, <1>9, <1>10, <1>11, <1>12, <1>13, <1>14,
     <1>15, <1>16, <1>17, <1>18, <1>19, <1>20, <1>21 DEF ShellNext

\* The users of the header are apart wherever the invariant holds.
LEMMA OneAtATime == IInv => OneConsumer
<1> SUFFICES ASSUME IInv, NEW c \in DOMAIN Using, NEW d \in DOMAIN Using, Using[c], Using[d]
             PROVE  c = d
  BY DEF OneConsumer
<1>1. DOMAIN Using = {"SCAN", "LA", "SUMP", "BUSPIRATE", "SERPROG", "UART"}
  BY DEF Using
<1>2. /\ Using["SCAN"] <=> ScanActive
      /\ Using["LA"] <=> LaActive
      /\ Using["SUMP"] <=> mode = "SUMP"
      /\ Using["BUSPIRATE"] <=> mode = "BUSPIRATE"
      /\ Using["SERPROG"] <=> mode = "SERPROG"
      /\ Using["UART"] <=> uart.on
  BY DEF Using
<1>3. /\ ScanActive => ~LaActive /\ mode = "TEXT" /\ ~uart.on
      /\ LaActive => mode = "TEXT" /\ ~uart.on
      /\ mode # "TEXT" => ~uart.on
  BY DEF IInv, Apart, ScanActive, LaActive
<1>4. QED
  BY <1>1, <1>2, <1>3

\* shell_bus_busy, the lock and every way out of a session: at most one consumer
\* of the header, the lock in its name, nothing left behind.
THEOREM HeaderIsOwned == ShellSpec => []HeaderOwned
<1>1. IInv => HeaderOwned
  BY OneAtATime DEF IInv, HeaderFree, HeaderOwned
<1>2. QED
  BY <1>1, InitIInv, NextIInv, PTL DEF ShellSpec

\* do_arm: whatever the ring, the window and the delays of the polls, the dump of
\* a SUMP capture holds the trigger and no overwritten sample.
THEOREM SumpIsLossless == ShellSpec => []SumpLossless
<1>1. IInv => SumpLossless
  BY DEF IInv, CaptureSafe
<1>2. QED
  BY <1>1, InitIInv, NextIInv, PTL DEF ShellSpec

=============================================================================
