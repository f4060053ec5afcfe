# FaultyCat firmware: TLA+ models and proofs

FaultyCat is a glitching tool on an RP2040: it injects faults into a target with a
high-voltage electromagnetic pulse (EMFI) or by shorting its supply (crowbar), sweeps
the timing of such glitches in campaigns, and carries a set of bus tools (SWD, JTAG,
I2C, logic analyzer, flash programmer, UART bridge) on the same header.  The firmware
runs on one core without an operating system: a cooperative main loop polls every
service, the PIO state machines and DMA run beside it, and hosts talk to it over four
USB serial ports.

This directory holds TLA+ modules of the firmware, TLC runs that check them on small
instances, and TLAPS proofs that hold for every value of the constants.  They come in
three groups, one per question:

* **firing**: the campaign manager, both glitch engines, the charger and the executors
  that tie them together;
* **the scanner header**: the text shell, the modes and services it starts on the
  header, and the lock between them;
* **the frame ports**: the binary protocol of the two ports that command the engines.

      cd tla
      tlc -workers 2 -config MCSweep.cfg MCSweep      # any MC module with its .cfg
      tlapm EmfiProofs.tla                            # any *Proofs module

## 1. Inventory

### The parts

| Part (under `src/`) | State | Operations | What makes it correct |
|---|---|---|---|
| `services/campaign_manager` | state, error, configuration, step counter, result ring, `in_step`, `pending_stop` | configure, start, stop, tick, drain | every grid point once and in order, results accounted for, a STOP neither lost nor overtaken |
| `services/glitch_engine/emfi` | state, error, configuration, three time stamps, the PIO fire path | configure, arm, fire, disarm, tick | the path is held and released as a whole, every end disarms, no fire on a stale charge |
| `services/glitch_engine/crowbar` | the same without a charger | configure, arm, fire, disarm, tick | gate ownership, never both gates, every end releases |
| `drivers/hv_charger` | armed, time of arming | arm, disarm, tick | never armed longer than 60 s |
| `drivers/emfi_pulse`, `drivers/crowbar_mosfet` | who drives the pin | attach, detach, manual pulse; set path | one owner of each pin |
| `services/glitch_engine/pio_glitch_prog.h`, `hal/src/rp2040/pio.c` | program in pio0's memory, state machine | compile, load, claim, enable | low until the trigger; the two programs do not overlap |
| `apps/faultycat_fw/main.c`, glitching half | where the CPU is, button edges | main loop, two step executors, stop hook, yield pump | reports are true, every step ends, the machine is safe after a stop |
| `apps/faultycat_fw/main.c`, shell half | shell mode, callbacks, last DTR | text commands, Bus Pirate, serprog, SUMP, disconnect checks | one user of the header at a time, each exit gives pins, driver and lock back |
| `services/swd_bus_lock` | owner | acquire, try, release | mutual exclusion on the scanner header |
| `services/host_proto` | parser state, last byte's time | feed, write, dispatch | resynchronisation after a cut frame, every answer whole |
| `services/uart_passthrough` | enabled, staged bytes, drop counter | enable, disable, pump | order kept, loss counted |
| `services/logic_analyzer` | DMA ring, running | init, start, stop, trigger search | the window that is returned was captured |
| `services/sump_ols` | command parser, capture phase | feed byte, capture, force exit | the dump is lossless and holds the trigger |
| `services/flashrom_serprog`, `services/buspirate_compat` | parser, argument count, operation lengths, chip select | feed byte, exit | parser and host agree on what the next byte is |
| `services/pinout_scanner` | the candidate pair | SWD and I2C sweeps with confirming reads | each pair tried once and in order, the right one reported |
| `services/swd_core`, `jtag_core`, `i2c_core` | open pins | bus transactions | retry and recovery |
| `usb`, other HAL files, LEDs, buttons, ADC pins | I/O | wrappers | not modelled |

### How they interact

* The main loop pumps the two binary ports (CDC0, CDC1), the shell and the UART
  bridge, ticks the EMFI engine, the crowbar engine and the campaign manager, looks
  at the buttons, and ticks the charger.
* `campaign_manager_tick` calls a step executor and does not return before it does.
  The executor configures, arms and fires its engine and polls it; between polls
  it pumps CDC0 and CDC1, so a host command can run *inside* the step and call back
  into the campaign manager or into the very engine the executor waits for.
* Both engines load their program into pio0 and use one state machine each.  The
  program decides when the pin rises; the CPU sees only its IRQ flag.
* The charger is armed and disarmed by the engine and, behind its back, by the
  front-panel button.  Its safety net is polled by the EMFI engine's tick and by the
  main loop, and by nobody else.
* CDC2 is the scanner port: a text shell that hands its bytes to one of three binary
  parsers while a mode is on, and runs scans and captures inside the command that
  starts them: no campaign steps meanwhile, and the engines are ticked in a scan and in a
  SUMP capture but not in `la`.  CDC3 is the target's UART.  Both are watched for a host that closes
  them, once per pass of the main loop.
* The header's users exclude each other in two ways: some take `swd_bus_lock`, and all
  but `reset` ask `shell_bus_busy` before they start.  A campaign takes the lock after
  each shot, for a verify hook that is empty, and gives it back in the same breath.

### What is hard here

Commands inside a blocking step; a STOP that is deferred; two timeouts racing for the
same wait; hardware that goes on while the CPU reconfigures it; state that survives a
teardown (an output latch, a loaded program); polls that do not happen; a port that
changes its protocol with each mode, and a host that leaves anywhere; a DMA that writes
on while its ring is read; a frame cut short whose bytes look like another frame.
Nothing is persisted and nothing runs on a second core, so there is no crash recovery
to model and no data race.  `PROJECT.json` lists each hazard at its line.

## 2. Modules

| Module | Models |
|---|---|
| `Clock` | millisecond stamps, read only through their difference to "now" |
| `SweepMath` | the arithmetic of a sweep, modulo the word size |
| `CampaignManager` | `campaign_manager.c`: one operator per entry point, the tick split at the executor call |
| `SweepHistory` | the manager with ghost history (shots fired, results delivered, time since the last shot), and its properties |
| `LossyQueue` | what the result ring promises: a bounded queue that drops the newest |
| `HvCharger` | `hv_charger.c` |
| `GlitchProgram` | the phases of the PIO program, its length, its place in memory |
| `EmfiEngine`, `EmfiFirePath` | the EMFI engine; the engine with host, buttons, capacitor and clock, and its properties |
| `CrowbarEngine`, `CrowbarFirePath` | the same for the crowbar |
| `GlitchFirmware` | the composition: main loop, executors, stop hook, pio0's memory |
| `GlitchSafety` | what the composition promises |
| `HeaderPins`, `BusLock` | the function of each header pin; `swd_bus_lock.c` |
| `LogicAnalyzer` | `logic_analyzer.c`: the DMA ring, the trigger search, the pre-trigger window |
| `LaCommand` | the text command `la`: wait, drain while the DMA goes on, report |
| `PortHost` | the program at the other end of a binary session, which counts its own bytes |
| `SumpOls`, `BusPirate`, `Serprog` | the three binary protocols of the scanner port; the last two with their host's side |
| `UartPassthrough` | the host-to-target path of the UART bridge |
| `PinoutScanner` | `scan swd` and `scan i2c` |
| `ScannerShell` | the composition: text commands, modes, the disconnect checks, the host's DTR |
| `ShellSafety` | what the shell and its services promise |
| `FrameProto` | `frame_proto.c`: the parser and its inter-byte timeout |
| `HostLink` | one frame port: host, wire, pump, dispatch, transmit buffer, result ring |
| `LinkSafety` | what a frame port promises |
| `SweepProofs`, `EmfiProofs`, `CrowbarProofs`, `GlitchProofs`, `ShellProofs`, `ServiceProofs`, `LinkProofs`, `FrameProofs` | theorems |
| `MC*` | instances for TLC |

    SweepMath, Clock -> CampaignManager -> SweepHistory -> MCSweep, SweepProofs
    Clock -> HvCharger, GlitchProgram -> EmfiEngine -> EmfiFirePath -> MCEmfi, EmfiProofs
    Clock, GlitchProgram -> CrowbarEngine -> CrowbarFirePath -> MCCrowbar, CrowbarProofs
    CampaignManager, EmfiEngine, CrowbarEngine -> GlitchFirmware -> GlitchSafety
      -> MCGlitch, GlitchProofs (which instantiates EmfiProofs and CrowbarProofs)
    LogicAnalyzer, BusLock -> LaCommand -> MCLa
    HeaderPins, BusLock -> PinoutScanner
    PortHost -> BusPirate, Serprog
    LaCommand, SumpOls, BusPirate, Serprog, UartPassthrough, PinoutScanner
      -> ScannerShell -> ShellSafety -> MCShell, ShellProofs -> ServiceProofs
    FrameProto -> HostLink -> LinkSafety -> MCLink, LinkProofs -> FrameProofs

### From code to state and actions: firing

* **Variables.**  `cm*` are the fields of `cm_t`; `emfi*` and `cb*` those of the two
  engines' `s_cfg` and `s_status` and of their PIO modules (`s_claimed`, `s_loaded`,
  `s_out`); `gp14Fn`, `gateFn` are pin muxes, `gp14Latch`, `gateLatch` bits of the
  PIO's output register, `sm0`, `sm1` the phases of the state machines, `irq0`, `irq1`
  their flags.
* **Time.**  A stamp becomes its age.  The code only subtracts stamps from "now",
  wrap-safe, and compares; ages saturate at `Horizon`, which is above every limit an
  instance uses.  `Elapse` needs `polled`: a loop pass takes well under one time unit,
  so the loop in charge has run since the clock last moved.
* **Handlers.**  Host commands are one action each with everything the call changes,
  teardown included.  Validation is the field `ok` of a configuration (in range or
  not); delays and widths inside the range are not told apart, except for the sweep's
  own arithmetic.  A repeat count is the choice of `NextPhase` after `GAP`.
* **A step.**  `campaign_manager_tick` is `CmBeginStep`, the executor's actions, and
  `CmEndStep`.  `exec` says where the executor is; host commands are enabled at its
  yield points and in the main loop only (`AtYield`).  An executor's poll is one
  action: the engine's tick, then the checks in the code's order.  The executor reads
  the clock again after the engine did, so exactly at its limit either answer is
  possible (`Overdue`, `InTime`).
* **Memory of pio0.**  `Memory` places a program in the highest free run of
  instructions when an engine loads it and drops it when the engine lets go.
* **Hardware.**  The capacitor may charge only while the charger is armed and may
  droop at any time.  The trigger line is the choice of when `WAIT` becomes `HIGH`.
  A teardown stops the state machine and gives the pin back to the CPU but does not
  touch the PIO's output register, as on the chip.
* **Not in the firmware's reach.**  `hv_charger_configure`, `emfi_pulse_force_low` and
  the LP and HP paths of `crowbar_mosfet_set_path` have no caller.  `arm` right after a
  good `configure` cannot fail, so `CAMPAIGN_FIRE_ARM_ERR` is never reported.

### From code to state and actions: the scanner header

* **Variables.**  `busOwner` is `s_locked` and `s_owner` in one; `pin` the function of
  each header pin; `mode` is `s_shell_mode`; `jtagPins` and `spPins` are the pins of an
  open Bus Pirate or serprog session; `bp`, `sp`, `sump` and `uart` the static structs of
  those services; `las` and `scan` the locals of `la` and of a sweep, empty while none
  runs.  `dtr` is what the host does with its ports and `seen` what the main loop saw of
  it on its last pass: a change that is undone in between is never noticed.
* **Blocking commands.**  A scan, `la` and a SUMP capture run inside the command that
  starts them.  Their progress is split where the code yields or polls the hardware, and
  `Blocked` keeps the main loop's actions out in the meantime.  The host's DTR and the
  UART's shift register go on.
* **Campaign steps.**  `campaign_manager_tick` may run an executor that waits, and its yield
  pump serves neither this port nor the DTR checks.  `held` says that it has not returned
  (`CampaignWaits`, `CampaignReturns`); the shell waits for it like for a command.
* **Samples.**  `la.total` is the number of samples written since the start.  A sample is
  its number; it lies in the ring until sample number plus `Ring` overwrites it.  What a
  sample reads is a choice: with a mask any unread one may be the first match.  `Gap` and
  `Overshoot` bound what the DMA writes between two polls and before it is stopped.
* **Protocols.**  Two sides count.  The parser is the code's state machine; `host` is the
  program at the other end (OpenOCD, flashrom), which knows from its own protocol how many
  bytes of its command are still to come.  They share the byte alone: each reads it by its
  own state, as a command, as the end of a length, or as data.  A host that asks for more
  bits than `BUSPIRATE_TAP_SHIFT_MAX_BITS` sends the data of all of them, and is no longer
  `sync`; nor is one that opens the port inside the session of another.  `bp.out` counts the
  answers.  A mode's struct is not tracked while the mode is off, because entering it
  initialises it.  That a reply may be cut by a full transmit buffer is not modelled here.
* **Bridge.**  Bytes are numbered in the order the host sent them; `sent` and `taken` are
  history, and empty while the bridge is off.  Disabling keeps the drop counter, as the
  code does, and discards what is staged.
* **Sweeps.**  `scan.wired` is where a target really is, or nowhere; `scan.tried` is
  history.  The iterator is the order it walks (`Precedes`), not its counter.

### From code to state and actions: the frame ports

* **Wire and parser.**  A byte carries its value and, for the check of the CRC alone, the
  frame it belongs to and its place there; the parser branches on the value only.
  `parser.got` is what it collected since the start-of-frame byte, its age the time since
  `last_byte_ms`.
* **Answers.**  A request is the length of its answer, after the length checks of the
  dispatchers.  DRAIN also takes results off `ring`.  `Answered` is the writer and the
  port: an answer too large for the reply buffer is dropped, one too large for the port
  is cut.  A CONFIGURE that is too short gets an empty frame from the EMFI dispatcher
  (`emfi_proto.c:82-86`) and an error byte from the crowbar's.
* **The host.**  It sends a request or any first part of one, and reads whenever it
  likes.  `quiet`, `unsure`, `owed`, `told` and `crowded` record what it did and what it
  may count on: `owed` are the requests it sent while it could know the parser to be in
  step.

## 3. Runs

| Run | Instance and bounds | Shows |
|---|---|---|
| `sweep` | words of 3 bits, ring of 2, five configurations (grids that wrap, an empty one, a cooldown), drains of 1 and 3 | coherence, accounting, order and coverage of results, frozen live sweep, STOP, cooldown, ring refinement |
| `emfi` | configurations with charge timeout 0 and 1 and one out of range, fire timeouts 0 and 1, auto-disarm 3, staleness 1 | ownership of the fire path, quiet terminal states, fresh charge, auto-disarm, and that a wait ends as long as the loop polls |
| `emfi_held_low` | the same | violation, finding 1 |
| `crowbar` | both gates, one configuration out of range, timeouts 0 to 2 | gate ownership, break-before-make, quiet terminal states, waits end |
| `crowbar_armed` | the same | violation, finding 2 |
| `glitch_emfi` | one EMFI point swept, the host on the EMFI engine, charge wait 1 + 1, fire wait 1, auto-disarm 2 | reports are true, waits the host kept out of are answered, timeouts race as intended, STOPPED leaves the swept engine safe, every step ends |
| `glitch_crowbar` | two crowbar sweeps, one refused by the engine; the host on the crowbar; auto-disarm 1 | a STOP ends the wait, the auto-disarm is missed only there |
| `glitch_overstay` | a crowbar sweep and the ARM button | violation, finding 3 |
| `glitch_stop` | as `glitch_emfi` | violation, finding 4 |
| `shell` | header of 4 channels, ring of 4 samples, windows of up to 2 (SUMP) and of 1 and 5 (`la`), shifts of up to two and a half bytes of 2 bits, UART FIFO of 1 byte and 2 staged, 4 bytes a session | one user of the header and a full teardown on every way out, parsers that count as their hosts do, lossless captures, an ordered bridge, complete sweeps, a shell that comes back as long as the loop does |
| `link` | bytes of 4 values, 3 requests out of 5 kinds, each of 6 or 7 bytes, 7 bytes under way, inter-byte timeout 2, pump latency 1, 3 results | no frame swallowed after a pause, every answer and every drained result received |
| `la_lap` | `la` alone: ring of 4, windows of 2 and 5, a write that stalls for 3 samples | violation, finding 5 |

Why the bounds are enough: the ring of 2 fills, wraps and drops within one sweep; a
3-bit word lets a grid of ordinary size overflow; every age can pass every limit of its
instance (`Horizon` is one more than the longest); one grid point per sweep suffices in
the composition because a step starts from whatever the host and the previous sweep
left, and restarts are allowed.  The two engines are driven by the host in separate
instances of the composition: they share only pio0's memory.

In `shell` the header of four channels is the smallest on which Bus Pirate opens, twelve
pairs are swept, and a pinout can name a pin twice; a shift of three bits needs one full
byte and a rest, one of nine is longer than the buffer; the largest SUMP window with gap
and overshoot fills the ring exactly; a `la` window of 5 is longer than the ring; the
UART has a byte in its FIFO, two staged and one more to drop.  In `link` the
start-of-frame byte is one of four values, so it turns up as command, count and CRC of
other frames: a parser that lost step finds frames where none are.  Seven bytes under way
hold the rest of one frame and the start of the next.

No run uses symmetry, and no run disables the deadlock check.

### Fairness

* The CPU does not stop: in the composition, weak fairness of the main pass or the
  executor's next action; in the shell, of the disconnect checks of a pass that nothing
  holds and of the progress of the command that holds the loop; for the crowbar engine
  alone, of its tick, which every wait inside a campaign step, a scan and a SUMP capture
  goes on making or ends.
* Time goes on: weak fairness of `Elapse` in the firing modules.
* In the manager alone, `CmReturn` is fair only while a STOP is pending, because every
  executor polls `campaign_manager_stop_pending`; a crowbar step without a STOP may wait
  for its trigger for ever.  The composition does not assume it, it follows there
  (`StopEndsStep`).

**The main loop itself need not come round.**  `campaign_executor_crowbar` waits for its
trigger without a time-out (`main.c:1606-1636`); it ticks the crowbar engine and pumps the
two frame ports, and nothing else.  So neither `EmfiFirePath` makes the loop's poll of the
engine fair, nor `ScannerShell` the return of a campaign step.  `WaitsEnd` and
`ControlReturns` state what they rest on: each is an implication from `LoopComesRound`.  If
an edge never comes and no STOP is sent, an EMFI engine the host has armed or fired
meanwhile stays where it is, past its own timeout, and a session whose port was closed is
not torn down.

Nothing is assumed of the host, of the trigger lines, of the state machines or of the
capacitor: each may do nothing for ever.  A `la` that waits for its trigger ends by its
time-out, a SUMP capture has none: `ControlReturns` says nothing of SUMP.  The frame ports
are checked for safety only.

### Violations

1. `HeldLowUntilTrigger`.  DISARM while the pulse is high leaves the PIO's output bit
   set.  The next `emfi_pio_load` muxes GP14 to PIO and the pin is high before the
   trigger.  The crowbar engine has the same latch.
2. `ArmedGatesLow`.  FIRE, CONFIGURE, ARM: `configure` does not tear down, `arm` drops
   only the CPU side of the gates, and the state machine still drives one.
3. `HvNeverOverstays` in the composition.  The crowbar executor's wait polls neither the
   EMFI engine nor the charger; a charger armed by button stays armed while the trigger
   keeps away.  `OverstaysOnlyInCrowbarWait` shows that this is the only such place in
   the modelled part.
4. `StopLeavesEngineSafe`.  If the step fails while a STOP is pending, the sweep ends in
   ERROR and the stop hook is not called.  With a CONFIGURE in the charge loop the
   failure is CHARGE_TIMEOUT and the charger stays armed (until its auto-disarm).
   `StoppedIsSafe` is the part of the promise that holds.
5. `LapIsFlagged`.  `la_stream_and_finish` clips the write position to the end of the
   window (`main.c:811`) before it asks whether the DMA lapped the cursor, and copies a
   chunk while the DMA runs on.  A stalled write lets overwritten samples out without the
   OVERFLOW that the comment below promises.

Seen while modelling, without a run of their own:

* `docs/MUTEX_INTERNALS.md:200-202` says a restart from DONE, STOPPED or ERROR needs a
  fresh `configure()`; `campaign_manager_start` (`campaign_manager.c:215`) accepts it with
  the stored one.
* With `charge_timeout_ms = 0` the auto-disarm switches the charger off but leaves the
  engine in ARMING.  A grid whose size wraps to a small number modulo 2^32 ends early, and
  one that wraps to 0 is refused.  The EMFI fire loop's limit equals the engine's timeout
  and is read after it, so ENGINE_STUCK can be reported with the engine still WAITING (the
  next poll of the main loop times it out).  A step that ends in the millisecond in which
  the clock reads 0 leaves the stamp that means "no step yet", and its cooldown is skipped:
  `SettleHonoured` leaves that stamp out.
* **A wait for nothing.**  Inside a step the host may DISARM or CONFIGURE the engine the
  executor waits for.  An EMFI step then ends by the executor's own limits, a crowbar step
  waits for an engine that no longer expects a trigger until a STOP comes.
  `WaitIsAnswered` is about steps without such a command.
* **Over-long shifts.**  `tap_shift_begin` cuts a length above
  `BUSPIRATE_TAP_SHIFT_MAX_BITS` (`buspirate_compat.c:92-106`) and echoes the cut one, but
  a host sends `ceil(N/8)*2` bytes for the N it asked (`buspirate_compat.h:19-20`).  The
  rest of its data is then taken for commands, 0x0F among them.  In the model such a host
  loses step, and `HostsInStep` promises it nothing any more.
* **FORCE_EXIT.**  `main.c:726-728` says it bounds the SUMP trigger wait, but the wait
  reads no byte of the port: FORCE_EXIT is read when the wait is over.  The comment at
  `main.c:1147-1153` says SUMP leaves on a closed port like the others; the check at
  `main.c:2190-2194` has no branch for it.
* **DTR toggles.**  A port that is closed and opened again between two passes of the main
  loop, for instance during a scan, is never seen closed: a session or a bridge survives it.
  So does the unfinished line of the text shell, and bytes the host sent before it closed a
  binary session are read as text.
* **Drain truncation.**  DRAIN takes results off the ring before the port has taken the
  reply.  A host that asks again before it has read its answers loses results.  The ring
  has other consumers as well (the second frame port, `campaign drain` of the shell):
  `AnswersArrive` is about the one that reads.
* `la_stream_and_finish` computes `end = start + n` (`main.c:773`), which wraps for an `n`
  near 2^32, and ignores the result of writing its last, shorter chunk.
* `reset` asks neither the lock nor `shell_bus_busy` and sleeps as long as it is told
  without pumping; serprog does not check its pins; disabling the bridge leaves GP0 and GP1 muxed
  to the UART; the message for a busy
  header names a command `serprog exit` that does not exist.
* `uart_passthrough_disable` empties the staging buffer and leaves `s_tx_dropped` as it is:
  bytes staged at that moment appear in no count.  `UartInOrder` is about a bridge that is
  on, so it does not see this loss.

## 4. Proofs

Every theorem holds for every value of the constants that meets the named assumptions
(`CampaignAssumption`, `EmfiAssumption`, `SumpAssumption`, `LinkAssumption` and so on, all
of them evaluated by the runs too).

* **`SweepProofs`.**  The inductive invariant is `TypeOK /\ SweepCoherent`.  `TypeOK`
  alone is not inductive: that `cmStep` stays a word needs `cmStep < cmTotal` while
  sweeping, and that needs the agreement of state, `in_step` and configuration.  From
  it follow the accounting of results (its own invariant on top), the two action
  properties about a live sweep and a pending STOP, and the refinement: each step of
  the manager maps to a step of `LossyQueue` or to a stutter.

  `SettleHonoured` needs that the stamp `tick` compares with is never older than the last
  step really is.  For `ResultsInOrder` the invariant speaks of the results delivered
  followed by those in the ring, so that a drain, which moves results from one to the
  other, leaves it alone; a push and a drop are one lemma each.  `SweepCovers` rests on
  `ShotsAreSteps`, that shot i is `StepToParams(i - 1)`, and on arithmetic: the step number
  is a numeral with the lengths of the power and width axes as its bases, its digits grow
  in the order of `VisitedBefore` from one step to the next, and the grid has as many
  points as there are numerals.  That a grid fits the word is the hypothesis
  `SweepCovers` itself states; without it the code ends early.
* **`EmfiProofs`.**  The inductive invariant adds to `TypeOK` that the pieces of the fire
  path are held together (`FirePathOwned`), that a terminal state has released them,
  and that the engine's charge stamp is never younger than the real charge.  The last
  makes the freshness of a fire a consequence of the code's comparison.
  `HvNeverOverstays` needs one more invariant: the charger is younger than the limit once
  the loop has polled in this time unit; its theorem assumes `AutoDisarm # 0`.
* **`CrowbarProofs`.**  The inductive invariant adds `GateOwned`, that an armed or waiting
  engine has a configuration, and that a terminal state has released the path.
  Break-before-make is a consequence of ownership: only the gate in use is muxed to PIO.
* **`GlitchProofs`**, the composition.  Its invariant ties four things together: where the
  executor is with `in_step`, the swept engine and the pending STOP; both fire paths, held
  or released as a whole; the engine with the executor's wait for it; and the bursts
  counted in the step with the phase of the state machine.
  - *Waits are answered*, in a step no host command has reached: for one with such a
    command only `inStep <=> exec # "NONE"` is stated, since its wait may be in vain.
    While the host keeps off the engine, an executor in its
    charge loop has an engine in ARMING whose timeout is `ChargeWait` and whose clock
    shows what the executor's shows.  So the engine gives up first, by `ChargeSlack`, and
    CHARGE_TIMEOUT means that the host interfered.
  - *Reports are true.*  A burst before the executor's own fire can only come from
    a program an earlier fire left behind; that program still holds the state
    machine, so the executor's fire refuses.  Hence one burst, exactly, behind every OK
    of a step the host kept out of.
  - *STOPPED is safe* for the engine that was swept: idle, nothing held, and the charger
    off after an EMFI sweep.  The stop hook touches nothing else, so nothing is said of the
    other engine, nor of the charger after a crowbar sweep.
  - *The programs never overlap.*  The loader takes the highest free run of
    instructions; that there is one is the room the engine asked for, that it is free
    follows from the search ending at a maximum.  No run loads both programs, because
    the host drives one engine in each; the theorem covers both.
  - *The auto-disarm.*  Wherever the safety net is polled, the charger is younger than
    the limit once it has been polled in this time unit; WAIT and RETURN are exempt.
    `HvNeverOverstays` therefore assumes that no crowbar sweep is configured, and both
    theorems that the auto-disarm is on (`AutoDisarm # 0`), as it is in the firmware.
  - *The parts in the whole.*  `ExecutorsKeepTheRules` shows that the composition moves
    the manager only by steps of its own specification, so what `SweepProofs` says of the
    manager's variables holds here.  For the engines, `GlitchProofs` instantiates the
    engines' proof modules with every possible configuration and timeout.  Each step of
    the firmware is, for an engine, an operation of its own or the executor's
    configure-and-arm in one; the latter keeps the engines' invariants too.  So gate
    ownership, break-before-make, the quiet terminal states and the fresh charge hold
    with executor, host, buttons and stop hook at the engines at once.  The fresh charge
    needs a history variable, `capAge`, that the composition does not keep for its runs.
* **`ShellProofs`.**  `HeaderOwned` is not inductive: it does not say that a sweep, `la`
  and the modes keep apart while a command is under way, which neither the lock nor
  `shell_bus_busy` ensures by itself (Bus Pirate and serprog take no lock, and the busy
  check knows nothing of a capture, which is safe only because no command is read
  meanwhile).  `Apart` says that.  `CaptureSafe` follows a SUMP capture through its phases;
  that what the DMA writes after the last poll leaves the window alone is
  `MaxSamples + Gap + Overshoot <= Ring`, the reason behind the static assert that gives
  half the ring as headroom, and that the trigger stays in the window needs a pre-trigger
  share of at most half.
* **`ServiceProofs`** builds on the invariant of `ShellProofs`.  `HostsInStep` compares two
  counters that are kept by different rules: the host adds the data of a command when it has
  sent the length, the parser counts bits, in bytes that may be started but not full.  So the
  invariant keeps the exact number of bits behind the bytes answered (`TapExact`), and, until
  a length is complete, that both sides know how many bytes of it are left (`BpHeader`,
  `SpHeader`): then the byte that completes it is the same for both, and both compute the
  rest from it (`BpTogether`, `SpTogether`).  This holds for a host that began its session
  and keeps to the maximum; SUMP, whose host is not modelled, is not part of it.  For the bridge, writing, staging and
  flushing are each shown to keep the order and the account, so the pump does.  In the
  sweeps the order of the pairs is total and well founded, so the iterator always returns
  the first pair not tried, and what was tried is everything up to the last one: a sweep
  that ends empty has tried all, one that reports has passed over none.

  The types of the shell come last because they need most of this.  A cursor of a capture
  is a word of the DMA's transfer count only because the window fits: for `la` by
  `TriggerWait` plus its length being at most `Forever`, for SUMP because the trigger was
  found in the last samples read and the window reaches back over less than the ring.  A
  parser's counter stays natural because it counts down only while an argument is due, and
  a bridge drops no more than it took.
* **`LinkProofs`.**  `AnswersArrive` needs that the parser collected a whole frame before it
  dispatches (the payload is read out of it) and that a transmit buffer that says it is
  empty is; then the sizes of `LinkAssumption` leave room for any answer.
* **`FrameProofs`.**  The invariant is about the stream, what the parser collected
  followed by what is under way.  Its first `k` bytes are whole frames one after the other,
  all owed ones among them; bytes behind those are there only if the host knows itself
  unsure; and if there is a first whole frame, the parser has collected only a part of
  it.  `Paces` bounds the host's quiet time
  by one `Latency` for each byte that has been read, so that when `Recovery` is over
  nothing is under way and the parser has timed out.  `ParserExact` ties the parser's state
  to the bytes it holds, which is what makes it end a frame exactly where the frame ends.

Every invariant and every action property of a passing run is stated by a theorem.  Only
model-checked are the liveness properties, which are outside the prover's reach:
`StopHonoured`, `WaitsEnd`, `WaitEnds`, `StopEndsStep`, `EmfiStepEnds`, `ControlReturns`.
The properties of the five violation runs are false, so there is nothing to prove.

Assumed, and true of the code only as far as said here: the CRC accepts exactly whole
frames; an unconnected pair never gives the same coherent reading 1 + `ConfirmReads` times;
the pump takes a waiting byte within `Latency`, not longer than the inter-byte timeout
(not so while `la` waits for its trigger, `main.c:855`, where only USB is pumped, the
charger's auto-disarm and the engines' ticks wait as well); a `la` window ends before the
DMA's transfer count does.

Planned next: an abstract mutual exclusion that the header's users refine, and an abstract
capture (a window of consecutive samples that holds the trigger) that the dump of the logic
analyzer refines.

## 5. Not modelled

* **USB**: descriptors and wrappers of TinyUSB.  A port is a buffer and a DTR bit.
* **Register-level HAL, LEDs, the ADC monitor, the captured waveform, the text of
  diagnostics**: no control of their own.
* **JTAG and SWD sub-shells**: disabled in this release; chain detection, SWD transfers and
  their retries, memory access and the JTAG sweep have no reachable caller.  One detection
  attempt of the SWD core and the pin handling of the JTAG core are modelled with their
  users.
* **The waiting forms of `swd_bus_acquire`**: no caller.  They would spin on a lock that
  only the caller's own stack could release.
* **The target-to-host way of the bridge**: a loop without state; bytes are lost silently
  when the port is full, and when a blocked loop leaves the UART's FIFO to overflow.
* **The campaign, EMFI and crowbar commands of the text shell**: they call the entry points
  that the firing modules have as host commands.
* **The two halves together.**  Firing and header share the CPU and nothing else; a
  composition would multiply two state spaces to show that a command that blocks the loop
  delays the polls of the other half, which the assumptions above state.
