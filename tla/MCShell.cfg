SPECIFICATION ShellSpec
CONSTANTS
  Channels <- MCChannels
  Ring = 4
  Forever = 9
  PretriggerMin = 1
  PretriggerShare = 2
  Gap = 1
  Overshoot = 1
  LaSizes <- MCLaSizes
  Stall = 1
  TriggerWait = 2
  MaxSamples = 2
  DefaultSamples = 1
  Sizes <- MCSizes
  TapMax = 5
  TapLengths <- MCTapLengths
  ByteBits = 2
  SpLengths <- MCSpLengths
  FifoRoom = 1
  PendingCap = 2
  ReadMax = 2
  MaxBytes = 4
  Readings = {"A", "B"}
  NoReading = "BAD"
  ConfirmReads = 2
  JtagPinouts <- MCJtagPinouts
  SpPinouts <- MCSpPinouts
INVARIANTS
  TypeOK
  HeaderOwned
  HostsInStep
  SumpLossless
  UartInOrder
  ScanCovers
PROPERTY
  ControlReturns
