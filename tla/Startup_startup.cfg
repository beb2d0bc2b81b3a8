CONSTANTS
  Lines <- CommandLines
  Files = {"good", "mute", "odd", "big", "tcp", "bare", "mad", "tones", "half", "minus"}
  Contents <- FilesHold
  FrameSize = 16
  Unit <- Units
  SizeMod = 10
  Ports = {1, 1234}
  NaN = NaN
  None = None
SPECIFICATION Spec
INVARIANTS RunningIsStoppable NamedConfigRead FaultsAreTheFiles
CHECK_DEADLOCK FALSE
