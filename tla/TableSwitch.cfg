SPECIFICATION Spec
CONSTANTS
  Cases <- MCCases
  Writes <- MCWrites
  Frames <- MCFrames
  Arrive <- MCArrive
  Apply <- MCApply
  Careful <- MCCareful
  Listening <- MCListening
  PacketInPort <- MCPacketInPort
INVARIANTS TypeOK GovernedIsFinal ReadyIsPolicy NeverElsewhere
