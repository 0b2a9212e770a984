SPECIFICATION Spec
CONSTANTS
  Cases <- MCCases
  Program <- MCPrograms
  Batches <- MCBatches
  Watched <- MCWatched
  Hosts <- MCHosts
  Cpu = "cpu"
  MaxProbes = 4
  MaxCopies = 2
  MaxFaults <- MCFaults
INVARIANTS TypeOK SuccessIsTrue NothingUnseen NoProbeLeft
PROPERTIES Returns FaultFreeSucceeds
