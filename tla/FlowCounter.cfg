SPECIFICATION Spec
CONSTANTS
  RegisterSize <- MCRegisterSize
  Modulus <- MCModulus
  Batches <- MCBatches
INVARIANTS DeltasAreExact
