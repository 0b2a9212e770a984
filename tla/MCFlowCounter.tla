--------------------------- MODULE MCFlowCounter ---------------------------
EXTENDS FlowCounter
Tests == INSTANCE CaseFrames
MCRegisterSize == 4
MCModulus == 8
MCBatches == Tests!Rounds12(MCRegisterSize, MCModulus)
=============================================================================
