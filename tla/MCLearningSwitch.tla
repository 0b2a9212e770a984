-------------------------- MODULE MCLearningSwitch --------------------------
EXTENDS LearningSwitch
CONSTANTS a, x
MCMacs == {a, x}
MCUnicastMacs == {a}
\* Every address is a host's: an always-refused source could starve them.
MCHosts == {a}
MCSwitchPorts == 1..2
=============================================================================
