--------------------------- MODULE MCTableSwitch ---------------------------
EXTENDS TableSwitch
Tests == INSTANCE CaseFrames
MCCases == DOMAIN Tests!AllWrites
MCWrites == Tests!AllWrites
MCFrames == Tests!AllFrames
MCArrive(c, f) == Tests!ArriveAt(c, f)
MCApply(c, s, found) == Tests!ApplyTable(c, s, found)
MCListening == {"clone_to_cpu"}
MCPacketInPort == Tests!CpuPort
MCCareful == MCCases \ {"meter", "firewall", "ipv6_lpm", "l2_broadcast"}
=============================================================================
