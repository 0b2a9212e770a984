---------------------------- MODULE MCProbeDriver ----------------------------
EXTENDS ProbeDriver
Tests == INSTANCE ProbePrograms
MCPrograms == Tests!AllPrograms
MCBatches == Tests!AllBatches
MCCases == 1..14
MCWatched == MCCases \ {5}
MCHosts == {"h1", "h2", "h3", "h4", "cpu"}
\* Two faults where two hosts exchange frames, one where three or four do.
MCFaults == [c \in MCCases |-> IF c \in {3, 4, 5, 6, 9, 14} THEN 1 ELSE 2]
=============================================================================
