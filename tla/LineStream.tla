----------------------------- MODULE LineStream -----------------------------
(***************************************************************************)
(* What the output of a controller process promises to the test driver:    *)
(* lines are read in the order they were written, none twice and none left *)
(* out, until the stream fails; a failed stream yields no line any more.   *)
(***************************************************************************)
EXTENDS Naturals, Sequences

CONSTANT Lines          \* what a line can say

VARIABLES
    produced,           \* lines the process has written
    consumed,           \* lines the driver has read
    failed              \* the stream is known to be incomplete

streamVars == <<produced, consumed, failed>>

StreamInit == produced = <<>> /\ consumed = <<>> /\ failed = FALSE

\* The process writes a line; the stream may fail to keep it.
Write(l) ==
    /\ produced' = Append(produced, l)
    /\ failed' \in {failed, TRUE}
    /\ UNCHANGED consumed

\* The driver reads the line after the last one it read.
Read ==
    /\ ~failed
    /\ Len(consumed) < Len(produced)
    /\ consumed' = Append(consumed, produced[Len(consumed) + 1])
    /\ UNCHANGED <<produced, failed>>

Fail == failed' = TRUE /\ UNCHANGED <<produced, consumed>>

StreamNext == (\E l \in Lines : Write(l)) \/ Read \/ Fail

StreamSpec == StreamInit /\ [][StreamNext]_streamVars
=============================================================================
