-------------------------- MODULE ControllerOutput --------------------------
(***************************************************************************)
(* class Controller of common/runtime.py: a reader thread moves the output *)
(* of the controller process into a bounded deque, and the test driver     *)
(* takes lines from it with readline and wait_ready, both with a deadline. *)
(* What is done while holding the condition's lock is one step.            *)
(***************************************************************************)
EXTENDS Naturals, Sequences

CONSTANTS
    MaxLen,         \* maxlen of the deque (4096 in the code)
    MaxLines        \* BOUND: lines the process writes

ASSUME MaxLenAssumption == MaxLen \in Nat \ {0}
ASSUME MaxLinesAssumption == MaxLines \in Nat

VARIABLES
    \* Shared state, guarded by _condition (but for error, set without it).
    lines,          \* _lines: the deque, oldest line first
    overflow,       \* _overflow
    error,          \* _error is set
    eof,            \* _eof
    \* The reader thread.
    reader,         \* "reading", "failed" (in except), or "done"
    \* The driver, one call at a time.
    call,           \* the call in progress or last made
    at,             \* where the call is: "check" holds no lock yet
    expired,        \* the deadline of the call has passed
    result,         \* what the last call returned
    \* History, read by no action.
    produced,       \* lines the reader thread took from the process
    consumed,       \* lines popped for the driver
    since           \* Len(consumed) when the call in progress was made

shared == <<lines, overflow, error, eof>>
driver == <<call, at, expired, result, consumed, since>>
vars == <<shared, reader, driver, produced>>

\* The only thing a line's text decides is whether it holds the banner.
Lines == {"banner", "other"}
Calls == {"readline", "wait_ready"}
Results == {"unset", "line", "None", "True", "False", "RuntimeError"}

TypeOK ==
    /\ lines \in Seq(Lines) /\ Len(lines) <= MaxLen
    /\ overflow \in BOOLEAN /\ error \in BOOLEAN /\ eof \in BOOLEAN
    /\ reader \in {"reading", "failed", "done"}
    /\ call \in Calls
    /\ at \in {"idle", "check", "waiting", "between"}
    /\ expired \in BOOLEAN
    /\ result \in Results
    /\ produced \in Seq(Lines) /\ consumed \in Seq(Lines)
    /\ since \in Nat

-----------------------------------------------------------------------------
(***************************************************************************)
(* The reader thread.                                                      *)
(***************************************************************************)

\* notify_all: a waiting call goes on to check again.
Woken == IF at = "waiting" THEN "check" ELSE at

\* Seeded fault: the deque grows past its bound.
AppendUnbounded(q, l) == Append(q, l)

\* A full deque drops its oldest line when it is appended to.
AppendTo(q, l) == Append(IF Len(q) = MaxLen THEN Tail(q) ELSE q, l)

ReadOutput(l) ==
    /\ reader = "reading"
    /\ Len(produced) < MaxLines
    /\ produced' = Append(produced, l)
    /\ overflow' = (overflow \/ Len(lines) = MaxLen)
    /\ lines' = AppendTo(lines, l)
    /\ at' = Woken
    /\ UNCHANGED <<error, eof, reader, call, expired, result, consumed, since>>

\* Reading fails, for example on a stream closed by close(): _error is set
\* without the lock and wakes nobody.
ReadFails ==
    /\ reader = "reading"
    /\ error' = TRUE
    /\ reader' = "failed"
    /\ UNCHANGED <<lines, overflow, eof, driver, produced>>

\* Seeded fault: the end of the stream is not notified.
ReaderEndsSilently ==
    /\ reader \in {"reading", "failed"}
    /\ eof' = TRUE
    /\ reader' = "done"
    /\ UNCHANGED <<lines, overflow, error, driver, produced>>

\* End of the stream, or the finally clause after a failure.
ReaderEnds ==
    /\ reader \in {"reading", "failed"}
    /\ eof' = TRUE
    /\ reader' = "done"
    /\ at' = Woken
    /\ UNCHANGED <<lines, overflow, error, call, expired, result, produced,
                   consumed, since>>

-----------------------------------------------------------------------------
(***************************************************************************)
(* The driver.                                                             *)
(***************************************************************************)
Begin(c) ==
    /\ at = "idle"
    /\ call' = c /\ at' = "check" /\ expired' = FALSE
    /\ since' = Len(consumed)
    /\ UNCHANGED <<shared, reader, result, produced, consumed>>

\* Seeded fault: readline waits without its deadline.
ExpireUnnoticed ==
    /\ at # "idle" /\ ~expired
    /\ expired' = TRUE
    /\ UNCHANGED <<shared, reader, call, at, result, produced, consumed, since>>

\* The deadline passes; a waiting call wakes up.
Expire ==
    /\ at # "idle" /\ ~expired
    /\ expired' = TRUE
    /\ at' = Woken
    /\ UNCHANGED <<shared, reader, call, result, produced, consumed, since>>

Return(r) == at' = "idle" /\ result' = r /\ UNCHANGED <<shared, consumed>>

\* None ends readline as it is and ends wait_ready's search without a match.
NoLine == IF call = "readline" THEN "None" ELSE "False"

\* Seeded fault: the match is looked for after the next line is taken too.
PopPastBanner ==
    /\ lines' = IF Len(lines) > 1 THEN Tail(Tail(lines)) ELSE Tail(lines)
    /\ consumed' = consumed \o SubSeq(lines, 1, IF Len(lines) > 1 THEN 2 ELSE 1)
    /\ IF call = "readline" THEN at' = "idle" /\ result' = "line"
       ELSE IF Head(lines) = "banner" THEN at' = "idle" /\ result' = "True"
       ELSE at' = "between" /\ UNCHANGED result
    /\ UNCHANGED <<overflow, error, eof>>

\* The oldest line leaves the deque; wait_ready goes on past other lines.
Pop ==
    /\ lines' = Tail(lines)
    /\ consumed' = Append(consumed, Head(lines))
    /\ IF call = "readline" THEN at' = "idle" /\ result' = "line"
       ELSE IF Head(lines) = "banner" THEN at' = "idle" /\ result' = "True"
       ELSE at' = "between" /\ UNCHANGED result
    /\ UNCHANGED <<overflow, error, eof>>

\* Seeded fault: the end of the stream is reported before the lines left.
CheckEndFirst ==
    /\ at = "check"
    /\ \/ (overflow \/ error) /\ Return("RuntimeError")
       \/ ~overflow /\ ~error /\ (eof \/ expired) /\ Return(NoLine)
       \/ ~overflow /\ ~error /\ lines # <<>> /\ ~eof /\ ~expired /\ Pop
       \/ /\ ~overflow /\ ~error /\ lines = <<>> /\ ~eof /\ ~expired
          /\ at' = "waiting" /\ UNCHANGED <<shared, result, consumed>>
    /\ UNCHANGED <<reader, call, expired, produced, since>>

\* Seeded fault: a line left is handed out before an overflow is reported.
CheckLinesFirst ==
    /\ at = "check"
    /\ \/ lines # <<>> /\ Pop
       \/ lines = <<>> /\ (overflow \/ error) /\ Return("RuntimeError")
       \/ ~overflow /\ ~error /\ lines = <<>> /\ (eof \/ expired) /\ Return(NoLine)
       \/ /\ ~overflow /\ ~error /\ lines = <<>> /\ ~eof /\ ~expired
          /\ at' = "waiting" /\ UNCHANGED <<shared, result, consumed>>
    /\ UNCHANGED <<reader, call, expired, produced, since>>

\* One turn of readline's loop, its checks in the order of the code.
Check ==
    /\ at = "check"
    /\ \/ (overflow \/ error) /\ Return("RuntimeError")
       \/ ~overflow /\ ~error /\ lines # <<>> /\ Pop
       \/ ~overflow /\ ~error /\ lines = <<>> /\ (eof \/ expired) /\ Return(NoLine)
       \/ /\ ~overflow /\ ~error /\ lines = <<>> /\ ~eof /\ ~expired
          /\ at' = "waiting" /\ UNCHANGED <<shared, result, consumed>>
    /\ UNCHANGED <<reader, call, expired, produced, since>>

\* lines_for looks at its own deadline between two lines.
Between ==
    /\ at = "between"
    /\ IF expired THEN at' = "idle" /\ result' = "False"
                  ELSE at' = "check" /\ UNCHANGED result
    /\ UNCHANGED <<shared, reader, call, expired, produced, consumed, since>>

-----------------------------------------------------------------------------
Init ==
    /\ lines = <<>>
    /\ overflow = FALSE /\ error = FALSE /\ eof = FALSE
    /\ reader = "reading"
    /\ call = "readline" /\ at = "idle" /\ expired = FALSE
    /\ result = "unset"
    /\ produced = <<>> /\ consumed = <<>> /\ since = 0

Reader == (\E l \in Lines : ReadOutput(l)) \/ ReadFails \/ ReaderEnds
Driver == (\E c \in Calls : Begin(c)) \/ Check \/ Between

Next == Reader \/ Driver \/ Expire

Spec == Init /\ [][Next]_vars

\* A call in progress is scheduled, and deadlines pass.
FairSpec == Spec /\ WF_vars(Check \/ Between) /\ WF_vars(Expire)

-----------------------------------------------------------------------------
(***************************************************************************)
(* Properties.                                                             *)
(***************************************************************************)

\* No lost wake-up (runtime.py:75-79, 84-86, 91-108): a call waits only while
\* there is no line, no end of stream and no overflow to report to it.
NoLostWakeup == at = "waiting" => lines = <<>> /\ ~eof /\ ~overflow

\* wait_ready says False only when its time is up or when the process has
\* ended and none of the lines it wrote since the call is the banner: a last
\* banner before the end of the stream is not missed (runtime.py:101-104).
NotReadyIsTrue ==
    result = "False" /\ at = "idle" =>
        \/ expired
        \/ /\ eof /\ consumed = produced
           /\ \A i \in since + 1 .. Len(produced) : produced[i] # "banner"

\* wait_ready says True on the banner itself, and takes no line after it:
\* what the process wrote next is left for the reads that follow.
ReadyOnBanner ==
    [][result' = "True" /\ at' = "idle" /\ at # "idle" =>
          /\ Len(consumed') > since
          /\ consumed'[Len(consumed')] = "banner"
          /\ \A i \in since + 1 .. Len(consumed') - 1 : consumed'[i] # "banner"]_vars

\* Read one after the other, lines come in the order they were written, none
\* missing, until a read raises; a stream that lost a line (overflow of the
\* deque, or a failed reader) never yields a line again.
Stream == INSTANCE LineStream WITH failed <- overflow \/ error
RefinesLineStream == Stream!StreamSpec

\* Every call returns: a driver is never stuck on a silent or dead process.
CallsReturn == (at # "idle") ~> (at = "idle")
=============================================================================
