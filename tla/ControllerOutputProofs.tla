----------------------- MODULE ControllerOutputProofs -----------------------
(***************************************************************************)
(* Proofs about ControllerOutput, for a deque of any length and a process  *)
(* that writes any number of lines.                                        *)
(***************************************************************************)
EXTENDS ControllerOutput, TLAPS

\* The deque holds exactly the lines not yet read, unless it overflowed.
Unread ==
    ~overflow =>
        /\ Len(produced) = Len(consumed) + Len(lines)
        /\ \A i \in 1..Len(lines) : lines[i] = produced[Len(consumed) + i]

Inv == TypeOK /\ Unread /\ NoLostWakeup

LEMMA InitInv == Init => Inv
<1> SUFFICES ASSUME Init PROVE Inv
  OBVIOUS
<1>1. lines \in Seq(Lines) /\ produced \in Seq(Lines) /\ consumed \in Seq(Lines)
  BY DEF Init
<1>2. Len(lines) = 0 /\ Len(produced) = 0 /\ Len(consumed) = 0
  BY DEF Init
<1>3. TypeOK
  <2>1. Len(lines) <= MaxLen
    BY <1>2, MaxLenAssumption
  <2>2. overflow \in BOOLEAN /\ error \in BOOLEAN /\ eof \in BOOLEAN /\ expired \in BOOLEAN
    BY Zenon DEF Init
  <2>3. /\ reader \in {"reading", "failed", "done"} /\ call \in Calls
        /\ at \in {"idle", "check", "waiting", "between"}
        /\ result \in Results
    BY DEF Init, Calls, Results
  <2>4. since \in Nat
    BY DEF Init
  <2> QED
    BY <1>1, <2>1, <2>2, <2>3, <2>4 DEF TypeOK
<1> QED
  BY <1>2, <1>3 DEF Init, Inv, Unread, NoLostWakeup

\* Appending to the deque: it stays within its bound and, when it was not
\* full, keeps what it held.
LEMMA AppendToBounded ==
    ASSUME NEW q \in Seq(Lines), NEW l \in Lines, Len(q) <= MaxLen
    PROVE  /\ AppendTo(q, l) \in Seq(Lines)
           /\ Len(AppendTo(q, l)) <= MaxLen
           /\ Len(q) # MaxLen =>
                /\ Len(AppendTo(q, l)) = Len(q) + 1
                /\ AppendTo(q, l)[Len(q) + 1] = l
                /\ \A i \in 1..Len(q) : AppendTo(q, l)[i] = q[i]
<1>1. CASE Len(q) # MaxLen
  BY <1>1, MaxLenAssumption DEF AppendTo
<1>2. CASE Len(q) = MaxLen
  <2>1. Tail(q) \in Seq(Lines) /\ Len(Tail(q)) = Len(q) - 1
    BY <1>2, MaxLenAssumption
  <2>2. AppendTo(q, l) = Append(Tail(q), l)
    BY <1>2 DEF AppendTo
  <2> QED
    BY <1>2, <2>1, <2>2, MaxLenAssumption
<1> QED
  BY <1>1, <1>2

LEMMA ReadOutputInv ==
    ASSUME Inv, NEW l \in Lines, ReadOutput(l)
    PROVE  Inv'
<1>1. /\ lines \in Seq(Lines) /\ Len(lines) <= MaxLen
      /\ produced \in Seq(Lines) /\ consumed \in Seq(Lines)
  BY DEF Inv, TypeOK
<1>2. /\ produced' = Append(produced, l)
      /\ lines' = AppendTo(lines, l)
      /\ UNCHANGED consumed
  BY DEF ReadOutput
<1>3. at' # "waiting" /\ at' \in {"idle", "check", "waiting", "between"}
  BY DEF ReadOutput, Woken, Inv, TypeOK
<1>4. overflow' \in BOOLEAN
  BY DEF ReadOutput, Inv, TypeOK
<1>5. TypeOK'
  <2>1. /\ lines' \in Seq(Lines) /\ Len(lines') <= MaxLen
        /\ produced' \in Seq(Lines)
    BY <1>1, <1>2, AppendToBounded
  <2> QED
    BY <1>3, <1>4, <2>1 DEF ReadOutput, Inv, TypeOK
<1>6. Unread'
  <2> SUFFICES ASSUME ~overflow' PROVE /\ Len(produced') = Len(consumed') + Len(lines')
                                       /\ \A i \in 1..Len(lines') :
                                            lines'[i] = produced'[Len(consumed') + i]
    BY DEF Unread
  <2>1. ~overflow /\ Len(lines) # MaxLen
    BY DEF ReadOutput
  <2>2. /\ Len(produced) = Len(consumed) + Len(lines)
        /\ \A i \in 1..Len(lines) : lines[i] = produced[Len(consumed) + i]
    BY <2>1 DEF Inv, Unread
  <2>3. /\ Len(lines') = Len(lines) + 1
        /\ lines'[Len(lines) + 1] = l
        /\ \A i \in 1..Len(lines) : lines'[i] = lines[i]
    BY <1>1, <1>2, <2>1, AppendToBounded
  <2>4. /\ Len(produced') = Len(produced) + 1
        /\ produced'[Len(produced) + 1] = l
        /\ \A i \in 1..Len(produced) : produced'[i] = produced[i]
    BY <1>1, <1>2
  <2>5. Len(consumed) \in Nat /\ Len(lines) \in Nat /\ Len(produced) \in Nat
    BY <1>1
  <2> QED
    <3>1. Len(produced') = Len(consumed') + Len(lines')
      BY <1>2, <2>2, <2>3, <2>4, <2>5
    <3>2. ASSUME NEW i \in 1..Len(lines')
          PROVE  lines'[i] = produced'[Len(consumed') + i]
      <4>1. CASE i \in 1..Len(lines)
        <5>1. Len(consumed) + i \in 1..Len(produced)
          BY <2>2, <2>5, <4>1
        <5> QED
          BY <1>2, <2>2, <2>3, <2>4, <4>1, <5>1
      <4>2. CASE i = Len(lines) + 1
        BY <1>2, <2>2, <2>3, <2>4, <2>5, <4>2
      <4> QED
        BY <2>3, <2>5, <4>1, <4>2
    <3> QED
      BY <3>1, <3>2
<1> QED
  BY <1>3, <1>5, <1>6 DEF Inv, NoLostWakeup

\* Taking the oldest line keeps the rest where it was.
LEMMA PopUnread ==
    ASSUME Inv, lines # <<>>, Pop, UNCHANGED produced
    PROVE  /\ lines' \in Seq(Lines) /\ Len(lines') <= MaxLen
           /\ consumed' \in Seq(Lines)
           /\ Unread'
           /\ ~overflow => /\ Len(consumed) < Len(produced)
                           /\ Head(lines) = produced[Len(consumed) + 1]
<1>1. /\ lines \in Seq(Lines) /\ Len(lines) <= MaxLen
      /\ produced \in Seq(Lines) /\ consumed \in Seq(Lines)
  BY DEF Inv, TypeOK
<1>2. lines' = Tail(lines) /\ consumed' = Append(consumed, Head(lines)) /\ overflow' = overflow
  BY DEF Pop
<1>3. /\ Head(lines) \in Lines /\ Head(lines) = lines[1] /\ Len(lines) >= 1
      /\ Tail(lines) \in Seq(Lines) /\ Len(Tail(lines)) = Len(lines) - 1
      /\ \A i \in 1..Len(lines) - 1 : Tail(lines)[i] = lines[i + 1]
  BY <1>1
<1>4. consumed' \in Seq(Lines) /\ Len(consumed') = Len(consumed) + 1
  BY <1>1, <1>2, <1>3
<1>5. ASSUME ~overflow
      PROVE  /\ Len(produced) = Len(consumed) + Len(lines)
             /\ \A i \in 1..Len(lines) : lines[i] = produced[Len(consumed) + i]
  BY <1>5 DEF Inv, Unread
<1>6. Len(consumed) \in Nat /\ Len(lines) \in Nat /\ MaxLen \in Nat
  BY <1>1, MaxLenAssumption
<1>7. Unread'
  <2> SUFFICES ASSUME ~overflow
               PROVE  /\ Len(produced) = Len(consumed') + Len(lines')
                      /\ \A i \in 1..Len(lines') :
                           lines'[i] = produced[Len(consumed') + i]
    BY <1>2 DEF Unread
  <2>1. Len(produced) = Len(consumed') + Len(lines')
    <3>1. Len(produced) = Len(consumed) + Len(lines)
      BY <1>5
    <3>2. Len(lines') = Len(lines) - 1 /\ Len(consumed') = Len(consumed) + 1
      BY <1>2, <1>3, <1>4
    <3> QED
      BY <1>6, <3>1, <3>2
  <2>2. ASSUME NEW i \in 1..Len(lines')
        PROVE  lines'[i] = produced[Len(consumed') + i]
    <3>1. i \in 1..Len(lines) - 1 /\ i + 1 \in 1..Len(lines)
      BY <1>2, <1>3, <1>6
    <3>2. lines'[i] = lines[i + 1]
      BY <1>2, <1>3, <3>1
    <3>3. lines[i + 1] = produced[Len(consumed) + (i + 1)]
      BY <1>5, <3>1
    <3>4. Len(consumed) + (i + 1) = Len(consumed') + i
      BY <1>4, <1>6, <3>1
    <3> QED
      BY <3>2, <3>3, <3>4
  <2> QED
    BY <2>1, <2>2
<1> QED
  BY <1>1, <1>2, <1>3, <1>4, <1>5, <1>6, <1>7

LEMMA CheckInv ==
    ASSUME Inv, Check
    PROVE  Inv'
<1>1. CASE UNCHANGED <<shared, consumed>>
  <2>1. /\ at' \in {"idle", "check", "waiting", "between"}
        /\ result' \in Results
    BY <1>1 DEF Check, Return, NoLine, Pop, Results, Inv, TypeOK
  <2>2. TypeOK'
    BY <1>1, <2>1 DEF Check, shared, Inv, TypeOK
  <2>3. Unread'
    BY <1>1 DEF Check, shared, Inv, Unread
  <2>4. NoLostWakeup'
    BY <1>1 DEF Check, Return, Pop, shared, NoLostWakeup
  <2> QED
    BY <2>2, <2>3, <2>4 DEF Inv
<1>2. CASE lines # <<>> /\ Pop
  <2>1. at' \in {"idle", "between"} /\ result' \in Results
    BY <1>2 DEF Pop, Results, Inv, TypeOK
  <2>2. UNCHANGED <<overflow, error, eof, reader, call, expired, produced, since>>
    BY <1>2 DEF Check, Pop
  <2>3. TypeOK'
    BY <1>2, <2>1, <2>2, PopUnread DEF Inv, TypeOK
  <2> QED
    BY <1>2, <2>1, <2>2, <2>3, PopUnread DEF Inv, NoLostWakeup
<1> QED
  BY <1>1, <1>2 DEF Check, Return

LEMMA StepInv ==
    ASSUME Inv, [Next]_vars
    PROVE  Inv'
<1> USE DEF Inv, TypeOK, Unread, NoLostWakeup, shared, driver
<1>1. CASE ReadFails
  BY <1>1 DEF ReadFails
<1>2. CASE ReaderEnds
  BY <1>2 DEF ReaderEnds, Woken
<1>3. ASSUME NEW c \in Calls, Begin(c)
      PROVE  Inv'
  <2>1. Len(consumed) \in Nat
    OBVIOUS
  <2> QED
    BY <1>3, <2>1 DEF Begin
<1>4. CASE Between
  BY <1>4 DEF Between, Results
<1>5. CASE Expire
  BY <1>5 DEF Expire, Woken
<1>6. CASE UNCHANGED vars
  BY <1>6 DEF vars
<1> QED
  BY <1>1, <1>2, <1>3, <1>4, <1>5, <1>6, ReadOutputInv, CheckInv
  DEF Next, Reader, Driver

LEMMA Invariance == Spec => []Inv
  BY InitInv, StepInv, PTL DEF Spec

\* The deque never exceeds its bound and every flag is in its range.
THEOREM OutputTypeCorrect == Spec => []TypeOK
<1>1. Inv => TypeOK
  BY DEF Inv
<1> QED
  BY Invariance, <1>1, PTL

\* A call waits only when there is nothing to tell it.
THEOREM WaitsOnlyForNews == Spec => []NoLostWakeup
<1>1. Inv => NoLostWakeup
  BY DEF Inv
<1> QED
  BY Invariance, <1>1, PTL

LEMMA StreamStep ==
    ASSUME Inv, [Next]_vars
    PROVE  [Stream!StreamNext]_(Stream!streamVars)
<1> USE DEF Stream!streamVars, shared, driver
<1>1. ASSUME NEW l \in Lines, ReadOutput(l)
      PROVE  Stream!StreamNext
  <2>1. Stream!Write(l)
    BY <1>1 DEF ReadOutput, Stream!Write, Inv, TypeOK
  <2> QED
    BY <2>1 DEF Stream!StreamNext
<1>2. CASE ReadFails
  BY <1>2 DEF ReadFails, Stream!StreamNext, Stream!Fail
<1>3. CASE ReaderEnds \/ Expire \/ Between \/ UNCHANGED vars
  BY <1>3 DEF ReaderEnds, Expire, Between, vars
<1>4. ASSUME NEW c \in Calls, Begin(c)
      PROVE  UNCHANGED Stream!streamVars
  BY <1>4 DEF Begin
<1>5. CASE Check
  <2>1. CASE UNCHANGED <<shared, consumed>>
    BY <1>5, <2>1 DEF Check
  <2>2. CASE ~overflow /\ ~error /\ lines # <<>> /\ Pop
    <3>1. /\ UNCHANGED <<produced, overflow, error>>
          /\ consumed' = Append(consumed, Head(lines))
      BY <1>5, <2>2 DEF Check, Pop
    <3>2. Stream!Read
      BY <2>2, <3>1, PopUnread DEF Stream!Read
    <3> QED
      BY <3>2 DEF Stream!StreamNext
  <2> QED
    BY <1>5, <2>1, <2>2 DEF Check, Return
<1> QED
  BY <1>1, <1>2, <1>3, <1>4, <1>5 DEF Next, Reader, Driver

\* Lines are read in order, each once, none missing, until a read raises.
THEOREM ImplementsLineStream == Spec => RefinesLineStream
<1>1. Init => Stream!StreamInit
  BY DEF Init, Stream!StreamInit
<1> QED
  BY <1>1, Invariance, StreamStep, PTL
  DEF Spec, RefinesLineStream, Stream!StreamSpec

-----------------------------------------------------------------------------
(***************************************************************************)
(* What wait_ready says.  The lines read are the first lines written, and  *)
(* while the call goes on none of those it took is the banner; after the   *)
(* end of the stream nothing more is written.                              *)
(***************************************************************************)
ReadPrefix ==
    /\ Len(consumed) <= Len(produced)
    /\ \A i \in 1..Len(consumed) : consumed[i] = produced[i]

Searching ==
    /\ since <= Len(consumed)
    /\ at # "idle" /\ call = "wait_ready" =>
         \A i \in since + 1 .. Len(consumed) : consumed[i] # "banner"

EndIsFinal == eof => reader = "done"

BannerInv == ReadPrefix /\ Searching /\ EndIsFinal /\ NotReadyIsTrue

\* The steps that take no line and return nothing.
LEMMA QuietBanner ==
    ASSUME Inv, BannerInv, UNCHANGED <<consumed, produced, since, call, result>>,
           eof => eof', eof' => reader' = "done",
           at = "idle" => at' = "idle" /\ expired' = expired,
           at' = "idle" => at = "idle"
    PROVE  BannerInv'
<1>1. ReadPrefix'
  BY DEF BannerInv, ReadPrefix
<1>2. Searching'
  BY DEF BannerInv, Searching
<1>3. EndIsFinal'
  BY DEF EndIsFinal
<1>4. NotReadyIsTrue'
  BY DEF BannerInv, NotReadyIsTrue
<1> QED
  BY <1>1, <1>2, <1>3, <1>4 DEF BannerInv

\* A line written while the stream is open comes after those read.
LEMMA ReadOutputBanner ==
    ASSUME Inv, BannerInv, NEW l \in Lines, ReadOutput(l)
    PROVE  BannerInv'
<1>1. /\ produced \in Seq(Lines) /\ consumed \in Seq(Lines)
      /\ produced' = Append(produced, l)
      /\ UNCHANGED <<consumed, since, call, result, expired, eof, reader>>
      /\ reader = "reading"
  BY DEF ReadOutput, Inv, TypeOK
<1>2. /\ Len(produced') = Len(produced) + 1
      /\ \A i \in 1..Len(produced) : produced'[i] = produced[i]
      /\ Len(consumed) \in Nat /\ Len(produced) \in Nat
  BY <1>1
<1>3. ~eof
  BY <1>1 DEF BannerInv, EndIsFinal
<1>4. at' = "idle" <=> at = "idle"
  BY DEF ReadOutput, Woken
<1>5. ReadPrefix'
  BY <1>1, <1>2 DEF BannerInv, ReadPrefix
<1>6. Searching' /\ EndIsFinal'
  BY <1>1, <1>3, <1>4 DEF BannerInv, Searching, EndIsFinal
<1>7. NotReadyIsTrue'
  BY <1>1, <1>3, <1>4 DEF BannerInv, NotReadyIsTrue
<1> QED
  BY <1>5, <1>6, <1>7 DEF BannerInv

\* A call takes a line: the next one written.
LEMMA PopBanner ==
    ASSUME Inv, BannerInv, Check, ~overflow, lines # <<>>, Pop
    PROVE  /\ BannerInv'
           /\ result' = "True" /\ at' = "idle" =>
                /\ Len(consumed') > since
                /\ consumed'[Len(consumed')] = "banner"
                /\ \A i \in since + 1 .. Len(consumed') - 1 : consumed'[i] # "banner"
<1> DEFINE l == Head(lines)
<1>1. /\ produced \in Seq(Lines) /\ consumed \in Seq(Lines) /\ since \in Nat
      /\ UNCHANGED <<produced, since, call, expired, eof, reader>>
      /\ consumed' = Append(consumed, l) /\ at # "idle"
  BY DEF Check, Pop, Inv, TypeOK
<1>2. /\ Len(consumed) < Len(produced)
      /\ l = produced[Len(consumed) + 1]
  BY <1>1, PopUnread
<1>3. /\ Len(consumed') = Len(consumed) + 1
      /\ consumed'[Len(consumed) + 1] = l
      /\ \A i \in 1..Len(consumed) : consumed'[i] = consumed[i]
      /\ Len(consumed) \in Nat /\ Len(produced) \in Nat
  <2> HIDE DEF l
  <2>1. l \in Lines
    BY <1>1, <1>2
  <2> QED
    BY <1>1, <2>1
<1>4. CASE call = "readline"
  <2>1. result' = "line" /\ at' = "idle"
    BY <1>4 DEF Pop
  <2> QED
    BY <1>1, <1>2, <1>3, <2>1
    DEF BannerInv, ReadPrefix, Searching, EndIsFinal, NotReadyIsTrue
<1>5. CASE call = "wait_ready"
  <2>1. \A i \in since + 1 .. Len(consumed) : consumed[i] # "banner"
    BY <1>1, <1>5 DEF BannerInv, Searching
  <2>2. since <= Len(consumed)
    BY DEF BannerInv, Searching
  <2>3. \A i \in since + 1 .. Len(consumed) : consumed'[i] # "banner"
    BY <1>1, <1>3, <2>1
  <2>4. ReadPrefix' /\ EndIsFinal'
    BY <1>1, <1>2, <1>3 DEF BannerInv, ReadPrefix, EndIsFinal
  <2>5. CASE l = "banner"
    <3>1. result' = "True" /\ at' = "idle"
      BY <1>5, <2>5 DEF Pop
    <3> QED
      BY <1>1, <1>3, <2>2, <2>3, <2>4, <2>5, <3>1 DEF BannerInv, Searching, NotReadyIsTrue
  <2>6. CASE l # "banner"
    <3>1. at' = "between"
      BY <1>5, <2>6 DEF Pop
    <3> QED
      BY <1>1, <1>3, <2>2, <2>3, <2>4, <2>6, <3>1 DEF BannerInv, Searching, NotReadyIsTrue
  <2> QED
    BY <2>5, <2>6
<1> QED
  BY <1>4, <1>5 DEF Inv, TypeOK, Calls

\* A call that returns without a line, or goes on waiting.
LEMMA CheckBanner ==
    ASSUME Inv, BannerInv, Check, UNCHANGED <<shared, consumed>>
    PROVE  BannerInv' /\ (result' # "True" \/ at' # "idle")
<1>1. /\ produced \in Seq(Lines) /\ consumed \in Seq(Lines) /\ since \in Nat
      /\ UNCHANGED <<produced, since, call, expired, reader, eof, overflow, lines, consumed>>
  BY DEF Check, shared, Inv, TypeOK
<1>2. ReadPrefix' /\ EndIsFinal'
  BY <1>1 DEF BannerInv, ReadPrefix, EndIsFinal
<1>3. Searching'
  BY <1>1 DEF BannerInv, Searching, Check
<1>4. CASE Return("RuntimeError")
  BY <1>2, <1>3, <1>4 DEF Return, BannerInv, NotReadyIsTrue
<1>5. CASE ~overflow /\ lines = <<>> /\ (eof \/ expired) /\ Return(NoLine)
  <2>1. result' \in {"None", "False"}
    BY <1>5 DEF Return, NoLine
  <2>2. NotReadyIsTrue'
    <3> SUFFICES ASSUME result' = "False", ~expired
                 PROVE  /\ eof /\ consumed = produced
                        /\ \A i \in since + 1 .. Len(produced) : produced[i] # "banner"
      BY <1>1 DEF NotReadyIsTrue
    <3>1. eof /\ call = "wait_ready"
      BY <1>5 DEF Return, NoLine, Inv, TypeOK, Calls
    <3>2. Len(produced) = Len(consumed)
      <4>1. Len(lines) = 0
        BY <1>5
      <4> QED
        BY <1>1, <1>5, <4>1 DEF Inv, Unread
    <3>3. consumed = produced
      BY <1>1, <3>2 DEF BannerInv, ReadPrefix
    <3>4. at # "idle"
      BY DEF Check
    <3> QED
      BY <3>1, <3>3, <3>4 DEF BannerInv, Searching
  <2> QED
    BY <1>2, <1>3, <2>1, <2>2 DEF BannerInv
<1>6. CASE at' = "waiting" /\ UNCHANGED result
  BY <1>2, <1>3, <1>6 DEF BannerInv, NotReadyIsTrue
<1>7. CASE lines # <<>> /\ Pop
  <2>1. Len(consumed') = Len(consumed) + 1
    BY <1>1, <1>7 DEF Pop, Inv, TypeOK
  <2> QED
    BY <1>1, <2>1
<1> QED
  BY <1>4, <1>5, <1>6, <1>7 DEF Check

LEMMA StepBanner == Inv /\ BannerInv /\ [Next]_vars => BannerInv'
<1> SUFFICES ASSUME Inv, BannerInv, [Next]_vars PROVE BannerInv'
  OBVIOUS
<1>1. ASSUME NEW l \in Lines, ReadOutput(l) PROVE BannerInv'
  BY <1>1, ReadOutputBanner
<1>2. CASE ReadFails
  BY <1>2, QuietBanner DEF ReadFails, driver, BannerInv, EndIsFinal
<1>3. CASE ReaderEnds
  BY <1>3, QuietBanner DEF ReaderEnds, Woken
<1>4. ASSUME NEW c \in Calls, Begin(c) PROVE BannerInv'
  <2>1. /\ UNCHANGED <<consumed, produced, eof, reader>> /\ at' = "check"
        /\ since' = Len(consumed) /\ Len(consumed) \in Nat
    BY <1>4 DEF Begin, shared, Inv, TypeOK
  <2> QED
    BY <2>1 DEF BannerInv, ReadPrefix, Searching, EndIsFinal, NotReadyIsTrue
<1>5. CASE Check
  <2>1. CASE UNCHANGED <<shared, consumed>>
    BY <1>5, <2>1, CheckBanner
  <2>2. CASE ~overflow /\ lines # <<>> /\ Pop
    BY <1>5, <2>2, PopBanner
  <2> QED
    BY <1>5, <2>1, <2>2 DEF Check, Return
<1>6. CASE Between
  <2>1. /\ UNCHANGED <<consumed, produced, since, call, expired, eof, reader>>
        /\ at = "between"
        /\ at' = "check" \/ expired
    BY <1>6 DEF Between, shared
  <2> QED
    BY <2>1 DEF BannerInv, ReadPrefix, Searching, EndIsFinal, NotReadyIsTrue
<1>7. CASE Expire
  BY <1>7, QuietBanner DEF Expire, Woken, shared, BannerInv, EndIsFinal
<1>8. CASE UNCHANGED vars
  BY <1>8, QuietBanner DEF vars, shared, driver, BannerInv, EndIsFinal
<1> QED
  BY <1>1, <1>2, <1>3, <1>4, <1>5, <1>6, <1>7, <1>8 DEF Next, Reader, Driver

LEMMA BannerInvariance == Spec => []BannerInv
<1>1. Init => BannerInv
  <2> SUFFICES ASSUME Init PROVE BannerInv
    OBVIOUS
  <2>1. Len(consumed) = 0 /\ Len(produced) = 0
    BY DEF Init
  <2> QED
    BY <2>1 DEF Init, BannerInv, ReadPrefix, Searching, EndIsFinal, NotReadyIsTrue
<1> QED
  BY <1>1, Invariance, StepBanner, PTL DEF Spec

\* wait_ready says False only after its deadline or after the end of a stream
\* without the banner, for any deque and any output.
THEOREM NotReadyIsJustified == Spec => []NotReadyIsTrue
<1>1. BannerInv => NotReadyIsTrue
  BY DEF BannerInv
<1> QED
  BY BannerInvariance, <1>1, PTL

\* wait_ready says True on the first banner it meets and takes no line after it.
THEOREM ReadyExactlyOnBanner == Spec => ReadyOnBanner
<1> DEFINE OnBanner ==
             result' = "True" /\ at' = "idle" /\ at # "idle" =>
               /\ Len(consumed') > since
               /\ consumed'[Len(consumed')] = "banner"
               /\ \A i \in since + 1 .. Len(consumed') - 1 : consumed'[i] # "banner"
<1>1. Inv /\ BannerInv /\ [Next]_vars => [OnBanner]_vars
  <2> SUFFICES ASSUME Inv, BannerInv, Next, result' = "True", at' = "idle", at # "idle"
               PROVE  OnBanner
    OBVIOUS
  <2>1. CASE Check
    <3>1. CASE UNCHANGED <<shared, consumed>>
      BY <2>1, <3>1, CheckBanner
    <3>2. CASE ~overflow /\ lines # <<>> /\ Pop
      BY <2>1, <3>2, PopBanner
    <3> QED
      BY <2>1, <3>1, <3>2 DEF Check, Return
  <2>2. CASE Between
    BY <2>2 DEF Between
  <2> QED
    BY <2>1, <2>2 DEF Next, Reader, Driver, ReadOutput, ReadFails, ReaderEnds, Begin,
                      Expire, Woken, driver
<1> QED
  BY <1>1, Invariance, BannerInvariance, PTL DEF Spec, ReadyOnBanner
=============================================================================
