------------------------- MODULE FlowCounterProofs -------------------------
(***************************************************************************)
(* For every size of the register, every range of its slots and every      *)
(* sequence of rounds whose labels agree with the parser: the test's dumps *)
(* differ by exactly the frames labelled as counted.                       *)
(***************************************************************************)
EXTENDS FlowCounter, SequenceTheorems, FiniteSetTheorems, TLAPS

Tags == {t \in Nat \X Nat : t[1] \in 1..Len(Batches) /\ t[2] \in Places(t[1])}
Values == 0..(Modulus - 1)

\* What waits in a queue, and that it waits there once.
Waiting(q) == {q[k] : k \in 1..Len(q)}
Once(q) == \A j, k \in 1..Len(q) : q[j] = q[k] => j = k

\* The frames of the round that were sent.
SentTags == {<<batch, i>> : i \in sent}

\* The places of the round whose frame ingress has counted in slot s.
CountedAt(s) ==
  {i \in sent : /\ <<batch, i>> \notin Waiting(inq)
                /\ Round.frames[i].counted /\ Slot(Round.frames[i]) = s}

TypeOK ==
  /\ register \in [Slots -> Values] /\ before \in [Slots -> Values]
  /\ batch \in 1..Len(Batches)
  /\ pc \in {"seed", "write", "before", "probe", "done"}
  /\ sent \subseteq Places(batch)
  /\ inq \in Seq(Tags) /\ outq \in Seq(Tags) /\ captured \subseteq Tags

\* No frame is in two places, and none is ahead of the rounds.
Apart ==
  /\ Once(inq) /\ Once(outq)
  /\ Waiting(inq) \cap Waiting(outq) = {}
  /\ captured \cap (Waiting(inq) \cup Waiting(outq)) = {}
  /\ \A t \in Waiting(inq) :
       IF pc \in {"probe", "done"} THEN t[1] <= batch ELSE t[1] < batch

\* Between two rounds, ingress holds nothing but frames it will drop.
Quiet ==
  pc # "probe" =>
    /\ \A t \in Waiting(inq) : ~Valid(Frame(t))
    /\ outq = <<>> /\ sent = {} /\ captured = {}

\* Within a round, what an earlier one left behind will be dropped, and what
\* is past ingress is valid and of this round.
Underway ==
  pc = "probe" =>
    /\ \A t \in Waiting(inq) : t \in SentTags \/ (t[1] < batch /\ ~Valid(Frame(t)))
    /\ \A t \in Waiting(outq) \cup captured : t \in SentTags /\ Valid(Frame(t))

\* The slots have moved by the frames counted so far.
Deltas ==
  pc = "probe" => \A s \in Slots : (register[s] - before[s]) % Modulus = Cardinality(CountedAt(s))

\* Between the two dumps of a seed no frame is counted.
Seeding == pc = "write" => register = before /\ Round.seed # <<>>

IInv == TypeOK /\ Apart /\ Quiet /\ Underway /\ Deltas /\ Seeding

-----------------------------------------------------------------------------
(* Queues whose elements are all different.                                *)

LEMMA TailOnce ==
  ASSUME NEW S, NEW q \in Seq(S), q # <<>>, Once(q)
  PROVE  /\ Head(q) \in S /\ Head(q) \in Waiting(q)
         /\ Tail(q) \in Seq(S) /\ Once(Tail(q))
         /\ Waiting(Tail(q)) = Waiting(q) \ {Head(q)}
<1> DEFINE n == Len(q)
           r == Tail(q)
<1>1. n \in Nat /\ n # 0 /\ Head(q) = q[1]  BY EmptySeq, LenProperties
<1>2. /\ Head(q) \in S /\ r \in Seq(S) /\ Len(r) = n - 1
      /\ \A i \in 1..(n - 1) : r[i] = q[i + 1]
  BY HeadTailProperties
<1> HIDE DEF n, r
<1>3. \A j, k \in 1..n : q[j] = q[k] => j = k  BY DEF Once, n
<1>4. Once(r)
  <2> SUFFICES ASSUME NEW j \in 1..(n - 1), NEW k \in 1..(n - 1), r[j] = r[k] PROVE j = k
    BY <1>2 DEF Once
  <2>1. j + 1 \in 1..n /\ k + 1 \in 1..n  BY <1>1
  <2>2. q[j + 1] = q[k + 1]  BY <1>2
  <2>3. j + 1 = k + 1  BY <1>3, <2>1, <2>2
  <2> QED BY <2>3
<1>5. Waiting(q) = {q[k] : k \in 1..n} /\ Waiting(r) = {r[k] : k \in 1..(n - 1)}
  BY <1>2 DEF Waiting, n
<1>6. 1 \in 1..n  BY <1>1
<1>7. ASSUME NEW e \in Waiting(r) PROVE e \in Waiting(q) \ {q[1]}
  <2>1. PICK k \in 1..(n - 1) : e = r[k]  BY <1>5
  <2>2. k + 1 \in 1..n /\ k + 1 # 1  BY <1>1
  <2>3. e = q[k + 1]  BY <1>2, <2>1
  <2> QED BY <1>3, <1>5, <1>6, <2>2, <2>3
<1>8. ASSUME NEW e \in Waiting(q), e # q[1] PROVE e \in Waiting(r)
  <2>1. PICK k \in 1..n : e = q[k]  BY <1>5
  <2>2. k # 1  BY <1>8, <2>1
  <2>3. k - 1 \in 1..(n - 1) /\ (k - 1) + 1 = k  BY <1>1, <2>2
  <2>4. e = r[k - 1]  BY <1>2, <2>1, <2>3
  <2> QED BY <1>5, <2>3, <2>4
<1>9. Head(q) \in Waiting(q)  BY <1>1, <1>5, <1>6
<1>10. Waiting(r) = Waiting(q) \ {q[1]}  BY <1>7, <1>8
<1> QED BY <1>1, <1>2, <1>4, <1>9, <1>10 DEF r

LEMMA AppendOnce ==
  ASSUME NEW S, NEW q \in Seq(S), NEW e \in S, Once(q), e \notin Waiting(q)
  PROVE  /\ Append(q, e) \in Seq(S) /\ Once(Append(q, e))
         /\ Waiting(Append(q, e)) = Waiting(q) \cup {e}
<1> DEFINE n == Len(q)
           r == Append(q, e)
<1>1. n \in Nat  BY LenProperties
<1>2. /\ r \in Seq(S) /\ Len(r) = n + 1
      /\ \A i \in 1..n : r[i] = q[i]
      /\ r[n + 1] = e
  BY AppendProperties
<1> HIDE DEF n, r
<1>3. \A j, k \in 1..n : q[j] = q[k] => j = k  BY DEF Once, n
<1>4. \A k \in 1..n : q[k] # e  BY DEF Waiting, n
<1>5. \A k \in 1..(n + 1) : k \in 1..n \/ k = n + 1  BY <1>1
<1>6. Once(r)
  <2> SUFFICES ASSUME NEW j \in 1..(n + 1), NEW k \in 1..(n + 1), r[j] = r[k] PROVE j = k
    BY <1>2 DEF Once
  <2> QED BY <1>2, <1>3, <1>4, <1>5
<1>7. Waiting(q) = {q[k] : k \in 1..n} /\ Waiting(r) = {r[k] : k \in 1..(n + 1)}
  BY <1>2 DEF Waiting, n
<1>8. n + 1 \in 1..(n + 1) /\ \A k \in 1..n : k \in 1..(n + 1)  BY <1>1
<1>9. Waiting(r) = Waiting(q) \cup {e}  BY <1>2, <1>5, <1>7, <1>8
<1> QED BY <1>2, <1>6, <1>9 DEF r

-----------------------------------------------------------------------------
(* Arithmetic modulo a slot's range.                                       *)

LEMMA SmallModulus ==
  ASSUME NEW M \in Nat \ {0}, NEW d \in Int, -M < d, d < M
  PROVE  d % M = IF d >= 0 THEN d ELSE d + M
  OBVIOUS

LEMMA NextValue ==
  ASSUME NEW M \in Nat \ {0}, NEW x \in 0..(M - 1)
  PROVE  (x + 1) % M = IF x + 1 = M THEN 0 ELSE x + 1
  OBVIOUS

\* One count more moves the difference to an earlier value by one.
LEMMA NextDelta ==
  ASSUME NEW M \in Nat \ {0}, NEW x \in 0..(M - 1), NEW b \in 0..(M - 1),
         NEW n \in Nat, n + 1 < M, (x - b) % M = n
  PROVE  (((x + 1) % M) - b) % M = n + 1
<1> DEFINE y == (x + 1) % M
<1>1. y = IF x + 1 = M THEN 0 ELSE x + 1  BY NextValue
<1> HIDE DEF y
<1>2. y \in 0..(M - 1)  BY <1>1
<1>3. n = IF x - b >= 0 THEN x - b ELSE (x - b) + M  BY SmallModulus
<1>4. y - b \in Int /\ -M < y - b /\ y - b < M  BY <1>2
<1>5. (y - b) % M = IF y - b >= 0 THEN y - b ELSE (y - b) + M
  BY <1>4, SmallModulus
<1>6. (y - b) % M = n + 1  BY <1>1, <1>2, <1>3, <1>5
<1> QED BY <1>6 DEF y

LEMMA SlotInRange ==
  ASSUME NEW b \in 1..Len(Batches), NEW i \in Places(b)
  PROVE  Slot(Frame(<<b, i>>)) \in Slots
  BY LabelsAssumption, SizeAssumption DEF Slot, Slots

-----------------------------------------------------------------------------
(* What the invariant says of frames and counts.                           *)

LEMMA EmptyQueue == Waiting(<<>>) = {} /\ Once(<<>>)
  BY DEF Waiting, Once

LEMMA TagParts ==
  ASSUME NEW t \in Tags
  PROVE  /\ t[1] \in 1..Len(Batches) /\ t[2] \in Places(t[1])
         /\ t = <<t[1], t[2]>> /\ Frame(t) = Batches[t[1]].frames[t[2]]
  BY DEF Tags, Frame

LEMMA PlaceTag ==
  ASSUME NEW b \in 1..Len(Batches), NEW i \in Places(b)
  PROVE  <<b, i>> \in Tags
<1>1. i \in Nat /\ b \in Nat  BY BatchesAssumption DEF Places
<1> QED BY <1>1 DEF Tags

LEMMA PlacesFinite ==
  ASSUME NEW b \in 1..Len(Batches)
  PROVE  /\ IsFiniteSet(Places(b))
         /\ \A S \in SUBSET Places(b) : IsFiniteSet(S) /\ Cardinality(S) \in Nat
<1> DEFINE n == Len(Batches[b].frames)
<1>1. n \in Int /\ 1 \in Int /\ Places(b) = 1..n  BY BatchesAssumption DEF Places
<1> HIDE DEF n
<1>2. IsFiniteSet(Places(b))  BY <1>1, FS_Interval
<1>3. \A S \in SUBSET Places(b) : IsFiniteSet(S)  BY <1>2, FS_Subset
<1> QED BY <1>2, <1>3, FS_CardinalityType

\* One more counted frame of the round still fits into a slot's range.
LEMMA RoomInSlot ==
  ASSUME TypeOK, NEW s \in Slots, NEW i \in Places(batch), Round.frames[i].counted,
         i \notin CountedAt(s)
  PROVE  /\ Cardinality(CountedAt(s)) \in Nat
         /\ Cardinality(CountedAt(s)) + 1 < Modulus
         /\ Cardinality(CountedAt(s) \cup {i}) = Cardinality(CountedAt(s)) + 1
<1> DEFINE All == {j \in Places(batch) : Frame(<<batch, j>>).counted}
           Now == CountedAt(s)
<1>1. batch \in 1..Len(Batches) /\ sent \subseteq Places(batch)  BY DEF TypeOK
<1>2. \A j \in Places(batch) : Round.frames[j] = Frame(<<batch, j>>)
  BY DEF Round, Frame
<1>3. Now \in SUBSET All /\ Now \cup {i} \in SUBSET All
  BY <1>1, <1>2 DEF CountedAt
<1>4. All \in SUBSET Places(batch)  OBVIOUS
<1>5. IsFiniteSet(All) /\ Cardinality(All) \in Nat /\ Cardinality(All) < Modulus
  BY <1>1, <1>4, PlacesFinite, BatchesAssumption
<1> HIDE DEF All, Now
<1>6. IsFiniteSet(Now) /\ Cardinality(Now) \in Nat
  BY <1>3, <1>5, FS_Subset, FS_CardinalityType
<1>7. Cardinality(Now \cup {i}) = Cardinality(Now) + 1
  BY <1>6, FS_AddElement DEF Now
<1>8. Cardinality(Now \cup {i}) <= Cardinality(All)
  BY <1>3, <1>5, FS_Subset
<1>9. Cardinality(Now) + 1 < Modulus  BY <1>5, <1>6, <1>7, <1>8, SizeAssumption
<1> QED BY <1>6, <1>7, <1>9 DEF Now

-----------------------------------------------------------------------------
(* Each step keeps the invariant.                                          *)

\* A step of the test between two rounds.
LEMMA BetweenStep ==
  ASSUME IInv, {pc, pc'} \subseteq {"seed", "write", "before"},
         UNCHANGED <<batch, sent, inq, outq, captured>>,
         register' \in [Slots -> Values], before' \in [Slots -> Values],
         pc' = "write" => register' = before' /\ Round.seed # <<>>
  PROVE  IInv'
<1>1. TypeOK'  BY DEF IInv, TypeOK
<1>2. Apart'  BY DEF IInv, Apart, Waiting
<1>3. Quiet'  BY DEF IInv, Quiet, Waiting
<1>4. Underway' /\ Deltas'  BY DEF Underway, Deltas
<1>5. Seeding'  BY DEF Seeding, Round
<1> QED BY <1>1, <1>2, <1>3, <1>4, <1>5 DEF IInv

LEMMA SeedReadStep == IInv /\ SeedRead => IInv'
<1> SUFFICES ASSUME IInv, SeedRead PROVE IInv'  OBVIOUS
<1>1. register \in [Slots -> Values] /\ before \in [Slots -> Values]  BY DEF IInv, TypeOK
<1>2. pc = "seed" /\ UNCHANGED <<register, batch, sent, inq, outq, captured>>
  BY DEF SeedRead
<1>3. CASE Round.seed = <<>>
  BY <1>1, <1>2, <1>3, BetweenStep DEF SeedRead
<1>4. CASE Round.seed # <<>>
  BY <1>1, <1>2, <1>4, BetweenStep DEF SeedRead
<1> QED BY <1>3, <1>4

\* Since no frame was counted after the first dump, the seed is all that differs.
LEMMA SeedWriteStep == IInv /\ SeedWrite => IInv'
<1> SUFFICES ASSUME IInv, SeedWrite PROVE IInv'  OBVIOUS
<1> DEFINE slot == Round.seed[1]
           value == Round.seed[2]
<1>1. /\ register \in [Slots -> Values] /\ before \in [Slots -> Values]
      /\ batch \in 1..Len(Batches)
  BY DEF IInv, TypeOK
<1>2. /\ pc = "write" /\ UNCHANGED <<batch, before, sent, inq, outq, captured>>
      /\ register' = [register EXCEPT ![slot] = value]
      /\ pc' = IF register' = [before EXCEPT ![slot] = value] THEN "before" ELSE "failed"
  BY DEF SeedWrite
<1>3. register = before /\ Round.seed # <<>>  BY <1>2 DEF IInv, Seeding
<1>4. Round.seed \in Slots \X Values
  BY <1>1, <1>3, BatchesAssumption DEF Round, Values
<1>5. slot \in Slots /\ value \in Values  BY <1>4
<1> HIDE DEF slot, value
<1>6. pc' = "before"  BY <1>2, <1>3
<1>7. register' \in [Slots -> Values]  BY <1>1, <1>2, <1>5
<1> QED BY <1>1, <1>2, <1>6, <1>7, BetweenStep

LEMMA DumpBeforeStep == IInv /\ DumpBefore => IInv'
<1> SUFFICES ASSUME IInv, DumpBefore PROVE IInv'  OBVIOUS
<1>1. /\ pc = "before" /\ pc' = "probe" /\ before' = register
      /\ UNCHANGED <<register, batch, sent, inq, outq, captured>>
  BY DEF DumpBefore
<1>2. /\ \A t \in Waiting(inq) : ~Valid(Frame(t)) /\ t[1] < batch
      /\ outq = <<>> /\ sent = {} /\ captured = {}
  BY <1>1 DEF IInv, Quiet, Apart
<1>3. batch \in Nat /\ \A t \in Waiting(inq) : t[1] \in Nat
  <2>1. inq \in Seq(Tags) /\ batch \in Nat  BY DEF IInv, TypeOK
  <2>2. \A t \in Waiting(inq) : t \in Tags  BY <2>1, ElementOfSeq DEF Waiting
  <2> QED BY <2>1, <2>2 DEF Tags
<1>4. TypeOK'  BY <1>1 DEF IInv, TypeOK
<1>5. Apart'
  <2>1. \A t \in Waiting(inq) : t[1] <= batch  BY <1>2, <1>3
  <2> QED BY <1>1, <2>1 DEF IInv, Apart, Waiting
<1>6. Quiet' /\ Seeding'  BY <1>1 DEF Quiet, Seeding
<1>7. Underway'
  <2>1. Waiting(outq) = {}  BY <1>2, EmptyQueue
  <2> QED BY <1>1, <1>2, <2>1 DEF Underway, Waiting
<1>8. Deltas'
  <2> SUFFICES ASSUME NEW s \in Slots
               PROVE  (register[s] - register[s]) % Modulus = Cardinality(CountedAt(s)')
    BY <1>1 DEF Deltas
  <2>1. CountedAt(s)' = {}  BY <1>1, <1>2 DEF CountedAt
  <2>2. register[s] \in Int  BY DEF IInv, TypeOK, Values
  <2>3. register[s] - register[s] = 0  BY <2>2
  <2>4. 0 % Modulus = 0  BY SizeAssumption, SmallModulus
  <2> QED BY <2>1, <2>3, <2>4, FS_EmptySet
<1> QED BY <1>4, <1>5, <1>6, <1>7, <1>8 DEF IInv

LEMMA SendStep == ASSUME NEW s \in Senders, IInv, Send(s) PROVE IInv'
<1>1. PICK i \in Of(s) \ sent :
        /\ sent' = sent \cup {i}
        /\ inq' = Append(inq, <<batch, i>>)
        /\ pc = "probe" /\ UNCHANGED <<register, batch, pc, before, outq, captured>>
  BY DEF Send
<1> DEFINE t == <<batch, i>>
<1>2. batch \in 1..Len(Batches) /\ i \in Places(batch) /\ i \notin sent
  BY <1>1 DEF IInv, TypeOK, Of
<1>3. t \in Tags /\ t[1] = batch /\ t[2] = i  BY <1>2, PlaceTag
<1>4. t \notin SentTags  BY <1>2 DEF SentTags
<1>5. batch \in Nat  BY <1>2
<1>6. t \notin Waiting(inq) /\ t \notin Waiting(outq) /\ t \notin captured
  BY <1>1, <1>3, <1>4, <1>5 DEF IInv, Underway
<1>7. inq \in Seq(Tags) /\ Once(inq)  BY DEF IInv, TypeOK, Apart
<1>8. inq' \in Seq(Tags) /\ Once(inq)' /\ Waiting(inq)' = Waiting(inq) \cup {t}
  <2>1. /\ Append(inq, t) \in Seq(Tags) /\ Once(Append(inq, t))
        /\ Waiting(Append(inq, t)) = Waiting(inq) \cup {t}
    BY <1>3, <1>6, <1>7, AppendOnce
  <2> QED BY <1>1, <2>1
<1>9. SentTags' = SentTags \cup {t}  BY <1>1 DEF SentTags
<1>10. Waiting(outq)' = Waiting(outq)  BY <1>1
<1> HIDE DEF t
<1>11. TypeOK'  BY <1>1, <1>2, <1>8 DEF IInv, TypeOK
<1>12. Apart'
  <2>1. Once(outq)'  BY <1>1 DEF IInv, Apart
  <2>2. \A u \in Waiting(inq)' : u[1] <= batch
    BY <1>1, <1>3, <1>5, <1>8 DEF IInv, Apart
  <2>3. /\ Waiting(inq)' \cap Waiting(outq)' = {}
        /\ captured' \cap (Waiting(inq)' \cup Waiting(outq)') = {}
    BY <1>1, <1>6, <1>8, <1>10 DEF IInv, Apart
  <2> QED BY <1>1, <1>8, <2>1, <2>2, <2>3 DEF Apart
<1>13. Quiet' /\ Seeding'  BY <1>1 DEF Quiet, Seeding
<1>14. Underway'
  <2>1. \A u \in Waiting(inq)' : u \in SentTags' \/ (u[1] < batch' /\ ~Valid(Frame(u)))
    BY <1>1, <1>8, <1>9 DEF IInv, Underway
  <2>2. \A u \in Waiting(outq)' \cup captured' : u \in SentTags' /\ Valid(Frame(u))
    BY <1>1, <1>9, <1>10 DEF IInv, Underway
  <2> QED BY <2>1, <2>2 DEF Underway
<1>15. Deltas'
  <2> SUFFICES ASSUME NEW c \in Slots PROVE CountedAt(c)' = CountedAt(c)
    BY <1>1 DEF IInv, Deltas
  <2>1. <<batch, i>> \in Waiting(inq)'  BY <1>8 DEF t
  <2>2. \A j \in sent : <<batch, j>> # t  BY <1>2 DEF t
  <2>3. \A j \in sent : <<batch, j>> \in Waiting(inq)' <=> <<batch, j>> \in Waiting(inq)
    BY <1>8, <2>2
  <2>4. Round' = Round  BY <1>1 DEF Round
  <2> QED BY <1>1, <2>1, <2>3, <2>4 DEF CountedAt
<1> QED BY <1>11, <1>12, <1>13, <1>14, <1>15 DEF IInv

\* A frame of an earlier round, or an invalid one of this round, is dropped.
LEMMA DropStep ==
  ASSUME IInv, inq # <<>>, ~Valid(Frame(Head(inq))), inq' = Tail(inq),
         UNCHANGED <<register, outq, batch, pc, before, sent, captured>>
  PROVE  IInv'
<1> DEFINE t == Head(inq)
<1>1. inq \in Seq(Tags) /\ Once(inq)  BY DEF IInv, TypeOK, Apart
<1>2. /\ t \in Tags /\ t \in Waiting(inq)
      /\ inq' \in Seq(Tags) /\ Once(inq)' /\ Waiting(inq)' = Waiting(inq) \ {t}
  BY <1>1, TailOnce
<1>3. ~Valid(Frame(t))  OBVIOUS
<1> HIDE DEF t
<1>4. Waiting(outq)' = Waiting(outq) /\ SentTags' = SentTags  BY DEF SentTags
<1>5. TypeOK'  BY <1>2 DEF IInv, TypeOK
<1>6. Apart'  BY <1>2, <1>4 DEF IInv, Apart, Once
<1>7. Quiet' /\ Seeding'  BY <1>2 DEF IInv, Quiet, Seeding, Round
<1>8. Underway'  BY <1>2, <1>4 DEF IInv, Underway
<1>9. Deltas'
  <2> SUFFICES ASSUME NEW c \in Slots PROVE CountedAt(c)' = CountedAt(c)
    BY DEF IInv, Deltas
  <2>1. batch \in 1..Len(Batches) /\ sent \subseteq Places(batch)  BY DEF IInv, TypeOK
  <2>2. ASSUME NEW i \in sent, <<batch, i>> = t PROVE ~Round.frames[i].counted
    BY <1>3, <2>1, <2>2, LabelsAssumption DEF Round, Frame
  <2>3. \A i \in sent : /\ Round.frames[i].counted => <<batch, i>> # t
                        /\ <<batch, i>> # t =>
                             (<<batch, i>> \in Waiting(inq)' <=> <<batch, i>> \in Waiting(inq))
    BY <1>2, <2>2
  <2>4. Round' = Round  BY DEF Round
  <2> QED BY <2>3, <2>4 DEF CountedAt
<1> QED BY <1>5, <1>6, <1>7, <1>8, <1>9 DEF IInv

\* A valid frame: it is of this round, and counted once if it is UDP.
LEMMA ForwardStep ==
  ASSUME IInv, inq # <<>>, Valid(Frame(Head(inq))), Ingress
  PROVE  IInv'
<1> DEFINE t == Head(inq)
           slot == Slot(Frame(t))
<1>1. /\ inq' = Tail(inq) /\ outq' = Append(outq, t)
      /\ UNCHANGED <<batch, pc, before, sent, captured>>
      /\ Udp(Frame(t)) => register' = [register EXCEPT ![slot] = (@ + 1) % Modulus]
      /\ ~Udp(Frame(t)) => register' = register
  BY DEF Ingress
<1>2. /\ inq \in Seq(Tags) /\ outq \in Seq(Tags) /\ Once(inq) /\ Once(outq)
      /\ batch \in 1..Len(Batches) /\ sent \subseteq Places(batch)
      /\ register \in [Slots -> Values] /\ before \in [Slots -> Values]
  BY DEF IInv, TypeOK, Apart
<1>3. /\ t \in Tags /\ t \in Waiting(inq)
      /\ inq' \in Seq(Tags) /\ Once(inq)' /\ Waiting(inq)' = Waiting(inq) \ {t}
  BY <1>1, <1>2, TailOnce
<1>4. t \notin Waiting(outq) /\ t \notin captured  BY <1>3 DEF IInv, Apart
<1>5. outq' \in Seq(Tags) /\ Once(outq)' /\ Waiting(outq)' = Waiting(outq) \cup {t}
  <2>1. /\ Append(outq, t) \in Seq(Tags) /\ Once(Append(outq, t))
        /\ Waiting(Append(outq, t)) = Waiting(outq) \cup {t}
    BY <1>2, <1>3, <1>4, AppendOnce
  <2> QED BY <1>1, <2>1
<1>6. pc = "probe" /\ t \in SentTags  BY <1>3 DEF IInv, Quiet, Underway
<1>7. PICK i \in sent : t = <<batch, i>>  BY <1>6 DEF SentTags
<1>8. i \in Places(batch) /\ Frame(t) = Round.frames[i]  BY <1>2, <1>7 DEF Round, Frame
<1>9. slot \in Slots /\ (Round.frames[i].counted <=> Udp(Frame(t)))
  <2>1. Frame(<<batch, i>>).counted <=> Valid(Frame(<<batch, i>>)) /\ Udp(Frame(<<batch, i>>))
    BY <1>2, <1>8, LabelsAssumption
  <2>2. Slot(Frame(<<batch, i>>)) \in Slots  BY <1>2, <1>8, SlotInRange
  <2> QED BY <1>7, <1>8, <2>1, <2>2
<1>10. Valid(Frame(t)) /\ slot = Slot(Round.frames[i])  BY <1>8
<1> HIDE DEF t, slot
<1>11. SentTags' = SentTags /\ Round' = Round  BY <1>1 DEF SentTags, Round
<1>12. register' \in [Slots -> Values]
  <2>1. (register[slot] + 1) % Modulus \in Values
    BY <1>2, <1>9, NextValue, SizeAssumption DEF Values
  <2> QED BY <1>1, <1>2, <1>9, <2>1
<1>13. TypeOK'  BY <1>1, <1>3, <1>5, <1>12 DEF IInv, TypeOK
<1>14. Apart'
  <2>1. \A u \in Waiting(inq)' : u[1] <= batch  BY <1>3, <1>6 DEF IInv, Apart
  <2>2. /\ Waiting(inq)' \cap Waiting(outq)' = {}
        /\ captured' \cap (Waiting(inq)' \cup Waiting(outq)') = {}
    BY <1>1, <1>3, <1>4, <1>5 DEF IInv, Apart
  <2> QED BY <1>1, <1>3, <1>5, <1>6, <2>1, <2>2 DEF Apart
<1>15. Quiet' /\ Seeding'  BY <1>1, <1>6 DEF Quiet, Seeding
<1>16. Underway'
  BY <1>1, <1>3, <1>5, <1>6, <1>10, <1>11 DEF IInv, Underway
<1>17. Deltas'
  <2> SUFFICES ASSUME NEW c \in Slots
               PROVE  (register'[c] - before[c]) % Modulus = Cardinality(CountedAt(c)')
    BY <1>1 DEF Deltas
  <2>1. (register[c] - before[c]) % Modulus = Cardinality(CountedAt(c))
    BY <1>6 DEF IInv, Deltas
  <2>2. \A j \in sent : <<batch, j>> \notin Waiting(inq)' <=> <<batch, j>> \notin Waiting(inq) \/ j = i
    BY <1>3, <1>7
  <2>3. CASE Udp(Frame(t)) /\ c = slot
    <3>1. Round.frames[i].counted  BY <1>9, <2>3
    <3>2. i \notin CountedAt(c)  BY <1>3, <1>7 DEF CountedAt
    <3>3. CountedAt(c)' = CountedAt(c) \cup {i}
      BY <1>1, <1>10, <1>11, <2>2, <2>3, <3>1 DEF CountedAt
    <3>4. /\ Cardinality(CountedAt(c)) \in Nat
          /\ Cardinality(CountedAt(c)) + 1 < Modulus
          /\ Cardinality(CountedAt(c)') = Cardinality(CountedAt(c)) + 1
      BY <1>8, <3>1, <3>2, <3>3, RoomInSlot DEF IInv
    <3>5. register[c] \in 0..(Modulus - 1) /\ before[c] \in 0..(Modulus - 1)
      BY <1>2 DEF Values
    <3>6. register'[c] = (register[c] + 1) % Modulus  BY <1>1, <1>2, <2>3
    <3>7. (((register[c] + 1) % Modulus) - before[c]) % Modulus = Cardinality(CountedAt(c)) + 1
      BY <2>1, <3>4, <3>5, NextDelta, SizeAssumption
    <3> QED BY <3>4, <3>6, <3>7
  <2>4. CASE ~(Udp(Frame(t)) /\ c = slot)
    <3>1. register'[c] = register[c]  BY <1>1, <1>2, <1>9, <2>4
    <3>2. ~(Round.frames[i].counted /\ Slot(Round.frames[i]) = c)  BY <1>9, <1>10, <2>4
    <3>3. CountedAt(c)' = CountedAt(c)
      BY <1>1, <1>11, <2>2, <3>2 DEF CountedAt
    <3> QED BY <2>1, <3>1, <3>3
  <2> QED BY <2>3, <2>4
<1> QED BY <1>13, <1>14, <1>15, <1>16, <1>17 DEF IInv

LEMMA IngressStep == IInv /\ Ingress => IInv'
<1> SUFFICES ASSUME IInv, Ingress PROVE IInv'  OBVIOUS
<1>1. CASE Valid(Frame(Head(inq)))  BY <1>1, ForwardStep DEF Ingress
<1>2. CASE ~Valid(Frame(Head(inq)))
  <2>1. /\ inq # <<>> /\ inq' = Tail(inq)
        /\ UNCHANGED <<register, outq, batch, pc, before, sent, captured>>
    BY <1>2 DEF Ingress
  <2> QED BY <1>2, <2>1, DropStep
<1> QED BY <1>1, <1>2

LEMMA DeliverStep == IInv /\ Deliver => IInv'
<1> SUFFICES ASSUME IInv, Deliver PROVE IInv'  OBVIOUS
<1> DEFINE t == Head(outq)
<1>1. /\ outq # <<>> /\ outq' = Tail(outq) /\ captured' = captured \cup {t}
      /\ UNCHANGED <<register, batch, pc, before, sent, inq>>
  BY DEF Deliver
<1>2. outq \in Seq(Tags) /\ Once(outq)  BY DEF IInv, TypeOK, Apart
<1>3. /\ t \in Tags /\ t \in Waiting(outq)
      /\ outq' \in Seq(Tags) /\ Once(outq)' /\ Waiting(outq)' = Waiting(outq) \ {t}
  BY <1>1, <1>2, TailOnce
<1> HIDE DEF t
<1>4. pc = "probe"  BY <1>1 DEF IInv, Quiet
<1>5. /\ Waiting(inq)' = Waiting(inq) /\ SentTags' = SentTags
      /\ \A c : CountedAt(c)' = CountedAt(c)
  BY <1>1 DEF SentTags, CountedAt, Round, Waiting
<1>6. TypeOK'  BY <1>1, <1>3 DEF IInv, TypeOK
<1>7. Apart'  BY <1>1, <1>3, <1>5 DEF IInv, Apart, Once
<1>8. Quiet' /\ Seeding'  BY <1>1, <1>4 DEF Quiet, Seeding
<1>9. Underway'  BY <1>1, <1>3, <1>4, <1>5 DEF IInv, Underway
<1>10. Deltas'  BY <1>1, <1>5 DEF IInv, Deltas
<1> QED BY <1>6, <1>7, <1>8, <1>9, <1>10 DEF IInv

\* The capture holds allowed frames of the round only; having as many as
\* there are, it has them all, and none is left before ingress or egress.
LEMMA CaptureIsAllowed ==
  ASSUME IInv, Check
  PROVE  captured = Allowed
<1>1. /\ pc = "probe" /\ sent = Places(batch)
      /\ Cardinality(captured) >= Cardinality(Allowed)
  BY DEF Check
<1>2. batch \in 1..Len(Batches)  BY DEF IInv, TypeOK
<1>3. \A i \in Places(batch) : Round.frames[i].allowed <=> Valid(Frame(<<batch, i>>))
  BY <1>2, LabelsAssumption DEF Round, Frame
<1>4. Allowed = {t \in SentTags : Valid(Frame(t))}
  BY <1>1, <1>3 DEF Allowed, SentTags
<1>5. captured \subseteq Allowed  BY <1>1, <1>4 DEF IInv, Underway
<1>6. IsFiniteSet(Allowed)
  <2>1. IsFiniteSet(SentTags)
    <3>1. IsFiniteSet({batch}) /\ IsFiniteSet(Places(batch))
      BY <1>2, PlacesFinite, FS_Singleton
    <3>2. IsFiniteSet({batch} \X Places(batch))  BY <3>1, FS_Product
    <3>3. SentTags \subseteq {batch} \X Places(batch)  BY <1>1 DEF SentTags
    <3> QED BY <3>2, <3>3, FS_Subset
  <2> QED BY <1>4, <2>1, FS_Subset
<1>7. IsFiniteSet(captured) /\ Cardinality(captured) \in Nat /\ Cardinality(Allowed) \in Nat
  BY <1>5, <1>6, FS_Subset, FS_CardinalityType
<1>8. Cardinality(captured) <= Cardinality(Allowed)  BY <1>5, <1>6, FS_Subset
<1>9. Cardinality(Allowed) = Cardinality(captured)  BY <1>1, <1>7, <1>8
<1> QED BY <1>5, <1>6, <1>9, FS_Subset

LEMMA CheckPasses == IInv /\ Check => DeliveryRight /\ CountsRight
<1> SUFFICES ASSUME IInv, Check PROVE DeliveryRight /\ CountsRight  OBVIOUS
<1>1. captured = Allowed  BY CaptureIsAllowed
<1>2. pc = "probe" /\ sent = Places(batch)  BY DEF Check
<1>3. batch \in 1..Len(Batches)  BY DEF IInv, TypeOK
<1>4. DeliveryRight  BY <1>1 DEF DeliveryRight
<1>5. ASSUME NEW i \in sent, Round.frames[i].counted PROVE <<batch, i>> \notin Waiting(inq)
  <2>1. Valid(Frame(<<batch, i>>)) /\ Round.frames[i].allowed
    BY <1>2, <1>3, <1>5, LabelsAssumption DEF Round, Frame
  <2>2. <<batch, i>> \in captured  BY <1>1, <1>2, <2>1 DEF Allowed
  <2> QED BY <2>2 DEF IInv, Apart
<1>6. ASSUME NEW s \in Slots PROVE CountedAt(s) =
        {i \in Places(batch) : Round.frames[i].counted /\ Slot(Round.frames[i]) = s}
  BY <1>2, <1>5 DEF CountedAt
<1>7. CountsRight  BY <1>2, <1>6 DEF IInv, Deltas, CountsRight, Expected
<1> QED BY <1>4, <1>7

LEMMA CheckStep == IInv /\ Check => IInv'
<1> SUFFICES ASSUME IInv, Check PROVE IInv'  OBVIOUS
<1>1. DeliveryRight /\ CountsRight  BY CheckPasses
<1>2. captured = Allowed  BY CaptureIsAllowed
<1>3. /\ pc = "probe" /\ sent = Places(batch)
      /\ sent' = {} /\ captured' = {} /\ UNCHANGED <<register, before, inq, outq>>
      /\ \/ batch < Len(Batches) /\ batch' = batch + 1 /\ pc' = "seed"
         \/ batch' = batch /\ pc' = "done"
  BY <1>1 DEF Check
<1>4. batch \in 1..Len(Batches) /\ Len(Batches) \in Nat  BY BatchesAssumption DEF IInv, TypeOK
<1>5. \A i \in Places(batch) : Round.frames[i].allowed <=> Valid(Frame(<<batch, i>>))
  BY <1>4, LabelsAssumption DEF Round, Frame
<1>6. \A t \in SentTags : Valid(Frame(t)) => t \in captured
  BY <1>2, <1>3, <1>5 DEF SentTags, Allowed
<1>7. \A t \in Waiting(inq) : ~Valid(Frame(t))  BY <1>3, <1>6 DEF IInv, Underway, Apart
<1>8. outq = <<>>
  <2>1. Waiting(outq) = {}  BY <1>3, <1>6 DEF IInv, Underway, Apart
  <2>2. outq \in Seq(Tags)  BY DEF IInv, TypeOK
  <2>3. outq # <<>> => Head(outq) \in Waiting(outq)  BY <2>2, TailOnce DEF IInv, Apart
  <2> QED BY <2>1, <2>3
<1>9. TypeOK'  BY <1>3, <1>4 DEF IInv, TypeOK
<1>10. Apart'
  <2>1. /\ Once(inq)' /\ Once(outq)' /\ captured' = {}
        /\ Waiting(inq)' = Waiting(inq) /\ Waiting(inq)' \cap Waiting(outq)' = {}
    BY <1>3 DEF IInv, Apart, Once, Waiting
  <2>2. \A t \in Waiting(inq) : t[1] <= batch /\ t[1] \in Nat
    <3>1. inq \in Seq(Tags)  BY DEF IInv, TypeOK
    <3>2. \A t \in Waiting(inq) : t \in Tags  BY <3>1, ElementOfSeq DEF Waiting
    <3> QED BY <1>3, <3>2 DEF IInv, Apart, Tags
  <2>3. \A t \in Waiting(inq) : IF pc' \in {"probe", "done"} THEN t[1] <= batch' ELSE t[1] < batch'
    BY <1>3, <1>4, <2>2
  <2> QED BY <2>1, <2>3 DEF Apart
<1>11. Quiet'  BY <1>3, <1>7, <1>8 DEF Quiet, Waiting
<1>12. Underway' /\ Deltas' /\ Seeding'  BY <1>3 DEF Underway, Deltas, Seeding
<1> QED BY <1>9, <1>10, <1>11, <1>12 DEF IInv

LEMMA InitInv == Init => IInv
<1> SUFFICES ASSUME Init PROVE IInv  OBVIOUS
<1>1. 0 \in Values  BY SizeAssumption DEF Values
<1>2. 1 \in 1..Len(Batches)  BY BatchesAssumption
<1>3. TypeOK
  <2>1. register \in [Slots -> Values]  BY <1>1 DEF Init
  <2>2. <<>> \in Seq(Tags)  BY EmptySeq
  <2> QED BY <1>2, <2>1, <2>2 DEF Init, TypeOK
<1>4. Apart /\ Quiet  BY EmptyQueue DEF Init, Apart, Quiet
<1>5. Underway /\ Deltas /\ Seeding  BY DEF Init, Underway, Deltas, Seeding
<1> QED BY <1>3, <1>4, <1>5 DEF IInv

LEMMA NextInv == IInv /\ [Next]_vars => IInv'
<1> SUFFICES ASSUME IInv, [Next]_vars PROVE IInv'  OBVIOUS
<1>1. CASE SeedRead  BY <1>1, SeedReadStep
<1>2. CASE SeedWrite  BY <1>2, SeedWriteStep
<1>3. CASE DumpBefore  BY <1>3, DumpBeforeStep
<1>4. ASSUME NEW s \in Senders, Send(s) PROVE IInv'  BY <1>4, SendStep
<1>5. CASE Ingress  BY <1>5, IngressStep
<1>6. CASE Deliver  BY <1>6, DeliverStep
<1>7. CASE Check  BY <1>7, CheckStep
<1>8. CASE UNCHANGED vars
  <2>1. UNCHANGED <<register, batch, pc, before, sent, inq, outq, captured>>
    BY <1>8 DEF vars
  <2>2. /\ Waiting(inq)' = Waiting(inq) /\ Waiting(outq)' = Waiting(outq)
        /\ SentTags' = SentTags /\ Round' = Round /\ \A s : CountedAt(s)' = CountedAt(s)
    BY <2>1 DEF SentTags, CountedAt, Round, Waiting
  <2>3. TypeOK' /\ Apart' /\ Quiet'  BY <2>1, <2>2 DEF IInv, TypeOK, Apart, Once, Quiet
  <2>4. Underway' /\ Deltas' /\ Seeding'  BY <2>1, <2>2 DEF IInv, Underway, Deltas, Seeding
  <2> QED BY <2>3, <2>4 DEF IInv
<1> QED BY <1>1, <1>2, <1>3, <1>4, <1>5, <1>6, <1>7, <1>8 DEF Next, Done

(* Every frame is in one place at most, what a finished round leaves       *)
(* behind in the switch will be dropped, and at every moment of a round    *)
(* the slots have moved by exactly the counted frames ingress has had.     *)
THEOREM CountsAreTracked == Spec => []IInv
  BY InitInv, NextInv, PTL DEF Spec

(* However the two senders, the two queues and the test's reads interleave *)
(* and whatever an earlier round left in the switch: no seed disturbs a    *)
(* second slot, and every batch delivers its allowed frames and changes    *)
(* each slot, modulo its range, by the frames the test labels as counted.  *)
THEOREM DeltasHold == Spec => []DeltasAreExact
<1>1. IInv => DeltasAreExact  BY DEF IInv, TypeOK, DeltasAreExact
<1> QED BY <1>1, CountsAreTracked, PTL
=============================================================================
