---------------------------- MODULE WifiStaProofs ----------------------------
(***************************************************************************)
(* Proofs about WifiSta for every table of bands and every capacity of the *)
(* event queue.                                                            *)
(***************************************************************************)
EXTENDS WifiSta, FiniteSets, FiniteSetTheorems, TLAPS

(***************************************************************************)
(* The inductive invariant.                                                *)
(***************************************************************************)

\* The failures that wait for the net_mgmt thread.
FailsIn(q) == Cardinality({i \in 1 .. Len(q) : q[i] = "FAIL"})

Once(b) == IF b THEN 1 ELSE 0

NoDup(q) == \A i, j \in 1 .. Len(q) : q[i] = q[j] => i = j

WifiTypes ==
    /\ s_started \in BOOLEAN /\ s_connected \in BOOLEAN /\ if_up \in BOOLEAN
    /\ s_retry_idx \in Nat
    /\ s_retry_cfg \in {"supported", "unsupported"}
    /\ timeout_dwork \in {"off", "armed"}
    /\ ready_dwork \in {"unset", "off", "armed"}
    /\ wq \in Seq(Works) /\ NoDup(wq)
    /\ wpc \in {"idle", "accepted", "refused", "timeout_next"}
    /\ mpc \in {"idle", "joined"}
    /\ evq \in Seq(NetEvts) /\ Len(evq) <= MaxEvents
    /\ drv \in {"idle", "connecting", "connected", "bound"}
    /\ goal \in {"none", "trying", "joined", "failed"}
    /\ tried \subseteq BandSet

\* The timer and its work item are never both pending.
TimerInv == timeout_dwork = "armed" => ~Queued(wq, "timeout")

\* The work queue is about to count a failure.
Counting == wpc \in {"refused", "timeout_next"}

\* A timeout can still count one: its request is on the way, or it is pending
\* and there is room for what the disconnect may report (a failure that is
\* handled first cancels the timeout).
MayTimeOut ==
    \/ wpc = "accepted"
    \/ /\ timeout_dwork = "armed" \/ Queued(wq, "timeout")
       /\ FailsIn(evq) < MaxEvents

\* s_retry_idx with everything that can still increment it.
IndexInv ==
    s_retry_idx + FailsIn(evq) + Once(drv = "connecting") + Once(Counting) + Once(MayTimeOut)
        <= BAND_SEQ_LEN + MaxEvents + 1

\* Nothing is under way until the first connect or after a reset.
QuietInv ==
    goal = "none" =>
        /\ timeout_dwork = "off" /\ ~Queued(wq, "timeout") /\ wpc = "idle"
        /\ \/ Exhausted
           \/ ~Queued(wq, "retry") /\ drv = "idle" /\ ~Queued(evq, "FAIL")

WifiIInv == WifiTypes /\ TimerInv /\ IndexInv /\ QuietInv

-----------------------------------------------------------------------------
(***************************************************************************)
(* The work queue: what is queued after a submission, a cancellation and   *)
(* when the first item is taken.                                           *)
(***************************************************************************)
LEMMA SubmitFacts ==
    ASSUME NEW q \in Seq(Works), NoDup(q), NEW w \in Works
    PROVE  /\ Submit(q, w) \in Seq(Works) /\ NoDup(Submit(q, w))
           /\ \A x : Queued(Submit(q, w), x) <=> Queued(q, x) \/ x = w
<1>1. CASE Queued(q, w)
  BY <1>1 DEF Submit
<1>2. CASE ~Queued(q, w)
  <2>1. Submit(q, w) = Append(q, w)
    BY <1>2 DEF Submit
  <2>2. /\ Append(q, w) \in Seq(Works) /\ Len(Append(q, w)) = Len(q) + 1 /\ Len(q) \in Nat
        /\ \A i \in 1 .. Len(q) : Append(q, w)[i] = q[i]
        /\ Append(q, w)[Len(q) + 1] = w
    OBVIOUS
  <2>3. NoDup(Append(q, w))
    BY <1>2, <2>2 DEF NoDup, Queued
  <2>4. ASSUME NEW x PROVE Queued(Append(q, w), x) <=> Queued(q, x) \/ x = w
    BY <2>2 DEF Queued
  <2> QED BY <2>1, <2>2, <2>3, <2>4
<1> QED BY <1>1, <1>2

LEMMA WithoutFacts ==
    ASSUME NEW q \in Seq(Works), NoDup(q), NEW w
    PROVE  /\ Without(q, w) \in Seq(Works) /\ NoDup(Without(q, w))
           /\ \A x : Queued(Without(q, w), x) <=> Queued(q, x) /\ x # w
<1>1. CASE Queued(q, w)
  <2> DEFINE p == Position(q, w)
             r == [i \in 1 .. Len(q) - 1 |-> IF i < p THEN q[i] ELSE q[i + 1]]
  <2>1. p \in 1 .. Len(q) /\ q[p] = w
    BY <1>1 DEF Position, Queued
  <2>2. Without(q, w) = r
    BY <1>1 DEF Without
  <2> HIDE DEF p
  <2>3. /\ Len(q) \in Nat \ {0} /\ Len(q) - 1 \in Nat
        /\ \A i \in 1 .. Len(q) : q[i] \in Works
    BY <2>1
  <2>4. r \in Seq(Works) /\ Len(r) = Len(q) - 1
    <3>1. r \in [1 .. Len(q) - 1 -> Works]
      BY <2>1, <2>3
    <3> QED BY <2>3, <3>1
  <2>5. NoDup(r)
    BY <2>1, <2>3, <2>4 DEF NoDup
  <2>6. ASSUME NEW x PROVE Queued(r, x) <=> Queued(q, x) /\ x # w
    <3>1. ASSUME NEW i \in 1 .. Len(r), r[i] = x PROVE Queued(q, x) /\ x # w
      BY <2>1, <2>3, <2>4, <3>1 DEF NoDup, Queued
    <3>2. ASSUME NEW i \in 1 .. Len(q), q[i] = x, x # w PROVE Queued(r, x)
      <4>1. CASE i < p
        <5>1. i \in 1 .. Len(r) /\ r[i] = x
          BY <2>1, <2>3, <2>4, <3>2, <4>1
        <5> QED BY <5>1 DEF Queued
      <4>2. CASE i > p
        <5>1. i - 1 \in 1 .. Len(r) /\ r[i - 1] = x
          BY <2>1, <2>3, <2>4, <3>2, <4>2
        <5> QED BY <5>1 DEF Queued
      <4> QED BY <2>1, <3>2, <4>1, <4>2
    <3> QED BY <3>1, <3>2 DEF Queued
  <2> QED BY <2>2, <2>4, <2>5, <2>6
<1>2. CASE ~Queued(q, w)
  BY <1>2 DEF Without
<1> QED BY <1>1, <1>2

LEMMA TailFacts ==
    ASSUME NEW q \in Seq(Works), NoDup(q), q # <<>>
    PROVE  /\ Tail(q) \in Seq(Works) /\ NoDup(Tail(q))
           /\ \A x : Queued(Tail(q), x) <=> Queued(q, x) /\ x # Head(q)
           /\ Queued(q, Head(q)) /\ Head(q) \in Works
<1>1. /\ Len(q) \in Nat \ {0} /\ Head(q) = q[1] /\ Head(q) \in Works
      /\ Tail(q) \in Seq(Works) /\ Len(Tail(q)) = Len(q) - 1
      /\ \A i \in 1 .. Len(Tail(q)) : Tail(q)[i] = q[i + 1]
  OBVIOUS
<1>2. NoDup(Tail(q))
  BY <1>1 DEF NoDup
<1>3. ASSUME NEW x PROVE Queued(Tail(q), x) <=> Queued(q, x) /\ x # Head(q)
  <2>1. ASSUME NEW i \in 1 .. Len(Tail(q)), Tail(q)[i] = x PROVE Queued(q, x) /\ x # Head(q)
    BY <1>1, <2>1 DEF NoDup, Queued
  <2>2. ASSUME NEW i \in 1 .. Len(q), q[i] = x, x # Head(q) PROVE Queued(Tail(q), x)
    <3>1. i - 1 \in 1 .. Len(Tail(q)) /\ Tail(q)[i - 1] = x
      BY <1>1, <2>2
    <3> QED BY <3>1 DEF Queued
  <2> QED BY <2>1, <2>2 DEF Queued
<1>4. Queued(q, Head(q))
  BY <1>1 DEF Queued
<1> QED BY <1>1, <1>2, <1>3, <1>4

LEMMA IntervalSize ==
    ASSUME NEW n \in Nat
    PROVE  IsFiniteSet(1 .. n) /\ Cardinality(1 .. n) = n
<1>1. 1 \in Int /\ n \in Int
  OBVIOUS
<1>2. IsFiniteSet(1 .. n) /\ Cardinality(1 .. n) = IF 1 > n THEN 0 ELSE n - 1 + 1
  BY ONLY <1>1, FS_Interval
<1> QED BY <1>2

LEMMA AddOne ==
    ASSUME NEW S, IsFiniteSet(S), NEW x, NEW n \in Nat, Cardinality(S) <= n
    PROVE  IsFiniteSet(S \cup {x}) /\ Cardinality(S \cup {x}) <= n + 1
<1>1. /\ IsFiniteSet(S \cup {x})
      /\ Cardinality(S \cup {x}) = IF x \in S THEN Cardinality(S) ELSE Cardinality(S) + 1
  BY FS_AddElement, Zenon
<1>2. Cardinality(S) \in Nat
  BY FS_CardinalityType, Zenon
<1>3. CASE x \in S
  BY <1>1, <1>2, <1>3
<1>4. CASE x \notin S
  BY <1>1, <1>2, <1>4
<1> QED BY <1>3, <1>4

\* Five items, each at most once.
LEMMA QueueShort ==
    ASSUME NEW q \in Seq(Works), NoDup(q)
    PROVE  Len(q) <= 5
<1>1. IsFiniteSet(Works) /\ Cardinality(Works) <= 5
  <2> DEFINE A == {"retry"}
             B == A \cup {"timeout"}
             C == B \cup {"ready"}
             D == C \cup {"connect"}
             E == D \cup {"reset"}
  <2>1. IsFiniteSet(A) /\ Cardinality(A) = 1
    BY FS_Singleton
  <2> HIDE DEF A
  <2>3. IsFiniteSet(B) /\ Cardinality(B) <= 1 + 1
    <3>1. 1 \in Nat /\ Cardinality(A) <= 1
      BY <2>1
    <3> QED BY <2>1, <3>1, AddOne
  <2> HIDE DEF B
  <2>4. IsFiniteSet(C) /\ Cardinality(C) <= 2 + 1
    <3>1. 2 \in Nat /\ Cardinality(B) <= 2
      BY <2>3
    <3> QED BY <2>3, <3>1, AddOne
  <2> HIDE DEF C
  <2>5. IsFiniteSet(D) /\ Cardinality(D) <= 3 + 1
    <3>1. 3 \in Nat /\ Cardinality(C) <= 3
      BY <2>4
    <3> QED BY <2>4, <3>1, AddOne
  <2> HIDE DEF D
  <2>6. IsFiniteSet(E) /\ Cardinality(E) <= 4 + 1
    <3>1. 4 \in Nat /\ Cardinality(D) <= 4
      BY <2>5
    <3> QED BY <2>5, <3>1, AddOne
  <2>7. Works = E
    BY DEF Works, A, B, C, D, E
  <2> HIDE DEF E
  <2>8. Cardinality(E) <= 5
    BY <2>6
  <2> QED BY <2>6, <2>7, <2>8
<1>2. q \in Injection(1 .. Len(q), Works)
  BY DEF NoDup, Injection, IsInjective
<1>3. Cardinality(1 .. Len(q)) <= Cardinality(Works)
  BY <1>1, <1>2, FS_Injection
<1>4. Len(q) \in Nat /\ Cardinality(1 .. Len(q)) = Len(q)
  BY IntervalSize
<1> QED BY <1>1, <1>3, <1>4, FS_CardinalityType

-----------------------------------------------------------------------------
(***************************************************************************)
(* The events: how many failures are waiting.                              *)
(***************************************************************************)
FailAt(q) == {i \in 1 .. Len(q) : q[i] = "FAIL"}

LEMMA FailsFinite ==
    ASSUME NEW q \in Seq(NetEvts)
    PROVE  /\ IsFiniteSet(FailAt(q)) /\ FailsIn(q) = Cardinality(FailAt(q))
           /\ FailsIn(q) \in Nat /\ FailsIn(q) <= Len(q)
<1>1. IsFiniteSet(1 .. Len(q)) /\ Cardinality(1 .. Len(q)) = Len(q)
  BY IntervalSize
<1>2. FailAt(q) \subseteq 1 .. Len(q)
  BY DEF FailAt
<1>3. IsFiniteSet(FailAt(q)) /\ Cardinality(FailAt(q)) <= Cardinality(1 .. Len(q))
  BY <1>1, <1>2, FS_Subset
<1>4. FailsIn(q) = Cardinality(FailAt(q))
  BY DEF FailsIn, FailAt
<1> QED BY <1>1, <1>3, <1>4, FS_CardinalityType

LEMMA FailsAppend ==
    ASSUME NEW q \in Seq(NetEvts), NEW e \in NetEvts
    PROVE  /\ FailsIn(Append(q, e)) = FailsIn(q) + Once(e = "FAIL")
           /\ Append(q, e) \in Seq(NetEvts) /\ Len(Append(q, e)) = Len(q) + 1
           /\ Queued(Append(q, e), "FAIL") <=> Queued(q, "FAIL") \/ e = "FAIL"
<1>1. /\ Append(q, e) \in Seq(NetEvts) /\ Len(Append(q, e)) = Len(q) + 1 /\ Len(q) \in Nat
      /\ \A i \in 1 .. Len(q) : Append(q, e)[i] = q[i]
      /\ Append(q, e)[Len(q) + 1] = e
  OBVIOUS
<1>2. FailAt(Append(q, e)) = IF e = "FAIL" THEN FailAt(q) \cup {Len(q) + 1} ELSE FailAt(q)
  BY <1>1 DEF FailAt
<1>3. Len(q) + 1 \notin FailAt(q)
  BY <1>1 DEF FailAt
<1>4. Cardinality(FailAt(q) \cup {Len(q) + 1}) = Cardinality(FailAt(q)) + 1
  BY <1>3, FailsFinite, FS_AddElement
<1>5. FailsIn(Append(q, e)) = FailsIn(q) + Once(e = "FAIL")
  <2>1. FailsIn(Append(q, e)) = Cardinality(FailAt(Append(q, e)))
    BY <1>1, FailsFinite
  <2>2. FailsIn(q) = Cardinality(FailAt(q)) /\ FailsIn(q) \in Nat
    BY FailsFinite
  <2> QED BY <1>2, <1>4, <2>1, <2>2 DEF Once
<1>6. Queued(Append(q, e), "FAIL") <=> Queued(q, "FAIL") \/ e = "FAIL"
  BY <1>1 DEF Queued
<1> QED BY <1>1, <1>5, <1>6

LEMMA FailsTail ==
    ASSUME NEW q \in Seq(NetEvts), q # <<>>
    PROVE  /\ FailsIn(Tail(q)) + Once(Head(q) = "FAIL") <= FailsIn(q)
           /\ Head(q) # "FAIL" => FailsIn(Tail(q)) = FailsIn(q)
           /\ Tail(q) \in Seq(NetEvts) /\ Len(Tail(q)) <= Len(q)
           /\ Queued(Tail(q), "FAIL") => Queued(q, "FAIL")
           /\ Head(q) = "FAIL" => Queued(q, "FAIL")
<1>1. /\ Len(q) \in Nat \ {0} /\ Head(q) = q[1] /\ Tail(q) \in Seq(NetEvts)
      /\ Len(Tail(q)) = Len(q) - 1
      /\ \A i \in 1 .. Len(Tail(q)) : Tail(q)[i] = q[i + 1]
  OBVIOUS
<1> DEFINE S == FailAt(q) \ {1}
           f == [i \in FailAt(Tail(q)) |-> i + 1]
<1>2. f \in Bijection(FailAt(Tail(q)), S)
  <2>1. f \in [FailAt(Tail(q)) -> S]
    BY <1>1 DEF FailAt
  <2>2. \A a, b \in FailAt(Tail(q)) : f[a] = f[b] => a = b
    BY <1>1 DEF FailAt
  <2>3. ASSUME NEW s \in S PROVE \E a \in FailAt(Tail(q)) : f[a] = s
    <3>1. s - 1 \in FailAt(Tail(q)) /\ (s - 1) + 1 = s
      BY <1>1 DEF FailAt
    <3> QED BY <3>1
  <2> QED BY <2>1, <2>2, <2>3 DEF Bijection, Injection, Surjection, IsInjective
<1>3. IsFiniteSet(FailAt(q)) /\ IsFiniteSet(FailAt(Tail(q)))
  BY <1>1, FailsFinite
<1> HIDE DEF f
<1>4. Cardinality(FailAt(Tail(q))) = Cardinality(S)
  <2>1. ExistsBijection(FailAt(Tail(q)), S)
    BY <1>2 DEF ExistsBijection
  <2> QED BY <1>3, <2>1, FS_Bijection, Zenon
<1>5. /\ FailsIn(q) = Cardinality(FailAt(q)) /\ FailsIn(q) \in Nat
      /\ FailsIn(Tail(q)) = Cardinality(FailAt(Tail(q))) /\ FailsIn(Tail(q)) \in Nat
  BY <1>1, FailsFinite
<1>6. CASE Head(q) = "FAIL"
  <2>1. 1 \in FailAt(q)
    BY <1>1, <1>6 DEF FailAt
  <2>2. Cardinality(S) = Cardinality(FailAt(q)) - 1
    BY <1>3, <2>1, FS_RemoveElement
  <2>3. Queued(q, "FAIL")
    BY <1>1, <1>6 DEF Queued
  <2>4. Queued(Tail(q), "FAIL") => Queued(q, "FAIL")
    BY <2>3
  <2> QED BY <1>1, <1>4, <1>5, <1>6, <2>2, <2>3 DEF Once
<1>7. CASE Head(q) # "FAIL"
  <2>1. S = FailAt(q)
    BY <1>1, <1>7 DEF FailAt
  <2>2. Queued(Tail(q), "FAIL") => Queued(q, "FAIL")
    BY <1>1 DEF Queued
  <2>3. FailsIn(Tail(q)) = FailsIn(q)
    BY <1>4, <1>5, <2>1
  <2>4. Once(Head(q) = "FAIL") = 0
    BY <1>7 DEF Once
  <2> QED BY <1>1, <1>5, <1>7, <2>2, <2>3, <2>4
<1> QED BY <1>6, <1>7

-----------------------------------------------------------------------------
(***************************************************************************)
(* What the steps have in common.                                          *)
(***************************************************************************)
LEMMA Numbers ==
    ASSUME WifiTypes
    PROVE  /\ FailsIn(evq) \in Nat /\ FailsIn(evq) <= MaxEvents /\ Len(evq) \in Nat
           /\ BAND_SEQ_LEN \in Nat \ {0} /\ MaxEvents \in Nat \ {0}
<1>1. evq \in Seq(NetEvts) /\ Len(evq) <= MaxEvents /\ Len(evq) \in Nat
  BY DEF WifiTypes
<1>2. FailsIn(evq) \in Nat /\ FailsIn(evq) <= Len(evq)
  BY <1>1, FailsFinite
<1>3. Bands \in Seq(STRING) /\ Len(Bands) > 0 /\ MaxEvents \in Nat \ {0}
  BY WifiAssumption
<1>4. Len(Bands) \in Nat
  BY <1>3
<1> QED BY <1>1, <1>2, <1>3, <1>4 DEF BAND_SEQ_LEN

LEMMA OnceBit ==
    ASSUME NEW b \in BOOLEAN
    PROVE  Once(b) \in {0, 1} /\ (b => Once(b) = 1) /\ (~b => Once(b) = 0)
BY DEF Once

\* The driver turns a pending attempt into at most one failure event.
DriverMove ==
    /\ evq' \in Seq(NetEvts) /\ Len(evq') <= MaxEvents
    /\ drv' \in {"idle", "connecting", "connected", "bound"}
    /\ FailsIn(evq') \in Nat /\ FailsIn(evq) <= FailsIn(evq')
    /\ FailsIn(evq') + Once(drv' = "connecting") <= FailsIn(evq) + Once(drv = "connecting")
    /\ drv = "idle" /\ ~Queued(evq, "FAIL") => drv' = "idle" /\ ~Queued(evq', "FAIL")

LEMMA DriverMoves ==
    ASSUME WifiTypes, DriverStep \/ DriverDisconnect
    PROVE  DriverMove
<1>1. /\ evq \in Seq(NetEvts) /\ Len(evq) \in Nat /\ MaxEvents \in Nat /\ FailsIn(evq) \in Nat
      /\ Len(evq) <= MaxEvents
  BY Numbers DEF WifiTypes
<1>2. Len(evq) < MaxEvents
  BY DEF DriverStep, DriverDisconnect
<1>3. CASE drv' = "idle" /\ evq' = evq
  BY <1>1, <1>3 DEF DriverMove, Once
<1>4. CASE /\ \E e \in NetEvts : evq' = Append(evq, e) /\ (e = "FAIL" => drv = "connecting")
           /\ drv # "idle" /\ drv' \in {"idle", "connected", "bound"}
  <2>1. PICK e \in NetEvts : evq' = Append(evq, e) /\ (e = "FAIL" => drv = "connecting")
    BY <1>4
  <2>2. /\ FailsIn(evq') = FailsIn(evq) + Once(e = "FAIL")
        /\ evq' \in Seq(NetEvts) /\ Len(evq') = Len(evq) + 1
    BY <1>1, <2>1, FailsAppend
  <2>3. CASE e = "FAIL"
    <3>1. FailsIn(evq') = FailsIn(evq) + 1
      BY <2>2, <2>3 DEF Once
    <3>2. Once(drv = "connecting") = 1 /\ Once(drv' = "connecting") = 0
      BY <1>4, <2>1, <2>3 DEF Once
    <3> QED BY <1>1, <1>2, <1>4, <2>2, <3>1, <3>2 DEF DriverMove
  <2>4. CASE e # "FAIL"
    <3>1. FailsIn(evq') = FailsIn(evq)
      BY <1>1, <2>2, <2>4 DEF Once
    <3>2. Once(drv = "connecting") \in {0, 1} /\ Once(drv' = "connecting") = 0
      BY <1>4 DEF Once
    <3> QED BY <1>1, <1>2, <1>4, <2>2, <3>1, <3>2 DEF DriverMove
  <2> QED BY <2>3, <2>4
<1>5. CASE DriverStep
  BY <1>4, <1>5 DEF DriverStep, NetEvts
<1>6. CASE DriverDisconnect
  BY <1>3, <1>4, <1>6 DEF DriverDisconnect, NetEvts
<1> QED BY <1>5, <1>6

\* What the net_mgmt thread has taken from its queue.
EventTaken(e) ==
    /\ evq' \in Seq(NetEvts) /\ Len(evq') <= MaxEvents /\ FailsIn(evq') \in Nat
    /\ FailsIn(evq') + Once(e = "FAIL") <= FailsIn(evq)
    /\ e # "FAIL" => FailsIn(evq') = FailsIn(evq)
    /\ Queued(evq', "FAIL") => Queued(evq, "FAIL")
    /\ e = "FAIL" => Queued(evq, "FAIL")

LEMMA EventsTaken ==
    ASSUME WifiTypes, NEW e, Handles(e)
    PROVE  EventTaken(e)
<1>1. /\ evq \in Seq(NetEvts) /\ Len(evq) \in Nat /\ MaxEvents \in Nat /\ Len(evq) <= MaxEvents
      /\ evq # <<>> /\ Head(evq) = e /\ evq' = Tail(evq)
  BY Numbers DEF WifiTypes, Handles
<1>2. /\ FailsIn(Tail(evq)) + Once(Head(evq) = "FAIL") <= FailsIn(evq)
      /\ Head(evq) # "FAIL" => FailsIn(Tail(evq)) = FailsIn(evq)
      /\ Tail(evq) \in Seq(NetEvts) /\ Len(Tail(evq)) <= Len(evq)
      /\ Queued(Tail(evq), "FAIL") => Queued(evq, "FAIL")
      /\ Head(evq) = "FAIL" => Queued(evq, "FAIL")
  BY <1>1, FailsTail
<1>3. FailsIn(Tail(evq)) \in Nat
  BY <1>2, FailsFinite
<1>4. Len(Tail(evq)) \in Nat /\ Len(Tail(evq)) <= MaxEvents
  BY <1>1, <1>2
<1> QED BY <1>1, <1>2, <1>3, <1>4 DEF EventTaken

\* A step that leaves the timeout, the retries and the driver alone.
LEMMA SameControl ==
    ASSUME WifiIInv, FailsIn(evq') = FailsIn(evq),
           Queued(evq', "FAIL") => Queued(evq, "FAIL"),
           Queued(wq', "timeout") <=> Queued(wq, "timeout"),
           Queued(wq', "retry") => Queued(wq, "retry"),
           UNCHANGED <<s_retry_idx, timeout_dwork, wpc, drv, goal>>
    PROVE  TimerInv' /\ IndexInv' /\ QuietInv'
<1>1. TimerInv /\ IndexInv /\ QuietInv
  BY DEF WifiIInv
<1>2. TimerInv'
  BY <1>1 DEF TimerInv
<1>3. MayTimeOut' <=> MayTimeOut
  BY DEF MayTimeOut
<1>4. IndexInv'
  <2>1. Once(MayTimeOut)' = Once(MayTimeOut)
    BY <1>3 DEF Once
  <2>2. Once(Counting)' = Once(Counting) /\ Once(drv = "connecting")' = Once(drv = "connecting")
    BY DEF Counting, Once
  <2> QED BY <1>1, <2>1, <2>2 DEF IndexInv
<1>5. QuietInv'
  BY <1>1 DEF QuietInv, Exhausted
<1> QED BY <1>2, <1>4, <1>5

\* app_wifi_connect: the table is walked from its start and no timeout is pending.
LEMMA ConnectKeeps ==
    ASSUME WifiIInv, NEW q \in Seq(Works), NoDup(q), NEW cfg, ConnectFrom(q, cfg),
           FailsIn(evq') = FailsIn(evq), UNCHANGED <<wpc, drv>>
    PROVE  /\ TimerInv' /\ IndexInv' /\ QuietInv'
           /\ wq' \in Seq(Works) /\ NoDup(wq')
<1>1. /\ Without(q, "timeout") \in Seq(Works) /\ NoDup(Without(q, "timeout"))
      /\ ~Queued(Without(q, "timeout"), "timeout")
  BY WithoutFacts
<1>2. /\ wq' = Submit(Without(q, "timeout"), "retry") /\ timeout_dwork' = "off"
      /\ s_retry_idx' = 0 /\ goal' = "trying"
  BY DEF ConnectFrom
<1>3. wq' \in Seq(Works) /\ NoDup(wq') /\ ~Queued(wq', "timeout")
  <2>1. "retry" \in Works
    BY DEF Works
  <2> QED BY <1>1, <1>2, <2>1, SubmitFacts
<1>4. WifiTypes
  BY DEF WifiIInv
<1>5. TimerInv' /\ QuietInv'
  BY <1>2 DEF TimerInv, QuietInv
<1>6. MayTimeOut' <=> wpc = "accepted"
  BY <1>2, <1>3 DEF MayTimeOut
<1>7. IndexInv'
  <2>1. Once(drv = "connecting")' \in {0, 1}
    BY DEF Once
  <2>2. /\ Once(Counting)' \in {0, 1} /\ Once(MayTimeOut)' \in {0, 1}
        /\ Once(Counting)' + Once(MayTimeOut)' <= 1
    BY <1>6 DEF Once, Counting
  <2> QED BY <1>2, <1>4, <2>1, <2>2, Numbers DEF IndexInv
<1> QED BY <1>3, <1>5, <1>7

-----------------------------------------------------------------------------
(***************************************************************************)
(* Every step keeps the invariant.                                         *)
(***************************************************************************)
LEMMA DriverKeeps ==
    ASSUME WifiIInv, DriverStep
    PROVE  WifiIInv'
<1>1. WifiTypes /\ TimerInv /\ IndexInv /\ QuietInv
  BY DEF WifiIInv
<1>2. DriverMove
  BY <1>1, DriverMoves
<1>3. UNCHANGED <<s_started, s_connected, s_retry_idx, s_retry_cfg, timeout_dwork, ready_dwork,
                  wq, wpc, mpc, if_up, goal, tried>>
  BY DEF DriverStep, app, timers, hist
<1>4. WifiTypes'
  BY <1>1, <1>2, <1>3 DEF WifiTypes, DriverMove
<1>5. TimerInv'
  BY <1>1, <1>3 DEF TimerInv
<1>6. IndexInv'
  <2>1. Once(Counting)' = Once(Counting) /\ Once(Counting) \in {0, 1}
    BY <1>3 DEF Counting, Once
  <2>2. MayTimeOut' => MayTimeOut
    BY <1>1, <1>2, <1>3, Numbers DEF MayTimeOut, DriverMove
  <2>3. /\ Once(MayTimeOut)' <= Once(MayTimeOut)
        /\ Once(MayTimeOut)' \in {0, 1} /\ Once(MayTimeOut) \in {0, 1}
    BY <2>2 DEF Once
  <2>4. Once(drv = "connecting") \in {0, 1} /\ Once(drv' = "connecting") \in {0, 1}
    BY DEF Once
  <2>5. s_retry_idx \in Nat
    BY <1>1 DEF WifiTypes
  <2>6. /\ FailsIn(evq') \in Nat /\ FailsIn(evq) \in Nat /\ BAND_SEQ_LEN \in Nat /\ MaxEvents \in Nat
        /\ FailsIn(evq') + Once(drv' = "connecting") <= FailsIn(evq) + Once(drv = "connecting")
    BY <1>1, <1>2, Numbers DEF DriverMove
  <2>7. s_retry_idx' = s_retry_idx
    BY <1>3
  <2>8. s_retry_idx + FailsIn(evq) + Once(drv = "connecting") + Once(Counting) + Once(MayTimeOut)
            <= BAND_SEQ_LEN + MaxEvents + 1
    BY <1>1 DEF IndexInv
  <2>9. s_retry_idx + FailsIn(evq') + Once(drv' = "connecting") + Once(Counting)' + Once(MayTimeOut)'
            <= BAND_SEQ_LEN + MaxEvents + 1
    BY ONLY <2>1, <2>3, <2>4, <2>5, <2>6, <2>8
  <2> QED BY <2>7, <2>9 DEF IndexInv
<1>7. QuietInv'
  BY <1>1, <1>2, <1>3 DEF QuietInv, DriverMove, Exhausted
<1> QED BY <1>4, <1>5, <1>6, <1>7 DEF WifiIInv

LEMMA ClockKeeps ==
    ASSUME WifiIInv, IfUp \/ ArmReady \/ ReadyExpires \/ \E w \in {"connect", "reset"} : ProvCb(w)
    PROVE  WifiIInv'
<1>1. WifiTypes
  BY DEF WifiIInv
<1>2. /\ evq \in Seq(NetEvts) /\ Len(evq) \in Nat /\ MaxEvents \in Nat /\ FailsIn(evq) \in Nat
      /\ wq \in Seq(Works) /\ NoDup(wq)
  BY <1>1, Numbers DEF WifiTypes
<1>3. CASE IfUp
  <2>1. /\ UNCHANGED <<s_started, s_connected, s_retry_idx, s_retry_cfg, timeout_dwork,
                       ready_dwork, wq, wpc, mpc, drv, goal, tried>>
        /\ if_up' = TRUE /\ evq' = Append(evq, "IF_UP") /\ Len(evq) < MaxEvents
    BY <1>3 DEF IfUp, app, timers, hist
  <2>2. "IF_UP" \in NetEvts
    BY DEF NetEvts
  <2>3. /\ FailsIn(evq') = FailsIn(evq) + Once("IF_UP" = "FAIL")
        /\ evq' \in Seq(NetEvts) /\ Len(evq') = Len(evq) + 1
        /\ Queued(evq', "FAIL") => Queued(evq, "FAIL")
    BY <1>2, <2>1, <2>2, FailsAppend
  <2>4. FailsIn(evq') = FailsIn(evq)
    BY <1>2, <2>3 DEF Once
  <2>5. TimerInv' /\ IndexInv' /\ QuietInv'
    BY <2>1, <2>3, <2>4, SameControl
  <2>6. WifiTypes'
    BY <1>1, <1>2, <2>1, <2>3 DEF WifiTypes
  <2> QED BY <2>5, <2>6 DEF WifiIInv
<1>4. CASE ArmReady
  <2>1. /\ UNCHANGED <<s_started, s_connected, s_retry_idx, s_retry_cfg, timeout_dwork,
                       wq, wpc, mpc, evq, drv, if_up, goal, tried>>
        /\ ready_dwork' = "armed"
    BY <1>4 DEF ArmReady, app, hist
  <2>2. TimerInv' /\ IndexInv' /\ QuietInv'
    BY <2>1, SameControl
  <2>3. WifiTypes'
    BY <1>1, <2>1 DEF WifiTypes
  <2> QED BY <2>2, <2>3 DEF WifiIInv
<1>5. ASSUME NEW w \in {"ready", "connect", "reset"}, wq' = Submit(wq, w),
             UNCHANGED <<s_started, s_connected, s_retry_idx, s_retry_cfg, timeout_dwork,
                         wpc, mpc, evq, drv, if_up, goal, tried>>,
             ready_dwork' \in {"unset", "off", "armed"}
      PROVE  WifiIInv'
  <2>1. w \in Works /\ w # "timeout" /\ w # "retry"
    BY <1>5 DEF Works
  <2>2. /\ wq' \in Seq(Works) /\ NoDup(wq')
        /\ Queued(wq', "timeout") <=> Queued(wq, "timeout")
        /\ Queued(wq', "retry") => Queued(wq, "retry")
    BY <1>2, <1>5, <2>1, SubmitFacts
  <2>3. TimerInv' /\ IndexInv' /\ QuietInv'
    BY <1>5, <2>2, SameControl
  <2>4. WifiTypes'
    BY <1>1, <1>5, <2>2 DEF WifiTypes
  <2> QED BY <2>3, <2>4 DEF WifiIInv
<1>6. CASE ReadyExpires
  BY <1>5, <1>6 DEF ReadyExpires, app, hist
<1>7. ASSUME NEW w \in {"connect", "reset"}, ProvCb(w) PROVE WifiIInv'
  <2>1. ready_dwork' \in {"unset", "off", "armed"}
    BY <1>1, <1>7 DEF ProvCb, timers, WifiTypes
  <2> QED BY <1>5, <1>7, <2>1 DEF ProvCb, app, timers, hist
<1> QED BY <1>3, <1>4, <1>6, <1>7

LEMMA TimeoutExpiresKeeps ==
    ASSUME WifiIInv, TimeoutExpires
    PROVE  WifiIInv'
<1>1. WifiTypes /\ TimerInv /\ IndexInv /\ QuietInv
  BY DEF WifiIInv
<1>2. /\ timeout_dwork = "armed" /\ timeout_dwork' = "off" /\ wq' = Submit(wq, "timeout")
      /\ UNCHANGED <<s_started, s_connected, s_retry_idx, s_retry_cfg, ready_dwork,
                     wpc, mpc, evq, drv, if_up, goal, tried>>
  BY DEF TimeoutExpires, app, hist
<1>3. wq' \in Seq(Works) /\ NoDup(wq') /\ Queued(wq', "timeout")
  <2>1. wq \in Seq(Works) /\ NoDup(wq) /\ "timeout" \in Works
    BY <1>1 DEF WifiTypes, Works
  <2> QED BY <1>2, <2>1, SubmitFacts
<1>4. WifiTypes'
  BY <1>1, <1>2, <1>3 DEF WifiTypes
<1>5. TimerInv' /\ QuietInv'
  BY <1>1, <1>2 DEF TimerInv, QuietInv
<1>6. MayTimeOut' <=> MayTimeOut
  BY <1>2, <1>3 DEF MayTimeOut
<1>7. IndexInv'
  <2>1. Once(MayTimeOut)' = Once(MayTimeOut)
    BY <1>6 DEF Once
  <2>2. Once(Counting)' = Once(Counting) /\ Once(drv = "connecting")' = Once(drv = "connecting")
    BY <1>2 DEF Counting, Once
  <2> QED BY <1>1, <1>2, <2>1, <2>2 DEF IndexInv
<1> QED BY <1>4, <1>5, <1>7 DEF WifiIInv

\* A work item is taken off the queue.
LEMMA Taken ==
    ASSUME WifiTypes, NEW w, Takes(w)
    PROVE  /\ wpc = "idle" /\ w \in Works /\ Queued(wq, w)
           /\ Tail(wq) \in Seq(Works) /\ NoDup(Tail(wq))
           /\ \A x : Queued(Tail(wq), x) <=> Queued(wq, x) /\ x # w
<1>1. wq \in Seq(Works) /\ NoDup(wq)
  BY DEF WifiTypes
<1>2. wpc = "idle" /\ wq # <<>> /\ Head(wq) = w
  BY DEF Takes
<1> QED BY <1>1, <1>2, TailFacts

LEMMA RetryFailsKeeps ==
    ASSUME WifiIInv, RetryFails
    PROVE  WifiIInv'
<1>1. WifiTypes /\ TimerInv /\ IndexInv /\ QuietInv
  BY DEF WifiIInv
<1>2. /\ Takes("retry") /\ wq' = Tail(wq)
      /\ goal' = (IF goal = "trying" THEN "failed" ELSE goal) /\ tried' = {}
      /\ UNCHANGED <<s_started, s_connected, s_retry_idx, s_retry_cfg, timeout_dwork, ready_dwork,
                     wpc, mpc, evq, drv, if_up>>
  BY DEF RetryFails, Settled, app, timers
<1>3. /\ wq' \in Seq(Works) /\ NoDup(wq')
      /\ Queued(wq', "timeout") <=> Queued(wq, "timeout")
      /\ ~Queued(wq', "retry")
  BY <1>1, <1>2, Taken
<1>4. WifiTypes'
  BY <1>1, <1>2, <1>3 DEF WifiTypes
<1>5. TimerInv'
  BY <1>1, <1>2, <1>3 DEF TimerInv
<1>6. IndexInv'
  <2>1. MayTimeOut' <=> MayTimeOut
    BY <1>2, <1>3 DEF MayTimeOut
  <2>2. Once(MayTimeOut)' = Once(MayTimeOut)
    BY <2>1 DEF Once
  <2>3. Once(Counting)' = Once(Counting) /\ Once(drv = "connecting")' = Once(drv = "connecting")
    BY <1>2 DEF Counting, Once
  <2> QED BY <1>1, <1>2, <2>2, <2>3 DEF IndexInv
<1>7. QuietInv'
  BY <1>1, <1>2, <1>3 DEF QuietInv, Exhausted
<1> QED BY <1>4, <1>5, <1>6, <1>7 DEF WifiIInv

LEMMA RetryRequestKeeps ==
    ASSUME WifiIInv, RetryRequest
    PROVE  WifiIInv'
<1>1. WifiTypes /\ TimerInv /\ IndexInv /\ QuietInv
  BY DEF WifiIInv
<1>2. /\ Takes("retry") /\ wq' = Tail(wq) /\ ~Exhausted
      /\ UNCHANGED <<s_started, s_connected, s_retry_idx, s_retry_cfg, timeout_dwork, ready_dwork,
                     mpc, evq, if_up, goal>>
      /\ \/ wpc' = "accepted" /\ drv' = "connecting"
         \/ wpc' = "refused" /\ drv' = drv
  BY DEF RetryRequest, app, timers
<1>3. /\ wq' \in Seq(Works) /\ NoDup(wq')
      /\ Queued(wq', "timeout") <=> Queued(wq, "timeout")
      /\ Queued(wq, "retry")
  BY <1>1, <1>2, Taken
<1>4. /\ s_retry_idx \in Nat /\ BAND_SEQ_LEN \in Nat /\ MaxEvents \in Nat
      /\ FailsIn(evq) \in Nat /\ FailsIn(evq) <= MaxEvents
      /\ s_retry_idx + 1 <= BAND_SEQ_LEN
  <2>1. s_retry_idx \in Nat /\ BAND_SEQ_LEN \in Nat /\ ~(s_retry_idx >= BAND_SEQ_LEN)
    BY <1>1, <1>2, Numbers DEF WifiTypes, Exhausted
  <2> QED BY <1>1, <2>1, Numbers
<1>5. tried' \subseteq BandSet
  <2>1. Bands[s_retry_idx + 1] \in BandSet
    <3>1. s_retry_idx + 1 \in 1 .. BAND_SEQ_LEN
      BY <1>4
    <3> QED BY <3>1 DEF BandSet
  <2>2. tried \subseteq BandSet
    BY <1>1 DEF WifiTypes
  <2> QED BY <2>1, <2>2 DEF RetryRequest
<1>6. WifiTypes'
  BY <1>1, <1>2, <1>3, <1>5 DEF WifiTypes
<1>7. TimerInv'
  BY <1>1, <1>2, <1>3 DEF TimerInv
<1>8. QuietInv'
  BY <1>1, <1>2, <1>3 DEF QuietInv
<1>9. IndexInv'
  <2>1. /\ Once(drv = "connecting")' \in {0, 1} /\ Once(Counting)' \in {0, 1}
        /\ Once(MayTimeOut)' \in {0, 1}
    BY DEF Once
  <2>2. CASE wpc' = "accepted"
    <3>1. Once(Counting)' = 0
      BY <2>2 DEF Once, Counting
    <3>2. s_retry_idx + FailsIn(evq) + Once(drv = "connecting")' + Once(Counting)' + Once(MayTimeOut)'
              <= BAND_SEQ_LEN + MaxEvents + 1
      BY ONLY <1>4, <2>1, <3>1
    <3> QED BY <1>2, <3>2 DEF IndexInv
  <2>3. CASE wpc' = "refused"
    <3>1. Once(MayTimeOut)' = 1 => FailsIn(evq) < MaxEvents
      <4>1. MayTimeOut' => FailsIn(evq) < MaxEvents
        BY <1>2, <2>3 DEF MayTimeOut
      <4> QED BY <4>1 DEF Once
    <3>2. s_retry_idx + FailsIn(evq) + Once(drv = "connecting")' + Once(Counting)' + Once(MayTimeOut)'
              <= BAND_SEQ_LEN + MaxEvents + 1
      BY ONLY <1>4, <2>1, <3>1
    <3> QED BY <1>2, <3>2 DEF IndexInv
  <2> QED BY <1>2, <2>2, <2>3
<1> QED BY <1>6, <1>7, <1>8, <1>9 DEF WifiIInv

LEMMA RetryAcceptedKeeps ==
    ASSUME WifiIInv, RetryAccepted
    PROVE  WifiIInv'
<1>1. WifiTypes /\ TimerInv /\ IndexInv /\ QuietInv
  BY DEF WifiIInv
<1>2. /\ wpc = "accepted" /\ wpc' = "idle"
      /\ timeout_dwork' = IF Queued(wq, "timeout") THEN timeout_dwork ELSE "armed"
      /\ UNCHANGED <<s_started, s_connected, s_retry_idx, s_retry_cfg, ready_dwork,
                     wq, mpc, evq, drv, if_up, goal, tried>>
  BY DEF RetryAccepted, app, hist
<1>3. WifiTypes'
  BY <1>1, <1>2 DEF WifiTypes
<1>4. TimerInv'
  BY <1>1, <1>2 DEF TimerInv
<1>5. QuietInv'
  BY <1>1, <1>2 DEF QuietInv
<1>6. IndexInv'
  <2>1. Once(drv = "connecting")' = Once(drv = "connecting") /\ Once(Counting)' = Once(Counting)
    BY <1>2 DEF Once, Counting
  <2>2. /\ Once(drv = "connecting") \in {0, 1} /\ Once(Counting) \in {0, 1}
        /\ Once(MayTimeOut)' \in {0, 1} /\ Once(MayTimeOut) = 1
    BY <1>2 DEF Once, MayTimeOut
  <2>3. /\ s_retry_idx \in Nat /\ FailsIn(evq) \in Nat /\ BAND_SEQ_LEN \in Nat /\ MaxEvents \in Nat
    BY <1>1, Numbers DEF WifiTypes
  <2>4. s_retry_idx + FailsIn(evq) + Once(drv = "connecting") + Once(Counting) + Once(MayTimeOut)
            <= BAND_SEQ_LEN + MaxEvents + 1
    BY <1>1 DEF IndexInv
  <2>5. s_retry_idx + FailsIn(evq) + Once(drv = "connecting")' + Once(Counting)' + Once(MayTimeOut)'
            <= BAND_SEQ_LEN + MaxEvents + 1
    BY ONLY <2>1, <2>2, <2>3, <2>4
  <2> QED BY <1>2, <2>5 DEF IndexInv
<1> QED BY <1>3, <1>4, <1>5, <1>6 DEF WifiIInv

\* The failure of a request, or of its timeout, is counted.
LEMMA CountedKeeps ==
    ASSUME WifiIInv, RetryRefused \/ TimeoutNext
    PROVE  WifiIInv'
<1>1. WifiTypes /\ TimerInv /\ IndexInv /\ QuietInv
  BY DEF WifiIInv
<1>2. /\ wpc \in {"refused", "timeout_next"} /\ wpc' = "idle"
      /\ s_retry_idx' = s_retry_idx + 1 /\ wq' = Submit(wq, "retry")
      /\ UNCHANGED <<s_started, s_connected, s_retry_cfg, timeout_dwork, ready_dwork,
                     mpc, evq, drv, if_up, goal, tried>>
  BY DEF RetryRefused, TimeoutNext, NextBand, timers, hist
<1>3. /\ wq' \in Seq(Works) /\ NoDup(wq')
      /\ Queued(wq', "timeout") <=> Queued(wq, "timeout")
  <2>1. wq \in Seq(Works) /\ NoDup(wq) /\ "retry" \in Works
    BY <1>1 DEF WifiTypes, Works
  <2> QED BY <1>2, <2>1, SubmitFacts
<1>4. WifiTypes'
  BY <1>1, <1>2, <1>3 DEF WifiTypes
<1>5. TimerInv'
  BY <1>1, <1>2, <1>3 DEF TimerInv
<1>6. QuietInv'
  BY <1>1, <1>2 DEF QuietInv
<1>7. IndexInv'
  <2>1. MayTimeOut' <=> MayTimeOut
    BY <1>2, <1>3 DEF MayTimeOut
  <2>2. /\ Once(MayTimeOut)' = Once(MayTimeOut) /\ Once(MayTimeOut) \in {0, 1}
    BY <2>1 DEF Once
  <2>3. /\ Once(drv = "connecting")' = Once(drv = "connecting") /\ Once(drv = "connecting") \in {0, 1}
        /\ Once(Counting) = 1 /\ Once(Counting)' = 0
    BY <1>2 DEF Once, Counting
  <2>4. /\ s_retry_idx \in Nat /\ FailsIn(evq) \in Nat /\ BAND_SEQ_LEN \in Nat /\ MaxEvents \in Nat
    BY <1>1, Numbers DEF WifiTypes
  <2>5. s_retry_idx + FailsIn(evq) + Once(drv = "connecting") + Once(Counting) + Once(MayTimeOut)
            <= BAND_SEQ_LEN + MaxEvents + 1
    BY <1>1 DEF IndexInv
  <2>6. (s_retry_idx + 1) + FailsIn(evq) + Once(drv = "connecting")' + Once(Counting)'
            + Once(MayTimeOut)' <= BAND_SEQ_LEN + MaxEvents + 1
    BY ONLY <2>2, <2>3, <2>4, <2>5
  <2> QED BY <1>2, <2>6 DEF IndexInv
<1> QED BY <1>4, <1>5, <1>6, <1>7 DEF WifiIInv

LEMMA TimeoutWorkKeeps ==
    ASSUME WifiIInv, TimeoutWork
    PROVE  WifiIInv'
<1>1. WifiTypes /\ TimerInv /\ IndexInv /\ QuietInv
  BY DEF WifiIInv
<1>2. /\ Takes("timeout") /\ wq' = Tail(wq) /\ wpc' = "timeout_next" /\ Len(evq) < MaxEvents
      /\ UNCHANGED <<s_started, s_connected, s_retry_idx, s_retry_cfg, timeout_dwork, ready_dwork,
                     mpc, if_up, goal, tried>>
  BY DEF TimeoutWork, DriverDisconnect, app, timers, hist
<1>3. DriverMove
  BY <1>1, DriverMoves DEF TimeoutWork
<1>4. /\ wq' \in Seq(Works) /\ NoDup(wq') /\ ~Queued(wq', "timeout")
      /\ Queued(wq, "timeout") /\ wpc = "idle"
  BY <1>1, <1>2, Taken
<1>5. timeout_dwork = "off"
  BY <1>1, <1>4 DEF WifiTypes, TimerInv
<1>6. WifiTypes'
  BY <1>1, <1>2, <1>3, <1>4 DEF WifiTypes, DriverMove
<1>7. TimerInv' /\ QuietInv'
  BY <1>1, <1>2, <1>4 DEF TimerInv, QuietInv
<1>8. IndexInv'
  <2>1. /\ s_retry_idx \in Nat /\ FailsIn(evq) \in Nat /\ BAND_SEQ_LEN \in Nat /\ MaxEvents \in Nat
        /\ FailsIn(evq) < MaxEvents
    <3>1. evq \in Seq(NetEvts) /\ Len(evq) \in Nat
      BY <1>1 DEF WifiTypes
    <3>2. FailsIn(evq) \in Nat /\ FailsIn(evq) <= Len(evq)
      BY <3>1, FailsFinite
    <3> QED BY <1>1, <1>2, <3>1, <3>2, Numbers DEF WifiTypes
  <2>2. Once(MayTimeOut) = 1 /\ Once(Counting) = 0
    BY <1>4, <2>1 DEF Once, MayTimeOut, Counting
  <2>3. Once(MayTimeOut)' = 0 /\ Once(Counting)' = 1
    BY <1>2, <1>4, <1>5 DEF Once, MayTimeOut, Counting
  <2>4. /\ FailsIn(evq') + Once(drv' = "connecting") <= FailsIn(evq) + Once(drv = "connecting")
        /\ FailsIn(evq') \in Nat
    BY <1>3 DEF DriverMove
  <2>5. Once(drv = "connecting") \in {0, 1} /\ Once(drv' = "connecting") \in {0, 1}
    BY DEF Once
  <2>6. s_retry_idx + FailsIn(evq) + Once(drv = "connecting") + Once(Counting) + Once(MayTimeOut)
            <= BAND_SEQ_LEN + MaxEvents + 1
    BY <1>1 DEF IndexInv
  <2>7. s_retry_idx + FailsIn(evq') + Once(drv' = "connecting") + Once(Counting)' + Once(MayTimeOut)'
            <= BAND_SEQ_LEN + MaxEvents + 1
    BY ONLY <2>1, <2>2, <2>3, <2>4, <2>5, <2>6
  <2> QED BY <1>2, <2>7 DEF IndexInv
<1> QED BY <1>6, <1>7, <1>8 DEF WifiIInv

\* app_wifi_disconnect: nothing is pending and the table is at its end.
LEMMA ResetWorkKeeps ==
    ASSUME WifiIInv, ResetWork
    PROVE  WifiIInv'
<1>1. WifiTypes
  BY DEF WifiIInv
<1>2. /\ Takes("reset") /\ wq' = Without(Tail(wq), "timeout") /\ timeout_dwork' = "off"
      /\ s_retry_idx' = BAND_SEQ_LEN /\ s_connected' = FALSE /\ goal' = "none" /\ tried' = {}
      /\ UNCHANGED <<s_started, s_retry_cfg, ready_dwork, wpc, mpc, if_up>>
      /\ drv' = "idle"
  BY DEF ResetWork, DriverDisconnect
<1>3. DriverMove
  BY <1>1, DriverMoves DEF ResetWork
<1>4. Tail(wq) \in Seq(Works) /\ NoDup(Tail(wq)) /\ wpc = "idle"
  BY <1>1, <1>2, Taken
<1>5. wq' \in Seq(Works) /\ NoDup(wq') /\ ~Queued(wq', "timeout")
  BY <1>2, <1>4, WithoutFacts
<1>6. BAND_SEQ_LEN \in Nat /\ MaxEvents \in Nat
  BY <1>1, Numbers
<1>7. WifiTypes'
  BY <1>1, <1>2, <1>3, <1>5, <1>6 DEF WifiTypes, DriverMove
<1>8. TimerInv'
  BY <1>2 DEF TimerInv
<1>9. QuietInv'
  <2>1. Exhausted'
    BY <1>2, <1>6 DEF Exhausted
  <2> QED BY <1>2, <1>4, <1>5, <2>1 DEF QuietInv
<1>10. IndexInv'
  <2>1. /\ Once(drv = "connecting")' = 0 /\ Once(Counting)' = 0 /\ Once(MayTimeOut)' = 0
    BY <1>2, <1>4, <1>5 DEF Once, Counting, MayTimeOut
  <2>2. FailsIn(evq') \in Nat /\ FailsIn(evq') <= MaxEvents
    <3>1. evq' \in Seq(NetEvts) /\ Len(evq') <= MaxEvents
      BY <1>3 DEF DriverMove
    <3>2. FailsIn(evq') \in Nat /\ FailsIn(evq') <= Len(evq') /\ Len(evq') \in Nat
      BY <3>1, FailsFinite
    <3> QED BY <1>6, <3>1, <3>2
  <2>3. BAND_SEQ_LEN + FailsIn(evq') + 0 + 0 + 0 <= BAND_SEQ_LEN + MaxEvents + 1
    BY ONLY <1>6, <2>2
  <2> QED BY <1>2, <2>1, <2>3 DEF IndexInv
<1> QED BY <1>7, <1>8, <1>9, <1>10 DEF WifiIInv

LEMMA ReadyWorkKeeps ==
    ASSUME WifiIInv, ReadyWork
    PROVE  WifiIInv'
<1>1. WifiTypes
  BY DEF WifiIInv
<1>2. /\ Takes("ready")
      /\ UNCHANGED <<ready_dwork, wpc, mpc, evq, drv, if_up, s_connected>>
  BY DEF ReadyWork, app, EmitReady
<1>3. /\ Tail(wq) \in Seq(Works) /\ NoDup(Tail(wq))
      /\ Queued(Tail(wq), "timeout") <=> Queued(wq, "timeout")
      /\ Queued(Tail(wq), "retry") <=> Queued(wq, "retry")
  BY <1>1, <1>2, Taken
<1>4. CASE /\ wq' = Tail(wq) /\ s_started' \in BOOLEAN
           /\ UNCHANGED <<timeout_dwork, s_retry_cfg, s_retry_idx, goal, tried>>
  <2>1. TimerInv' /\ IndexInv' /\ QuietInv'
    BY <1>2, <1>3, <1>4, SameControl
  <2>2. WifiTypes'
    BY <1>1, <1>2, <1>3, <1>4 DEF WifiTypes
  <2> QED BY <2>1, <2>2 DEF WifiIInv
<1>5. CASE s_started' = TRUE /\ ConnectFrom(Tail(wq), "supported")
  <2>1. /\ TimerInv' /\ IndexInv' /\ QuietInv'
        /\ wq' \in Seq(Works) /\ NoDup(wq')
    BY <1>2, <1>3, <1>5, ConnectKeeps
  <2>2. WifiTypes'
    BY <1>1, <1>2, <1>5, <2>1 DEF WifiTypes, ConnectFrom
  <2> QED BY <2>1, <2>2 DEF WifiIInv
<1>6. s_started \in BOOLEAN
  BY <1>1 DEF WifiTypes
<1> QED BY <1>4, <1>5, <1>6 DEF ReadyWork, EmitReady, NoConnect, app, hist

LEMMA ConnectWorkKeeps ==
    ASSUME WifiIInv, ConnectWork
    PROVE  WifiIInv'
<1>1. WifiTypes
  BY DEF WifiIInv
<1>2. /\ Takes("connect")
      /\ UNCHANGED <<s_started, s_connected, ready_dwork, wpc, mpc, evq, drv, if_up>>
  BY DEF ConnectWork
<1>3. /\ Tail(wq) \in Seq(Works) /\ NoDup(Tail(wq))
      /\ Queued(Tail(wq), "timeout") <=> Queued(wq, "timeout")
      /\ Queued(Tail(wq), "retry") <=> Queued(wq, "retry")
  BY <1>1, <1>2, Taken
<1>4. CASE NoConnect(Tail(wq))
  <2>1. wq' = Tail(wq) /\ UNCHANGED <<timeout_dwork, s_retry_cfg, s_retry_idx, goal, tried>>
    BY <1>4 DEF NoConnect, hist
  <2>2. TimerInv' /\ IndexInv' /\ QuietInv'
    BY <1>2, <1>3, <2>1, SameControl
  <2>3. WifiTypes'
    BY <1>1, <1>2, <1>3, <2>1 DEF WifiTypes
  <2> QED BY <2>2, <2>3 DEF WifiIInv
<1>5. ASSUME NEW cfg \in {"supported", "unsupported"}, ConnectFrom(Tail(wq), cfg)
      PROVE  WifiIInv'
  <2>1. /\ TimerInv' /\ IndexInv' /\ QuietInv'
        /\ wq' \in Seq(Works) /\ NoDup(wq')
    BY <1>2, <1>3, <1>5, ConnectKeeps
  <2>2. WifiTypes'
    BY <1>1, <1>2, <1>5, <2>1 DEF WifiTypes, ConnectFrom
  <2> QED BY <2>1, <2>2 DEF WifiIInv
<1> QED BY <1>4, <1>5 DEF ConnectWork

LEMMA IfaceEventKeeps ==
    ASSUME WifiIInv, IfaceEvent
    PROVE  WifiIInv'
<1>1. WifiTypes
  BY DEF WifiIInv
<1>2. /\ Handles("IF_UP")
      /\ UNCHANGED <<wpc, mpc, drv, if_up, s_connected>>
  BY DEF IfaceEvent, app, EmitReady
<1>3. /\ evq' \in Seq(NetEvts) /\ Len(evq') <= MaxEvents /\ FailsIn(evq') = FailsIn(evq)
      /\ Queued(evq', "FAIL") => Queued(evq, "FAIL")
  BY <1>1, <1>2, EventsTaken DEF EventTaken
<1>4. wq \in Seq(Works) /\ NoDup(wq)
  BY <1>1 DEF WifiTypes
<1>5. /\ Without(wq, "ready") \in Seq(Works) /\ NoDup(Without(wq, "ready"))
      /\ Queued(Without(wq, "ready"), "timeout") <=> Queued(wq, "timeout")
      /\ Queued(Without(wq, "ready"), "retry") <=> Queued(wq, "retry")
  BY <1>4, WithoutFacts
<1>6. ready_dwork' \in {"unset", "off", "armed"}
  BY <1>1 DEF IfaceEvent, WifiTypes, timers
<1>7. CASE /\ wq' \in {wq, Without(wq, "ready")} /\ s_started' \in BOOLEAN
           /\ UNCHANGED <<timeout_dwork, s_retry_cfg, s_retry_idx, goal, tried>>
  <2>1. /\ wq' \in Seq(Works) /\ NoDup(wq')
        /\ Queued(wq', "timeout") <=> Queued(wq, "timeout")
        /\ Queued(wq', "retry") <=> Queued(wq, "retry")
    BY <1>4, <1>5, <1>7
  <2>2. TimerInv' /\ IndexInv' /\ QuietInv'
    BY <1>2, <1>3, <1>7, <2>1, SameControl
  <2>3. WifiTypes'
    BY <1>1, <1>2, <1>3, <1>6, <1>7, <2>1 DEF WifiTypes
  <2> QED BY <2>2, <2>3 DEF WifiIInv
<1>8. CASE s_started' = TRUE /\ ConnectFrom(Without(wq, "ready"), "supported")
  <2>1. /\ TimerInv' /\ IndexInv' /\ QuietInv'
        /\ wq' \in Seq(Works) /\ NoDup(wq')
    BY <1>2, <1>3, <1>5, <1>8, ConnectKeeps
  <2>2. WifiTypes'
    BY <1>1, <1>2, <1>3, <1>6, <1>8, <2>1 DEF WifiTypes, ConnectFrom
  <2> QED BY <2>1, <2>2 DEF WifiIInv
<1>9. s_started \in BOOLEAN
  BY <1>1 DEF WifiTypes
<1> QED BY <1>7, <1>8, <1>9 DEF IfaceEvent, EmitReady, NoConnect, app, timers, hist

\* A failure event is counted and cancels the timeout of the attempt.
LEMMA ConnectFailedKeeps ==
    ASSUME WifiIInv, ConnectFailed
    PROVE  WifiIInv'
<1>1. WifiTypes /\ TimerInv /\ IndexInv /\ QuietInv
  BY DEF WifiIInv
<1>2. /\ Handles("FAIL") /\ timeout_dwork' = "off" /\ s_retry_idx' = s_retry_idx + 1
      /\ wq' = Submit(Without(wq, "timeout"), "retry")
      /\ UNCHANGED <<s_started, s_connected, s_retry_cfg, ready_dwork, wpc, mpc, drv, if_up,
                     goal, tried>>
  BY DEF ConnectFailed, NextBand, hist
<1>3. EventTaken("FAIL")
  BY <1>1, <1>2, EventsTaken
<1>4. wq' \in Seq(Works) /\ NoDup(wq') /\ ~Queued(wq', "timeout")
  <2>1. wq \in Seq(Works) /\ NoDup(wq) /\ "retry" \in Works
    BY <1>1 DEF WifiTypes, Works
  <2>2. /\ Without(wq, "timeout") \in Seq(Works) /\ NoDup(Without(wq, "timeout"))
        /\ ~Queued(Without(wq, "timeout"), "timeout")
    BY <2>1, WithoutFacts
  <2> QED BY <1>2, <2>1, <2>2, SubmitFacts
<1>5. /\ s_retry_idx \in Nat /\ FailsIn(evq) \in Nat /\ BAND_SEQ_LEN \in Nat /\ MaxEvents \in Nat
  BY <1>1, Numbers DEF WifiTypes
<1>6. WifiTypes'
  BY <1>1, <1>2, <1>3, <1>4 DEF WifiTypes, EventTaken
<1>7. TimerInv'
  BY <1>2 DEF TimerInv
<1>8. QuietInv'
  <2>1. Exhausted => Exhausted'
    BY <1>2, <1>5 DEF Exhausted
  <2> QED BY <1>1, <1>2, <1>3, <1>4, <2>1 DEF QuietInv, EventTaken
<1>9. IndexInv'
  <2>1. Once(drv = "connecting")' = Once(drv = "connecting") /\ Once(Counting)' = Once(Counting)
    BY <1>2 DEF Once, Counting
  <2>2. /\ Once(drv = "connecting") \in {0, 1} /\ Once(Counting) \in {0, 1}
        /\ Once(MayTimeOut) \in {0, 1} /\ Once(MayTimeOut)' \in {0, 1}
    BY DEF Once
  <2>3. Once(MayTimeOut)' <= Once(MayTimeOut)
    <3>1. MayTimeOut' => MayTimeOut
      BY <1>2, <1>4 DEF MayTimeOut
    <3> QED BY <3>1 DEF Once
  <2>4. FailsIn(evq') \in Nat /\ FailsIn(evq') + 1 <= FailsIn(evq)
    <3>1. Once("FAIL" = "FAIL") = 1
      BY DEF Once
    <3> QED BY <1>3, <3>1 DEF EventTaken
  <2>5. s_retry_idx + FailsIn(evq) + Once(drv = "connecting") + Once(Counting) + Once(MayTimeOut)
            <= BAND_SEQ_LEN + MaxEvents + 1
    BY <1>1 DEF IndexInv
  <2>6. (s_retry_idx + 1) + FailsIn(evq') + Once(drv = "connecting")' + Once(Counting)'
            + Once(MayTimeOut)' <= BAND_SEQ_LEN + MaxEvents + 1
    BY ONLY <1>5, <2>1, <2>2, <2>3, <2>4, <2>5
  <2> QED BY <1>2, <2>6 DEF IndexInv
<1> QED BY <1>6, <1>7, <1>8, <1>9 DEF WifiIInv

\* The other results of an attempt cancel its timeout.
LEMMA ResultKeeps ==
    ASSUME WifiIInv, ConnectWrongPassword \/ ConnectOk
    PROVE  WifiIInv'
<1>1. WifiTypes /\ TimerInv /\ IndexInv /\ QuietInv
  BY DEF WifiIInv
<1>2. PICK e \in {"WRONG_PW", "OK"} : Handles(e)
  BY DEF ConnectWrongPassword, ConnectOk
<1>3. /\ timeout_dwork' = "off" /\ wq' = Without(wq, "timeout") /\ tried' = {}
      /\ goal' \in {goal, "joined", "failed"}
      /\ UNCHANGED <<s_started, s_retry_idx, s_retry_cfg, ready_dwork, wpc, drv, if_up>>
      /\ goal = "none" => goal' = "none"
      /\ goal' = "none" => goal = "none"
  BY DEF ConnectWrongPassword, ConnectOk, Settled, app
<1>4. s_connected' \in BOOLEAN /\ mpc' \in {"idle", "joined"}
  BY <1>1 DEF WifiTypes, ConnectWrongPassword, ConnectOk, app
<1>5. /\ evq' \in Seq(NetEvts) /\ Len(evq') <= MaxEvents /\ FailsIn(evq') = FailsIn(evq)
      /\ Queued(evq', "FAIL") => Queued(evq, "FAIL")
  BY <1>1, <1>2, EventsTaken DEF EventTaken
<1>6. /\ wq' \in Seq(Works) /\ NoDup(wq') /\ ~Queued(wq', "timeout")
      /\ Queued(wq', "retry") => Queued(wq, "retry")
  <2>1. wq \in Seq(Works) /\ NoDup(wq)
    BY <1>1 DEF WifiTypes
  <2> QED BY <1>3, <2>1, WithoutFacts
<1>7. WifiTypes'
  BY <1>1, <1>3, <1>4, <1>5, <1>6 DEF WifiTypes
<1>8. TimerInv'
  BY <1>3 DEF TimerInv
<1>9. QuietInv'
  BY <1>1, <1>3, <1>5, <1>6 DEF QuietInv, Exhausted
<1>10. IndexInv'
  <2>1. Once(drv = "connecting")' = Once(drv = "connecting") /\ Once(Counting)' = Once(Counting)
    BY <1>3 DEF Once, Counting
  <2>2. /\ Once(drv = "connecting") \in {0, 1} /\ Once(Counting) \in {0, 1}
        /\ Once(MayTimeOut) \in {0, 1} /\ Once(MayTimeOut)' \in {0, 1}
    BY DEF Once
  <2>3. Once(MayTimeOut)' <= Once(MayTimeOut)
    <3>1. MayTimeOut' => MayTimeOut
      BY <1>3, <1>6 DEF MayTimeOut
    <3> QED BY <3>1 DEF Once
  <2>4. /\ s_retry_idx \in Nat /\ FailsIn(evq) \in Nat /\ BAND_SEQ_LEN \in Nat /\ MaxEvents \in Nat
    BY <1>1, Numbers DEF WifiTypes
  <2>5. s_retry_idx + FailsIn(evq) + Once(drv = "connecting") + Once(Counting) + Once(MayTimeOut)
            <= BAND_SEQ_LEN + MaxEvents + 1
    BY <1>1 DEF IndexInv
  <2>6. s_retry_idx + FailsIn(evq) + Once(drv = "connecting")' + Once(Counting)'
            + Once(MayTimeOut)' <= BAND_SEQ_LEN + MaxEvents + 1
    BY ONLY <2>1, <2>2, <2>3, <2>4, <2>5
  <2> QED BY <1>3, <1>5, <2>6 DEF IndexInv
<1> QED BY <1>7, <1>8, <1>9, <1>10 DEF WifiIInv

LEMMA LinkKeeps ==
    ASSUME WifiIInv, Joined \/ Disconnected \/ DhcpBound
    PROVE  WifiIInv'
<1>1. WifiTypes
  BY DEF WifiIInv
<1>2. /\ UNCHANGED <<s_started, s_retry_idx, s_retry_cfg, timeout_dwork, ready_dwork, wq, wpc,
                     drv, if_up, goal, tried>>
      /\ s_connected' \in BOOLEAN /\ mpc' \in {"idle", "joined"}
  BY <1>1 DEF Joined, Disconnected, DhcpBound, app, timers, hist, WifiTypes
<1>3. /\ evq' \in Seq(NetEvts) /\ Len(evq') <= MaxEvents /\ FailsIn(evq') = FailsIn(evq)
      /\ Queued(evq', "FAIL") => Queued(evq, "FAIL")
  <2>1. CASE Joined
    BY <1>1, <2>1 DEF Joined, WifiTypes
  <2>2. ASSUME NEW e \in {"DISC", "DHCP"}, Handles(e)
        PROVE  /\ evq' \in Seq(NetEvts) /\ Len(evq') <= MaxEvents /\ FailsIn(evq') = FailsIn(evq)
               /\ Queued(evq', "FAIL") => Queued(evq, "FAIL")
    BY <1>1, <2>2, EventsTaken DEF EventTaken
  <2> QED BY <2>1, <2>2 DEF Disconnected, DhcpBound
<1>4. TimerInv' /\ IndexInv' /\ QuietInv'
  BY <1>2, <1>3, SameControl
<1>5. WifiTypes'
  BY <1>1, <1>2, <1>3 DEF WifiTypes
<1> QED BY <1>4, <1>5 DEF WifiIInv

-----------------------------------------------------------------------------
(***************************************************************************)
(* The theorems.                                                           *)
(***************************************************************************)

\* The inductive invariant holds of every behaviour of the station wrapper.
THEOREM WifiIInvInvariant == WifiSpec => []WifiIInv
<1>1. WifiInit => WifiIInv
  <2> SUFFICES ASSUME WifiInit PROVE WifiIInv
    OBVIOUS
  <2>1. WifiTypes
    <3>1. wq = <<>> /\ evq = <<>> /\ tried = {}
      BY DEF WifiInit
    <3>2. wq \in Seq(Works) /\ evq \in Seq(NetEvts) /\ Len(evq) = 0 /\ Len(wq) = 0
      BY <3>1
    <3>3. NoDup(wq) /\ Len(evq) <= MaxEvents
      BY <3>2, WifiAssumption DEF NoDup
    <3> QED BY <3>1, <3>2, <3>3 DEF WifiInit, WifiTypes
  <2>2. TimerInv /\ QuietInv
    BY DEF WifiInit, TimerInv, QuietInv, Queued
  <2>3. IndexInv
    <3>1. /\ Once(drv = "connecting") = 0 /\ Once(Counting) = 0 /\ Once(MayTimeOut) = 0
      BY DEF WifiInit, Once, Counting, MayTimeOut, Queued
    <3>2. s_retry_idx = 0
      BY DEF WifiInit
    <3>3. 0 + FailsIn(evq) + 0 + 0 + 0 <= BAND_SEQ_LEN + MaxEvents + 1
      BY <2>1, Numbers
    <3> QED BY <3>1, <3>2, <3>3 DEF IndexInv
  <2> QED BY <2>1, <2>2, <2>3 DEF WifiIInv
<1>2. WifiIInv /\ [WifiNext]_vars => WifiIInv'
  <2> SUFFICES ASSUME WifiIInv, [WifiNext]_vars PROVE WifiIInv'
    OBVIOUS
  <2>1. CASE UNCHANGED vars
    <3>1. UNCHANGED <<s_started, s_connected, s_retry_idx, s_retry_cfg, timeout_dwork, ready_dwork,
                      wq, wpc, mpc, evq, drv, if_up, goal, tried>>
      BY <2>1 DEF vars, app, timers, hist
    <3>2. TimerInv' /\ IndexInv' /\ QuietInv'
      BY <3>1, SameControl
    <3>3. WifiTypes'
      BY <3>1 DEF WifiIInv, WifiTypes
    <3> QED BY <3>2, <3>3 DEF WifiIInv
  <2>2. CASE DriverStep
    BY <2>2, DriverKeeps
  <2>3. CASE IfUp \/ ArmReady \/ ReadyExpires \/ \E w \in {"connect", "reset"} : ProvCb(w)
    BY <2>3, ClockKeeps
  <2>4. CASE TimeoutExpires
    BY <2>4, TimeoutExpiresKeeps
  <2>5. CASE WorkQueue
    BY <2>5, ReadyWorkKeeps, RetryFailsKeeps, RetryRequestKeeps, RetryAcceptedKeeps, CountedKeeps,
       TimeoutWorkKeeps, ConnectWorkKeeps, ResetWorkKeeps DEF WorkQueue
  <2>6. CASE NetMgmt
    BY <2>6, IfaceEventKeeps, ConnectFailedKeeps, ResultKeeps, LinkKeeps DEF NetMgmt
  <2> QED BY <2>1, <2>2, <2>3, <2>4, <2>5, <2>6 DEF WifiNext
<1> QED BY <1>1, <1>2, PTL DEF WifiSpec

\* s_retry_idx passes the end of the table by a bounded amount only, however
\* many requests, late failures and timeouts there are, and no work item is
\* queued twice: five items, five places.
THEOREM WifiTypeCorrect == WifiSpec => []WifiTypeOK
<1>1. WifiIInv => WifiTypeOK
  <2> SUFFICES ASSUME WifiIInv PROVE WifiTypeOK
    OBVIOUS
  <2>1. WifiTypes /\ IndexInv
    BY DEF WifiIInv
  <2>2. wq \in Seq(Works) /\ Len(wq) <= 5
    BY <2>1, QueueShort DEF WifiTypes
  <2>3. s_retry_idx \in 0 .. BAND_SEQ_LEN + MaxEvents + 1
    <3>1. /\ Once(drv = "connecting") \in {0, 1} /\ Once(Counting) \in {0, 1}
          /\ Once(MayTimeOut) \in {0, 1}
      BY DEF Once
    <3>2. /\ s_retry_idx \in Nat /\ FailsIn(evq) \in Nat /\ BAND_SEQ_LEN \in Nat /\ MaxEvents \in Nat
      BY <2>1, Numbers DEF WifiTypes
    <3> QED BY <2>1, <3>1, <3>2 DEF IndexInv
  <2> QED BY <2>1, <2>2, <2>3 DEF WifiTypes, WifiTypeOK
<1> QED BY <1>1, WifiIInvInvariant, PTL

\* app_wifi_disconnect silences the station: until the next app_wifi_connect no
\* timeout is pending and no queued retry makes a request, whatever the driver
\* still reports.
THEOREM ResetIsQuiet == WifiSpec => []ResetQuiesces
<1>1. WifiIInv => ResetQuiesces
  BY DEF WifiIInv, QuietInv, ResetQuiesces
<1> QED BY <1>1, WifiIInvInvariant, PTL

-----------------------------------------------------------------------------
(***************************************************************************)
(* What has to hold in every state for AttemptEnds, which needs fairness   *)
(* besides: a pending app_wifi_connect is never forgotten.                 *)
(***************************************************************************)

\* Something is still to happen to the attempt without the driver's help.
Carried ==
    \/ Queued(wq, "retry") \/ Queued(wq, "timeout")
    \/ timeout_dwork = "armed" \/ wpc # "idle"

NotForgotten == goal = "trying" => Carried

\* A retry that was submitted is queued.
LEMMA Submitted ==
    ASSUME NEW q \in Seq(Works), NoDup(q)
    PROVE  Queued(Submit(q, "retry"), "retry")
<1>1. "retry" \in Works
  BY DEF Works
<1> QED BY <1>1, SubmitFacts

\* The steps that set an attempt going, or on to the next band.
LEMMA RetrySubmitted ==
    ASSUME WifiIInv, NEW q \in Seq(Works), NoDup(q),
           \/ NextBand(q) \/ NextBand(Without(q, "timeout"))
           \/ \E cfg \in {"supported", "unsupported"} : ConnectFrom(q, cfg)
    PROVE  NotForgotten'
<1>1. /\ Without(q, "timeout") \in Seq(Works) /\ NoDup(Without(q, "timeout"))
  BY WithoutFacts
<1>2. Queued(wq', "retry")
  BY <1>1, Submitted DEF NextBand, ConnectFrom
<1> QED BY <1>2 DEF NotForgotten, Carried

\* The steps that leave the attempt where it is.
LEMMA CarriedOn ==
    ASSUME NotForgotten, goal' = goal, wpc' = wpc, timeout_dwork' = timeout_dwork,
           Queued(wq, "retry") => Queued(wq', "retry"),
           Queued(wq, "timeout") => Queued(wq', "timeout")
    PROVE  NotForgotten'
BY DEF NotForgotten, Carried

\* No step forgets a pending attempt.
LEMMA AttemptKept ==
    ASSUME WifiIInv, NotForgotten, [WifiNext]_vars
    PROVE  NotForgotten'
<1>1. WifiTypes /\ wq \in Seq(Works) /\ NoDup(wq)
  BY DEF WifiIInv, WifiTypes
<1>2. CASE DriverStep \/ IfUp \/ ArmReady \/ Joined \/ Disconnected \/ DhcpBound \/ UNCHANGED vars
  <2>1. UNCHANGED <<goal, wpc, timeout_dwork, wq>>
    BY <1>2 DEF DriverStep, IfUp, ArmReady, Joined, Disconnected, DhcpBound, vars, timers, hist
  <2> QED BY <2>1, CarriedOn
<1>3. CASE ReadyExpires \/ \E w \in {"connect", "reset"} : ProvCb(w)
  <2>1. PICK w \in {"ready", "connect", "reset"} :
            wq' = Submit(wq, w) /\ UNCHANGED <<goal, wpc, timeout_dwork>>
    BY <1>3 DEF ReadyExpires, ProvCb, timers, hist
  <2>2. w \in Works
    BY DEF Works
  <2>3. \A x : Queued(wq', x) <=> Queued(wq, x) \/ x = w
    BY <1>1, <2>1, <2>2, SubmitFacts
  <2> QED BY <2>1, <2>3, CarriedOn
<1>4. CASE TimeoutExpires
  <2>1. "timeout" \in Works
    BY DEF Works
  <2>2. Queued(wq', "timeout")
    BY <1>1, <1>4, <2>1, SubmitFacts DEF TimeoutExpires
  <2> QED BY <2>2 DEF NotForgotten, Carried
<1>5. ASSUME NEW w \in Works, Takes(w)
      PROVE  /\ Tail(wq) \in Seq(Works) /\ NoDup(Tail(wq))
             /\ \A x : Queued(Tail(wq), x) <=> Queued(wq, x) /\ x # w
  BY <1>1, <1>5, TailFacts DEF Takes
<1>6. {"ready", "connect", "retry", "timeout", "reset"} \subseteq Works
  BY DEF Works
<1>7. CASE ReadyWork \/ ConnectWork
  <2>1. PICK w \in {"ready", "connect"} : Takes(w)
    BY <1>7 DEF ReadyWork, ConnectWork
  <2>2. CASE \E cfg \in {"supported", "unsupported"} : ConnectFrom(Tail(wq), cfg)
    BY <1>5, <1>6, <2>1, <2>2, RetrySubmitted
  <2>3. CASE wq' = Tail(wq) /\ UNCHANGED <<goal, wpc, timeout_dwork>>
    BY <1>5, <1>6, <2>1, <2>3, CarriedOn
  <2> QED BY <1>7, <2>2, <2>3 DEF ReadyWork, ConnectWork, EmitReady, NoConnect, hist
<1>8. CASE RetryFails \/ ResetWork \/ ConnectWrongPassword \/ ConnectOk
  <2>1. goal' # "trying"
    BY <1>8 DEF RetryFails, ResetWork, ConnectWrongPassword, ConnectOk, Settled
  <2> QED BY <2>1 DEF NotForgotten
<1>9. CASE RetryRequest \/ TimeoutWork
  <2>1. wpc' # "idle"
    BY <1>9 DEF RetryRequest, TimeoutWork
  <2> QED BY <2>1 DEF NotForgotten, Carried
<1>10. CASE RetryAccepted
  BY <1>10 DEF RetryAccepted, NotForgotten, Carried
<1>11. CASE RetryRefused \/ TimeoutNext \/ ConnectFailed
  BY <1>1, <1>11, RetrySubmitted DEF RetryRefused, TimeoutNext, ConnectFailed
<1>12. CASE IfaceEvent
  <2>1. /\ Without(wq, "ready") \in Seq(Works) /\ NoDup(Without(wq, "ready"))
        /\ \A x : Queued(Without(wq, "ready"), x) <=> Queued(wq, x) /\ x # "ready"
    BY <1>1, WithoutFacts
  <2>2. CASE ConnectFrom(Without(wq, "ready"), "supported")
    BY <2>1, <2>2, RetrySubmitted
  <2>3. CASE wq' \in {wq, Without(wq, "ready")} /\ UNCHANGED <<goal, wpc, timeout_dwork>>
    BY <2>1, <2>3, CarriedOn
  <2> QED BY <1>12, <2>2, <2>3 DEF IfaceEvent, EmitReady, NoConnect, hist, timers
<1> QED BY <1>2, <1>3, <1>4, <1>7, <1>8, <1>9, <1>10, <1>11, <1>12
        DEF WifiNext, WorkQueue, NetMgmt

\* A pending app_wifi_connect always has a retry or a timeout queued, its timer
\* armed, or the work queue inside it: whichever results, late or for a request
\* that was given up, cancel a timeout, and however they interleave with the
\* requests that block.
THEOREM AttemptIsCarried == WifiSpec => []NotForgotten
<1>1. WifiInit => NotForgotten
  BY DEF WifiInit, NotForgotten
<1> QED BY <1>1, AttemptKept, WifiIInvInvariant, PTL DEF WifiSpec

==============================================================================
