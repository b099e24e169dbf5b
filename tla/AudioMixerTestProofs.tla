------------------------ MODULE AudioMixerTestProofs ------------------------
(***************************************************************************)
(* Theorems about the example's controller with its adapters, for every    *)
(* block size, rate, sequence of tests and way the callbacks fall.  The    *)
(* controller and the playout adapter come first on their own, then all of *)
(* them together: each is seen through the steps of the composition.       *)
(***************************************************************************)
EXTENDS AudioMixerTest, AudioRecordSourceProofs

------------------------------------------------------------------------------
(* The controller *)

\* There is a device exactly while there is a test; a callback serves that test,
\* on a device of its kind; up to the first release the test has its members.
ControllerInv ==
  /\ _testType \in Tests \cup {"TEST_NONE"} /\ callback \in Tests \cup {"none"}
  /\ _adm \in {"none", "playing", "recording", "stopping", "idle"} /\ at \in Nat
  /\ _testType = "TEST_NONE" <=> _adm = "none"
  /\ _adm = "recording" => _testType = "TEST_RECORD_AND_MIX"
  /\ callback # "none" => callback = _testType /\ _adm # "none"
  /\ at <= 1 /\ _testType # "TEST_NONE" => held = Members[_testType]
  /\ at > 0 /\ _testType = "TEST_NONE" => breach
  /\ fault \in {"none", "released", "null"}
  /\ FaultNeedsOverlap

\* The controller on its own keeps it.
LEMMA ControllerInvariant == ControllerSpec => []ControllerInv
<1>1. ControllerInit => ControllerInv
  BY DEF ControllerInit, ControllerInv, FaultNeedsOverlap
<1>2. ControllerInv /\ [ControllerNext]_controllerVars => ControllerInv'
  <2> SUFFICES ASSUME ControllerInv, [ControllerNext]_controllerVars PROVE ControllerInv'
    OBVIOUS
  <2> USE DEF ControllerInv, FaultNeedsOverlap
  <2>1. CASE fault = "none" /\ ControllerStep
    <3> USE <2>1
    <3>1. Len(Order) = 7
      BY DEF Order
    <3>2. ASSUME NEW test \in Tests, Start(test) PROVE ControllerInv'
      <4>1. "TEST_NONE" \notin Tests /\ "none" \notin Tests
        BY DEF Tests, Members
      <4>2. /\ _adm' \in {"recording", "playing", "idle"}
            /\ (_adm' = "recording" => test = "TEST_RECORD_AND_MIX")
        BY <3>2 DEF Start, doStartTest
      <4> QED BY <3>2, <4>1, <4>2 DEF Start, doStartTest
    <3>3. CASE Stop
      <4>1. (breach => breach') /\ (_testType = "TEST_NONE" => breach')
        BY <3>3, Zenon DEF Stop
      <4>2. UNCHANGED <<_testType, held, _adm, callback, fault>> /\ at = 0 /\ at' = 1
        BY <3>3 DEF Stop
      <4> QED BY <4>1, <4>2
    <3>4. CASE Release
      BY <3>1, <3>4 DEF Release
    <3>5. CASE StopDevice
      BY <3>1, <3>5 DEF StopDevice
    <3>6. CASE StopReturn
      BY <3>1, <3>6 DEF StopReturn
    <3>7. CASE CallbackBegin
      BY <3>7 DEF CallbackBegin
    <3>8. CASE CallbackEnd
      BY <3>8 DEF CallbackEnd
    <3>9. ASSUME NEW member, CallbackUse(member) PROVE ControllerInv'
      <4>1. "none" \notin Tests /\ Members["TEST_MIX"] = {}
        BY DEF Tests, Members
      <4>2. callback # "none" /\ callback # "TEST_MIX" /\ at > 1
        BY <3>9, <4>1 DEF CallbackUse
      <4> QED BY <3>9, <4>2 DEF CallbackUse
    <3> QED
      BY <3>2, <3>3, <3>4, <3>5, <3>6, <3>7, <3>8, <3>9 DEF ControllerStep
  <2>2. CASE UNCHANGED controllerVars
    BY <2>2 DEF controllerVars
  <2> QED
    BY <2>1, <2>2 DEF ControllerNext
<1> QED
  BY <1>1, <1>2, PTL DEF ControllerSpec

\* FaultNeedsOverlap holds for every sequence of tests, stops and callbacks.
THEOREM FaultsNeedOverlap == ControllerSpec => []FaultNeedsOverlap
<1>1. ControllerInv => FaultNeedsOverlap
  BY DEF ControllerInv
<1> QED
  BY <1>1, ControllerInvariant, PTL

------------------------------------------------------------------------------
(* The playout adapter *)

\* What remains is the end of the block in hand, which is the last one and, but
\* for Resample's, is whole; inside a callback's loop nothing remains.
PlayoutInv ==
  /\ _remainingData \in 0..BlockSize /\ wantedSize \in Nat
  /\ produced \in Nat /\ missing \in Nat /\ played \in Seq(Nat)
  /\ first \in Nat \ {0} /\ size \in 0..BlockSize
  /\ wantedSize > 0 => _remainingData = 0
  /\ _remainingData > 0 => first + size - 1 = produced
  /\ _remainingData > 0 /\ _testType # "TEST_RESAMPLE" => size = BlockSize
  /\ InOrder

\* s followed by n samples, of which the first q are p + 1, p + 2, ...
Extended(s, p, q, n) ==
  [i \in 1..(Len(s) + n) |->
     IF i <= Len(s) THEN s[i] ELSE IF i - Len(s) <= q THEN p + (i - Len(s)) ELSE Stale]

\* If s holds the samples up to p, the extension holds them up to p + q.
LEMMA ExtendedOrdered ==
  ASSUME NEW s \in Seq(Nat), NEW p \in Nat, Ordered(s, p),
         NEW n \in Nat, NEW q \in 0..n
  PROVE  LET t == Extended(s, p, q, n)
         IN  t \in Seq(Nat) /\ Len(t) = Len(s) + n /\ Ordered(t, p + q)
<1> DEFINE t == Extended(s, p, q, n)
           l == Len(s)
<1>1. l \in Nat /\ q \in Nat /\ q <= n
  OBVIOUS
<1>2. \A i \in 1..l : s[i] \in Nat
  OBVIOUS
<1>3. \A i \in 1..(l + n) : t[i] = IF i <= l THEN s[i] ELSE IF i - l <= q THEN p + (i - l) ELSE 0
  BY DEF Extended, Stale
<1>4. \A i \in 1..(l + n) : t[i] \in Nat
  BY <1>1, <1>2, <1>3
<1>5. t \in Seq(Nat) /\ Len(t) = l + n
  BY <1>1, <1>4 DEF Extended
<1>6. \A i \in 1..l : s[i] # 0 => s[i] \in 1..p
  BY DEF Ordered, Stale
<1>7. \A v \in 1..p : \E i \in 1..l : s[i] = v
  BY DEF Ordered, Stale
<1>8. \A i, j \in 1..l : i < j /\ s[i] # 0 /\ s[j] # 0 => s[i] < s[j]
  BY DEF Ordered, Stale
<1> HIDE DEF t, l
<1>9. \A i \in 1..(l + n) : t[i] # 0 => t[i] \in 1..(p + q)
  BY ONLY <1>1, <1>2, <1>3, <1>6, p \in Nat, n \in Nat
<1>10. ASSUME NEW v \in 1..(p + q) PROVE \E i \in 1..(l + n) : t[i] = v
  <2>1. CASE v <= p
    <3>1. v \in 1..p
      BY <2>1, <1>1
    <3>2. PICK i \in 1..l : s[i] = v
      BY <3>1, <1>7
    <3>3. i \in 1..(l + n) /\ t[i] = v
      BY <1>1, <1>3, <3>2
    <3> QED BY <3>3
  <2>2. CASE v > p
    <3> DEFINE i == l + (v - p)
    <3>1. i \in 1..(l + n) /\ ~(i <= l) /\ i - l = v - p /\ v - p <= q
      BY ONLY <1>1, <2>2, p \in Nat, n \in Nat, v \in 1..(p + q)
    <3>2. p + (v - p) = v
      BY ONLY p \in Nat, q \in 0..n, n \in Nat, v \in 1..(p + q)
    <3> HIDE DEF i
    <3>3. t[i] = v
      BY <1>3, <3>1, <3>2
    <3> QED BY <3>1, <3>3
  <2> QED BY <1>1, <2>1, <2>2
<1>11. ASSUME NEW i \in 1..(l + n), NEW j \in 1..(l + n), i < j, t[i] # 0, t[j] # 0
       PROVE  t[i] < t[j]
  <2>1. CASE j <= l
    <3>1. i \in 1..l /\ j \in 1..l /\ t[i] = s[i] /\ t[j] = s[j]
      BY <1>1, <1>3, <1>11, <2>1
    <3> QED BY <1>8, <1>11, <3>1
  <2>2. CASE ~(j <= l) /\ i <= l
    <3>1. i \in 1..l /\ t[i] = s[i]
      BY <1>1, <1>3, <2>2
    <3>2. t[i] <= p /\ t[i] \in Nat
      BY <1>6, <1>11, <3>1
    <3>3. t[j] = p + (j - l)
      BY <1>3, <1>11, <2>2
    <3> QED BY ONLY <1>1, <2>2, <3>2, <3>3, p \in Nat, j \in 1..(l + n), n \in Nat
  <2>3. CASE ~(j <= l) /\ ~(i <= l)
    <3>1. t[j] = p + (j - l) /\ t[i] = p + (i - l)
      BY <1>3, <1>11, <2>3
    <3> QED BY <1>1, <1>11, <3>1
  <2> QED BY <2>1, <2>2, <2>3
<1>12. {t[i] : i \in 1..(l + n)} \ {0} = 1..(p + q)
  <2>1. \A v \in 1..(p + q) : v # 0
    BY <1>1
  <2> DEFINE N == 1..(p + q)
             D == 1..(l + n)
  <2> HIDE DEF N, D
  <2>2. \A v \in {t[i] : i \in D} \ {0} : v \in N
    BY ONLY <1>9 DEF N, D
  <2>3. \A v \in N : v \in {t[i] : i \in D} \ {0}
    BY ONLY <1>10, <2>1 DEF N, D
  <2> QED BY <2>2, <2>3, Zenon DEF N, D
<1>13. Ordered(t, p + q)
  BY <1>5, <1>11, <1>12 DEF Ordered, Stale
<1> QED BY <1>5, <1>13 DEF t, l

\* A callback that begins takes the next samples of the block in hand.
LEMMA DeliverKeeps ==
  ASSUME PlayoutInv, NEW n \in Requests, Deliver(n)
  PROVE  PlayoutInv'
<1> DEFINE m == MIN(_remainingData, n)
           offset == BlockEnd - _remainingData
           p == produced - Pending
           q == MIN(Pending, m)
<1>1. /\ _remainingData \in Nat /\ _remainingData <= BlockSize /\ BlockSize \in Nat /\ n \in Nat
      /\ size \in Nat /\ size <= BlockSize /\ first \in Nat /\ first > 0
      /\ produced \in Nat /\ missing \in Nat /\ played \in Seq(Nat) /\ Len(played) \in Nat
  BY PlayoutConfig DEF PlayoutInv
<1>2. m \in Nat /\ m <= _remainingData /\ m <= n
  BY <1>1 DEF MIN
<1>3. BlockEnd \in Nat /\ size <= BlockEnd /\ (_remainingData > 0 => BlockEnd = BlockSize)
  BY <1>1 DEF BlockEnd, PlayoutInv
<1>4. _remainingData > 0 => first + size - 1 = produced
  BY DEF PlayoutInv
<1>5. offset \in Int /\ (_remainingData > 0 => offset \in Nat) /\ (_remainingData = 0 => offset >= size)
  BY <1>1, <1>3
<1>6. Pending = IF size > offset THEN size - offset ELSE 0
  BY DEF Pending
<1>7. Ordered(played, p) /\ Len(played) + _remainingData = produced + missing
  BY DEF PlayoutInv, InOrder
<1> HIDE DEF offset
<1>8. /\ Pending \in Nat /\ (Pending > 0 => _remainingData > 0)
      /\ (Pending > 0 => first + offset - 1 = produced - Pending)
  BY ONLY <1>1, <1>4, <1>5, <1>6
<1>9. p \in Nat
  BY ONLY <1>1, <1>5, <1>8
<1>10. q \in 0..m /\ q \in Nat
  BY ONLY <1>2, <1>8 DEF MIN
<1>11. /\ UNCHANGED <<_testType, first, size, produced, missing>>
       /\ _remainingData' = _remainingData - m /\ wantedSize' = n - m
       /\ Copy(offset, m)
  BY DEF Deliver, offset
<1> HIDE DEF m
<1>12. \A k \in 1..m : Sample(first, size, offset + k) = IF k <= q THEN p + k ELSE Stale
  <2> SUFFICES ASSUME NEW k \in 1..m
               PROVE  Sample(first, size, offset + k) = IF k <= q THEN p + k ELSE Stale
    OBVIOUS
  <2>1. k <= q <=> k <= Pending
    BY ONLY <1>2, <1>8, k \in 1..m DEF MIN
  <2>2. offset + k <= size <=> k <= Pending
    BY ONLY <1>1, <1>5, <1>6, <1>2, k \in 1..m
  <2>3. k <= Pending => first + (offset + k) - 1 = p + k
    BY ONLY <1>1, <1>5, <1>8, <1>2, k \in 1..m
  <2> QED BY <2>1, <2>2, <2>3 DEF Sample
<1>13. played' = Extended(played, p, q, m)
  <2>1. played' = [i \in 1..(Len(played) + m) |-> IF i <= Len(played) THEN played[i]
                      ELSE Sample(first, size, offset + (i - Len(played)))]
    BY <1>11 DEF Copy
  <2>2. \A i \in 1..(Len(played) + m) : ~(i <= Len(played)) => i - Len(played) \in 1..m
    BY ONLY <1>1, <1>2
  <2> HIDE DEF p, q
  <2> QED BY <1>12, <2>1, <2>2 DEF Extended
<1>14. played' \in Seq(Nat) /\ Len(played') = Len(played) + m /\ Ordered(played', p + q)
  <2> HIDE DEF p, q
  <2>1. played \in Seq(Nat) /\ p \in Nat /\ Ordered(played, p) /\ m \in Nat /\ q \in 0..m
    BY <1>1, <1>2, <1>7, <1>9, <1>10
  <2>2. LET t == Extended(played, p, q, m)
        IN  t \in Seq(Nat) /\ Len(t) = Len(played) + m /\ Ordered(t, p + q)
    BY ONLY <2>1, ExtendedOrdered
  <2> QED BY ONLY <1>13, <2>2
<1>15. BlockEnd' = BlockEnd
  BY <1>11 DEF BlockEnd
<1>16. produced' - Pending' = p + q
  <2>1. Pending' = IF size > offset + m THEN size - (offset + m) ELSE 0
    <3>1. (BlockEnd - _remainingData)' = offset + m
      BY <1>1, <1>2, <1>3, <1>11, <1>15 DEF offset
    <3> QED BY <1>11, <3>1 DEF Pending
  <2>2. produced' = produced
    BY <1>11
  <2> QED BY ONLY <1>1, <1>2, <1>5, <1>6, <2>1, <2>2 DEF MIN
<1> HIDE DEF p, q
<1>17. InOrder'
  <2>1. Ordered(played', produced' - Pending')
    BY <1>14, <1>16
  <2>2. Len(played') + _remainingData' = produced' + missing'
    <3>1. /\ produced' = produced /\ missing' = missing
          /\ _remainingData' = _remainingData - m /\ Len(played') = Len(played) + m
      BY <1>11, <1>14
    <3>2. Len(played) + _remainingData = produced + missing
      BY <1>7
    <3> QED BY ONLY <1>1, <1>2, <3>1, <3>2
  <2> QED BY <2>1, <2>2 DEF InOrder
<1>18. _remainingData' \in 0..BlockSize /\ wantedSize' \in Nat /\ (_remainingData' > 0 => _remainingData > 0)
  BY ONLY <1>1, <1>2, <1>11
<1>19. wantedSize' > 0 => _remainingData' = 0
  BY ONLY <1>1, <1>11, m = MIN(_remainingData, n) DEF m, MIN
<1> QED BY <1>11, <1>14, <1>17, <1>18, <1>19 DEF PlayoutInv

\* A round of its loop goes on with the next block, when Read's blocks are whole.
LEMMA NextBlockKeeps ==
  ASSUME Results = {BlockSize}, PlayoutInv, NEW result \in BlocksOf(_testType), NextBlock(result)
  PROVE  PlayoutInv'
<1> DEFINE m == MIN(BlockSize, wantedSize)
           q == MIN(result, m)
<1>1. /\ BlockSize \in Nat /\ wantedSize \in Nat /\ wantedSize > 0 /\ _remainingData = 0
      /\ size \in Nat /\ size <= BlockSize
      /\ produced \in Nat /\ missing \in Nat /\ played \in Seq(Nat) /\ Len(played) \in Nat
  BY PlayoutConfig DEF PlayoutInv, NextBlock
<1>2. /\ result \in Nat /\ result <= BlockSize /\ TakenFor(result) = BlockSize
      /\ _testType # "TEST_RESAMPLE" => result = BlockSize
  BY PlayoutConfig DEF BlocksOf, TakenFor
<1>3. m \in Nat /\ m <= BlockSize /\ m <= wantedSize
  BY <1>1 DEF MIN
<1>4. q \in 0..m
  BY <1>2, <1>3 DEF MIN
<1>5. Ordered(played, produced) /\ Len(played) = produced + missing
  <2>1. Pending = 0
    BY <1>1 DEF Pending, BlockEnd
  <2> QED BY <1>1, <2>1 DEF PlayoutInv, InOrder
<1>6. /\ first' = produced + 1 /\ size' = result /\ produced' = produced + result
      /\ missing' = missing + BlockSize - result /\ Copy(0, m)
      /\ wantedSize' = wantedSize - m /\ _remainingData' = BlockSize - m
      /\ UNCHANGED _testType
  BY <1>2 DEF NextBlock
<1> HIDE DEF m
<1>7. played' = Extended(played, produced, q, m)
  <2>1. played' = [i \in 1..(Len(played) + m) |-> IF i <= Len(played) THEN played[i]
                      ELSE Sample(produced + 1, result, 0 + (i - Len(played)))]
    BY <1>6 DEF Copy
  <2>2. \A i \in 1..(Len(played) + m) : ~(i <= Len(played)) => i - Len(played) \in 1..m
    BY ONLY <1>1, <1>3
  <2>3. \A k \in 1..m : Sample(produced + 1, result, 0 + k) = IF k <= q THEN produced + k ELSE Stale
    BY ONLY <1>1, <1>2, <1>3 DEF Sample, MIN
  <2> HIDE DEF q
  <2> QED BY <2>1, <2>2, <2>3 DEF Extended
<1>8. played' \in Seq(Nat) /\ Len(played') = Len(played) + m /\ Ordered(played', produced + q)
  BY <1>1, <1>3, <1>4, <1>5, <1>7, ExtendedOrdered
<1>9. BlockEnd' = BlockSize
  BY <1>2, <1>6 DEF BlockEnd
<1>10. produced' - Pending' = produced + q
  <2>1. Pending' = IF result > BlockSize - (BlockSize - m) THEN result - (BlockSize - (BlockSize - m)) ELSE 0
    BY <1>6, <1>9 DEF Pending
  <2> QED BY ONLY <1>1, <1>2, <1>3, <1>6, <2>1 DEF MIN
<1> HIDE DEF q
<1>11. InOrder'
  <2>1. Ordered(played', produced' - Pending')
    BY <1>8, <1>10
  <2>2. Len(played') + _remainingData' = produced' + missing'
    BY ONLY <1>1, <1>2, <1>3, <1>5, <1>6, <1>8
  <2> QED BY <2>1, <2>2 DEF InOrder
<1>12. /\ _remainingData' \in 0..BlockSize /\ wantedSize' \in Nat /\ produced' \in Nat
       /\ missing' \in Nat /\ first' \in Nat \ {0} /\ size' \in 0..BlockSize
       /\ first' + size' - 1 = produced'
  BY ONLY <1>1, <1>2, <1>3, <1>6
<1>13. wantedSize' > 0 => _remainingData' = 0
  BY ONLY <1>1, <1>6, m = MIN(BlockSize, wantedSize) DEF m, MIN
<1>14. _testType' # "TEST_RESAMPLE" => size' = BlockSize
  BY <1>2, <1>6
<1> QED BY <1>8, <1>11, <1>12, <1>13, <1>14 DEF PlayoutInv

\* Whatever the block size, the device's requests and what read and Resample
\* yield, as long as Read returns whole blocks, the three adapters play every new
\* sample of a test once and in order, among as many stale ones as the ignored
\* results were short of.
THEOREM PlaysInOrder == Results = {BlockSize} => (PlayoutSpec => []PlayedInOrder)
<1> SUFFICES ASSUME Results = {BlockSize} PROVE PlayoutSpec => []PlayedInOrder
  OBVIOUS
<1>1. PlayoutInit => PlayoutInv
  BY PlayoutConfig DEF PlayoutInit, PlayoutInv, InOrder, Ordered, Pending, BlockEnd, Stale
<1>2. PlayoutInv /\ [PlayoutNext]_playoutVars => PlayoutInv'
  <2>1. ASSUME PlayoutInv, UNCHANGED playoutVars PROVE PlayoutInv'
    BY <2>1 DEF playoutVars, blockVars, PlayoutInv, InOrder, Pending, BlockEnd
  <2> QED
    BY <2>1, DeliverKeeps, NextBlockKeeps DEF PlayoutNext
<1>3. PlayoutInv => PlayedInOrder
  BY DEF PlayoutInv, PlayedInOrder
<1> QED
  BY <1>1, <1>2, <1>3, PTL DEF PlayoutSpec

------------------------------------------------------------------------------
(* The controller and its callbacks together *)

\* Every step of the composition is one of the controller, or none to it.
LEMMA ControllerPart == [TestNext]_testVars => [ControllerNext]_controllerVars
<1> SUFFICES ASSUME [TestNext]_testVars PROVE [ControllerNext]_controllerVars
  OBVIOUS
<1>1. CASE fault = "none" /\ TestStep
  <2>1. ASSUME NEW test \in Tests, StartTest(test) PROVE ControllerStep
    BY <2>1 DEF StartTest, ControllerStep
  <2>2. CASE Stop \/ doStopTest
    BY <1>1, <2>2 DEF doStopTest, ControllerStep, ControllerNext
  <2>3. CASE BeginCallback
    BY <1>1, <2>3 DEF BeginCallback, ControllerStep, ControllerNext
  <2>4. CASE ContinueCallback
    BY <2>4 DEF ContinueCallback
  <2>5. CASE EndCallback
    BY <1>1, <2>5 DEF EndCallback, ControllerStep, ControllerNext
  <2>6. ASSUME NEW member, CallbackUse(member) PROVE ControllerStep
    <3>1. member \in Members[callback] /\ callback \in Tests
      BY <2>6 DEF CallbackUse
    <3>2. member \in {"_buffer", "_resamplerInputBuffer", "_decoder", "_resampler", "_source",
                      "_resamplerReader", "_recordAndMixDumper"}
      BY <3>1 DEF Members, Tests
    <3>3. member \in {Order[i] : i \in DOMAIN Order}
      BY <3>2 DEF Order
    <3> QED
      BY <2>6, <3>3 DEF ControllerStep
  <2> QED
    BY <1>1, <2>1, <2>2, <2>3, <2>4, <2>5, <2>6 DEF TestStep, ControllerNext
<1>2. CASE UNCHANGED testVars
  BY <1>2 DEF testVars
<1> QED
  BY <1>1, <1>2 DEF TestNext

\* The composition implements the controller.
LEMMA ImplementsController == TestSpec => ControllerSpec
<1>1. TestInit => ControllerInit
  BY DEF TestInit
<1> QED
  BY <1>1, ControllerPart, PTL DEF ControllerSpec, TestSpec

\* While callbacks re-block the audio between the steps of doStopTest, one meets
\* a released member only if it overlaps doStopTest, and never when mixing.
THEOREM TestFaultsNeedOverlap == TestSpec => []FaultNeedsOverlap
  BY ImplementsController, FaultsNeedOverlap, PTL

\* A playout test plays in order; the state of the adapter is that of this test.
TestPlayoutInv == _testType \in PlayoutTests => PlayoutInv

\* Through any sequence of tests, stopped in the middle of a callback or not, each
\* playout test plays its new samples once and in order, and no more stale ones
\* than Resample was short of in this test, when Read's blocks are whole: what one
\* test leaves behind is never taken for a rest by the next.
THEOREM TestsPlayInOrder == Results = {BlockSize} => (TestSpec => []PlayedInOrder)
<1> SUFFICES ASSUME Results = {BlockSize} PROVE TestSpec => []PlayedInOrder
  OBVIOUS
<1>1. TestInit => TestPlayoutInv
  BY PlayoutConfig DEF TestInit, PlayoutInit, TestPlayoutInv, PlayoutInv, InOrder, Ordered, Pending,
       BlockEnd, Stale
<1>2. ControllerInv /\ ControllerInv' /\ TestPlayoutInv /\ [TestNext]_testVars => TestPlayoutInv'
  <2> SUFFICES ASSUME ControllerInv, ControllerInv', TestPlayoutInv, [TestNext]_testVars
               PROVE  TestPlayoutInv'
    OBVIOUS
  <2>0. ASSUME UNCHANGED <<_remainingData, blockVars>>,
               UNCHANGED _testType \/ _testType' = "TEST_NONE"
        PROVE  TestPlayoutInv'
    BY <2>0 DEF blockVars, TestPlayoutInv, PlayoutTests, PlayoutInv, InOrder, Pending, BlockEnd
  <2>1. ASSUME NEW test \in Tests, StartTest(test) PROVE TestPlayoutInv'
    BY <2>1, PlayoutConfig DEF StartTest, TestPlayoutInv, PlayoutInv, InOrder, Ordered, Pending,
       BlockEnd, Stale
  <2>2. CASE (Stop \/ doStopTest) /\ UNCHANGED dataVars
    BY <2>0, <2>2 DEF Stop, doStopTest, Release, StopDevice, StopReturn, dataVars
  <2>3. CASE BeginCallback
    <3>1. UNCHANGED _testType /\ (callback' = "none" \/ callback' = _testType)
      BY <2>3 DEF BeginCallback, CallbackBegin, ControllerInv
    <3>2. ASSUME NEW n \in Requests, Deliver(n), callback' \in PlayoutTests
          PROVE  TestPlayoutInv'
      <4>1. _testType \in PlayoutTests
        BY <3>1, <3>2 DEF PlayoutTests
      <4> QED BY <3>2, <4>1, DeliverKeeps DEF TestPlayoutInv
    <3>3. ASSUME callback' = "TEST_RECORD_AND_MIX" PROVE TestPlayoutInv'
      BY <3>1, <3>3 DEF TestPlayoutInv, PlayoutTests
    <3>4. ASSUME UNCHANGED dataVars PROVE TestPlayoutInv'
      BY <2>0, <3>1, <3>4 DEF dataVars
    <3> QED
      BY <2>3, <3>2, <3>3, <3>4 DEF BeginCallback
  <2>4. CASE ContinueCallback
    <3>1. ASSUME NEW result \in BlocksOf(_testType), NextBlock(result), callback \in PlayoutTests
          PROVE  TestPlayoutInv'
      <4>1. _testType \in PlayoutTests
        BY <3>1 DEF PlayoutTests, ControllerInv
      <4> QED BY <3>1, <4>1, NextBlockKeeps DEF TestPlayoutInv
    <3>2. ASSUME callback = "TEST_RECORD_AND_MIX", UNCHANGED controllerVars
          PROVE  TestPlayoutInv'
      BY <3>2 DEF controllerVars, ControllerInv, TestPlayoutInv, PlayoutTests
    <3> QED
      BY <2>4, <3>1, <3>2 DEF ContinueCallback
  <2>5. CASE EndCallback
    BY <2>0, <2>5 DEF EndCallback, CallbackEnd, dataVars
  <2>6. ASSUME NEW member, CallbackUse(member), UNCHANGED dataVars PROVE TestPlayoutInv'
    BY <2>0, <2>6 DEF CallbackUse, dataVars
  <2>7. CASE UNCHANGED testVars
    BY <2>0, <2>7 DEF testVars, controllerVars, dataVars
  <2> QED
    BY <2>1, <2>2, <2>3, <2>4, <2>5, <2>6, <2>7 DEF TestNext, TestStep
<1>3. TestPlayoutInv => PlayedInOrder
  BY DEF TestPlayoutInv, PlayoutInv, PlayedInOrder
<1>4. TestSpec => []ControllerInv
  BY ImplementsController, ControllerInvariant, PTL
<1> QED
  BY <1>1, <1>2, <1>3, <1>4, PTL DEF TestSpec

------------------------------------------------------------------------------
(* The recording adapter *)

\* How many elements of _buffer wait.
Waiting == IF step = "add" THEN mixerInputSize ELSE _remainingData

\* The variables have their types; while a callback has elements left, or a block
\* is handed over, none waits from the callback before.
AdapterInv ==
  /\ _buffer \in Seq(Nat) /\ Len(_buffer) = mixerInputSize /\ handed \in Seq(Nat)
  /\ recordedSize \in Nat /\ captured \in Nat /\ broken \in BOOLEAN
  /\ step \in {"idle", "add", "mix", "loop"}
  /\ _testType = "TEST_RECORD_AND_MIX" =>
       /\ _remainingData \in 0..mixerInputSize
       /\ step \in {"add", "mix"} \/ recordedSize > 0 => _remainingData = 0

\* What was handed over and what waits are the elements captured, by number.
InSequence ==
  _testType = "TEST_RECORD_AND_MIX" /\ ~broken =>
    /\ Len(handed) + Waiting = captured
    /\ \A i \in 1..Len(handed) : handed[i] = i
    /\ \A i \in 1..Waiting : _buffer[i] = Len(handed) + i

RecordInv == AdapterInv /\ InSequence

\* buffer_ of the record source holds the block between addRecordedData and mix.
BlockInv ==
  /\ size_ = (IF step = "mix" THEN mixerInputSize ELSE 0)
  /\ info # "kMuted"

\* A block is a number of elements.
LEMMA BlockIsNat == mixerInputSize \in Nat
<1>1. ChannelNum * SampleRate \in Nat /\ 100 \in Nat \ {0}
  BY RecordConfig
<1> QED
  BY <1>1, DivFacts DEF mixerInputSize

\* What memcpy leaves in _buffer.
LEMMA FillFacts ==
  ASSUME AdapterInv, NEW from \in Nat, NEW n \in Nat, from + n <= mixerInputSize, Fill(from, n)
  PROVE  /\ _buffer' \in Seq(Nat) /\ Len(_buffer') = mixerInputSize
         /\ captured' = captured + n /\ captured \in Nat
         /\ \A i \in 1..mixerInputSize :
              _buffer'[i] = IF i \in (from + 1)..(from + n) THEN captured + (i - from)
                            ELSE _buffer[i]
<1> DEFINE N == mixerInputSize
           f == [i \in 1..N |-> IF i \in (from + 1)..(from + n) THEN captured + (i - from)
                                ELSE _buffer[i]]
<1>1. N \in Nat /\ captured \in Nat /\ \A i \in 1..N : _buffer[i] \in Nat
  BY BlockIsNat DEF AdapterInv
<1> HIDE DEF N
<1>2. \A i \in 1..N : f[i] \in Nat
  BY <1>1
<1>3. f \in Seq(Nat) /\ Len(f) = N
  BY <1>1, <1>2
<1>4. _buffer' = f /\ captured' = captured + n
  BY DEF Fill, N
<1> QED
  BY <1>1, <1>3, <1>4 DEF N

\* A callback that begins completes the block in waiting, or is recorded as one
\* that could not.
LEMMA CallbackKeeps ==
  ASSUME RecordInv, _testType = "TEST_RECORD_AND_MIX", UNCHANGED _testType,
         NEW n \in Nat, Callback(n)
  PROVE  RecordInv'
<1> DEFINE N == mixerInputSize
           r == _remainingData
<1>0. /\ N \in Nat /\ r \in Nat /\ r <= N /\ captured \in Nat
      /\ step = "idle" /\ UNCHANGED handed
      /\ handed \in Seq(Nat) /\ Len(handed) \in Nat
  BY BlockIsNat DEF RecordInv, AdapterInv, Callback
<1>1. CASE /\ r = 0 /\ recordedSize' = n /\ step' = "loop"
           /\ UNCHANGED <<_buffer, _remainingData, captured, broken>>
  BY <1>0, <1>1 DEF RecordInv, AdapterInv, InSequence, Waiting
<1>2. CASE /\ r > 0 /\ n >= N - r /\ Fill(r, N - r) /\ recordedSize' = n - (N - r)
           /\ _remainingData' = 0 /\ step' = "add" /\ UNCHANGED broken
  <2>1. N - r \in Nat /\ r + (N - r) = N
    BY <1>0
  <2>2. /\ _buffer' \in Seq(Nat) /\ Len(_buffer') = N /\ captured' = captured + (N - r)
        /\ \A i \in 1..N : _buffer'[i] = IF i \in (r + 1)..(r + (N - r)) THEN captured + (i - r)
                                         ELSE _buffer[i]
    BY <1>0, <1>2, <2>1, FillFacts DEF RecordInv
  <2>3. recordedSize' \in Nat /\ captured' \in Nat
    BY <1>0, <1>2, <2>2
  <2>4. AdapterInv'
    BY <1>0, <1>2, <2>2, <2>3 DEF RecordInv, AdapterInv
  <2>5. ASSUME ~broken
        PROVE  /\ Len(handed) + N = captured'
               /\ \A i \in 1..N : _buffer'[i] = Len(handed) + i
    <3>1. Len(handed) + r = captured /\ \A i \in 1..r : _buffer[i] = Len(handed) + i
      BY <1>0, <2>5 DEF RecordInv, InSequence, Waiting
    <3>2. N \in Nat /\ r \in Nat /\ r <= N /\ captured \in Nat /\ Len(handed) \in Nat
      BY <1>0
    <3>3. captured' = captured + (N - r)
      BY <2>2
    <3> HIDE DEF N, r
    <3>4. Len(handed) + N = captured'
      BY ONLY <3>1, <3>2, <3>3
    <3>5. ASSUME NEW i \in 1..N PROVE _buffer'[i] = Len(handed) + i
      <4>1. CASE i <= r
        BY ONLY <2>2, <3>1, <3>2, <4>1
      <4>2. CASE i > r
        <5>1. i \in (r + 1)..(r + (N - r))
          BY ONLY <3>2, <4>2
        <5> QED BY ONLY <2>2, <3>1, <3>2, <5>1
      <4> QED BY <3>2, <4>1, <4>2
    <3> QED BY <3>4, <3>5 DEF N
  <2> QED
    BY <1>0, <1>2, <2>4, <2>5 DEF RecordInv, InSequence, Waiting
<1>3. CASE /\ r > 0 /\ n < N - r /\ Fill(r, n) /\ recordedSize' = 0 /\ step' = "loop"
           /\ broken' = (broken \/ n > 0) /\ UNCHANGED _remainingData
  <2>1. r + n <= N
    BY <1>0, <1>3
  <2>2. /\ _buffer' \in Seq(Nat) /\ Len(_buffer') = N /\ captured' = captured + n
        /\ \A i \in 1..N : _buffer'[i] = IF i \in (r + 1)..(r + n) THEN captured + (i - r)
                                         ELSE _buffer[i]
    BY <1>0, <1>3, <2>1, FillFacts DEF RecordInv
  <2>3. broken' \in BOOLEAN /\ (~broken' => ~broken /\ ~(n > 0))
    BY <1>3, Zenon
  <2>4. AdapterInv'
    BY <1>0, <1>3, <2>2, <2>3 DEF RecordInv, AdapterInv
  <2>5. ASSUME ~broken'
        PROVE  /\ Len(handed) + r = captured'
               /\ \A i \in 1..r : _buffer'[i] = Len(handed) + i
    <3>1. Len(handed) + r = captured /\ \A i \in 1..r : _buffer[i] = Len(handed) + i
      BY <1>0, <2>3, <2>5 DEF RecordInv, InSequence, Waiting
    <3>2. n = 0
      BY <2>3, <2>5
    <3>3. N \in Nat /\ r \in Nat /\ r <= N /\ captured \in Nat /\ Len(handed) \in Nat
      BY <1>0
    <3> HIDE DEF N, r
    <3>4. captured' = captured + n /\ Len(handed) + r = captured'
      BY ONLY <2>2, <3>1, <3>2, <3>3
    <3>5. ASSUME NEW i \in 1..r PROVE _buffer'[i] = Len(handed) + i
      <4>1. i \in 1..N /\ ~(i \in (r + 1)..(r + n))
        BY ONLY <3>2, <3>3, i \in 1..r
      <4>2. _buffer'[i] = _buffer[i]
        BY ONLY <2>2, <4>1
      <4> QED BY ONLY <3>1, <4>2, i \in 1..r
    <3> QED BY <3>4, <3>5 DEF r
  <2> QED
    BY <1>0, <1>3, <2>4, <2>5 DEF RecordInv, InSequence, Waiting
<1> QED
  BY <1>1, <1>2, <1>3 DEF Callback

\* Handing a block over.
LEMMA AddRecordedKeeps ==
  ASSUME RecordInv, _testType = "TEST_RECORD_AND_MIX", UNCHANGED _testType, AddRecorded
  PROVE  RecordInv'
<1> DEFINE N == mixerInputSize
<1>0. /\ N \in Nat /\ step = "add" /\ step' = "mix" /\ _remainingData = 0
      /\ handed' = handed \o _buffer
      /\ UNCHANGED <<_buffer, _remainingData, recordedSize, captured, broken>>
      /\ handed \in Seq(Nat) /\ Len(handed) \in Nat /\ _buffer \in Seq(Nat) /\ Len(_buffer) = N
  BY BlockIsNat DEF RecordInv, AdapterInv, AddRecorded
<1>1. /\ handed' \in Seq(Nat) /\ Len(handed') = Len(handed) + N
      /\ \A i \in 1..Len(handed) + N :
           handed'[i] = IF i <= Len(handed) THEN handed[i] ELSE _buffer[i - Len(handed)]
  BY <1>0, ConcatProperties
<1>2. AdapterInv'
  BY <1>0, <1>1 DEF RecordInv, AdapterInv
<1>3. ASSUME ~broken
      PROVE  /\ Len(handed') = captured /\ \A i \in 1..Len(handed') : handed'[i] = i
  <2>1. /\ Len(handed) + N = captured /\ \A i \in 1..Len(handed) : handed[i] = i
        /\ \A i \in 1..N : _buffer[i] = Len(handed) + i
    BY <1>0, <1>3 DEF RecordInv, InSequence, Waiting
  <2>2. N \in Nat /\ Len(handed) \in Nat
    BY <1>0
  <2> HIDE DEF N
  <2>3. ASSUME NEW i \in 1..(Len(handed) + N) PROVE handed'[i] = i
    <3>1. CASE i <= Len(handed)
      <4>1. i \in 1..Len(handed)
        BY ONLY <2>2, <3>1, i \in 1..(Len(handed) + N)
      <4>2. handed'[i] = handed[i]
        BY ONLY <1>1, <3>1, i \in 1..(Len(handed) + N)
      <4> QED BY ONLY <2>1, <4>1, <4>2
    <3>2. CASE i > Len(handed)
      <4>1. i - Len(handed) \in 1..N
        BY ONLY <2>2, <3>2
      <4>2. handed'[i] = _buffer[i - Len(handed)]
        BY ONLY <1>1, <2>2, <3>2
      <4>3. _buffer[i - Len(handed)] = Len(handed) + (i - Len(handed))
        BY ONLY <2>1, <4>1
      <4> QED BY ONLY <2>2, <4>2, <4>3
    <3> QED BY <2>2, <3>1, <3>2
  <2> QED BY <1>1, <2>1, <2>3
<1> QED
  BY <1>0, <1>1, <1>2, <1>3 DEF RecordInv, InSequence, Waiting

\* A round of the loop takes a block, or keeps what is left for the next callback.
LEMMA LoopKeeps ==
  ASSUME RecordInv, _testType = "TEST_RECORD_AND_MIX", UNCHANGED _testType, Loop
  PROVE  RecordInv'
<1> DEFINE N == mixerInputSize
<1>0. /\ N \in Nat /\ captured \in Nat /\ recordedSize \in Nat
      /\ step = "loop" /\ UNCHANGED <<handed, broken>>
      /\ handed \in Seq(Nat) /\ Len(handed) \in Nat
  BY BlockIsNat DEF RecordInv, AdapterInv, Loop
<1>1. CASE recordedSize = 0 /\ step' = "idle"
           /\ UNCHANGED <<_buffer, _remainingData, recordedSize, captured>>
  BY <1>0, <1>1 DEF RecordInv, AdapterInv, InSequence, Waiting
<1>2. ASSUME NEW n \in Nat, n <= N, n <= recordedSize, recordedSize > 0, Fill(0, n),
             recordedSize' = recordedSize - n,
             \/ step' = "idle" /\ _remainingData' = n /\ recordedSize' = 0
             \/ step' = "add" /\ n = N /\ UNCHANGED _remainingData
      PROVE  RecordInv'
  <2>1. /\ _buffer' \in Seq(Nat) /\ Len(_buffer') = N /\ captured' = captured + n
        /\ \A i \in 1..N : _buffer'[i] = IF i \in (0 + 1)..(0 + n) THEN captured + (i - 0)
                                         ELSE _buffer[i]
    BY <1>0, <1>2, FillFacts DEF RecordInv
  <2>2. _remainingData = 0
    BY <1>2 DEF RecordInv, AdapterInv
  <2>3. recordedSize' \in Nat /\ captured' \in Nat
    BY <1>0, <1>2, <2>1
  <2>4. AdapterInv'
    BY <1>0, <1>2, <2>1, <2>2, <2>3 DEF RecordInv, AdapterInv
  <2>5. Waiting' = n
    BY <1>2 DEF Waiting
  <2>6. ASSUME ~broken
        PROVE  /\ Len(handed) + n = captured'
               /\ \A i \in 1..n : _buffer'[i] = Len(handed) + i
    <3>1. Len(handed) = captured
      BY <1>0, <2>2, <2>6 DEF RecordInv, InSequence, Waiting
    <3>2. n \in Nat /\ n <= N /\ N \in Nat /\ captured \in Nat
      BY <1>0, <1>2
    <3> HIDE DEF N
    <3> QED BY ONLY <2>1, <3>1, <3>2
  <2> QED
    BY <1>0, <2>4, <2>5, <2>6 DEF RecordInv, InSequence, Waiting
<1>3. CASE /\ recordedSize \in 1..(N - 1) /\ Fill(0, recordedSize)
           /\ _remainingData' = recordedSize /\ recordedSize' = 0 /\ step' = "idle"
  BY <1>0, <1>2, <1>3
<1>4. CASE /\ recordedSize >= N /\ recordedSize > 0 /\ Fill(0, N)
           /\ recordedSize' = recordedSize - N /\ step' = "add" /\ UNCHANGED _remainingData
  BY <1>0, <1>2, <1>4
<1>5. CASE /\ recordedSize >= N /\ recordedSize = 0 /\ Fill(0, N)
           /\ recordedSize' = recordedSize - N /\ step' = "add" /\ UNCHANGED _remainingData
  <2>1. N = 0 /\ _remainingData = 0
    BY <1>0, <1>5 DEF RecordInv, AdapterInv
  <2>2. /\ _buffer' \in Seq(Nat) /\ Len(_buffer') = N /\ captured' = captured + N
    BY <1>0, <1>5, FillFacts DEF RecordInv
  <2> QED
    BY <1>0, <1>5, <2>1, <2>2 DEF RecordInv, AdapterInv, InSequence, Waiting
<1> QED
  BY <1>0, <1>1, <1>3, <1>4, <1>5 DEF Loop

\* Mixing, and every step of others in the same test.
LEMMA AdapterStutters ==
  ASSUME RecordInv,
         UNCHANGED <<_buffer, recordedSize, captured, handed, broken>>,
         UNCHANGED step \/ (step = "mix" /\ step' = "loop"),
         (UNCHANGED <<_testType, _remainingData>>) \/ _testType' # "TEST_RECORD_AND_MIX"
  PROVE  RecordInv'
BY DEF RecordInv, AdapterInv, InSequence, Waiting

\* The device's audio reaches the mixer complete and in order, through any
\* sequence of tests and stops, until a callback is too short to complete a block
\* in waiting: for every block size and every sizes of the callbacks.
THEOREM LossNeedsShort == TestSpec => []LossNeedsShortCallback
<1>1. TestInit => RecordInv
  <2> SUFFICES ASSUME TestInit PROVE RecordInv
    OBVIOUS
  <2>1. _buffer \in Seq(Nat) /\ Len(_buffer) = mixerInputSize
    BY BlockIsNat DEF TestInit, AdapterInit, Junk
  <2>2. /\ _testType = "TEST_NONE" /\ recordedSize = 0 /\ step = "idle" /\ captured = 0
        /\ handed = << >> /\ broken = FALSE
    BY DEF TestInit, ControllerInit, AdapterInit
  <2>3. handed \in Seq(Nat)
    BY <2>2
  <2>4. broken \in BOOLEAN
    BY <2>2, Zenon
  <2> QED
    BY <2>1, <2>2, <2>3, <2>4 DEF RecordInv, AdapterInv, InSequence
<1>2. ControllerInv /\ RecordInv /\ [TestNext]_testVars => RecordInv'
  <2> SUFFICES ASSUME ControllerInv, RecordInv, [TestNext]_testVars PROVE RecordInv'
    OBVIOUS
  <2>0. ASSUME UNCHANGED adapterVars,
               (UNCHANGED <<_testType, _remainingData>>) \/ _testType' # "TEST_RECORD_AND_MIX"
        PROVE  RecordInv'
    BY <2>0, AdapterStutters DEF adapterVars
  <2>1. ASSUME NEW test \in Tests, StartTest(test) PROVE RecordInv'
    <3>1. _buffer' \in Seq(Nat) /\ Len(_buffer') = mixerInputSize
      BY <2>1, BlockIsNat DEF StartTest, AdapterReset, Junk
    <3>2. /\ _remainingData' = 0 /\ recordedSize' = 0 /\ step' = "idle" /\ captured' = 0
          /\ handed' = << >> /\ broken' = FALSE
      BY <2>1 DEF StartTest, AdapterReset
    <3>3. AdapterInv'
      <4>1. handed' \in Seq(Nat) /\ 0 \in 0..mixerInputSize
        BY <3>2, BlockIsNat
      <4>2. broken' \in BOOLEAN
        BY <3>2, Zenon
      <4> QED
        BY <3>1, <3>2, <4>1, <4>2 DEF AdapterInv
    <3>4. Waiting' = 0
      BY <3>2 DEF Waiting
    <3>5. InSequence'
      BY <3>2, <3>4 DEF InSequence
    <3> QED
      BY <3>3, <3>5 DEF RecordInv
  <2>2. CASE (Stop \/ doStopTest) /\ UNCHANGED dataVars
    BY <2>0, <2>2 DEF Stop, doStopTest, Release, StopDevice, StopReturn, dataVars
  <2>3. CASE BeginCallback
    <3>1. UNCHANGED _testType /\ callback' = _testType
      BY <2>3 DEF BeginCallback, CallbackBegin, ControllerInv
    <3>2. ASSUME callback' \in PlayoutTests, UNCHANGED adapterVars PROVE RecordInv'
      BY <2>0, <3>1, <3>2 DEF PlayoutTests
    <3>3. ASSUME callback' = "TEST_RECORD_AND_MIX", NEW n \in Callbacks, Callback(n)
          PROVE  RecordInv'
      BY <3>1, <3>3, CallbackKeeps, AdapterConfig
    <3>4. ASSUME UNCHANGED dataVars PROVE RecordInv'
      BY <2>0, <3>1, <3>4 DEF dataVars
    <3> QED
      BY <2>3, <3>2, <3>3, <3>4 DEF BeginCallback
  <2>4. CASE ContinueCallback
    <3>1. UNCHANGED _testType
      BY <2>4 DEF ContinueCallback, controllerVars
    <3>2. ASSUME callback \in PlayoutTests, UNCHANGED adapterVars PROVE RecordInv'
      BY <2>0, <3>1, <3>2 DEF PlayoutTests, ControllerInv
    <3>3. ASSUME callback = "TEST_RECORD_AND_MIX", AddRecorded \/ MixOnce \/ Loop
          PROVE  RecordInv'
      <4>1. _testType = "TEST_RECORD_AND_MIX"
        BY <3>3 DEF ControllerInv
      <4>2. CASE MixOnce
        BY <3>1, <4>2, AdapterStutters DEF MixOnce
      <4> QED
        BY <3>1, <3>3, <4>1, <4>2, AddRecordedKeeps, LoopKeeps
    <3> QED
      BY <2>4, <3>2, <3>3 DEF ContinueCallback
  <2>5. CASE EndCallback
    BY <2>0, <2>5 DEF EndCallback, CallbackEnd, dataVars
  <2>6. ASSUME NEW member, CallbackUse(member), UNCHANGED dataVars PROVE RecordInv'
    BY <2>0, <2>6 DEF CallbackUse, dataVars
  <2>7. CASE UNCHANGED testVars
    BY <2>0, <2>7 DEF testVars, controllerVars, dataVars
  <2> QED
    BY <2>1, <2>2, <2>3, <2>4, <2>5, <2>6, <2>7 DEF TestNext, TestStep
<1>3. RecordInv => LossNeedsShortCallback
  <2> SUFFICES ASSUME RecordInv, _testType = "TEST_RECORD_AND_MIX", ~broken
               PROVE  handed \o InHand = [i \in 1..captured |-> i]
    BY DEF LossNeedsShortCallback
  <2> DEFINE k == Waiting
  <2>1. /\ handed \in Seq(Nat) /\ Len(handed) \in Nat /\ captured \in Nat
        /\ _buffer \in Seq(Nat) /\ k \in Nat /\ k <= Len(_buffer)
        /\ \A i \in 1..k : _buffer[i] \in Nat
        /\ Len(handed) + k = captured /\ \A i \in 1..Len(handed) : handed[i] = i
        /\ \A i \in 1..k : _buffer[i] = Len(handed) + i
    BY BlockIsNat DEF RecordInv, AdapterInv, InSequence, Waiting
  <2>2. InHand = SubSeq(_buffer, 1, k)
    BY DEF InHand, Waiting
  <2> HIDE DEF k
  <2>3. /\ InHand \in Seq(Nat) /\ Len(InHand) = k
        /\ \A i \in 1..k : InHand[i] = _buffer[i]
    BY ONLY <2>1, <2>2, SubSeqProperties
  <2> DEFINE all == handed \o InHand
  <2>4. /\ all \in Seq(Nat) /\ Len(all) = Len(handed) + Len(InHand)
        /\ \A i \in 1..Len(handed) + Len(InHand) :
             all[i] = IF i <= Len(handed) THEN handed[i] ELSE InHand[i - Len(handed)]
    BY ONLY <2>1, <2>3, ConcatProperties, Zenon
  <2> HIDE DEF all
  <2>5. ASSUME NEW i \in 1..captured PROVE all[i] = i
    <3>1. i \in 1..Len(handed) + Len(InHand)
      BY ONLY <2>1, <2>3
    <3>2. CASE i <= Len(handed)
      <4>1. all[i] = handed[i] /\ i \in 1..Len(handed)
        BY ONLY <2>1, <2>4, <3>1, <3>2
      <4> QED
        BY ONLY <2>1, <4>1
    <3>3. CASE ~(i <= Len(handed))
      <4>1. i - Len(handed) \in 1..k
        BY ONLY <2>1, <3>3
      <4>2. InHand[i - Len(handed)] = Len(handed) + (i - Len(handed))
        BY ONLY <2>1, <2>3, <4>1
      <4>3. all[i] = InHand[i - Len(handed)]
        BY ONLY <2>4, <3>1, <3>3
      <4> QED
        BY ONLY <2>1, <4>2, <4>3
    <3> QED
      BY <3>2, <3>3
  <2>6. all = [i \in 1..captured |-> i]
    BY ONLY <2>1, <2>3, <2>4, <2>5
  <2> QED
    BY <2>6 DEF all
<1>4. TestSpec => []ControllerInv
  BY ImplementsController, ControllerInvariant, PTL
<1> QED
  BY <1>1, <1>2, <1>3, <1>4, PTL DEF TestSpec

\* At the 10 ms that doRecordAndMix configures, whatever the rate and the channels,
\* each block handed over is mixed before the next: buffer_ never holds more than
\* one block, and no mix is muted for want of data.
THEOREM HoldsOneBlock ==
  FrameDurationMs = kFrameDurationInMs => (TestSpec => []OneBlockBuffered)
<1> SUFFICES ASSUME FrameDurationMs = kFrameDurationInMs PROVE TestSpec => []OneBlockBuffered
  OBVIOUS
<1> DEFINE N == mixerInputSize
<1>0. N \in Nat /\ real_buffer_num_elements_ = N
  <2>1. 1000 \div 10 = 100
    OBVIOUS
  <2> QED
    BY <2>1, BlockIsNat
       DEF real_buffer_num_elements_, RealElements, mixerInputSize, kFrameDurationInMs
<1>1. TestInit => BlockInv
  BY DEF TestInit, AdapterInit, Init, BlockInv
<1>2. BlockInv /\ [TestNext]_testVars => BlockInv'
  <2> SUFFICES ASSUME BlockInv, [TestNext]_testVars PROVE BlockInv'
    OBVIOUS
  <2>0. ASSUME UNCHANGED vars, UNCHANGED step \/ (step # "mix" /\ step' # "mix")
        PROVE  BlockInv'
    BY <2>0 DEF vars, BlockInv
  <2>1. ASSUME NEW test \in Tests, StartTest(test) PROVE BlockInv'
    BY <2>1 DEF StartTest, AdapterReset, BlockInv
  <2>2. CASE UNCHANGED adapterVars
    BY <2>0, <2>2 DEF adapterVars
  <2>3. ASSUME NEW n, Callback(n) PROVE BlockInv'
    BY <2>0, <2>3 DEF Callback
  <2>4. CASE AddRecorded
    <3>1. size_ = 0 /\ step' = "mix" /\ UNCHANGED info
      BY <2>4 DEF AddRecorded, OnAudioRecorded, BlockInv
    <3>2. (2 * N) \div 2 = N
      BY <1>0, DivOfMultiple
    <3>3. size_' = size_ + (2 * N) \div 2
      BY <2>4 DEF AddRecorded, OnAudioRecorded, AppendData
    <3>4. size_' = N
      BY <1>0, <3>1, <3>2, <3>3
    <3> QED
      BY <3>1, <3>4 DEF BlockInv
  <2>5. CASE MixOnce
    <3>1. size_ = N /\ step' = "loop" /\ GetAudioFrameWithInfo(SampleRate)
      BY <2>5 DEF MixOnce, BlockInv
    <3>2. ~(size_ < real_buffer_num_elements_)
      BY <1>0, <3>1
    <3>3. info' = "kNormal" /\ size_' = size_ - real_buffer_num_elements_
      BY <3>1, <3>2 DEF GetAudioFrameWithInfo, DropFrame
    <3>4. size_' = 0
      BY <1>0, <3>1, <3>3
    <3> QED
      BY <3>1, <3>3, <3>4 DEF BlockInv
  <2>6. CASE Loop
    BY <2>0, <2>6 DEF Loop
  <2> QED
    BY <2>1, <2>2, <2>3, <2>4, <2>5, <2>6
       DEF TestNext, TestStep, BeginCallback, ContinueCallback, EndCallback, dataVars, testVars
<1>3. BlockInv => OneBlockBuffered
  BY <1>0 DEF BlockInv, OneBlockBuffered
<1> QED
  BY <1>1, <1>2, <1>3, PTL DEF TestSpec
=============================================================================
