------------------------- MODULE HomingClientProofs -------------------------
(***************************************************************************)
(* Theorems about HomingClient, for any durations and any failures.        *)
(***************************************************************************)
EXTENDS HomingClient, TLAPS

LEMMA Durations ==
  /\ SleepTime \in Nat \ {0} /\ BackOff \in Nat \ {0}
  /\ StopWait \in Nat \ {0} /\ MaxExchange \in Nat \ {0}
  /\ BackOff <= SleepTime
BY DurationAssumption

\* The actions of the loop that neither wait for an answer nor get one.
LEMMA StepCases ==
  ASSUME Next
  PROVE  \/ Begin \/ NoInterfaces \/ Collect \/ Located \/ NotLocated
         \/ Accept \/ Refuse \/ Acknowledged \/ Rejected \/ Broken
         \/ Wake \/ Notice \/ StopReturns \/ Cancel \/ Elapse
BY DEF Next, Step, Round

LEMMA TypeStep == TypeOK /\ [Next]_vars => TypeOK'
<1> SUFFICES ASSUME TypeOK, [Next]_vars PROVE TypeOK'
  OBVIOUS
<1> USE Durations DEF TypeOK, Wait, Endpoints, report, clocks
<1>1. CASE Begin
  <2>1. known' \in BOOLEAN
    BY <1>1, Zenon DEF Begin
  <2> QED
    BY <1>1, <2>1 DEF Begin
<1>10. CASE NoInterfaces \/ Collect
  BY <1>10 DEF NoInterfaces, Collect
<1>2. CASE Located
  BY <1>2 DEF Located, Send
<1>3. CASE NotLocated
  BY <1>3 DEF NotLocated, NextEndpoint, Send
<1>4. CASE Accept \/ Refuse
  BY <1>4 DEF Accept, Refuse
<1>5. CASE Acknowledged
  BY <1>5 DEF Acknowledged
<1>6. CASE Rejected \/ Broken
  BY <1>6 DEF Rejected, Broken, Failed
<1>7. CASE Wake \/ Notice \/ StopReturns \/ Cancel
  BY <1>7 DEF Wake, Notice, StopReturns, Cancel
<1>8. CASE Elapse
  BY <1>8 DEF Elapse, Later
<1>9. CASE UNCHANGED vars
  BY <1>9 DEF vars
<1> QED
  BY <1>1, <1>2, <1>3, <1>4, <1>5, <1>6, <1>7, <1>8, <1>9, <1>10, StepCases

\* Every variable always has its type (HomingClient's TypeOK).
THEOREM TypeCorrect == Spec => []TypeOK
<1>1. Init => TypeOK
  <2>1. Init => known \in BOOLEAN /\ done \in BOOLEAN /\ stopped \in BOOLEAN
    BY Zenon DEF Init
  <2> QED
    BY <2>1, Durations DEF Init, TypeOK, Endpoints
<1> QED
  BY <1>1, TypeStep, PTL DEF Spec

LEMMA WaitStep == TypeOK /\ WaitInv /\ [Next]_vars => WaitInv'
<1> SUFFICES ASSUME TypeOK, WaitInv, [Next]_vars PROVE WaitInv'
  OBVIOUS
<1> USE Durations DEF TypeOK, WaitInv, Wait, report
<1>1. CASE Begin \/ NoInterfaces \/ Collect
  BY <1>1 DEF Begin, NoInterfaces, Collect
<1>2. CASE Located \/ NotLocated
  BY <1>2 DEF Located, NotLocated, NextEndpoint, Send
<1>3. CASE Accept \/ Refuse
  BY <1>3 DEF Accept, Refuse
<1>4. CASE Acknowledged \/ Rejected \/ Broken
  BY <1>4 DEF Acknowledged, Rejected, Broken, Failed
<1>5. CASE Wake \/ Notice \/ StopReturns \/ Cancel
  BY <1>5 DEF Wake, Notice, StopReturns, Cancel
<1>6. CASE Elapse
  BY <1>6 DEF Elapse
<1>7. CASE UNCHANGED vars
  BY <1>7 DEF vars
<1> QED
  BY <1>1, <1>2, <1>3, <1>4, <1>5, <1>6, <1>7, StepCases

LEMMA WaitsAlways == Spec => []WaitInv
<1>1. Init => WaitInv
  BY DEF Init, WaitInv
<1> QED
  BY <1>1, WaitStep, TypeCorrect, PTL DEF Spec

----------------------------------------------------------------------------
(* The age of a report *)

LEMMA AgeStep == TypeOK /\ WaitInv /\ AgeInv /\ [Next]_vars => AgeInv'
<1> SUFFICES ASSUME TypeOK, WaitInv, AgeInv, [Next]_vars PROVE AgeInv'
  OBVIOUS
<1> USE Durations DEF TypeOK, AgeInv, Wait, Endpoints, report
<1>1. CASE Begin \/ NoInterfaces \/ Collect
  BY <1>1 DEF Begin, NoInterfaces, Collect
<1>2. ASSUME pc = "locate" PROVE \E e \in {1, 2, 3} : endpoint = e /\ age + left <= e * MaxExchange
  BY <1>2
<1>3. CASE Located
  BY <1>2, <1>3 DEF Located, Send
<1>4. CASE NotLocated
  BY <1>2, <1>4 DEF NotLocated, NextEndpoint, Send
<1>5. CASE Accept \/ Refuse
  BY <1>5 DEF Accept, Refuse
<1>6. CASE Acknowledged \/ Rejected \/ Broken
  BY <1>6 DEF Acknowledged, Rejected, Broken, Failed
<1>7. CASE Wake \/ Notice \/ StopReturns \/ Cancel
  BY <1>7 DEF Wake, Notice, StopReturns, Cancel
<1>8. CASE Elapse
  <2>1. pc \in {"locate", "post"} => age' + left' = age + left
    BY <1>8 DEF Elapse
  <2>2. /\ UNCHANGED <<pc, endpoint>>
        /\ pc \notin {"check", "collect"}
    BY <1>8 DEF Elapse, WaitInv
  <2> QED
    BY <2>1, <2>2
<1>9. CASE UNCHANGED vars
  BY <1>9 DEF vars
<1> QED
  BY <1>1, <1>3, <1>4, <1>5, <1>6, <1>7, <1>8, <1>9, StepCases

\* No report is posted that is older than its own round's exchanges (FreshReports).
THEOREM ReportsFresh == Spec => []FreshReports
<1>1. Init => AgeInv
  BY DEF Init, AgeInv
<1>2. TypeOK /\ AgeInv => FreshReports
  BY Durations DEF TypeOK, AgeInv, FreshReports, Endpoints
<1> QED
  BY <1>1, <1>2, AgeStep, WaitsAlways, TypeCorrect, PTL DEF Spec

----------------------------------------------------------------------------
(* The distance between reports *)

LEMMA SpacedStep == TypeOK /\ WaitInv /\ SpacedInv /\ [Next]_vars => SpacedInv'
<1> SUFFICES ASSUME TypeOK, WaitInv, SpacedInv, [Next]_vars PROVE SpacedInv'
  OBVIOUS
<1> USE Durations DEF TypeOK, SpacedInv, Wait, report, clocks
<1>1. CASE Begin \/ NoInterfaces \/ Collect
  BY <1>1 DEF Begin, NoInterfaces, Collect
<1>2. CASE Located \/ NotLocated
  BY <1>2 DEF Located, NotLocated, NextEndpoint, Send
<1>3. CASE Accept \/ Refuse
  BY <1>3 DEF Accept, Refuse
<1>4. CASE Acknowledged
  BY <1>4 DEF Acknowledged
<1>5. CASE Rejected \/ Broken
  BY <1>5 DEF Rejected, Broken, Failed
<1>6. CASE Wake \/ Notice \/ StopReturns \/ Cancel
  BY <1>6 DEF Wake, Notice, StopReturns, Cancel
<1>7. CASE Elapse
  BY <1>7 DEF Elapse, Later
<1>8. CASE UNCHANGED vars
  BY <1>8 DEF vars
<1> QED
  BY <1>1, <1>2, <1>3, <1>4, <1>5, <1>6, <1>7, <1>8, StepCases

\* Reports a client knows to be stored are a full sleep apart (AcksSpaced).
THEOREM AcksAreSpaced == Spec => AcksSpaced
<1>1. Init => SpacedInv
  BY DEF Init, SpacedInv
<1>2. SpacedInv /\ [Next]_vars => [Acknowledged => sinceAck = SleepTime]_vars
  BY DEF SpacedInv, Acknowledged
<1> QED
  BY <1>1, <1>2, SpacedStep, WaitsAlways, TypeCorrect, PTL DEF Spec, AcksSpaced

LEMMA RowSpacedStep == TypeOK /\ WaitInv /\ RowSpacedInv /\ [Next]_vars => RowSpacedInv'
<1> SUFFICES ASSUME TypeOK, WaitInv, RowSpacedInv, [Next]_vars PROVE RowSpacedInv'
  OBVIOUS
<1> USE Durations DEF TypeOK, WaitInv, RowSpacedInv, Wait, report, clocks
<1>1. CASE Begin \/ NoInterfaces \/ Collect
  BY <1>1 DEF Begin, NoInterfaces, Collect
<1>2. CASE Located \/ NotLocated
  BY <1>2 DEF Located, NotLocated, NextEndpoint, Send
<1>3. CASE Accept \/ Refuse
  BY <1>3 DEF Accept, Refuse
<1>4. CASE Acknowledged
  BY <1>4 DEF Acknowledged
<1>5. CASE Rejected \/ Broken
  BY <1>5 DEF Rejected, Broken, Failed
<1>6. CASE Wake \/ Notice \/ StopReturns \/ Cancel
  BY <1>6 DEF Wake, Notice, StopReturns, Cancel
<1>7. CASE Elapse
  BY <1>7 DEF Elapse, Later
<1>8. CASE UNCHANGED vars
  BY <1>8 DEF vars
<1> QED
  BY <1>1, <1>2, <1>3, <1>4, <1>5, <1>6, <1>7, <1>8, StepCases

\* Stored reports are a full sleep apart too, unless an answer was lost (RowsSpaced).
THEOREM RowsAreSpaced == Spec => RowsSpaced
<1>1. Init => RowSpacedInv
  BY DEF Init, RowSpacedInv
<1>2. WaitInv /\ RowSpacedInv /\ [Next]_vars => [Accept => sinceRow = SleepTime]_vars
  BY DEF WaitInv, RowSpacedInv, Accept
<1> QED
  BY <1>1, <1>2, RowSpacedStep, WaitsAlways, TypeCorrect, PTL DEF Spec, RowsSpaced

----------------------------------------------------------------------------
(* Stopping *)

LEMMA StopStep == TypeOK /\ WaitInv /\ StopInv /\ [Next]_vars => StopInv'
<1> SUFFICES ASSUME TypeOK, WaitInv, StopInv, [Next]_vars PROVE StopInv'
  OBVIOUS
<1> USE Durations DEF TypeOK, WaitInv, StopInv, Wait, Limit, Endpoints, report, clocks
<1>1. CASE Begin \/ NoInterfaces \/ Collect
  BY <1>1 DEF Begin, NoInterfaces, Collect
<1>2. pc = "locate" => endpoint \in {1, 2, 3}
  OBVIOUS
<1>3. CASE Located
  BY <1>2, <1>3 DEF Located, Send
<1>4. CASE NotLocated
  <2>1. UNCHANGED <<done, stopped, sinceDone>> /\ pc = "locate"
    BY <1>4 DEF NotLocated
  <2>2. CASE NextEndpoint
    BY <1>2, <2>1, <2>2 DEF NextEndpoint
  <2>3. CASE endpoint = 3 /\ Send
    BY <2>1, <2>3 DEF Send
  <2> QED
    BY <1>4, <2>2, <2>3 DEF NotLocated
<1>5. CASE Accept \/ Refuse
  BY <1>5 DEF Accept, Refuse
<1>6. CASE Acknowledged \/ Rejected \/ Broken
  BY <1>6 DEF Acknowledged, Rejected, Broken, Failed
<1>7. CASE Wake \/ Notice
  BY <1>7 DEF Wake, Notice
<1>11. CASE StopReturns
  BY <1>11 DEF StopReturns
<1>8. CASE Cancel
  BY <1>2, <1>8 DEF Cancel
<1>9. CASE Elapse
  BY <1>2, <1>9 DEF Elapse
<1>10. CASE UNCHANGED vars
  BY <1>10 DEF vars
<1> QED
  BY <1>1, <1>3, <1>4, <1>5, <1>6, <1>7, <1>8, <1>9, <1>10, <1>11, StepCases

LEMMA StopsAlways == Spec => []StopInv
<1>1. Init => StopInv
  BY DEF Init, StopInv
<1> QED
  BY <1>1, StopStep, WaitsAlways, TypeCorrect, PTL DEF Spec

\* Stop has called cancel one round, one sleep and StopWait after the context was done
\* at the latest (StopsInTime).
THEOREM StopIsTimely == Spec => []StopsInTime
<1>1. TypeOK /\ StopInv => StopsInTime
  BY Durations DEF TypeOK, StopInv, StopsInTime, Limit, Endpoints
<1> QED
  BY <1>1, StopsAlways, TypeCorrect, PTL

\* Nothing is sent after Stop (SilentAfterStop).
THEOREM StopIsSilent == Spec => []SilentAfterStop
<1>1. Init => SilentAfterStop
  BY DEF Init, SilentAfterStop
<1>2. StopInv /\ SilentAfterStop /\ [Next]_vars => SilentAfterStop'
  <2> SUFFICES ASSUME StopInv, SilentAfterStop, [Next]_vars PROVE SilentAfterStop'
    OBVIOUS
  <2> USE DEF SilentAfterStop, Wait
  <2>1. CASE Begin
    BY <2>1 DEF Begin, StopInv
  <2>2. CASE NoInterfaces \/ Collect \/ Located \/ NotLocated
    BY <2>2 DEF NoInterfaces, Collect, Located, NotLocated
  <2>3. CASE Accept \/ Refuse
    BY <2>3 DEF Accept, Refuse
  <2>4. CASE Acknowledged \/ Rejected \/ Broken
    BY <2>4 DEF Acknowledged, Rejected, Broken, Failed
  <2>5. CASE Wake \/ Notice \/ StopReturns \/ Cancel \/ Elapse
    BY <2>5 DEF Wake, Notice, StopReturns, Cancel, Elapse
  <2>6. CASE UNCHANGED vars
    BY <2>6 DEF vars
  <2> QED
    BY <2>1, <2>2, <2>3, <2>4, <2>5, <2>6, StepCases
<1> QED
  BY <1>1, <1>2, StopsAlways, PTL DEF Spec
=============================================================================
