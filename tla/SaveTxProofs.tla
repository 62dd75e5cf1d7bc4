---------------------------- MODULE SaveTxProofs ----------------------------
(***************************************************************************)
(* Theorems about SaveTx, for any number of requests and instants.         *)
(***************************************************************************)
EXTENDS SaveTx, TLAPS

\* What the deferred closure does to the rows.
LEMMA DeferredCases ==
  ASSUME NEW i \in Request, Deferred(i)
  PROVE  \/ durable' = durable \cup (pending \cap {i}) /\ End(i)
         \/ durable' = durable /\ End(i)
         \/ UNCHANGED <<tx, pending, durable>>
BY DEF Deferred, Commits, CommitsTooLate, CommitsNothing

LEMMA TypeStep == TypeOK /\ [Next]_vars => TypeOK'
<1> SUFFICES ASSUME TypeOK, [Next]_vars PROVE TypeOK'
  OBVIOUS
<1> USE DEF TypeOK
<1>1. ASSUME NEW i \in Request, Receive(i) PROVE TypeOK'
  BY <1>1 DEF Receive, Move
<1>2. ASSUME NEW i \in Request, Locate(i) PROVE TypeOK'
  BY <1>2 DEF Locate, Move, Refuse
<1>3. ASSUME NEW i \in Request, Begin(i) PROVE TypeOK'
  BY <1>3 DEF Begin, Move, Refuse
<1>4. ASSUME NEW i \in Request, Exec(i) PROVE TypeOK'
  <2>1. CASE Insert(i)
    BY <1>4, <2>1 DEF Exec, Move, Insert
  <2>2. CASE Conflict(i) \/ Break(i) \/ TooLate(i)
    BY <1>4, <2>2 DEF Exec, Move, Conflict, Break, TooLate, Fail
  <2> QED
    BY <1>4, <2>1, <2>2 DEF Exec
<1>5. ASSUME NEW i \in Request, Deferred(i) PROVE TypeOK'
  BY <1>5, DeferredCases DEF Deferred, Move, End
<1>6. ASSUME NEW i \in Request, Cancel(i) PROVE TypeOK'
  BY <1>6 DEF Cancel
<1>7. ASSUME NEW i \in Request, RollBack(i) PROVE TypeOK'
  BY <1>7 DEF RollBack, End
<1>8. CASE Crash
  BY <1>8 DEF Crash
<1>9. CASE UNCHANGED vars
  BY <1>9 DEF vars
<1>10. ASSUME NEW i \in Request, Respond(i) PROVE TypeOK'
  BY <1>10 DEF Respond, Move
<1> QED
  BY <1>1, <1>2, <1>3, <1>4, <1>5, <1>6, <1>7, <1>8, <1>9, <1>10 DEF Next, Handle

\* Every variable always has its type (SaveTx's TypeOK).
THEOREM TypeCorrect == Spec => []TypeOK
<1>1. Init => TypeOK
  BY DEF Init, TypeOK
<1> QED
  BY <1>1, TypeStep, PTL DEF Spec

----------------------------------------------------------------------------
(* Rows *)

LEMMA RowStep == TypeOK /\ RowInv /\ [Next]_vars => RowInv'
<1> SUFFICES ASSUME TypeOK, RowInv, [Next]_vars PROVE RowInv'
  OBVIOUS
<1>0. /\ pc \in [Request -> {"idle", "locate", "begin", "exec", "deferred", "answer", "done", "lost"}]
      /\ tx \in [Request -> {"none", "open", "aborted", "over"}]
      /\ result \in [Request -> {"none", "ok", "error"}]
      /\ pending \subseteq Request /\ durable \subseteq Request
  BY DEF TypeOK
<1>1. ASSUME NEW i \in Request, Receive(i) PROVE RowInv'
  BY <1>0, <1>1 DEF Receive, Move, RowInv
<1>2. ASSUME NEW i \in Request, Locate(i) PROVE RowInv'
  BY <1>0, <1>2 DEF Locate, Move, Refuse, RowInv
<1>3. ASSUME NEW i \in Request, Begin(i) PROVE RowInv'
  BY <1>0, <1>3 DEF Begin, Move, Refuse, RowInv
<1>4. ASSUME NEW i \in Request, Exec(i) PROVE RowInv'
  <2>1. /\ i \notin pending \cup durable
        /\ pc' = [pc EXCEPT ![i] = "deferred"] /\ durable' = durable
    BY <1>4 DEF Exec, Move, RowInv
  <2>2. CASE Insert(i)
    <3>1. \A j \in pending \cup durable : LastSeen[j] # LastSeen[i]
      BY <1>0, <2>1, <2>2 DEF Insert, Rivals
    <3> QED
      BY <1>0, <2>1, <2>2, <3>1 DEF Insert, RowInv
  <2>3. CASE Conflict(i) \/ Break(i) \/ TooLate(i)
    <3>1. /\ pending' = pending /\ result' = [result EXCEPT ![i] = "error"]
          /\ \A j \in Request \ {i} : tx'[j] = tx[j]
      BY <1>0, <2>3 DEF Conflict, Break, TooLate, Fail
    <3> QED
      BY <1>0, <2>1, <3>1 DEF RowInv
  <2> QED
    BY <1>4, <2>2, <2>3 DEF Exec
<1>5. ASSUME NEW i \in Request, Deferred(i) PROVE RowInv'
  <2>1. pc' = [pc EXCEPT ![i] = "answer"] /\ result' = result
    BY <1>5 DEF Deferred, Move
  <2> QED
    BY <1>0, <1>5, <2>1, DeferredCases DEF End, RowInv
<1>6. ASSUME NEW i \in Request, Cancel(i) PROVE RowInv'
  BY <1>6 DEF Cancel, RowInv
<1>7. ASSUME NEW i \in Request, RollBack(i) PROVE RowInv'
  BY <1>0, <1>7 DEF RollBack, End, RowInv
<1>8. CASE Crash
  BY <1>0, <1>8 DEF Crash, Running, RowInv
<1>9. CASE UNCHANGED vars
  BY <1>9 DEF vars, RowInv
<1>10. ASSUME NEW i \in Request, Respond(i) PROVE RowInv'
  BY <1>0, <1>10 DEF Respond, Move, RowInv
<1> QED
  BY <1>1, <1>2, <1>3, <1>4, <1>5, <1>6, <1>7, <1>8, <1>9, <1>10 DEF Next, Handle

LEMMA RowsAlways == Spec => []RowInv
<1>1. Init => RowInv
  BY DEF Init, RowInv
<1> QED
  BY <1>1, RowStep, TypeCorrect, PTL DEF Spec

\* A refused report is never stored (RejectedNotStored), under every fault.
THEOREM RejectedNeverStored == Spec => []RejectedNotStored
<1>1. RowInv => RejectedNotStored
  BY DEF RowInv, RejectedNotStored, Rejected
<1> QED
  BY <1>1, RowsAlways, PTL

\* No two stored rows share an instant (OneRowPerInstant), under every fault.
THEOREM InstantsUnique == Spec => []OneRowPerInstant
<1>1. RowInv => OneRowPerInstant
  BY DEF RowInv, OneRowPerInstant
<1> QED
  BY <1>1, RowsAlways, PTL

----------------------------------------------------------------------------
(* Waiting *)

LEMMA WaitStep == TypeOK /\ WaitInv /\ [Next]_vars => WaitInv'
<1> SUFFICES ASSUME TypeOK, WaitInv, [Next]_vars PROVE WaitInv'
  OBVIOUS
<1>0. /\ pc \in [Request -> {"idle", "locate", "begin", "exec", "deferred", "answer", "done", "lost"}]
      /\ pending \subseteq Request
  BY DEF TypeOK
<1>1. ASSUME NEW i \in Request, Receive(i) PROVE WaitInv'
  BY <1>0, <1>1 DEF Receive, Move, WaitInv
<1>2. ASSUME NEW i \in Request, Locate(i) PROVE WaitInv'
  BY <1>0, <1>2 DEF Locate, Move, Refuse, WaitInv
<1>3. ASSUME NEW i \in Request, Begin(i) PROVE WaitInv'
  BY <1>0, <1>3 DEF Begin, Move, Refuse, WaitInv
<1>4. ASSUME NEW i \in Request, Exec(i) PROVE WaitInv'
  <2>1. pending' \subseteq pending \cup {i}
    BY <1>4 DEF Exec, Insert, Conflict, Break, TooLate, Fail
  <2> QED
    BY <1>0, <1>4, <2>1 DEF Exec, Move, WaitInv
<1>5. ASSUME NEW i \in Request, Deferred(i) PROVE WaitInv'
  <2>1. pc' = [pc EXCEPT ![i] = "answer"] /\ cancelled' = cancelled
    BY <1>5 DEF Deferred, Move
  <2>2. CASE CommitsTooLate(i)
    BY <1>0, <2>1, <2>2 DEF CommitsTooLate, WaitInv
  <2>3. CASE End(i)
    BY <1>0, <2>1, <2>3 DEF End, WaitInv
  <2> QED
    BY <1>5, <2>2, <2>3 DEF Deferred, Commits, CommitsNothing
<1>6. ASSUME NEW i \in Request, Cancel(i) PROVE WaitInv'
  BY <1>6 DEF Cancel, WaitInv
<1>7. ASSUME NEW i \in Request, RollBack(i) PROVE WaitInv'
  BY <1>7 DEF RollBack, End, WaitInv
<1>8. CASE Crash
  BY <1>8 DEF Crash, WaitInv
<1>9. CASE UNCHANGED vars
  BY <1>9 DEF vars, WaitInv
<1>10. ASSUME NEW i \in Request, Respond(i) PROVE WaitInv'
  BY <1>0, <1>10 DEF Respond, Move, WaitInv
<1> QED
  BY <1>1, <1>2, <1>3, <1>4, <1>5, <1>6, <1>7, <1>8, <1>9, <1>10 DEF Next, Handle

\* An insert waits only for transactions that end without it (WaitsEnd), under every
\* fault and however many requests share an instant: the safety half of Answered.
THEOREM WaitsAlwaysEnd == Spec => []WaitsEnd
<1>1. Init => WaitInv
  BY DEF Init, WaitInv
<1>2. WaitInv => WaitsEnd
  BY DEF WaitInv, WaitsEnd
<1> QED
  BY <1>1, <1>2, WaitStep, TypeCorrect, PTL DEF Spec

----------------------------------------------------------------------------
(* Acknowledgements *)

LEMMA AckStep ==
  ASSUME "commit" \notin Faults
  PROVE  TypeOK /\ RowInv /\ AckInv /\ [Next]_vars => AckInv'
<1> SUFFICES ASSUME TypeOK, RowInv, AckInv, [Next]_vars PROVE AckInv'
  OBVIOUS
<1>0. /\ pc \in [Request -> {"idle", "locate", "begin", "exec", "deferred", "answer", "done", "lost"}]
      /\ result \in [Request -> {"none", "ok", "error"}]
      /\ cancelled \subseteq Request
      /\ pending \subseteq Request
      /\ durable \subseteq Request
  BY DEF TypeOK
<1>1. ASSUME NEW i \in Request, Receive(i) PROVE AckInv'
  BY <1>0, <1>1 DEF Receive, Move, AckInv
<1>2. ASSUME NEW i \in Request, Locate(i) PROVE AckInv'
  BY <1>0, <1>2 DEF Locate, Move, Refuse, AckInv
<1>3. ASSUME NEW i \in Request, Begin(i) PROVE AckInv'
  BY <1>0, <1>3 DEF Begin, Move, Refuse, AckInv
<1>4. ASSUME NEW i \in Request, Exec(i) PROVE AckInv'
  <2>1. /\ pc[i] = "exec" /\ pc' = [pc EXCEPT ![i] = "deferred"]
        /\ UNCHANGED <<cancelled, durable>>
    BY <1>4 DEF Exec, Move
  <2>2. CASE Insert(i)
    BY <1>0, <2>1, <2>2 DEF Insert, AckInv
  <2>3. CASE Conflict(i) \/ Break(i) \/ TooLate(i)
    BY <1>0, <2>1, <2>3 DEF Conflict, Break, TooLate, Fail, AckInv
  <2> QED
    BY <1>4, <2>2, <2>3 DEF Exec
<1>5. ASSUME NEW i \in Request, Deferred(i) PROVE AckInv'
  <2>1. /\ pc[i] = "deferred" /\ pc' = [pc EXCEPT ![i] = "answer"]
        /\ UNCHANGED <<result, cancelled>>
    BY <1>5 DEF Deferred, Move
  <2>2. CASE Commits(i)
    BY <1>0, <2>1, <2>2 DEF Commits, End, AckInv, RowInv
  <2>3. CASE CommitsTooLate(i)
    BY <1>0, <2>1, <2>3 DEF CommitsTooLate, AckInv
  <2>4. CASE CommitsNothing(i)
    <3>1. i \notin pending
      BY <2>4 DEF CommitsNothing, RowInv
    <3> QED
      BY <1>0, <2>1, <2>4, <3>1 DEF CommitsNothing, End, AckInv
  <2> QED
    BY <1>5, <2>2, <2>3, <2>4 DEF Deferred
<1>6. ASSUME NEW i \in Request, Cancel(i) PROVE AckInv'
  BY <1>0, <1>6 DEF Cancel, Running, AckInv
<1>7. ASSUME NEW i \in Request, RollBack(i) PROVE AckInv'
  BY <1>0, <1>7 DEF RollBack, End, AckInv
<1>8. CASE Crash
  BY <1>0, <1>8 DEF Crash, Running, AckInv
<1>9. CASE UNCHANGED vars
  BY <1>9 DEF vars, AckInv
<1>10. ASSUME NEW i \in Request, Respond(i) PROVE AckInv'
  BY <1>0, <1>10 DEF Respond, Move, AckInv
<1> QED
  BY <1>1, <1>2, <1>3, <1>4, <1>5, <1>6, <1>7, <1>8, <1>9, <1>10 DEF Next, Handle

LEMMA AckAlways ==
  ASSUME "commit" \notin Faults
  PROVE  Spec => []AckInv
<1>1. Init => AckInv
  BY DEF Init, AckInv
<1> QED
  BY <1>1, AckStep, RowsAlways, TypeCorrect, PTL DEF Spec

\* Unless a commit is lost, a report acknowledged to a client that is still there is
\* stored (CreatedIsStored): that is the only way to lose one.
THEOREM CreatedStored ==
  ASSUME "commit" \notin Faults
  PROVE  Spec => []CreatedIsStored
<1>1. AckInv => CreatedIsStored
  BY DEF AckInv, CreatedIsStored, Created
<1> QED
  BY <1>1, AckAlways, PTL

----------------------------------------------------------------------------
(* Atomicity *)

\* A client is told nothing before its request has ended.
LEMMA Untold ==
  ASSUME NEW i \in Request, pc[i] # "done"
  PROVE  Reply[i] = "none"
BY DEF Reply

\* A step that ends no request and stores nothing is a stutter of AtomicSave.
LEMMA SilentStep ==
  ASSUME UNCHANGED durable,
         \A i \in Request : pc'[i] = "done" <=> pc[i] = "done",
         \A i \in Request : pc[i] = "done" =>
           result'[i] = result[i] /\ (i \in cancelled' <=> i \in cancelled)
  PROVE  UNCHANGED Atomic!vars
BY DEF Atomic!vars, Reply

\* The end of a transaction stores the report, if its row is there, and tells nobody.
LEMMA EndStep ==
  ASSUME TypeOK, RowInv, NEW i \in Request, Deferred(i)
  PROVE  [Atomic!Next]_Atomic!vars
<1>0. /\ pc \in [Request -> {"idle", "locate", "begin", "exec", "deferred", "answer", "done", "lost"}]
      /\ pending \subseteq Request /\ durable \subseteq Request
  BY DEF TypeOK
<1>1. /\ pc[i] = "deferred" /\ pc' = [pc EXCEPT ![i] = "answer"]
      /\ UNCHANGED <<result, cancelled>>
  BY DEF Deferred, Move
<1>2. UNCHANGED Reply
  BY <1>0, <1>1 DEF Reply
<1>3. CASE durable' = durable
  BY <1>2, <1>3 DEF Atomic!vars
<1>4. CASE durable' # durable
  <2>1. i \in pending /\ durable' = durable \cup {i} /\ i \notin durable
    BY <1>4, DeferredCases
  <2>2. \A j \in durable : LastSeen[j] # LastSeen[i]
    BY <2>1 DEF RowInv
  <2> QED
    BY <1>1, <1>2, <2>1, <2>2, Untold DEF Atomic!Next, Atomic!Accept
<1> QED
  BY <1>3, <1>4

\* An answer tells a client that is still there whether its report is stored; a client
\* that has left is nothing to AtomicSave.
LEMMA TellStep ==
  ASSUME TypeOK, RowInv, AckInv, NEW i \in Request, Respond(i)
  PROVE  [Atomic!Next]_Atomic!vars
<1>0. /\ pc \in [Request -> {"idle", "locate", "begin", "exec", "deferred", "answer", "done", "lost"}]
      /\ result \in [Request -> {"none", "ok", "error"}]
  BY DEF TypeOK
<1>1. /\ pc[i] = "answer" /\ pc' = [pc EXCEPT ![i] = "done"]
      /\ UNCHANGED <<result, cancelled, durable>>
  BY DEF Respond, Move
<1>2. CASE i \in cancelled
  BY <1>0, <1>1, <1>2 DEF Reply, Atomic!vars
<1>3. CASE i \notin cancelled
  <2>1. Reply' = [Reply EXCEPT ![i] = result[i]]
    BY <1>0, <1>1, <1>3 DEF Reply
  <2>2. result[i] = IF i \in durable THEN "ok" ELSE "error"
    BY <1>0, <1>1, <1>3 DEF RowInv, AckInv
  <2> QED
    BY <1>1, <2>1, <2>2, Untold DEF Atomic!Next, Atomic!Tell
<1> QED
  BY <1>2, <1>3

LEMMA AtomicStep == TypeOK /\ RowInv /\ AckInv /\ [Next]_vars => [Atomic!Next]_Atomic!vars
<1> SUFFICES ASSUME TypeOK, RowInv, AckInv, [Next]_vars PROVE [Atomic!Next]_Atomic!vars
  OBVIOUS
<1>0. pc \in [Request -> {"idle", "locate", "begin", "exec", "deferred", "answer", "done", "lost"}]
  BY DEF TypeOK
<1>1. ASSUME NEW i \in Request, Receive(i) PROVE UNCHANGED Atomic!vars
  BY <1>0, <1>1, SilentStep DEF Receive, Move
<1>2. ASSUME NEW i \in Request, Locate(i) PROVE UNCHANGED Atomic!vars
  <2>1. \A j \in Request \ {i} : result'[j] = result[j]
    BY <1>2 DEF Locate, Refuse, TypeOK
  <2> QED
    BY <1>0, <1>2, <2>1, SilentStep DEF Locate, Refuse, Move
<1>3. ASSUME NEW i \in Request, Begin(i) PROVE UNCHANGED Atomic!vars
  <2>1. \A j \in Request \ {i} : result'[j] = result[j]
    BY <1>3 DEF Begin, Refuse, TypeOK
  <2> QED
    BY <1>0, <1>3, <2>1, SilentStep DEF Begin, Refuse, Move
<1>4. ASSUME NEW i \in Request, Exec(i) PROVE UNCHANGED Atomic!vars
  <2>1. \A j \in Request \ {i} : result'[j] = result[j]
    BY <1>4 DEF Exec, Insert, Conflict, Break, TooLate, Fail, TypeOK
  <2> QED
    BY <1>0, <1>4, <2>1, SilentStep DEF Exec, Move
<1>5. ASSUME NEW i \in Request, Deferred(i) PROVE [Atomic!Next]_Atomic!vars
  BY <1>5, EndStep
<1>6. ASSUME NEW i \in Request, Cancel(i) PROVE UNCHANGED Atomic!vars
  BY <1>0, <1>6, SilentStep DEF Cancel, Running
<1>7. ASSUME NEW i \in Request, RollBack(i) PROVE UNCHANGED Atomic!vars
  BY <1>7, SilentStep DEF RollBack
<1>8. CASE Crash
  BY <1>0, <1>8, SilentStep DEF Crash, Running
<1>9. CASE UNCHANGED vars
  BY <1>9, SilentStep DEF vars
<1>10. ASSUME NEW i \in Request, Respond(i) PROVE [Atomic!Next]_Atomic!vars
  BY <1>10, TellStep
<1> QED
  BY <1>1, <1>2, <1>3, <1>4, <1>5, <1>6, <1>7, <1>8, <1>9, <1>10 DEF Next, Handle

\* Unless a commit is lost, saving is atomic for any number of concurrent requests, and
\* whoever is told is told the truth (ImplementsAtomicSave): SaveTx implements AtomicSave.
THEOREM SaveIsAtomic ==
  ASSUME "commit" \notin Faults
  PROVE  Spec => ImplementsAtomicSave
<1>1. Init => Atomic!Init
  BY DEF Init, Atomic!Init, Reply
<1> QED
  BY <1>1, AtomicStep, AckAlways, RowsAlways, TypeCorrect, PTL
  DEF Spec, ImplementsAtomicSave, Atomic!Spec
=============================================================================
