------------------------ MODULE WatcherRuntimeProofs ------------------------
(***************************************************************************)
(* Theorems about WatcherRuntime, for every budget, cost, bound and set of *)
(* faults.                                                                 *)
(***************************************************************************)
EXTENDS WatcherRuntime, TLAPS

Whats == {"obs", "epoch"}

(***************************************************************************)
(* The budget.  That --max-ru is respected is not inductive alone: the     *)
(* reservation a read leaves behind must be known to be its own cost, or   *)
(* charging it might exceed the limit.                                     *)
(***************************************************************************)
BudgetInv ==
    /\ consumed \in Nat
    /\ what \in Whats
    /\ ReservedForTheRead
    /\ BudgetRespected

\* The cost of a read is a number, whatever is read.
LEMMA CostIsNat == \A w : Cost(w) \in Nat
  BY RuntimeAssumption DEF RuntimeAssumption, Cost

\* A step outside every read, which touches no budget, keeps the invariant.
LEMMA OutsideReads ==
    ASSUME BudgetInv, UNCHANGED budgetVars,
           pc \notin InFlight, pc' \notin InFlight, what' \in Whats
    PROVE  BudgetInv'
  BY CostIsNat DEF BudgetInv, budgetVars, ReservedForTheRead, BudgetRespected

\* So does a step that leaves the coroutine where it is, or inside its read.
LEMMA SameRead ==
    ASSUME BudgetInv, UNCHANGED <<what, budgetVars>>,
           pc' = pc \/ {pc, pc'} \subseteq InFlight
    PROVE  BudgetInv'
  BY CostIsNat DEF BudgetInv, budgetVars, ReservedForTheRead, BudgetRespected, Cost

\* So does a read that ends without a value and gives its reservation back.
LEMMA ReadReleases ==
    ASSUME BudgetInv, Release, pc \in InFlight, pc' \notin InFlight, what' \in Whats
    PROVE  BudgetInv'
  <1>. USE DEF BudgetInv, Release, ReservedForTheRead, BudgetRespected
  <1>1. Cost(what) \in Nat
    BY CostIsNat
  <1>2. reserved' = 0 /\ consumed' = consumed
    BY <1>1
  <1>3. MaxRu # NoLimit => MaxRu \in Nat
    BY RuntimeAssumption DEF RuntimeAssumption
  <1>. QED
    BY <1>1, <1>2, <1>3

\* So does a read that ends with a value and is charged for.
LEMMA ReadIsCharged ==
    ASSUME BudgetInv, ChargeReserved, pc \in InFlight, pc' \notin InFlight, what' \in Whats
    PROVE  BudgetInv'
  <1>. USE DEF BudgetInv, ChargeReserved, ReservedForTheRead, BudgetRespected
  <1>1. Cost(what) \in Nat
    BY CostIsNat
  <1>2. MaxRu # NoLimit => MaxRu \in Nat
    BY RuntimeAssumption DEF RuntimeAssumption
  <1>. QED
    BY <1>1, <1>2

\* So does an RPC of the stream, charged only if funds are left beside the
\* reservation, while the coroutine stays where it is.
LEMMA StreamIsCharged ==
    ASSUME BudgetInv, Funds(StreamCost), ChargeStream, UNCHANGED <<pc, what>>
    PROVE  BudgetInv'
  <1>. USE DEF BudgetInv, Funds, ChargeStream, ReservedForTheRead, BudgetRespected
  <1>1. Cost(what) \in Nat /\ Cost(what') = Cost(what)
    BY CostIsNat
  <1>2. StreamCost \in Nat /\ (MaxRu # NoLimit => MaxRu \in Nat)
    BY RuntimeAssumption DEF RuntimeAssumption
  <1>. QED
    BY <1>1, <1>2

\* Nothing is consumed or reserved at the start.
LEMMA BudgetInit == Init => BudgetInv
  BY RuntimeAssumption
  DEF Init, BudgetInv, RuntimeAssumption, ReservedForTheRead, BudgetRespected, InFlight, Whats

\* Every step of the fetch keeps the budget's invariant.
LEMMA BudgetReadStep == BudgetInv /\ ReadStep => BudgetInv'
  <1>. SUFFICES ASSUME BudgetInv, ReadStep PROVE BudgetInv'
    OBVIOUS
  <1>0. what \in Whats
    BY DEF BudgetInv
  <1>. USE DEF InFlight, Finish, Raises, GoOn, coVars, Whats
  <1>1. CASE FetchUnfunded
    BY <1>0, <1>1, OutsideReads DEF FetchUnfunded
  <1>2. CASE FetchOverdue
    BY <1>0, <1>2, OutsideReads DEF FetchOverdue
  <1>3. CASE FetchStarts
    <2>1. Cost(what) \in Nat /\ Cost(what') = Cost(what)
      BY <1>3, CostIsNat DEF FetchStarts
    <2>2. pc' \in InFlight /\ pc \notin InFlight
      BY <1>3 DEF FetchStarts
    <2>3. reserved = 0
      BY <2>2 DEF BudgetInv, ReservedForTheRead
    <2>4. reserved' = Cost(what') /\ consumed' = consumed /\ what' = what
      BY <1>3, <2>1, <2>3 DEF FetchStarts, Reserve
    <2>5. MaxRu # NoLimit => consumed + Cost(what) <= MaxRu
      BY <1>3, <2>1, <2>3 DEF FetchStarts, Funds, BudgetInv
    <2>. QED
      BY <1>0, <2>1, <2>2, <2>4, <2>5 DEF BudgetInv, ReservedForTheRead, BudgetRespected
  <1>4. CASE ReadFails
    BY <1>4, SameRead DEF ReadFails
  <1>5. CASE Retry
    BY <1>5, SameRead DEF Retry
  <1>6. CASE ReadOverdue
    BY <1>0, <1>6, ReadReleases DEF ReadOverdue
  <1>7. CASE ReadSucceeds
    <2>1. pc = "reading" /\ ChargeReserved
      BY <1>7 DEF ReadSucceeds
    <2>2. what' \in Whats /\ pc' \in {"fetch", "sleep", "await", "evaluate"}
      BY <1>0, <1>7 DEF ReadSucceeds, Fetch, NextRound
    <2>. QED
      BY <2>1, <2>2, ReadIsCharged
  <1>8. CASE ReadRateLimited
    BY <1>0, <1>8, ReadReleases DEF ReadRateLimited
  <1>9. CASE ReadHeadGone
    BY <1>0, <1>9, ReadReleases DEF ReadHeadGone
  <1>10. CASE ReadEnds
    <2>1. pc' \in {"printing", "closing"}
      BY <1>10 DEF ReadEnds
    <2>. QED
      BY <1>0, <1>10, <2>1, ReadReleases DEF ReadEnds
  <1>11. CASE BackoffEnds
    <2>1. what' \in Whats /\ pc' \in {"fetch", "sleep", "await", "top"}
      BY <1>0, <1>11 DEF BackoffEnds, Fetch, FirstRead
    <2>. QED
      BY <1>11, <2>1, OutsideReads DEF BackoffEnds
  <1>. QED
    BY <1>1, <1>2, <1>3, <1>4, <1>5, <1>6, <1>7, <1>8, <1>9, <1>10, <1>11 DEF ReadStep

\* Every step of the coroutine keeps the budget's invariant.
LEMMA BudgetRunnerStep == BudgetInv /\ RunnerStep => BudgetInv'
  <1>. SUFFICES ASSUME BudgetInv, RunnerStep PROVE BudgetInv'
    OBVIOUS
  <1>0. what \in Whats
    BY DEF BudgetInv
  <1>. USE DEF InFlight, Finish, Raises, GoOn, coVars, Whats
  <1>1. CASE Enter
    BY <1>0, <1>1, OutsideReads DEF Enter
  <1>2. CASE EnterWithout
    <2>1. what' \in Whats /\ pc' \in {"printing", "enter"}
      BY <1>0, <1>2 DEF EnterWithout, FallBack
    <2>. QED
      BY <1>2, <2>1, OutsideReads DEF EnterWithout
  <1>3. CASE TopEnds
    BY <1>0, <1>3, OutsideReads DEF TopEnds
  <1>4. CASE PollAgain
    BY <1>4, OutsideReads DEF PollAgain, FirstRead, Fetch
  <1>5. CASE Subscribe
    <2>1. what' \in Whats /\ pc' \in {"await", "fetch"}
      BY <1>0, <1>5 DEF Subscribe, FirstRead, Fetch
    <2>. QED
      BY <1>5, <2>1, OutsideReads DEF Subscribe
  <1>6. CASE ReadStep
    BY <1>6, BudgetReadStep
  <1>7. CASE Evaluate
    BY <1>0, <1>7, OutsideReads DEF Evaluate, NextRound
  <1>8. CASE Notified
    BY <1>0, <1>8, OutsideReads DEF Notified, NextRound
  <1>9. CASE Sleep
    BY <1>0, <1>9, OutsideReads DEF Sleep
  <1>10. CASE AwaitStarts \/ AwaitEnds
    BY <1>0, <1>10, OutsideReads DEF AwaitStarts, AwaitEnds
  <1>11. CASE AwaitItem
    <2>1. what' \in Whats /\ pc' \in {"await", "fetch", "evaluate"}
      BY <1>0, <1>11 DEF AwaitItem, Fetch
    <2>. QED
      BY <1>11, <2>1, OutsideReads DEF AwaitItem, Arrives
  <1>12. CASE AwaitError
    <2>1. pc' \in {"reconnect", "subbackoff", "printing", "closing"}
      BY <1>12 DEF AwaitError
    <2>. QED
      BY <1>0, <1>12, <2>1, OutsideReads DEF AwaitError, Arrives
  <1>13. CASE AwaitUnsupported
    <2>1. what' \in Whats /\ pc' \in {"printing", "enter"}
      BY <1>0, <1>13 DEF AwaitUnsupported, FallBack
    <2>. QED
      BY <1>13, <2>1, OutsideReads DEF AwaitUnsupported
  <1>14. CASE Reconnect
    BY <1>0, <1>14, OutsideReads DEF Reconnect
  <1>15. CASE Printed
    BY <1>0, <1>15, OutsideReads DEF Printed
  <1>16. CASE Close
    BY <1>0, <1>16, OutsideReads DEF Close
  <1>17. CASE EvaluateRaises
    BY <1>0, <1>17, OutsideReads DEF EvaluateRaises
  <1>. QED
    BY <1>1, <1>2, <1>3, <1>4, <1>5, <1>6, <1>7, <1>8, <1>9, <1>10, <1>11, <1>12,
       <1>13, <1>14, <1>15, <1>16, <1>17 DEF RunnerStep

\* Every step at all keeps the budget's invariant.
LEMMA BudgetNext == BudgetInv /\ [Next]_vars => BudgetInv'
  <1>. SUFFICES ASSUME BudgetInv, [Next]_vars PROVE BudgetInv'
    OBVIOUS
  <1>0. what \in Whats
    BY DEF BudgetInv
  <1>1. CASE RunnerStep
    BY <1>1, BudgetRunnerStep
  <1>2. CASE Cancel
    <2>. USE DEF InFlight, coVars
    <2>1. CASE pc \in InFlight /\ Release /\ pc' = "printing" /\ what' = what
      BY <1>0, <2>1, ReadReleases
    <2>2. CASE pc \notin InFlight /\ UNCHANGED <<what, budgetVars>> /\ pc' \in {"printing", "done"}
      BY <1>0, <2>2, OutsideReads
    <2>. QED
      BY <1>2, <2>1, <2>2 DEF Cancel, Finish
  <1>3. ASSUME NEW next, StreamCalls(next) PROVE BudgetInv'
    <2>1. UNCHANGED <<pc, what>>
      BY <1>3 DEF StreamCalls, coVars
    <2>2. CASE Funds(StreamCost)
      BY <1>3, <2>1, <2>2, StreamIsCharged DEF StreamCalls
    <2>3. CASE ~Funds(StreamCost)
      BY <1>3, <2>1, <2>3, SameRead DEF StreamCalls
    <2>. QED
      BY <2>2, <2>3
  <1>4. CASE StreamAttaches \/ StreamLooksUp
    BY <1>3, <1>4 DEF StreamAttaches, StreamLooksUp
  <1>5. CASE StreamNotifies
    BY <1>5, SameRead DEF StreamNotifies, coVars
  <1>6. CASE StreamBreaks
    BY <1>6, SameRead DEF StreamBreaks, coVars
  <1>7. CASE NewHead
    BY <1>7, SameRead DEF NewHead, coVars
  <1>8. CASE DeadlinePasses
    BY <1>8, SameRead DEF DeadlinePasses, coVars
  <1>9. CASE Signal
    BY <1>9, SameRead DEF Signal, coVars
  <1>10. CASE UNCHANGED vars
    BY <1>10, SameRead DEF vars, coVars
  <1>. QED
    BY <1>1, <1>2, <1>4, <1>5, <1>6, <1>7, <1>8, <1>9, <1>10 DEF Next

\* The budget's invariant holds in every reachable state.
THEOREM BudgetSafe == Spec => []BudgetInv
  BY BudgetInit, BudgetNext, PTL DEF Spec

\* --max-ru is respected (core/budget.py:63-92), whatever the costs, the limit,
\* the endpoint's faults and the interleaving of the runner with its stream.
THEOREM BudgetIsRespected == Spec => []BudgetRespected
  <1>1. BudgetInv => BudgetRespected
    BY DEF BudgetInv
  <1>. QED
    BY <1>1, BudgetSafe, PTL

\* Between reads nothing is reserved, and during a read exactly its cost is
\* (core/runtime.py:1427-1442): no path out of a read leaks or repays twice.
THEOREM ReservationIsExact == Spec => []ReservedForTheRead
  <1>1. BudgetInv => ReservedForTheRead
    BY DEF BudgetInv
  <1>. QED
    BY <1>1, BudgetSafe, PTL

-----------------------------------------------------------------------------
(***************************************************************************)
(* The payload.  That it is truthful is inductive as it stands.  That there*)
(* is exactly one needs to know how many were printed where the coroutine  *)
(* is, and that no cancellation can come: the handlers are installed.      *)
(***************************************************************************)
Ending == {"printing", "closing", "done"}

PayloadInv ==
    /\ handlers = TRUE
    /\ pc \notin Ending => printed = << >> /\ exit = "none"
    /\ pc = "printing" => printed = <<exit>>
    /\ pc = "closing" => printed \in {<< >>, <<exit>>}
    /\ pc = "done" => printed = <<exit>>

\* A step that leaves the end and the signals alone keeps the payload truthful.
LEMMA TruthKept == ExitIsTruthful /\ UNCHANGED <<exit, shutdown, overdue, cancelled>> => ExitIsTruthful'
  BY DEF ExitIsTruthful

\* So does one that ends the run for another reason than these two.
LEMMA TruthOther == exit' \notin {"stopped", "timeout"} => ExitIsTruthful'
  BY DEF ExitIsTruthful

\* Every step of the fetch keeps the payload truthful.
LEMMA TruthReadStep == ExitIsTruthful /\ ReadStep => ExitIsTruthful'
  <1>. SUFFICES ASSUME ExitIsTruthful, ReadStep PROVE ExitIsTruthful'
    OBVIOUS
  <1>. USE DEF Finish, Raises, GoOn, endVars, signalVars
  <1>1. CASE FetchUnfunded
    BY <1>1, TruthOther DEF FetchUnfunded
  <1>2. CASE FetchOverdue
    BY <1>2 DEF FetchOverdue, ExitIsTruthful
  <1>3. CASE FetchStarts
    BY <1>3, TruthKept DEF FetchStarts
  <1>4. CASE ReadFails
    BY <1>4, TruthKept DEF ReadFails
  <1>5. CASE Retry
    BY <1>5, TruthKept DEF Retry
  <1>6. CASE ReadOverdue
    BY <1>6 DEF ReadOverdue, ExitIsTruthful
  <1>7. CASE ReadSucceeds
    BY <1>7, TruthKept DEF ReadSucceeds, Fetch, NextRound
  <1>8. CASE ReadRateLimited
    BY <1>8, TruthKept, TruthOther DEF ReadRateLimited
  <1>9. CASE ReadHeadGone
    BY <1>9, TruthKept DEF ReadHeadGone
  <1>10. CASE ReadEnds
    BY <1>10, TruthOther DEF ReadEnds
  <1>11. CASE BackoffEnds
    BY <1>11, TruthKept DEF BackoffEnds, Fetch, FirstRead
  <1>. QED
    BY <1>1, <1>2, <1>3, <1>4, <1>5, <1>6, <1>7, <1>8, <1>9, <1>10, <1>11 DEF ReadStep

\* Every step at all keeps the payload truthful.
LEMMA TruthNext == ExitIsTruthful /\ [Next]_vars => ExitIsTruthful'
  <1>. SUFFICES ASSUME ExitIsTruthful, [Next]_vars PROVE ExitIsTruthful'
    OBVIOUS
  <1>. USE DEF Finish, Raises, GoOn, endVars, signalVars
  <1>1. CASE Enter
    BY <1>1, TruthKept, TruthOther DEF Enter
  <1>2. CASE EnterWithout
    BY <1>2, TruthKept, TruthOther DEF EnterWithout, FallBack
  <1>3. CASE TopEnds
    BY <1>3 DEF TopEnds, ExitIsTruthful
  <1>4. CASE PollAgain
    BY <1>4, TruthKept DEF PollAgain, FirstRead, Fetch
  <1>5. CASE Subscribe
    BY <1>5, TruthKept DEF Subscribe, FirstRead, Fetch
  <1>6. CASE ReadStep
    BY <1>6, TruthReadStep
  <1>7. CASE Evaluate \/ EvaluateRaises
    BY <1>7, TruthKept, TruthOther DEF Evaluate, EvaluateRaises, NextRound
  <1>8. CASE Notified
    BY <1>8, TruthKept DEF Notified, NextRound
  <1>9. CASE Sleep
    BY <1>9, TruthKept DEF Sleep
  <1>10. CASE AwaitStarts \/ AwaitEnds
    BY <1>10 DEF AwaitStarts, AwaitEnds, ExitIsTruthful
  <1>11. CASE AwaitItem
    BY <1>11, TruthKept DEF AwaitItem, Fetch
  <1>12. CASE AwaitError
    BY <1>12, TruthKept, TruthOther DEF AwaitError
  <1>13. CASE AwaitUnsupported
    BY <1>13, TruthKept, TruthOther DEF AwaitUnsupported, FallBack
  <1>14. CASE Reconnect
    BY <1>14, TruthKept DEF Reconnect
  <1>15. CASE Printed \/ Close
    BY <1>15, TruthKept DEF Printed, Close
  <1>16. CASE Cancel
    BY <1>16 DEF Cancel, ExitIsTruthful
  <1>17. CASE StreamAttaches \/ StreamLooksUp \/ StreamNotifies
    BY <1>17, TruthKept DEF StreamAttaches, StreamLooksUp, StreamNotifies, StreamCalls
  <1>18. CASE StreamBreaks
    BY <1>18, TruthKept DEF StreamBreaks
  <1>19. CASE NewHead
    BY <1>19, TruthKept DEF NewHead
  <1>20. CASE DeadlinePasses \/ Signal
    BY <1>20 DEF DeadlinePasses, Signal, ExitIsTruthful
  <1>21. CASE UNCHANGED vars
    BY <1>21, TruthKept DEF vars
  <1>. QED
    BY <1>1, <1>2, <1>3, <1>4, <1>5, <1>6, <1>7, <1>8, <1>9, <1>10, <1>11, <1>12, <1>13,
       <1>14, <1>15, <1>16, <1>17, <1>18, <1>19, <1>20, <1>21 DEF Next, RunnerStep

\* "stopped" is only ever reported after a shutdown request or a cancellation,
\* "timeout" only after the deadline (core/runtime.py:2154-2210).
THEOREM ExitTells == Spec => []ExitIsTruthful
  <1>1. Init => ExitIsTruthful
    BY DEF Init, ExitIsTruthful
  <1>. QED
    BY <1>1, TruthNext, PTL DEF Spec

\* A step that neither ends the run nor is one of its last keeps the payload's
\* invariant.
LEMMA PayloadKept ==
    ASSUME PayloadInv, UNCHANGED <<handlers, endVars>>, pc' = pc \/ {pc, pc'} \cap Ending = {}
    PROVE  PayloadInv'
  BY DEF PayloadInv, endVars, Ending

\* So does a step that hands over the run's payload.
LEMMA PayloadPrinted ==
    ASSUME PayloadInv, UNCHANGED handlers, pc \notin Ending,
           NEW status, Finish(status)
    PROVE  PayloadInv'
  <1>1. printed = << >>
    BY DEF PayloadInv
  <1>2. pc' = "printing" /\ exit' = status /\ printed' = Append(printed, status)
    BY DEF Finish
  <1>3. printed' = <<exit'>>
    BY <1>1, <1>2
  <1>. QED
    BY <1>2, <1>3 DEF PayloadInv, Ending

\* So does a step that raises an exception through run().
LEMMA PayloadRaised ==
    ASSUME PayloadInv, UNCHANGED handlers, pc \notin Ending,
           NEW status, Raises(status)
    PROVE  PayloadInv'
  BY DEF PayloadInv, Ending, Raises

\* Every step of the fetch keeps the payload's invariant.
LEMMA PayloadReadStep == PayloadInv /\ ReadStep => PayloadInv'
  <1>. SUFFICES ASSUME PayloadInv, ReadStep PROVE PayloadInv'
    OBVIOUS
  <1>. USE DEF GoOn, signalVars, Ending, InFlight
  <1>1. CASE FetchUnfunded
    BY <1>1, PayloadPrinted DEF FetchUnfunded
  <1>2. CASE FetchOverdue
    BY <1>2, PayloadPrinted DEF FetchOverdue
  <1>3. CASE FetchStarts
    BY <1>3, PayloadKept DEF FetchStarts
  <1>4. CASE ReadFails
    BY <1>4, PayloadKept DEF ReadFails
  <1>5. CASE Retry
    BY <1>5, PayloadKept DEF Retry
  <1>6. CASE ReadOverdue
    BY <1>6, PayloadPrinted DEF ReadOverdue
  <1>7. CASE ReadSucceeds
    <2>1. pc' \in {"fetch", "sleep", "await", "evaluate"} /\ UNCHANGED endVars
      BY <1>7 DEF ReadSucceeds, Fetch, NextRound
    <2>. QED
      BY <1>7, <2>1, PayloadKept DEF ReadSucceeds
  <1>8. CASE ReadRateLimited
    BY <1>8, PayloadKept, PayloadPrinted DEF ReadRateLimited
  <1>9. CASE ReadHeadGone
    BY <1>9, PayloadKept DEF ReadHeadGone
  <1>10. CASE ReadEnds
    BY <1>10, PayloadPrinted, PayloadRaised DEF ReadEnds
  <1>11. CASE BackoffEnds
    <2>1. pc' \in {"fetch", "sleep", "await", "top"} /\ UNCHANGED endVars
      BY <1>11 DEF BackoffEnds, Fetch, FirstRead
    <2>. QED
      BY <1>11, <2>1, PayloadKept DEF BackoffEnds
  <1>. QED
    BY <1>1, <1>2, <1>3, <1>4, <1>5, <1>6, <1>7, <1>8, <1>9, <1>10, <1>11 DEF ReadStep

\* Every step at all keeps the payload's invariant.
LEMMA PayloadNext == PayloadInv /\ [Next]_vars => PayloadInv'
  <1>. SUFFICES ASSUME PayloadInv, [Next]_vars PROVE PayloadInv'
    OBVIOUS
  <1>. USE DEF GoOn, signalVars, Ending
  <1>1. CASE Enter
    BY <1>1, PayloadKept, PayloadRaised DEF Enter
  <1>2. CASE EnterWithout
    BY <1>2, PayloadKept, PayloadPrinted DEF EnterWithout, FallBack
  <1>3. CASE TopEnds
    BY <1>3, PayloadPrinted DEF TopEnds
  <1>4. CASE PollAgain
    BY <1>4, PayloadKept DEF PollAgain, FirstRead, Fetch
  <1>5. CASE Subscribe
    BY <1>5, PayloadKept DEF Subscribe, FirstRead, Fetch
  <1>6. CASE ReadStep
    BY <1>6, PayloadReadStep
  <1>7. CASE Evaluate \/ EvaluateRaises
    BY <1>7, PayloadKept, PayloadPrinted, PayloadRaised DEF Evaluate, EvaluateRaises, NextRound
  <1>8. CASE Notified
    BY <1>8, PayloadKept DEF Notified, NextRound
  <1>9. CASE Sleep
    BY <1>9, PayloadKept DEF Sleep
  <1>10. CASE AwaitStarts \/ AwaitEnds
    BY <1>10, PayloadKept, PayloadPrinted DEF AwaitStarts, AwaitEnds
  <1>11. CASE AwaitItem
    <2>1. pc' \in {"await", "fetch", "evaluate"} /\ UNCHANGED endVars
      BY <1>11 DEF AwaitItem, Fetch
    <2>. QED
      BY <1>11, <2>1, PayloadKept DEF AwaitItem, Arrives
  <1>12. CASE AwaitError
    BY <1>12, PayloadKept, PayloadPrinted, PayloadRaised DEF AwaitError, Arrives
  <1>13. CASE AwaitUnsupported
    BY <1>13, PayloadKept, PayloadPrinted DEF AwaitUnsupported, FallBack
  <1>14. CASE Reconnect
    BY <1>14, PayloadKept DEF Reconnect
  <1>15. CASE Printed
    BY <1>15 DEF Printed, PayloadInv, endVars
  <1>16. CASE Close
    <2>1. exit' = exit /\ printed' = <<exit>>
      BY <1>16 DEF Close, PayloadInv
    <2>. QED
      BY <1>16, <2>1 DEF Close, PayloadInv, signalVars
  <1>17. CASE Cancel
    BY <1>17 DEF Cancel, PayloadInv
  <1>18. CASE StreamAttaches \/ StreamLooksUp \/ StreamNotifies
    BY <1>18, PayloadKept DEF StreamAttaches, StreamLooksUp, StreamNotifies, StreamCalls
  <1>19. CASE StreamBreaks
    BY <1>19, PayloadKept DEF StreamBreaks
  <1>20. CASE NewHead
    BY <1>20, PayloadKept DEF NewHead
  <1>21. CASE DeadlinePasses \/ Signal
    BY <1>21, PayloadKept DEF DeadlinePasses, Signal
  <1>22. CASE UNCHANGED vars
    BY <1>22, PayloadKept DEF vars
  <1>. QED
    BY <1>1, <1>2, <1>3, <1>4, <1>5, <1>6, <1>7, <1>8, <1>9, <1>10, <1>11, <1>12, <1>13,
       <1>14, <1>15, <1>16, <1>17, <1>18, <1>19, <1>20, <1>21, <1>22 DEF Next, RunnerStep

\* Where the event loop supports signal handlers, a run prints exactly one
\* payload and returns its exit code (output/schema.py:7), whatever loops it
\* falls back to and whatever the endpoint does.
THEOREM OnePayloadPerRun == HandlersMayFail = FALSE /\ Spec => []OnePayload
  <1>1. HandlersMayFail = FALSE /\ Init => PayloadInv
    BY DEF Init, PayloadInv, Ending
  <1>2. PayloadInv => OnePayload
    BY DEF PayloadInv, OnePayload
  <1>. QED
    BY <1>1, <1>2, PayloadNext, PTL DEF Spec

-----------------------------------------------------------------------------
MaybeBlock == Block \cup {NoBlock}
Items == {Notice(b) : b \in Block} \cup {Raised(e) : e \in Errors}
Pcs == {"enter", "top", "fetch", "backoff", "evaluate", "notifying", "sleep",
        "await", "waiting", "subbackoff", "reconnect", "printing", "closing", "done"} \cup InFlight

(***************************************************************************)
(* Types, in three parts that do not depend on one another: what is read,  *)
(* what the stream holds, and how the run ends.                            *)
(***************************************************************************)
ReadTypes ==
    /\ loop \in AllLoops /\ pc \in Pcs
    /\ stage \in {"baseline", "items"} /\ what \in Whats
    /\ at \in MaybeBlock /\ last \in MaybeBlock /\ skipped \in MaybeBlock
    /\ pc = "evaluate" => at \in Block
    /\ lastMarker \in -1 .. MaxHeight
StreamTypes ==
    /\ sub \in {"closed", "attaching", "open", "dead"}
    /\ queue \in Seq(Items)
    /\ notified \in MaybeBlock
    /\ head \in Block /\ reorgs \in 0 .. MaxReorgs
\* The guard gives up at MaxHits + 1, and the run ends.
EndTypes ==
    /\ hits \in 0 .. MaxHits + 1
    /\ pc \notin Ending => hits <= MaxHits
    /\ handlers \in BOOLEAN /\ shutdown \in BOOLEAN /\ overdue \in BOOLEAN
    /\ cancelled \in BOOLEAN
    /\ printed \in Seq(Statuses)
    /\ exit \in Statuses \cup {"none"}
    /\ pc \in Ending => exit \in Statuses

LEMMA NoBlockIsNone == NoBlock \notin Block
  BY DEF NoBlock, Block

\* A block's epoch, for bounds of every size.
LEMMA MarkerIsBounded ==
    ASSUME NEW b \in Block
    PROVE  Marker(b) \in 0 .. MaxHeight
  <1>1. \A x \in Nat, y \in Nat \ {0} : x \div y \in Nat /\ x \div y <= x
    OBVIOUS
  <1>2. b.height \in Nat /\ b.height <= MaxHeight /\ EpochLength \in Nat \ {0} /\ MaxHeight \in Nat
    BY RuntimeAssumption DEF Block
  <1>3. QED
    BY <1>1, <1>2 DEF Marker

\* The first item of the queue, and what is left without it.
LEMMA Taken ==
    ASSUME StreamTypes, queue # << >>
    PROVE  /\ Head(queue) \in Items /\ Tail(queue) \in Seq(Items)
           /\ Head(queue).error = "none" => Head(queue).block \in Block
  <1>1. Head(queue) \in Items /\ Tail(queue) \in Seq(Items)
    BY DEF StreamTypes
  <1>2. QED
    BY <1>1 DEF Items, Notice, Raised, Errors

-----------------------------------------------------------------------------
LEMMA ReadTypesInit == Init => ReadTypes
  BY RuntimeAssumption
     DEF RuntimeAssumption, Init, ReadTypes, AllLoops, Pcs, Whats, MaybeBlock

LEMMA ReadTypesRead == ReadTypes /\ StreamTypes /\ ReadStep => ReadTypes'
  <1> SUFFICES ASSUME ReadTypes, StreamTypes, ReadStep PROVE ReadTypes'
    OBVIOUS
  <1> USE DEF GoOn, Finish, Raises, coVars, Pcs, InFlight, Whats
  <1>1. CASE FetchUnfunded \/ FetchOverdue
    BY <1>1 DEF FetchUnfunded, FetchOverdue, ReadTypes
  <1>2. CASE FetchStarts \/ ReadFails \/ Retry \/ ReadOverdue
    BY <1>2 DEF FetchStarts, ReadFails, Retry, ReadOverdue, ReadTypes
  <1>3. CASE ReadSucceeds
    <2> DEFINE b == IF at = NoBlock THEN head ELSE at
    <2>1. b \in Block
      BY DEF ReadTypes, StreamTypes, MaybeBlock
    <2>2. at' \in MaybeBlock /\ (pc' = "evaluate" => at' = b)
          /\ what' \in Whats /\ pc' \in Pcs
      BY <1>3, <2>1 DEF ReadSucceeds, Fetch, NextRound, MaybeBlock, ReadTypes
    <2>3. UNCHANGED <<loop, stage, last, lastMarker, skipped>>
      BY <1>3 DEF ReadSucceeds
    <2> HIDE DEF b
    <2>4. QED
      BY <2>1, <2>2, <2>3 DEF ReadTypes
  <1>4. CASE ReadRateLimited \/ ReadHeadGone \/ ReadEnds
    BY <1>4 DEF ReadRateLimited, ReadHeadGone, ReadEnds, ReadTypes, MaybeBlock
  <1>5. CASE BackoffEnds
    <2>1. /\ pc' \in {"fetch", "sleep", "await", "top"} /\ what' \in Whats
          /\ at' \in MaybeBlock /\ skipped' \in MaybeBlock
      BY <1>5 DEF BackoffEnds, Fetch, FirstRead, ReadTypes, MaybeBlock
    <2>2. UNCHANGED <<loop, stage, last, lastMarker>>
      BY <1>5 DEF BackoffEnds
    <2>3. QED
      BY <2>1, <2>2 DEF ReadTypes
  <1>6. QED
    BY <1>1, <1>2, <1>3, <1>4, <1>5 DEF ReadStep

LEMMA FallBackTypes ==
    ASSUME NEW ls, ls \subseteq AllLoops \cup {"none"}, FallBack(ls), ReadTypes
    PROVE  ReadTypes'
  <1>1. CASE Finish("provider_error") /\ UNCHANGED <<coVars, streamVars>>
    BY <1>1 DEF Finish, coVars, ReadTypes, Pcs
  <1>2. CASE /\ loop' \in AllLoops /\ stage' = "baseline" /\ what' = "obs" /\ at' = NoBlock
             /\ last' = NoBlock /\ lastMarker' = -1 /\ skipped' = NoBlock /\ pc' = "enter"
    BY <1>2, RuntimeAssumption DEF RuntimeAssumption, ReadTypes, Pcs, Whats, MaybeBlock
  <1>3. QED
    BY <1>1, <1>2 DEF FallBack, GoOn

LEMMA FallbacksAreLoops ==
    ASSUME NEW l PROVE Fallbacks(l) \subseteq AllLoops \cup {"none"}
  BY RuntimeAssumption DEF RuntimeAssumption, Fallbacks, AllLoops

LEMMA ReadTypesNext == ReadTypes /\ StreamTypes /\ [Next]_vars => ReadTypes'
  <1> SUFFICES ASSUME ReadTypes, StreamTypes, [Next]_vars PROVE ReadTypes'
    OBVIOUS
  <1> USE DEF GoOn, Finish, Raises, coVars, Pcs, InFlight, Whats
  <1>1. CASE Enter \/ TopEnds \/ Notified \/ Sleep
    BY <1>1 DEF Enter, TopEnds, Notified, Sleep, NextRound, ReadTypes
  <1>2. CASE EnterWithout \/ AwaitUnsupported
    <2>1. {"head"} \subseteq AllLoops
      BY DEF AllLoops
    <2>2. QED
      BY <1>2, <2>1, FallBackTypes, FallbacksAreLoops DEF EnterWithout, AwaitUnsupported
  <1>3. CASE PollAgain \/ Subscribe
    BY <1>3 DEF PollAgain, Subscribe, FirstRead, Fetch, ReadTypes, MaybeBlock
  <1>4. CASE ReadStep
    BY <1>4, ReadTypesRead
  <1>5. CASE Evaluate
    <2>1. at \in Block /\ Marker(at) \in -1 .. MaxHeight
      BY <1>5, MarkerIsBounded DEF Evaluate, ReadTypes
    <2>2. /\ stage' \in {"baseline", "items"} /\ last' \in MaybeBlock
          /\ lastMarker' \in -1 .. MaxHeight
      BY <1>5, <2>1 DEF Evaluate, Record, ReadTypes, MaybeBlock
    <2>3. /\ pc' \in Pcs \ {"evaluate"} /\ at' = NoBlock
          /\ UNCHANGED <<loop, what, skipped>>
      BY <1>5 DEF Evaluate, NextRound
    <2>4. QED
      BY <2>2, <2>3 DEF ReadTypes, MaybeBlock
  <1>6. CASE EvaluateRaises \/ AwaitStarts \/ AwaitEnds \/ AwaitError \/ Reconnect
             \/ Printed \/ Close
    BY <1>6 DEF EvaluateRaises, AwaitStarts, AwaitEnds, AwaitError, Reconnect, Printed, Close,
                ReadTypes, MaybeBlock
  <1>7. CASE AwaitItem
    <2>1. Head(queue).block \in Block
      BY <1>7, Taken DEF AwaitItem, Arrives
    <2>2. /\ pc' \in {"evaluate", "fetch", "await"} /\ what' \in Whats
          /\ at' \in MaybeBlock /\ (pc' = "evaluate" => at' \in Block)
      BY <1>7, <2>1 DEF AwaitItem, Fetch, ReadTypes, MaybeBlock
    <2>3. UNCHANGED <<loop, stage, last, lastMarker, skipped>>
      BY <1>7 DEF AwaitItem
    <2>4. QED
      BY <2>2, <2>3 DEF ReadTypes
  <1>8. CASE Cancel
    BY <1>8 DEF Cancel, ReadTypes
  <1>9. CASE StreamAttaches \/ StreamLooksUp \/ StreamNotifies \/ StreamBreaks \/ NewHead
             \/ DeadlinePasses \/ Signal \/ UNCHANGED vars
    <2>1. UNCHANGED <<pc, coVars>>
      BY <1>9 DEF StreamAttaches, StreamLooksUp, StreamNotifies, StreamBreaks, NewHead,
                  DeadlinePasses, Signal, StreamCalls, vars
    <2>2. QED
      BY <2>1 DEF ReadTypes
  <1>10. QED
    BY <1>1, <1>2, <1>3, <1>4, <1>5, <1>6, <1>7, <1>8, <1>9 DEF Next, RunnerStep

-----------------------------------------------------------------------------
LEMMA StreamTypesInit == Init => StreamTypes
  BY RuntimeAssumption DEF RuntimeAssumption, Init, StreamTypes, MaybeBlock, Block

\* A stream that is closed, or that loses its first item, keeps its types.
LEMMA StreamTypesClosed ==
    ASSUME StreamTypes, UNCHANGED chainVars, queue' = << >>,
           sub' \in {"closed", "attaching"}, notified' = NoBlock
    PROVE  StreamTypes'
  BY DEF StreamTypes, chainVars, MaybeBlock

LEMMA StreamTypesKept ==
    ASSUME StreamTypes, UNCHANGED <<sub, notified, chainVars>>,
           queue' = queue \/ (queue # << >> /\ queue' = Tail(queue))
    PROVE  StreamTypes'
  BY DEF StreamTypes, chainVars

LEMMA StreamTypesNext == StreamTypes /\ [Next]_vars => StreamTypes'
  <1> SUFFICES ASSUME StreamTypes, [Next]_vars PROVE StreamTypes'
    OBVIOUS
  <1> USE DEF GoOn, Finish, Raises, streamVars
  <1>1. CASE Enter \/ TopEnds \/ PollAgain \/ Evaluate \/ EvaluateRaises \/ Notified \/ Sleep
             \/ AwaitStarts \/ AwaitEnds \/ Cancel \/ DeadlinePasses \/ Signal \/ UNCHANGED vars
    BY <1>1, StreamTypesKept
       DEF Enter, TopEnds, PollAgain, Evaluate, EvaluateRaises, Notified, Sleep, AwaitStarts, AwaitEnds,
           Cancel, DeadlinePasses, Signal, vars
  <1>2. CASE ReadStep
    BY <1>2, StreamTypesKept
       DEF ReadStep, FetchUnfunded, FetchOverdue, FetchStarts, ReadFails, Retry, ReadOverdue,
           ReadSucceeds, ReadRateLimited, ReadHeadGone, ReadEnds, BackoffEnds
  <1>3. CASE EnterWithout \/ AwaitUnsupported
    BY <1>3, StreamTypesKept, StreamTypesClosed DEF EnterWithout, AwaitUnsupported, FallBack
  <1>4. CASE Subscribe \/ Reconnect \/ Printed \/ Close
    BY <1>4, StreamTypesClosed DEF Subscribe, Reconnect, Printed, Close
  <1>5. CASE AwaitItem \/ AwaitError
    BY <1>5, StreamTypesKept DEF AwaitItem, AwaitError, Arrives
  <1>6. CASE StreamAttaches \/ StreamLooksUp \/ StreamBreaks
    <2>1. \A e \in Errors : Raised(e) \in Items
      BY DEF Items
    <2>2. queue' = queue \/ \E e \in Errors : queue' = Append(queue, Raised(e))
      BY <1>6 DEF StreamAttaches, StreamLooksUp, StreamCalls, StreamBreaks, Enqueue, Errors
    <2>3. queue' \in Seq(Items)
      BY <2>1, <2>2 DEF StreamTypes
    <2>4. sub' \in {"open", "dead"} /\ UNCHANGED <<notified, chainVars>>
      BY <1>6 DEF StreamAttaches, StreamLooksUp, StreamCalls, StreamBreaks
    <2>5. QED
      BY <2>3, <2>4 DEF StreamTypes, chainVars
  <1>7. CASE StreamNotifies
    <2>1. head \in Block /\ Notice(head) \in Items
      BY DEF StreamTypes, Items
    <2>2. QED
      BY <1>7, <2>1 DEF StreamNotifies, Enqueue, StreamTypes, MaybeBlock, chainVars
  <1>8. CASE NewHead
    <2> USE RuntimeAssumption DEF RuntimeAssumption
    <2>0. head.height \in 0 .. MaxHeight /\ head.fork \in 0 .. MaxReorgs
          /\ reorgs \in 0 .. MaxReorgs /\ head = [height |-> head.height, fork |-> head.fork]
      BY DEF StreamTypes, Block
    <2>1. CASE head.height < MaxHeight /\ head' = [head EXCEPT !.height = @ + 1] /\ reorgs' = reorgs
      <3>1. head' = [height |-> head.height + 1, fork |-> head.fork]
        BY <2>0, <2>1
      <3>2. head.height + 1 \in 0 .. MaxHeight
        BY <2>0, <2>1
      <3>3. head' \in Block /\ reorgs' \in 0 .. MaxReorgs
        BY <2>0, <2>1, <3>1, <3>2 DEF Block
      <3>4. QED
        BY <1>8, <3>3 DEF NewHead, StreamTypes
    <2>2. CASE /\ reorgs < MaxReorgs /\ reorgs' = reorgs + 1
               /\ \E h \in 0 .. MaxHeight, f \in 0 .. reorgs + 1 :
                     head' = [height |-> h, fork |-> f]
      <3>1. head' \in Block /\ reorgs' \in 0 .. MaxReorgs
        BY <2>0, <2>2 DEF Block
      <3>2. QED
        BY <1>8, <3>1 DEF NewHead, StreamTypes
    <2>3. QED
      BY <1>8, <2>1, <2>2 DEF NewHead
  <1>9. QED
    BY <1>1, <1>2, <1>3, <1>4, <1>5, <1>6, <1>7, <1>8 DEF Next, RunnerStep

-----------------------------------------------------------------------------
LEMMA EndTypesInit == Init => EndTypes
  <1> SUFFICES ASSUME Init PROVE EndTypes
    OBVIOUS
  <1>1. handlers \in BOOLEAN
    BY Zenon DEF Init
  <1>2. shutdown \in BOOLEAN /\ overdue \in BOOLEAN /\ cancelled \in BOOLEAN
    BY Zenon DEF Init
  <1>3. hits \in 0 .. MaxHits + 1 /\ hits <= MaxHits
    BY RuntimeAssumption DEF RuntimeAssumption, Init
  <1>4. printed \in Seq(Statuses) /\ exit \in Statuses \cup {"none"}
    BY DEF Init
  <1>5. pc \notin Ending
    BY DEF Init, Ending
  <1>6. QED
    BY <1>1, <1>2, <1>3, <1>4, <1>5 DEF EndTypes

\* A step that backs nothing off and ends in no new way keeps the types.
LEMMA EndTypesKept ==
    ASSUME EndTypes, hits' \in {hits, 0}, pc' \notin Ending => pc \notin Ending,
           UNCHANGED signalVars,
           (UNCHANGED endVars /\ (pc' \in Ending => pc \in Ending))
           \/ (exit' \in Statuses /\ printed' = Append(printed, exit'))
           \/ (exit' \in Statuses /\ printed' = printed)
    PROVE  EndTypes'
  BY RuntimeAssumption DEF RuntimeAssumption, EndTypes, signalVars, endVars

\* A rate limit is one hit more, and at MaxHits in a row the run ends.
LEMMA EndTypesLimited ==
    ASSUME EndTypes, pc \notin Ending, hits' = hits + 1, UNCHANGED signalVars,
           NEW label \in {"backoff", "subbackoff"},
           IF hits < MaxHits THEN GoOn(label) ELSE Finish("provider_error")
    PROVE  EndTypes'
  <1>1. CASE hits < MaxHits
    BY <1>1, RuntimeAssumption DEF RuntimeAssumption, EndTypes, signalVars, GoOn, endVars, Ending
  <1>2. CASE ~(hits < MaxHits)
    BY <1>2, RuntimeAssumption
       DEF RuntimeAssumption, EndTypes, signalVars, Finish, Ending, Statuses
  <1>3. QED
    BY <1>1, <1>2

LEMMA EndTypesNext == EndTypes /\ [Next]_vars => EndTypes'
  <1> SUFFICES ASSUME EndTypes, [Next]_vars PROVE EndTypes'
    OBVIOUS
  <1> USE DEF GoOn, Finish, Raises, Ending, Statuses, InFlight
  <1>1. CASE Enter \/ TopEnds \/ PollAgain \/ Subscribe \/ Evaluate \/ EvaluateRaises
             \/ Notified \/ Sleep
    BY <1>1, EndTypesKept
       DEF Enter, TopEnds, PollAgain, Subscribe, FirstRead, Fetch, Evaluate, EvaluateRaises,
           NextRound, Notified, Sleep
  <1>2. CASE EnterWithout \/ AwaitUnsupported
    BY <1>2, EndTypesKept DEF EnterWithout, AwaitUnsupported, FallBack
  <1>3. CASE FetchUnfunded \/ FetchOverdue \/ FetchStarts \/ ReadFails \/ Retry \/ ReadOverdue
             \/ ReadHeadGone \/ ReadEnds \/ BackoffEnds
    BY <1>3, EndTypesKept
       DEF FetchUnfunded, FetchOverdue, FetchStarts, ReadFails, Retry, ReadOverdue,
           ReadHeadGone, ReadEnds, BackoffEnds, FirstRead, Fetch
  <1>4. CASE ReadSucceeds
    BY <1>4, EndTypesKept DEF ReadSucceeds, Fetch, NextRound
  <1>5. CASE ReadRateLimited
    BY <1>5, EndTypesLimited DEF ReadRateLimited
  <1>6. CASE AwaitStarts \/ AwaitEnds \/ AwaitItem \/ Reconnect \/ Printed
    BY <1>6, EndTypesKept DEF AwaitStarts, AwaitEnds, AwaitItem, Arrives, Fetch, Reconnect, Printed
  <1>7. CASE AwaitError
    <2>1. CASE Head(queue).error = "rate_limited" /\ hits' = hits + 1
      BY <1>7, <2>1, EndTypesLimited DEF AwaitError, Arrives
    <2>2. CASE ~(Head(queue).error = "rate_limited" /\ hits' = hits + 1)
      BY <1>7, <2>2, EndTypesKept DEF AwaitError, Arrives
    <2>3. QED
      BY <2>1, <2>2
  <1>8. CASE Close
    <2>1. CASE printed = << >>
      BY <1>8, <2>1 DEF Close, EndTypes, signalVars
    <2>2. CASE printed # << >>
      BY <1>8, <2>2 DEF Close, EndTypes, signalVars
    <2>3. QED
      BY <2>1, <2>2
  <1>9. CASE Cancel
    <2>1. hits' = hits /\ pc \notin {"done"} /\ (pc' \notin Ending => pc \notin Ending)
      BY <1>9 DEF Cancel
    <2>2. printed' = Append(printed, "stopped") /\ exit' = "stopped"
      BY <1>9 DEF Cancel
    <2>3. UNCHANGED <<handlers, overdue>> /\ cancelled' = TRUE /\ shutdown' \in {shutdown, TRUE}
      BY <1>9 DEF Cancel
    <2>4. pc' \in Ending
      BY <1>9 DEF Cancel
    <2>5. handlers' \in BOOLEAN /\ shutdown' \in BOOLEAN /\ overdue' \in BOOLEAN /\ cancelled' \in BOOLEAN
      BY <2>3 DEF EndTypes
    <2>6. QED
      BY <2>1, <2>2, <2>4, <2>5 DEF EndTypes
  <1>10. CASE StreamAttaches \/ StreamLooksUp \/ StreamNotifies \/ StreamBreaks \/ NewHead
             \/ DeadlinePasses \/ Signal \/ UNCHANGED vars
    BY <1>10 DEF StreamAttaches, StreamLooksUp, StreamCalls, StreamNotifies, StreamBreaks,
                 NewHead, DeadlinePasses, Signal, vars, EndTypes, signalVars, endVars
  <1>11. QED
    BY <1>1, <1>2, <1>3, <1>4, <1>5, <1>6, <1>7, <1>8, <1>9, <1>10 DEF Next, RunnerStep, ReadStep

\* Every variable keeps its type: in particular the rate-limit counter never
\* passes the point where the guard gives up, a block is at hand whenever a
\* value is evaluated, and what is queued is a block or one known error.
THEOREM RuntimeTyped == Spec => []TypeOK
  <1> DEFINE Typed == ReadTypes /\ StreamTypes /\ EndTypes
  <1>1. Init => Typed
    BY ReadTypesInit, StreamTypesInit, EndTypesInit
  <1>2. Typed /\ [Next]_vars => Typed'
    BY ReadTypesNext, StreamTypesNext, EndTypesNext
  <1>3. Typed /\ BudgetInv => TypeOK
    <2> SUFFICES ASSUME Typed, BudgetInv PROVE TypeOK
      OBVIOUS
    <2>1. reserved \in Nat
      BY CostIsNat DEF BudgetInv, ReservedForTheRead
    <2>2. Items \subseteq Item
      BY DEF Items, Item, Notice, Raised
    <2>3. queue \in Seq(Item)
      BY <2>2 DEF StreamTypes
    <2>4. {at, last, notified, skipped} \subseteq Block \cup {NoBlock}
      BY DEF ReadTypes, StreamTypes, MaybeBlock
    <2>5. {handlers, shutdown, overdue, cancelled} \subseteq BOOLEAN
      BY DEF EndTypes
    <2>6. QED
      BY <2>1, <2>3, <2>4, <2>5
         DEF TypeOK, ReadTypes, StreamTypes, EndTypes, BudgetInv, Pcs, Whats
  <1> HIDE DEF Typed
  <1>4. QED
    BY <1>1, <1>2, <1>3, BudgetSafe, PTL DEF Spec

-----------------------------------------------------------------------------
(***************************************************************************)
(* Time does not run backwards.  The invariant says why: once a head or    *)
(* storage loop has its baseline, whatever read it is at, through retries, *)
(* rate limits and the epoch state that follows the observable, is pinned  *)
(* to a block that is not below the one evaluated last.                    *)
(***************************************************************************)
HeadLoops == {"head", "storage"}
Reading   == {"fetch", "backoff", "evaluate"} \cup InFlight

MoveInv ==
    /\ stage = "baseline" \/ loop \notin HeadLoops => last = NoBlock
    /\ loop \in HeadLoops /\ stage = "items" => last \in Block
    /\ loop \in HeadLoops /\ stage = "items" /\ pc \in Reading
         => at \in Block /\ last.height <= at.height

\* A step that leaves loop, stage and last alone, and either the read in hand
\* too or no read at all, keeps the invariant.
LEMMA MoveKept ==
    ASSUME MoveInv, UNCHANGED <<loop, stage, last>>,
           pc' \in Reading => pc \in Reading /\ at' = at
    PROVE  MoveInv'
  BY DEF MoveInv

LEMMA MoveFallBack ==
    ASSUME NEW ls, FallBack(ls), MoveInv
    PROVE  MoveInv'
  BY DEF FallBack, MoveInv, Finish, GoOn, coVars, Reading, InFlight, HeadLoops

LEMMA MoveReadStep == MoveInv /\ ReadStep => MoveInv'
  <1> SUFFICES ASSUME MoveInv, ReadStep PROVE MoveInv'
    OBVIOUS
  <1> USE DEF GoOn, Finish, Raises, coVars, Reading, InFlight, HeadLoops, Polling
  <1>1. CASE FetchUnfunded \/ FetchOverdue \/ FetchStarts \/ ReadFails \/ Retry \/ ReadOverdue
             \/ ReadRateLimited \/ ReadHeadGone \/ ReadEnds
    BY <1>1, MoveKept
       DEF FetchUnfunded, FetchOverdue, FetchStarts, ReadFails, Retry, ReadOverdue,
           ReadRateLimited, ReadHeadGone, ReadEnds
  <1>2. CASE ReadSucceeds
    <2>1. CASE loop \in HeadLoops /\ stage = "items"
      <3>1. at # NoBlock
        BY <1>2, <2>1, NoBlockIsNone DEF MoveInv, ReadSucceeds
      <3>2. pc' \in Reading => at' = at
        BY <1>2, <3>1 DEF ReadSucceeds, Fetch, NextRound
      <3>3. QED
        BY <1>2, <3>2, MoveKept DEF ReadSucceeds
    <2>2. CASE ~(loop \in HeadLoops /\ stage = "items")
      BY <1>2, <2>2 DEF MoveInv, ReadSucceeds
    <2>3. QED
      BY <2>1, <2>2
  <1>3. CASE BackoffEnds
    <2>1. CASE loop \in HeadLoops /\ stage = "items"
      <3>1. pc' \in Reading => at' = at
        BY <1>3, <2>1 DEF BackoffEnds, Fetch
      <3>2. QED
        BY <1>3, <3>1, MoveKept DEF BackoffEnds
    <2>2. CASE ~(loop \in HeadLoops /\ stage = "items")
      BY <1>3, <2>2 DEF MoveInv, BackoffEnds
    <2>3. QED
      BY <2>1, <2>2
  <1>4. QED
    BY <1>1, <1>2, <1>3 DEF ReadStep

LEMMA MoveNext == MoveInv /\ ReadTypes /\ StreamTypes /\ [Next]_vars => MoveInv'
  <1> SUFFICES ASSUME MoveInv, ReadTypes, StreamTypes, [Next]_vars PROVE MoveInv'
    OBVIOUS
  <1> USE DEF GoOn, Finish, Raises, coVars, Reading, InFlight, HeadLoops, Polling
  <1>0. CASE EvaluateRaises
    BY <1>0 DEF EvaluateRaises, MoveInv
  <1>1. CASE Enter \/ TopEnds \/ Notified \/ Sleep \/ AwaitStarts \/ AwaitEnds \/ AwaitError
             \/ Reconnect \/ Printed \/ Close \/ Cancel
    BY <1>1, MoveKept
       DEF Enter, TopEnds, Notified, NextRound, Sleep, AwaitStarts, AwaitEnds, AwaitError,
           Reconnect, Printed, Close, Cancel
  <1>2. CASE EnterWithout \/ AwaitUnsupported
    BY <1>2, MoveFallBack DEF EnterWithout, AwaitUnsupported
  <1>3. CASE PollAgain
    BY <1>3 DEF PollAgain, MoveInv
  <1>4. CASE Subscribe
    <2>1. CASE stage = "items"
      BY <1>4, <2>1, MoveKept DEF Subscribe
    <2>2. CASE stage # "items"
      BY <1>4, <2>2 DEF Subscribe, MoveInv
    <2>3. QED
      BY <2>1, <2>2
  <1>5. CASE ReadStep
    BY <1>5, MoveReadStep
  <1>6. CASE Evaluate
    <2>1. at \in Block /\ pc' \notin Reading
      BY <1>6 DEF Evaluate, ReadTypes, NextRound
    <2>2. QED
      BY <1>6, <2>1 DEF Evaluate, Record, MoveInv
  <1>7. CASE AwaitItem
    <2>0. Head(queue).block \in Block
      BY <1>7, Taken DEF AwaitItem, Arrives
    <2>1. CASE loop \in HeadLoops /\ stage = "items" /\ pc' \in Reading
      <3>1. ~IsOld(Head(queue).block) /\ at' = Head(queue).block
        BY <1>7, <2>1 DEF AwaitItem, Fetch
      <3>2. last \in Block
        BY <2>1 DEF MoveInv
      <3>3. last.height <= Head(queue).block.height
        BY <2>0, <3>1, <3>2, RuntimeAssumption DEF IsOld, Block, RuntimeAssumption
      <3>4. QED
        BY <1>7, <2>0, <3>1, <3>2, <3>3 DEF AwaitItem, MoveInv
    <2>2. CASE ~(loop \in HeadLoops /\ stage = "items" /\ pc' \in Reading)
      BY <1>7, <2>2 DEF AwaitItem, MoveInv
    <2>3. QED
      BY <2>1, <2>2
  <1>8. CASE StreamAttaches \/ StreamLooksUp \/ StreamNotifies \/ StreamBreaks \/ NewHead
             \/ DeadlinePasses \/ Signal \/ UNCHANGED vars
    <2>1. UNCHANGED <<pc, coVars>>
      BY <1>8 DEF StreamAttaches, StreamLooksUp, StreamNotifies, StreamBreaks, NewHead,
                  DeadlinePasses, Signal, StreamCalls, vars
    <2>2. QED
      BY <2>1, MoveKept
  <1>9. QED
    BY <1>0, <1>1, <1>2, <1>3, <1>4, <1>5, <1>6, <1>7, <1>8 DEF Next, RunnerStep

\* Only an evaluation moves `last` from one block to another, and a fallback
\* forgets it.
LEMMA LastMoves ==
    ASSUME [Next]_vars, last' # last, last' # NoBlock
    PROVE  Evaluate
  <1> USE DEF coVars
  <1>1. CASE EnterWithout \/ AwaitUnsupported
    BY <1>1 DEF EnterWithout, AwaitUnsupported, FallBack
  <1>2. CASE ReadStep
    BY <1>2
       DEF ReadStep, FetchUnfunded, FetchOverdue, FetchStarts, ReadFails, Retry, ReadOverdue,
           ReadSucceeds, ReadRateLimited, ReadHeadGone, ReadEnds, BackoffEnds
  <1>3. CASE Enter \/ TopEnds \/ PollAgain \/ Subscribe \/ EvaluateRaises \/ Notified \/ Sleep
             \/ AwaitStarts \/ AwaitEnds \/ AwaitItem \/ AwaitError \/ Reconnect \/ Printed
             \/ Close \/ Cancel
    BY <1>3
       DEF Enter, TopEnds, PollAgain, Subscribe, EvaluateRaises, Notified, Sleep, AwaitStarts,
           AwaitEnds, AwaitItem, AwaitError, Reconnect, Printed, Close, Cancel
  <1>4. CASE StreamAttaches \/ StreamLooksUp \/ StreamNotifies \/ StreamBreaks \/ NewHead
             \/ DeadlinePasses \/ Signal \/ UNCHANGED vars
    BY <1>4 DEF StreamAttaches, StreamLooksUp, StreamNotifies, StreamBreaks, NewHead,
                DeadlinePasses, Signal, StreamCalls, vars
  <1>5. QED
    BY <1>1, <1>2, <1>3, <1>4 DEF Next, RunnerStep

\* The blocks that a head or storage loop evaluates never go down in height,
\* for a chain of any height that reorganises any number of times.
THEOREM TimeMovesForward == Spec => EvaluationsMoveForward
  <1> DEFINE MInv == MoveInv /\ ReadTypes /\ StreamTypes
             Forward == last' # last /\ NoBlock \notin {last, last'} => last'.height >= last.height
  <1>1. Init => MInv
    BY ReadTypesInit, StreamTypesInit DEF Init, MoveInv
  <1>2. MInv /\ [Next]_vars => MInv'
    BY MoveNext, ReadTypesNext, StreamTypesNext
  <1>3. MInv /\ [Next]_vars => [Forward]_vars
    <2> SUFFICES ASSUME MInv, [Next]_vars, last' # last, NoBlock \notin {last, last'}
                 PROVE  last'.height >= last.height
      OBVIOUS
    <2>1. Evaluate /\ pc \in Reading
      BY LastMoves DEF Evaluate, Reading
    <2>2. last' = at /\ loop \in HeadLoops
      BY <2>1 DEF Evaluate, Record, HeadLoops
    <2>3. stage = "items"
      BY <2>2 DEF MoveInv, ReadTypes
    <2>4. last \in Block /\ at \in Block /\ last.height <= at.height
      BY <2>1, <2>2, <2>3 DEF MoveInv
    <2>5. QED
      BY <2>2, <2>4, RuntimeAssumption DEF Block, RuntimeAssumption
  <1> HIDE DEF MInv, Forward
  <1>4. Spec => [][Forward]_vars
    BY <1>1, <1>2, <1>3, PTL DEF Spec
  <1>5. QED
    BY <1>4 DEF Forward, EvaluationsMoveForward

-----------------------------------------------------------------------------
(***************************************************************************)
(* A watcher that idles is current.  The invariant follows the newest      *)
(* notification: it is the last item of an open stream's queue; once the   *)
(* queue is empty it is the block of the read in hand; once that is over   *)
(* it is dealt with.  And nothing leaves the queue before the baseline.    *)
(***************************************************************************)
Subscribed == {"head", "storage", "epoch_head"}
Waiting    == {"await", "waiting", "notifying"}

QueueInv ==
    /\ sub \in {"closed", "attaching"} => queue = << >> /\ notified = NoBlock
    /\ sub = "open" /\ queue # << >> => queue[Len(queue)].block = notified
    /\ sub = "open" => \A i \in 1 .. Len(queue) : queue[i].error = "none"

Dealt ==
    /\ loop \in HeadLoops => notified = last \/ notified.height < last.height
    /\ loop = "epoch_head" => Marker(notified) = lastMarker

\* An open stream has reported a block and its queue is empty.
Drained == sub = "open" /\ queue = << >> /\ notified # NoBlock

IdleInv ==
    /\ loop \in Subscribed /\ pc \in Waiting => stage = "items"
    /\ loop = "epoch_head" /\ stage = "baseline" => lastMarker = -1
    /\ loop \in Subscribed /\ Drained =>
          /\ stage = "items"
          /\ pc \in Reading => at = notified
          /\ pc \in Waiting => notified = skipped \/ Dealt

\* The last item of a queue, after one is added and after one is taken.
LEMMA LastItem ==
    ASSUME NEW S, NEW q \in Seq(S), NEW x \in S
    PROVE  /\ Append(q, x) # << >> /\ Append(q, x)[Len(Append(q, x))] = x
           /\ \A i \in 1 .. Len(Append(q, x)) :
                 Append(q, x)[i] = x \/ (i \in 1 .. Len(q) /\ Append(q, x)[i] = q[i])
  <1>1. Append(q, x) \in Seq(S) /\ Len(Append(q, x)) = Len(q) + 1
    OBVIOUS
  <1>2. \A i \in 1 .. Len(q) + 1 : Append(q, x)[i] = IF i = Len(q) + 1 THEN x ELSE q[i]
    OBVIOUS
  <1>3. Len(q) \in Nat
    OBVIOUS
  <1>4. Append(q, x)[Len(Append(q, x))] = x /\ Append(q, x) # << >>
    BY <1>1, <1>2, <1>3
  <1>5. ASSUME NEW i \in 1 .. Len(q) + 1, Append(q, x)[i] # x
        PROVE  i \in 1 .. Len(q) /\ Append(q, x)[i] = q[i]
    BY <1>2, <1>3, <1>5
  <1>6. QED
    BY <1>1, <1>4, <1>5

LEMMA LeftBehind ==
    ASSUME NEW S, NEW q \in Seq(S), q # << >>
    PROVE  /\ \A i \in 1 .. Len(Tail(q)) : i + 1 \in 1 .. Len(q) /\ Tail(q)[i] = q[i + 1]
           /\ Tail(q) # << >> => Tail(q)[Len(Tail(q))] = q[Len(q)]
           /\ Tail(q) = << >> => Head(q) = q[Len(q)]
  <1>1. Tail(q) \in Seq(S) /\ Len(Tail(q)) = Len(q) - 1 /\ Len(q) \in Nat \ {0}
    OBVIOUS
  <1>2. \A i \in 1 .. Len(Tail(q)) : Tail(q)[i] = q[i + 1]
    OBVIOUS
  <1>3. Tail(q) # << >> => Len(Tail(q)) \in 1 .. Len(Tail(q))
    BY <1>1
  <1>4. Tail(q) = << >> => Len(q) = 1
    <2> DEFINE t == Tail(q)
    <2>1. Len(t) = Len(q) - 1 /\ Len(q) \in Nat
      BY <1>1
    <2> HIDE DEF t
    <2>2. t = << >> => Len(q) = 1
      BY <2>1
    <2>3. QED
      BY <2>2 DEF t
  <1>5. Tail(q) # << >> => Tail(q)[Len(Tail(q))] = q[Len(q)]
    BY <1>1, <1>2, <1>3
  <1>6. Tail(q) = << >> => Head(q) = q[Len(q)]
    BY <1>4
  <1>7. \A i \in 1 .. Len(Tail(q)) : i + 1 \in 1 .. Len(q)
    BY <1>1
  <1>8. QED
    BY <1>2, <1>5, <1>6, <1>7

LEMMA QueueKept ==
    ASSUME QueueInv, UNCHANGED streamVars
    PROVE  QueueInv'
  BY DEF QueueInv, streamVars

LEMMA QueueClosed ==
    ASSUME queue' = << >>, sub' \in {"closed", "attaching"}, notified' = NoBlock
    PROVE  QueueInv'
  BY DEF QueueInv

LEMMA QueueTaken ==
    ASSUME QueueInv, StreamTypes, queue # << >>, queue' = Tail(queue), UNCHANGED <<sub, notified>>
    PROVE  QueueInv'
  <1>1. queue \in Seq(Items) /\ Head(queue) \in Items
    BY DEF StreamTypes
  <1>2. queue' # << >> => queue'[Len(queue')] = queue[Len(queue)]
    BY <1>1, LeftBehind
  <1>3. \A i \in 1 .. Len(queue') : i + 1 \in 1 .. Len(queue) /\ queue'[i] = queue[i + 1]
    BY <1>1, LeftBehind
  <1>4. QED
    BY <1>2, <1>3 DEF QueueInv

LEMMA QueueNext == QueueInv /\ StreamTypes /\ [Next]_vars => QueueInv'
  <1> SUFFICES ASSUME QueueInv, StreamTypes, [Next]_vars PROVE QueueInv'
    OBVIOUS
  <1> USE DEF GoOn, Finish, Raises
  <1>1. CASE Enter \/ TopEnds \/ PollAgain \/ Evaluate \/ EvaluateRaises \/ Notified \/ Sleep
             \/ AwaitStarts \/ AwaitEnds \/ Cancel \/ NewHead \/ DeadlinePasses \/ Signal
             \/ UNCHANGED vars
    BY <1>1, QueueKept
       DEF Enter, TopEnds, PollAgain, Evaluate, EvaluateRaises, Notified, Sleep, AwaitStarts, AwaitEnds,
           Cancel, NewHead, DeadlinePasses, Signal, vars
  <1>2. CASE ReadStep
    BY <1>2, QueueKept
       DEF ReadStep, FetchUnfunded, FetchOverdue, FetchStarts, ReadFails, Retry, ReadOverdue,
           ReadSucceeds, ReadRateLimited, ReadHeadGone, ReadEnds, BackoffEnds
  <1>3. CASE EnterWithout \/ AwaitUnsupported
    BY <1>3, QueueKept, QueueClosed DEF EnterWithout, AwaitUnsupported, FallBack
  <1>4. CASE Subscribe \/ Reconnect \/ Printed \/ Close
    BY <1>4, QueueClosed DEF Subscribe, Reconnect, Printed, Close
  <1>5. CASE AwaitItem \/ AwaitError
    BY <1>5, QueueTaken DEF AwaitItem, AwaitError, Arrives
  <1>6. CASE StreamAttaches \/ StreamLooksUp \/ StreamBreaks
    <2>1. sub' = "dead" \/ (sub' = "open" /\ UNCHANGED <<queue, notified>>)
      BY <1>6 DEF StreamAttaches, StreamLooksUp, StreamBreaks, StreamCalls
    <2>2. CASE sub' = "dead"
      BY <2>2 DEF QueueInv
    <2>3. CASE sub' = "open" /\ UNCHANGED <<queue, notified>>
      <3>1. sub \in {"attaching", "open"}
        BY <1>6 DEF StreamAttaches, StreamLooksUp, StreamBreaks
      <3>2. CASE sub = "attaching"
        BY <2>3, <3>2 DEF QueueInv
      <3>3. CASE sub = "open"
        BY <2>3, <3>3 DEF QueueInv
      <3>4. QED
        BY <3>1, <3>2, <3>3
    <2>4. QED
      BY <2>1, <2>2, <2>3
  <1>7. CASE StreamNotifies
    <2>1. Notice(head) \in Items /\ queue \in Seq(Items) /\ queue' = Append(queue, Notice(head))
      BY <1>7 DEF StreamNotifies, Enqueue, StreamTypes, Items
    <2>2. Notice(head).block = head /\ Notice(head).error = "none"
      BY DEF Notice
    <2>3. sub = "open" /\ sub' = "open" /\ notified' = head
      BY <1>7 DEF StreamNotifies
    <2>4. queue'[Len(queue')] = Notice(head)
      BY <2>1, LastItem
    <2>5. \A i \in 1 .. Len(queue') : queue'[i] = Notice(head) \/ (i \in 1 .. Len(queue) /\ queue'[i] = queue[i])
      BY <2>1, LastItem
    <2>6. QED
      BY <2>2, <2>3, <2>4, <2>5 DEF QueueInv
  <1>8. QED
    BY <1>1, <1>2, <1>3, <1>4, <1>5, <1>6, <1>7 DEF Next, RunnerStep

-----------------------------------------------------------------------------
\* A step of the coroutine that takes nothing from the stream, and neither
\* starts a read nor begins to wait, keeps the invariant.
LEMMA IdleKept ==
    ASSUME IdleInv, UNCHANGED <<loop, stage, last, lastMarker, skipped, streamVars>>,
           pc' \in Reading => pc \in Reading /\ at' = at,
           pc' \in Waiting => pc \in Waiting
    PROVE  IdleInv'
  BY DEF IdleInv, Drained, Dealt, streamVars

\* So does a step to or within a stream that has reported nothing.
LEMMA IdleUndrained ==
    ASSUME IdleInv, UNCHANGED <<loop, stage, lastMarker>>, ~Drained',
           pc' \in Waiting => pc \in Waiting \/ loop \notin Subscribed \/ stage = "items"
    PROVE  IdleInv'
  BY DEF IdleInv

LEMMA IdleFallBack ==
    ASSUME NEW ls, FallBack(ls), IdleInv
    PROVE  IdleInv'
  <1>1. CASE Finish("provider_error") /\ UNCHANGED <<coVars, streamVars>>
    BY <1>1, IdleKept DEF Finish, coVars, Reading, InFlight, Waiting
  <1>2. CASE /\ stage' = "baseline" /\ lastMarker' = -1 /\ pc' = "enter"
             /\ sub' = "closed"
    BY <1>2 DEF IdleInv, Drained, Waiting
  <1>3. QED
    BY <1>1, <1>2 DEF FallBack, GoOn

LEMMA IdleReadStep == IdleInv /\ ReadTypes /\ StreamTypes /\ ReadStep => IdleInv'
  <1> SUFFICES ASSUME IdleInv, ReadTypes, StreamTypes, ReadStep PROVE IdleInv'
    OBVIOUS
  <1> USE DEF GoOn, Finish, Raises, coVars, Reading, InFlight, HeadLoops, Polling, Waiting, Subscribed
  <1>1. CASE FetchUnfunded \/ FetchOverdue \/ FetchStarts \/ ReadFails \/ Retry \/ ReadOverdue
             \/ ReadRateLimited \/ ReadEnds
    BY <1>1, IdleKept
       DEF FetchUnfunded, FetchOverdue, FetchStarts, ReadFails, Retry, ReadOverdue,
           ReadRateLimited, ReadEnds
  <1>2. CASE ReadSucceeds
    <2> DEFINE b == IF at = NoBlock THEN head ELSE at
    <2>0. UNCHANGED <<loop, stage, last, lastMarker, skipped, streamVars>> /\ pc = "reading"
      BY <1>2 DEF ReadSucceeds
    <2>1. b \in Block /\ Marker(b) # -1
      <3>1. b \in Block
        BY DEF ReadTypes, StreamTypes, MaybeBlock
      <3>2. QED
        BY <3>1, MarkerIsBounded, RuntimeAssumption DEF RuntimeAssumption
    <2>2. pc' \in Reading => at' = b
      BY <1>2 DEF ReadSucceeds, Fetch, NextRound
    <2>3. pc' \in Waiting /\ loop \in Subscribed => loop = "epoch_head" /\ Marker(b) = lastMarker
      BY <1>2 DEF ReadSucceeds, Fetch, NextRound
    <2>4. loop \in Subscribed /\ Drained => b = notified /\ stage = "items"
      BY <2>0 DEF IdleInv, Drained
    <2>5. loop \in Subscribed /\ pc' \in Waiting => stage = "items"
      BY <2>1, <2>3 DEF IdleInv, ReadTypes
    <2>6. loop \in Subscribed /\ Drained /\ pc' \in Waiting => Marker(notified) = lastMarker /\ loop = "epoch_head"
      BY <2>3, <2>4
    <2> HIDE DEF b
    <2>7. QED
      BY <2>0, <2>2, <2>4, <2>5, <2>6 DEF IdleInv, Drained, Dealt, streamVars
  <1>3. CASE ReadHeadGone
    BY <1>3 DEF ReadHeadGone, IdleInv, Drained, streamVars
  <1>4. CASE BackoffEnds
    <2>0. UNCHANGED <<loop, stage, last, lastMarker, streamVars>> /\ pc = "backoff"
      BY <1>4 DEF BackoffEnds
    <2>1. CASE loop \in Subscribed /\ stage = "baseline"
      <3>1. pc' = "fetch"
        BY <1>4, <2>1 DEF BackoffEnds, FirstRead, Fetch
      <3>2. QED
        BY <2>0, <2>1, <3>1 DEF IdleInv, Drained, streamVars
    <2>2. CASE loop \in Subscribed /\ stage = "items" /\ what = "obs"
      <3>1. pc' = "fetch" /\ at' = at /\ skipped' = skipped
        BY <1>4, <2>2 DEF BackoffEnds, Fetch
      <3>2. QED
        BY <2>0, <2>2, <3>1 DEF IdleInv, Drained, streamVars
    <2>3. CASE loop \in Subscribed /\ stage = "items" /\ what # "obs"
      <3>1. pc' = "await" /\ skipped' = at
        BY <1>4, <2>3 DEF BackoffEnds
      <3>2. QED
        BY <2>0, <2>3, <3>1 DEF IdleInv, Drained, streamVars
    <2>4. CASE loop \notin Subscribed
      BY <2>0, <2>4 DEF IdleInv
    <2>5. QED
      BY <2>1, <2>2, <2>3, <2>4 DEF ReadTypes
  <1>5. QED
    BY <1>1, <1>2, <1>3, <1>4 DEF ReadStep

LEMMA IdleNext == IdleInv /\ QueueInv /\ ReadTypes /\ StreamTypes /\ [Next]_vars => IdleInv'
  <1> SUFFICES ASSUME IdleInv, QueueInv, ReadTypes, StreamTypes, [Next]_vars PROVE IdleInv'
    OBVIOUS
  <1> USE DEF GoOn, Finish, Raises, coVars, Reading, InFlight, HeadLoops, Polling, Waiting, Subscribed
  <1>1. CASE Enter \/ TopEnds \/ Notified \/ Sleep \/ AwaitStarts \/ AwaitEnds \/ Cancel
    BY <1>1, IdleKept
       DEF Enter, TopEnds, Notified, NextRound, Sleep, AwaitStarts, AwaitEnds, Cancel
  <1>2. CASE EnterWithout \/ AwaitUnsupported
    BY <1>2, IdleFallBack DEF EnterWithout, AwaitUnsupported
  <1>3. CASE PollAgain
    BY <1>3 DEF PollAgain, FirstRead, Fetch, IdleInv
  <1>4. CASE Subscribe
    <2>1. ~Drained' /\ UNCHANGED <<loop, stage, lastMarker>>
      BY <1>4 DEF Subscribe, Drained
    <2>2. pc' \in Waiting => stage = "items" \/ loop \notin Subscribed
      BY <1>4 DEF Subscribe, FirstRead, Fetch
    <2>3. QED
      BY <2>1, <2>2, IdleUndrained
  <1>5. CASE ReadStep
    BY <1>5, IdleReadStep
  <1>6. CASE Evaluate
    <2>0. at \in Block /\ pc = "evaluate" /\ UNCHANGED <<loop, skipped, streamVars>>
      BY <1>6 DEF Evaluate, ReadTypes
    <2>1. pc' \notin Reading /\ (loop \in Subscribed => stage' = "items")
      BY <1>6 DEF Evaluate, NextRound, Record
    <2>2. loop \in HeadLoops => last' = at
      BY <1>6 DEF Evaluate, Record
    <2>3. loop = "epoch_head" => lastMarker' = Marker(at)
      BY <1>6 DEF Evaluate, Record
    <2>4. loop \in Subscribed /\ Drained => at = notified
      BY <2>0 DEF IdleInv
    <2>5. QED
      BY <2>0, <2>1, <2>2, <2>3, <2>4 DEF IdleInv, Drained, Dealt, streamVars
  <1>0. CASE EvaluateRaises
    <2>1. /\ pc' \notin Reading \cup Waiting
          /\ UNCHANGED <<loop, stage, lastMarker, sub, queue, notified>>
      BY <1>0 DEF EvaluateRaises, streamVars
    <2>2. QED
      BY <1>0, <2>1 DEF EvaluateRaises, IdleInv, Drained
  <1>7. CASE AwaitItem
    <2>0. /\ queue # << >> /\ queue' = Tail(queue)
          /\ UNCHANGED <<loop, stage, last, lastMarker, skipped, sub, notified>>
          /\ pc = "waiting"
      BY <1>7 DEF AwaitItem, Arrives
    <2>1. CASE loop \in Subscribed /\ Drained'
      <3>1. Head(queue).block = notified /\ notified # NoBlock /\ stage = "items"
        BY <2>0, <2>1, LeftBehind DEF Drained, QueueInv, StreamTypes, IdleInv
      <3>2. pc' \in Reading => at' = notified
        BY <1>7, <2>1, <3>1 DEF AwaitItem, Fetch
      <3>3. pc' \in Waiting => loop \in HeadLoops /\ IsOld(notified)
        BY <1>7, <2>1, <3>1 DEF AwaitItem, Fetch
      <3>4. QED
        BY <2>0, <2>1, <3>1, <3>2, <3>3 DEF IdleInv, Drained, Dealt, IsOld
    <2>2. CASE loop \in Subscribed /\ ~Drained'
      BY <2>0, <2>2, IdleUndrained DEF IdleInv
    <2>3. CASE loop \notin Subscribed
      BY <2>0, <2>3 DEF IdleInv
    <2>4. QED
      BY <2>1, <2>2, <2>3
  <1>8. CASE AwaitError
    <2>1. pc' \notin Reading \cup Waiting /\ sub' = sub /\ UNCHANGED <<loop, stage, lastMarker, notified>>
      BY <1>8 DEF AwaitError, Arrives
    <2>2. queue # << >> /\ queue \in Seq(Items) /\ Head(queue) = queue[1] /\ 1 \in 1 .. Len(queue)
      BY <1>8 DEF AwaitError, Arrives, StreamTypes
    <2>3. sub # "open"
      BY <1>8, <2>2 DEF AwaitError, QueueInv
    <2>4. QED
      BY <2>1, <2>3 DEF IdleInv, Drained
  <1>9. CASE Reconnect \/ Printed \/ Close
    BY <1>9, IdleUndrained DEF Reconnect, Printed, Close, Drained
  <1>10. CASE StreamAttaches \/ StreamLooksUp \/ StreamBreaks
    <2>1. UNCHANGED <<pc, coVars, notified>>
      BY <1>10 DEF StreamAttaches, StreamLooksUp, StreamBreaks, StreamCalls
    <2>2. sub' = "dead" \/ (sub = "open" /\ UNCHANGED <<sub, queue>>) \/ notified = NoBlock
      BY <1>10 DEF StreamAttaches, StreamLooksUp, StreamBreaks, StreamCalls, QueueInv
    <2>3. QED
      BY <2>1, <2>2 DEF IdleInv, Drained, Dealt
  <1>11. CASE StreamNotifies
    <2>1. queue' # << >> /\ UNCHANGED <<pc, coVars>>
      BY <1>11, LastItem DEF StreamNotifies, Enqueue, StreamTypes, Items
    <2>2. QED
      BY <2>1, IdleUndrained DEF Drained
  <1>12. CASE NewHead \/ DeadlinePasses \/ Signal \/ UNCHANGED vars
    <2>1. UNCHANGED <<pc, coVars, streamVars>>
      BY <1>12 DEF NewHead, DeadlinePasses, Signal, vars
    <2>2. QED
      BY <2>1, IdleKept
  <1>13. QED
    BY <1>0, <1>1, <1>2, <1>3, <1>4, <1>5, <1>6, <1>7, <1>8, <1>9, <1>10, <1>11, <1>12 DEF Next, RunnerStep

\* A watcher that waits on an open stream whose queue is empty has dealt with
\* the newest block reported to it, for queues and chains of any length.
THEOREM IdleWatcherIsCurrent == Spec => []IdleIsCurrent
  <1> DEFINE AllInv == IdleInv /\ QueueInv /\ ReadTypes /\ StreamTypes
  <1>1. Init => AllInv
    BY ReadTypesInit, StreamTypesInit DEF Init, IdleInv, QueueInv, Drained, Waiting
  <1>2. AllInv /\ [Next]_vars => AllInv'
    BY IdleNext, QueueNext, ReadTypesNext, StreamTypesNext
  <1>3. AllInv => IdleIsCurrent
    BY DEF IdleInv, Drained, Dealt, IdleIsCurrent, Subscribed, Waiting, HeadLoops
  <1> HIDE DEF AllInv
  <1>4. QED
    BY <1>1, <1>2, <1>3, PTL DEF Spec
=============================================================================
