--------------------------- MODULE TradeRunProofs ---------------------------
(***************************************************************************)
(* Proofs about TradeRun, for every value of its constants.  Each theorem  *)
(* rests on an inductive invariant: TypeInv for the types, ExecutedPlaced  *)
(* for the abstract ledger, GateInv and StoreInv for the two gates,        *)
(* HaltInv for the halt on UNKNOWN, OrderPhase for the stored status of    *)
(* the run's order.  The last part takes one share per order:              *)
(* SharesMatch ties an order's fill row to its booked share and its        *)
(* executed share to its broker state, AccountedGate says what a           *)
(* reconciliation that does not block has established, and ReportPhase     *)
(* what a run knows of its order's execution.                              *)
(***************************************************************************)
EXTENDS TradeRunProperties, TLAPS

\* The program points at which the run knows its order.
OrderPoints ==
  {"record", "poll", "filled", "fix", "position", "event", "settle",
   "announce", "cancel", "cancelTop", "cancelReq", "cancelSave", "audit"}

\* What the run holds in memory at each point.
RunMemory ==
  /\ pc # "idle" => want \in Intents
  /\ pc \in OrderPoints => cur \in OrderIds
  /\ pc = "poll" => count < MaxPolls
  /\ pc \in {"position", "event"} => delta > 0

TypeInv == TypeOK /\ RunMemory

\* A snapshot never shows more shares than the broker executed.
LEMMA SnapshotBounds ==
  ASSUME TypeOK, ConstantsAssumption, NEW o, NEW v
  PROVE  /\ Snapshot(o, v).filled \in 0 .. Qty
         /\ o \in OrderIds => Snapshot(o, v).filled <= bfilled[o]
<1>1. CASE o \in InUnfilled(v)
  <2>1. o \in OrderIds /\ Snapshot(o, v) = UnfilledRow(o)
    BY <1>1 DEF Snapshot, InUnfilled
  <2>2. QED
    BY <2>1 DEF UnfilledRow, TypeOK
<1>2. CASE o \notin InUnfilled(v) /\ o \in InHistory(v)
  <2>1. o \in OrderIds /\ Snapshot(o, v) = HistoryRow(o, v)
    BY <1>2 DEF Snapshot, InHistory
  <2>2. QED
    BY <2>1 DEF HistoryRow, TypeOK
<1>3. CASE o \notin InUnfilled(v) /\ o \notin InHistory(v)
  BY <1>3, ConstantsAssumption DEF Snapshot, NotFound, TypeOK, ConstantsAssumption
<1>4. QED
  BY <1>1, <1>2, <1>3

\* Every step keeps the types and what a run remembers.
LEMMA TypeStep == ConstantsAssumption /\ TypeInv /\ [Next]_vars => TypeInv'
<1> SUFFICES ASSUME ConstantsAssumption, TypeInv, [Next]_vars PROVE TypeInv'
  OBVIOUS
<1> USE DEF TypeInv, TypeOK, RunMemory, OrderPoints, Points, TryPoints, Callers, Terminal,
            ConstantsAssumption
<1>1. ASSUME NEW i \in Intents, StartRun(i) PROVE TypeInv'
  BY <1>1, ConstantsAssumption
  DEF StartRun, storeVars, brokerVars, procVars
<1>2. ASSUME NEW v \in Views, CheckReconciliation(v) PROVE TypeInv'
  BY <1>2, ConstantsAssumption
  DEF CheckReconciliation, RunResults, storeVars, brokerVars, procVars
<1>3. CASE CheckIntent
  BY <1>3, ConstantsAssumption
  DEF CheckIntent, RunResults, storeVars, brokerVars, procVars
<1>4. ASSUME NEW o \in OrderIds, SubmitOrder(o) PROVE TypeInv'
  BY <1>4, ConstantsAssumption
  DEF SubmitOrder, BrokerTakes, BrokerStates, storeVars, brokerVars, procVars
<1>5. ASSUME NEW o \in OrderIds, SubmitReplyLost(o) PROVE TypeInv'
  BY <1>5, ConstantsAssumption
  DEF SubmitReplyLost, BrokerTakes, BrokerStates, storeVars, brokerVars, procVars
<1>6. CASE SubmitRefused
  BY <1>6, ConstantsAssumption
  DEF SubmitRefused, storeVars, brokerVars, procVars
<1>7. CASE RecordOrder
  BY <1>7, ConstantsAssumption
  DEF RecordOrder, RunResults, OrderStatuses, BlockingStatuses,
      LocalOpenStatuses, storeVars, brokerVars, procVars
<1>8. ASSUME NEW v \in Views, Poll(v) PROVE TypeInv'
  BY <1>8, ConstantsAssumption
  DEF Poll, UpdateStatus, OrderStatuses, BlockingStatuses, LocalOpenStatuses,
      storeVars, brokerVars, procVars
<1>9. CASE RecordFilled
  BY <1>9, ConstantsAssumption
  DEF RecordFilled, UpdateStatus, OrderStatuses, BlockingStatuses,
      LocalOpenStatuses, storeVars, brokerVars, procVars
<1>10. ASSUME NEW v \in Views, CorrectFills(v) PROVE TypeInv'
  BY <1>10, ConstantsAssumption, SnapshotBounds
  DEF CorrectFills, MissingFill, DuplicateFill, storeVars, brokerVars, procVars
<1>11. CASE UpdatePosition
  BY <1>11, ConstantsAssumption
  DEF UpdatePosition, ApplyFill, Intents, storeVars, brokerVars, procVars
<1>12. CASE RecordPositionEvent
  BY <1>12, ConstantsAssumption
  DEF RecordPositionEvent, storeVars, brokerVars, procVars
<1>13. CASE Settle
  BY <1>13, ConstantsAssumption
  DEF Settle, RunResults, storeVars, brokerVars, procVars
<1>14. CASE Announce
  BY <1>14, ConstantsAssumption
  DEF Announce, RunResults, storeVars, brokerVars, procVars
<1>15. CASE RequestCancelLocally
  BY <1>15, ConstantsAssumption
  DEF RequestCancelLocally, UpdateStatus, OrderStatuses, BlockingStatuses,
      LocalOpenStatuses, storeVars, brokerVars, procVars
<1>16. CASE CancelGivesUp
  BY <1>16, ConstantsAssumption
  DEF CancelGivesUp, storeVars, brokerVars, procVars
<1>17. ASSUME NEW v \in Views, CancelPoll(v) PROVE TypeInv'
  BY <1>17, ConstantsAssumption
  DEF CancelPoll, UpdateStatus, OrderStatuses, BlockingStatuses,
      LocalOpenStatuses, storeVars, brokerVars, procVars
<1>18. CASE CancelAccepted
  BY <1>18, ConstantsAssumption
  DEF CancelAccepted, BrokerStates, storeVars, brokerVars, procVars
<1>19. CASE CancelFails
  BY <1>19, ConstantsAssumption
  DEF CancelFails, storeVars, brokerVars, procVars
<1>20. CASE CancelReplyLost
  BY <1>20, ConstantsAssumption
  DEF CancelReplyLost, BrokerStates, storeVars, brokerVars, procVars
<1>21. CASE SaveCancelOutcome
  BY <1>21, ConstantsAssumption
  DEF SaveCancelOutcome, UpdateStatus, OrderStatuses, BlockingStatuses,
      LocalOpenStatuses, storeVars, brokerVars, procVars
<1>22. CASE AfterCancelLoop
  BY <1>22, ConstantsAssumption
  DEF AfterCancelLoop, RunResults, storeVars, brokerVars, procVars
<1>23. CASE HandleException
  BY <1>23, ConstantsAssumption
  DEF HandleException, UpdateStatus, OrderStatuses, BlockingStatuses,
      LocalOpenStatuses, RunResults, storeVars, brokerVars, procVars
<1>24. CASE FinishRun
  BY <1>24, ConstantsAssumption
  DEF FinishRun, Forget, RunResults, storeVars, brokerVars, procVars
<1>25. CASE CallRaises
  BY <1>25, ConstantsAssumption
  DEF CallRaises, storeVars, brokerVars, procVars
<1>26. CASE Crash
  BY <1>26, ConstantsAssumption
  DEF Crash, Forget, RunResults, storeVars, brokerVars, procVars
<1>27. ASSUME NEW o \in OrderIds, NEW q \in 1 .. Qty, BrokerFills(o, q) PROVE TypeInv'
  BY <1>27, ConstantsAssumption
  DEF BrokerFills, BrokerStates, storeVars, brokerVars, procVars
<1>28. ASSUME NEW o \in OrderIds, NEW final \in {"CANCELLED", "REJECTED", "FAILED"},
              BrokerCloses(o, final)
       PROVE  TypeInv'
  BY <1>28, ConstantsAssumption
  DEF BrokerCloses, BrokerStates, storeVars, brokerVars, procVars
<1>29. CASE NewDay
  BY <1>29, ConstantsAssumption
  DEF NewDay, BrokerStates, storeVars, brokerVars, procVars
<1>30. CASE UNCHANGED vars
  BY <1>30 DEF vars
<1> HIDE DEF TypeInv
<1>31. QED
  BY <1>1, <1>2, <1>3, <1>4, <1>5, <1>6, <1>7, <1>8, <1>9, <1>10, <1>11, <1>12, <1>13, <1>14, <1>15,
     <1>16, <1>17, <1>18, <1>19, <1>20, <1>21, <1>22, <1>23, <1>24, <1>25, <1>26, <1>27, <1>28, <1>29, <1>30
  DEF Next, Program, Submission, Booking, CancelLoop, Closing, Broker

\* What may go wrong in a behaviour is settled at its start.
LEMMA FaultsFixed == [Next]_vars => UNCHANGED faults
<1>1. ASSUME Submission PROVE UNCHANGED faults
  BY <1>1 DEF Submission, StartRun, CheckReconciliation, CheckIntent, SubmitOrder, SubmitReplyLost,
    SubmitRefused, RecordOrder
<1>2. ASSUME Booking PROVE UNCHANGED faults
  BY <1>2 DEF Booking, Poll, RecordFilled, CorrectFills, UpdatePosition, RecordPositionEvent, Settle, Announce
<1>3. ASSUME CancelLoop PROVE UNCHANGED faults
  BY <1>3 DEF CancelLoop, RequestCancelLocally, CancelGivesUp, CancelPoll, CancelAccepted, CancelFails,
    CancelReplyLost, SaveCancelOutcome, AfterCancelLoop
<1>4. ASSUME Closing \/ CallRaises \/ Crash PROVE UNCHANGED faults
  BY <1>4 DEF Closing, HandleException, FinishRun, CallRaises, Crash
<1>5. ASSUME Broker PROVE UNCHANGED faults
  BY <1>5 DEF Broker, BrokerFills, BrokerCloses, NewDay
<1>6. QED
  BY <1>1, <1>2, <1>3, <1>4, <1>5 DEF Next, Program, vars

\* Every variable of the runner, the store and the broker keeps its type, whatever
\* faults the environment commits.
THEOREM TypeCorrect == Spec => []TypeOK
<1>1. Init => TypeInv
  BY ConstantsAssumption
  DEF Init, TypeInv, TypeOK, RunMemory, OrderPoints, Points, TryPoints, RunResults, Callers,
      Terminal, OrderStatuses, BrokerStates, ConstantsAssumption
<1>2. TypeInv /\ [Next]_vars => TypeInv'
  BY TypeStep, ConstantsAssumption
<1>3. TypeInv => TypeOK
  BY DEF TypeInv
<1>4. QED
  BY <1>1, <1>2, <1>3, PTL DEF Spec

\* A correction books nothing, or some of what the broker executed of the order
\* and the store has not booked.
LEMMA CorrectionBounds ==
  ASSUME TypeInv, NoOverBooking, NEW v \in Views, CorrectFills(v)
  PROVE  /\ cur \in OrderIds
         /\ UNCHANGED brokerVars
         /\ \/ UNCHANGED booked
            \/ \E q \in 1 .. Qty : /\ booked[cur] + q <= bfilled[cur]
                                   /\ booked' = [booked EXCEPT ![cur] = @ + q]
<1> DEFINE total == Snapshot(cur, v).filled
           missing == MissingFill(cur, total)
<1>1. cur \in OrderIds /\ total <= bfilled[cur] /\ total \in 0 .. Qty
  BY SnapshotBounds, ConstantsAssumption
  DEF TypeInv, RunMemory, OrderPoints, CorrectFills
<1>2. booked[cur] + missing = total /\ missing \in Int /\ (missing > 0 => missing \in 1 .. Qty)
  BY <1>1, ConstantsAssumption DEF TypeInv, TypeOK, MissingFill, ConstantsAssumption
<1> HIDE DEF total, missing
<1>3. UNCHANGED brokerVars
  BY DEF CorrectFills
<1>4. UNCHANGED booked \/ (missing > 0 /\ booked' = [booked EXCEPT ![cur] = @ + missing])
  BY DEF CorrectFills, total, missing
<1>5. CASE missing > 0 /\ booked' = [booked EXCEPT ![cur] = @ + missing]
  <2>1. missing \in 1 .. Qty /\ booked[cur] + missing <= bfilled[cur]
    BY <1>1, <1>2, <1>5
  <2>2. QED
    BY <1>1, <1>3, <1>5, <2>1
<1>6. QED
  BY <1>1, <1>3, <1>4, <1>5

\* The fill rows of an order never add up to more than the broker executed
\* (_apply_broker_fill_correction), under every fault.
THEOREM NoOverBookingCorrect == Spec => []NoOverBooking
<1> DEFINE Inv == TypeInv /\ NoOverBooking
<1>1. Init => Inv
  BY ConstantsAssumption
  DEF Init, TypeInv, TypeOK, RunMemory, OrderPoints, Points, TryPoints, RunResults, Callers,
      Terminal, OrderStatuses, BrokerStates, ConstantsAssumption, NoOverBooking
<1>2. Inv /\ [Next]_vars => Inv'
  <2> SUFFICES ASSUME TypeInv, NoOverBooking, [Next]_vars PROVE NoOverBooking'
    BY TypeStep, ConstantsAssumption
  <2> USE DEF NoOverBooking
  <2>1. ASSUME NEW i \in Intents, StartRun(i) PROVE NoOverBooking'
    BY <2>1
    DEF StartRun, storeVars, brokerVars, procVars
  <2>2. ASSUME NEW v \in Views, CheckReconciliation(v) PROVE NoOverBooking'
    BY <2>2
    DEF CheckReconciliation, storeVars, brokerVars, procVars
  <2>3. CASE CheckIntent
    BY <2>3
    DEF CheckIntent, storeVars, brokerVars, procVars
  <2>4. ASSUME NEW o \in OrderIds, SubmitOrder(o) PROVE NoOverBooking'
    BY <2>4
    DEF SubmitOrder, BrokerTakes, storeVars, brokerVars, procVars
  <2>5. ASSUME NEW o \in OrderIds, SubmitReplyLost(o) PROVE NoOverBooking'
    BY <2>5
    DEF SubmitReplyLost, BrokerTakes, storeVars, brokerVars, procVars
  <2>6. CASE SubmitRefused
    BY <2>6
    DEF SubmitRefused, storeVars, brokerVars, procVars
  <2>7. CASE RecordOrder
    BY <2>7
    DEF RecordOrder, storeVars, brokerVars, procVars
  <2>8. ASSUME NEW v \in Views, Poll(v) PROVE NoOverBooking'
    BY <2>8
    DEF Poll, UpdateStatus, storeVars, brokerVars, procVars
  <2>9. CASE RecordFilled
    BY <2>9
    DEF RecordFilled, UpdateStatus, storeVars, brokerVars, procVars
  <2>10. ASSUME NEW v \in Views, CorrectFills(v) PROVE NoOverBooking'
    <3>1. cur \in OrderIds /\ UNCHANGED bfilled
      BY <2>10, CorrectionBounds DEF brokerVars
    <3>2. CASE UNCHANGED booked
      BY <3>1, <3>2
    <3>3. ASSUME NEW q \in 1 .. Qty, booked[cur] + q <= bfilled[cur],
                 booked' = [booked EXCEPT ![cur] = @ + q]
          PROVE  NoOverBooking'
      BY <3>1, <3>3 DEF TypeInv, TypeOK
    <3>4. QED
      BY <2>10, <3>2, <3>3, CorrectionBounds
  <2>11. CASE UpdatePosition
    BY <2>11
    DEF UpdatePosition, storeVars, brokerVars, procVars
  <2>12. CASE RecordPositionEvent
    BY <2>12
    DEF RecordPositionEvent, storeVars, brokerVars, procVars
  <2>13. CASE Settle
    BY <2>13
    DEF Settle, storeVars, brokerVars, procVars
  <2>14. CASE Announce
    BY <2>14
    DEF Announce, storeVars, brokerVars, procVars
  <2>15. CASE RequestCancelLocally
    BY <2>15
    DEF RequestCancelLocally, UpdateStatus, storeVars, brokerVars, procVars
  <2>16. CASE CancelGivesUp
    BY <2>16
    DEF CancelGivesUp, storeVars, brokerVars, procVars
  <2>17. ASSUME NEW v \in Views, CancelPoll(v) PROVE NoOverBooking'
    BY <2>17
    DEF CancelPoll, UpdateStatus, storeVars, brokerVars, procVars
  <2>18. CASE CancelAccepted
    BY <2>18
    DEF CancelAccepted, storeVars, brokerVars, procVars
  <2>19. CASE CancelFails
    BY <2>19
    DEF CancelFails, storeVars, brokerVars, procVars
  <2>20. CASE CancelReplyLost
    BY <2>20
    DEF CancelReplyLost, storeVars, brokerVars, procVars
  <2>21. CASE SaveCancelOutcome
    BY <2>21
    DEF SaveCancelOutcome, UpdateStatus, storeVars, brokerVars, procVars
  <2>22. CASE AfterCancelLoop
    BY <2>22
    DEF AfterCancelLoop, storeVars, brokerVars, procVars
  <2>23. CASE HandleException
    BY <2>23
    DEF HandleException, UpdateStatus, storeVars, brokerVars, procVars
  <2>24. CASE FinishRun
    BY <2>24
    DEF FinishRun, Forget, storeVars, brokerVars, procVars
  <2>25. CASE CallRaises
    BY <2>25
    DEF CallRaises, storeVars, brokerVars, procVars
  <2>26. CASE Crash
    BY <2>26
    DEF Crash, Forget, storeVars, brokerVars, procVars
  <2>27. ASSUME NEW o \in OrderIds, NEW q \in 1 .. Qty, BrokerFills(o, q) PROVE NoOverBooking'
    BY <2>27, ConstantsAssumption DEF BrokerFills, storeVars, procVars, TypeInv, TypeOK, ConstantsAssumption
  <2>28. ASSUME NEW o \in OrderIds, NEW final \in {"CANCELLED", "REJECTED", "FAILED"},
                BrokerCloses(o, final)
         PROVE  NoOverBooking'
    BY <2>28
    DEF BrokerCloses, storeVars, brokerVars, procVars
  <2>29. CASE NewDay
    BY <2>29
    DEF NewDay, storeVars, brokerVars, procVars
  <2>30. CASE UNCHANGED vars
    BY <2>30
    DEF vars
  <2>31. QED
    BY <2>1, <2>2, <2>3, <2>4, <2>5, <2>6, <2>7, <2>8, <2>9, <2>10, <2>11, <2>12, <2>13, <2>14, <2>15,
       <2>16, <2>17, <2>18, <2>19, <2>20, <2>21, <2>22, <2>23, <2>24, <2>25, <2>26, <2>27, <2>28, <2>29, <2>30
    DEF Next, Program, Submission, Booking, CancelLoop, Closing, Broker
<1>3. QED
  BY <1>1, <1>2, PTL DEF Spec

\* Only an order the broker took is executed.
ExecutedPlaced == \A o \in OrderIds : bfilled[o] # 0 => bstate[o] # "NONE"

\* Every step is one of the abstract ledger, or changes nothing there.
LEMMA LedgerStep ==
  TypeInv /\ NoOverBooking /\ ExecutedPlaced /\ [Next]_vars =>
    ExecutedPlaced' /\ [Ledger!LedgerNext]_(Ledger!ledgerVars)
<1> DEFINE placed == { o \in OrderIds : bstate[o] # "NONE" }
           Goal == ExecutedPlaced' /\ [Ledger!LedgerNext]_(Ledger!ledgerVars)
<1> SUFFICES ASSUME TypeInv, NoOverBooking, ExecutedPlaced, [Next]_vars PROVE Goal
  OBVIOUS
<1>1. ASSUME UNCHANGED <<bstate, bfilled, booked>> PROVE Goal
  BY <1>1 DEF ExecutedPlaced, Ledger!ledgerVars
<1>2. ASSUME placed' = placed, UNCHANGED <<bfilled, booked>> PROVE Goal
  BY <1>2 DEF ExecutedPlaced, Ledger!ledgerVars
<1>3. ASSUME NEW o \in OrderIds, BrokerTakes(o), UNCHANGED <<bfilled, booked>> PROVE Goal
  <2>1. o \notin placed /\ placed' = placed \cup {o} /\ ExecutedPlaced'
    BY <1>3 DEF BrokerTakes, ExecutedPlaced, TypeInv, TypeOK
  <2>2. Ledger!Place(o)
    BY <1>3, <2>1 DEF Ledger!Place
  <2>3. QED
    BY <2>1, <2>2 DEF Ledger!LedgerNext
<1>4. ASSUME NEW v \in Views, CorrectFills(v) PROVE Goal
  <2>1. CASE UNCHANGED booked
    BY <1>1, <1>4, <2>1, CorrectionBounds DEF brokerVars
  <2>2. ASSUME NEW q \in 1 .. Qty, booked[cur] + q <= bfilled[cur],
               booked' = [booked EXCEPT ![cur] = @ + q]
        PROVE  Goal
    <3>1. cur \in OrderIds /\ UNCHANGED <<bstate, bfilled>>
      BY <1>4, CorrectionBounds DEF brokerVars
    <3>2. bfilled[cur] # 0
      BY <2>2, <3>1 DEF TypeInv, TypeOK
    <3>3. cur \in placed /\ ExecutedPlaced'
      BY <3>1, <3>2 DEF ExecutedPlaced
    <3>4. Ledger!Book(cur, q)
      BY <2>2, <3>1, <3>3 DEF Ledger!Book
    <3>5. QED
      BY <3>1, <3>3, <3>4 DEF Ledger!LedgerNext
  <2>3. QED
    BY <1>4, <2>1, <2>2, CorrectionBounds
<1>5. ASSUME NEW o \in OrderIds, NEW q \in 1 .. Qty, BrokerFills(o, q) PROVE Goal
  <2>1. bstate[o] # "NONE" /\ bstate' \in [OrderIds -> BrokerStates]
    BY <1>5, TypeStep, ConstantsAssumption DEF BrokerFills, TypeInv, TypeOK
  <2>2. placed' = placed /\ o \in placed
    BY <1>5, <2>1 DEF BrokerFills, TypeInv, TypeOK
  <2>3. ExecutedPlaced'
    BY <1>5, <2>1 DEF BrokerFills, ExecutedPlaced, TypeInv, TypeOK
  <2>4. Ledger!Execute(o, q)
    BY <1>5, <2>2 DEF BrokerFills, storeVars, Ledger!Execute
  <2>5. QED
    BY <2>3, <2>4 DEF Ledger!LedgerNext
<1>6. ASSUME NEW o \in OrderIds, NEW final \in {"CANCELLED", "REJECTED", "FAILED"},
             BrokerCloses(o, final)
      PROVE  Goal
  BY <1>2, <1>6 DEF BrokerCloses, storeVars, TypeInv, TypeOK
<1>7. CASE NewDay
  BY <1>2, <1>7 DEF NewDay, storeVars, TypeInv, TypeOK
<1>8. CASE Submission
  <2>1. ASSUME NEW o \in OrderIds, SubmitOrder(o) \/ SubmitReplyLost(o) PROVE Goal
    BY <1>3, <2>1 DEF SubmitOrder, SubmitReplyLost
  <2>2. CASE \/ \E i \in Intents : StartRun(i)
             \/ \E v \in Views : CheckReconciliation(v)
             \/ CheckIntent \/ SubmitRefused \/ RecordOrder
    BY <1>1, <2>2 DEF StartRun, CheckReconciliation, CheckIntent, SubmitRefused, RecordOrder,
      storeVars, brokerVars
  <2>3. QED
    BY <1>8, <2>1, <2>2 DEF Submission
<1>9. CASE Booking
  <2>1. CASE \/ \E v \in Views : Poll(v)
             \/ RecordFilled \/ UpdatePosition \/ RecordPositionEvent \/ Settle \/ Announce
    BY <1>1, <2>1 DEF Poll, RecordFilled, UpdatePosition, RecordPositionEvent, Settle, Announce,
      storeVars, brokerVars
  <2>2. QED
    BY <1>4, <1>9, <2>1 DEF Booking
<1>10. CASE CancelLoop
  <2>1. CASE CancelAccepted \/ CancelReplyLost
    <3>1. UNCHANGED <<bfilled, booked>> /\ bstate[cur] = "OPEN"
      BY <2>1 DEF CancelAccepted, CancelReplyLost, storeVars
    <3>2. bstate' = [bstate EXCEPT ![cur] = "CANCELLED"] \/ UNCHANGED bstate
      BY <2>1 DEF CancelAccepted, CancelReplyLost
    <3>3. QED
      BY <1>2, <3>1, <3>2 DEF TypeInv, TypeOK
  <2>2. CASE \/ RequestCancelLocally \/ CancelGivesUp \/ CancelFails
             \/ SaveCancelOutcome \/ AfterCancelLoop
             \/ \E v \in Views : CancelPoll(v)
    BY <1>1, <2>2 DEF RequestCancelLocally, CancelGivesUp, CancelPoll, CancelFails,
      SaveCancelOutcome, AfterCancelLoop, storeVars, brokerVars
  <2>3. QED
    BY <1>10, <2>1, <2>2 DEF CancelLoop
<1>11. CASE Closing \/ CallRaises \/ Crash \/ UNCHANGED vars
  BY <1>1, <1>11 DEF Closing, HandleException, FinishRun, CallRaises, Crash, storeVars,
    brokerVars, vars
<1>12. QED
  BY <1>5, <1>6, <1>7, <1>8, <1>9, <1>10, <1>11 DEF Next, Program, Broker

\* The runner and the market together keep to the abstract ledger: executions
\* are booked only if they happened, once, and never back.
THEOREM BooksExecutionsCorrect == Spec => BooksExecutions
<1> DEFINE Inv == TypeInv /\ NoOverBooking /\ ExecutedPlaced
<1>1. Init => TypeInv /\ ExecutedPlaced /\ Ledger!LedgerInit
  BY ConstantsAssumption
  DEF Init, TypeInv, TypeOK, RunMemory, OrderPoints, Points, TryPoints, RunResults, Callers,
      Terminal, OrderStatuses, BrokerStates, ConstantsAssumption, ExecutedPlaced, Ledger!LedgerInit
<1>2. TypeInv /\ [Next]_vars => TypeInv'
  BY TypeStep, ConstantsAssumption
<1>3. TypeInv /\ NoOverBooking /\ ExecutedPlaced /\ [Next]_vars =>
        ExecutedPlaced' /\ [Ledger!LedgerNext]_(Ledger!ledgerVars)
  BY LedgerStep
<1>4. QED
  BY <1>1, <1>2, <1>3, NoOverBookingCorrect, PTL DEF Spec, BooksExecutions, Ledger!LedgerSpec

\* From its check of the UNKNOWN orders to its submission, a run changes no status.
LEMMA HaltStep == HaltInv /\ [Next]_vars => HaltInv'
<1> SUFFICES ASSUME HaltInv, [Next]_vars PROVE HaltInv'
  OBVIOUS
<1> USE DEF HaltInv
<1>1. ASSUME NEW i \in Intents, StartRun(i) PROVE HaltInv'
  BY <1>1
  DEF StartRun, HasUnknown, storeVars, brokerVars, procVars
<1>2. ASSUME NEW v \in Views, CheckReconciliation(v) PROVE HaltInv'
  BY <1>2
  DEF CheckReconciliation, storeVars, brokerVars, procVars
<1>3. CASE CheckIntent
  BY <1>3
  DEF CheckIntent, storeVars, brokerVars, procVars
<1>4. ASSUME NEW o \in OrderIds, SubmitOrder(o) PROVE HaltInv'
  BY <1>4
  DEF SubmitOrder, BrokerTakes, storeVars, brokerVars, procVars
<1>5. ASSUME NEW o \in OrderIds, SubmitReplyLost(o) PROVE HaltInv'
  BY <1>5
  DEF SubmitReplyLost, BrokerTakes, storeVars, brokerVars, procVars
<1>6. CASE SubmitRefused
  BY <1>6
  DEF SubmitRefused, storeVars, brokerVars, procVars
<1>7. CASE RecordOrder
  BY <1>7
  DEF RecordOrder, storeVars, brokerVars, procVars
<1>8. ASSUME NEW v \in Views, Poll(v) PROVE HaltInv'
  BY <1>8
  DEF Poll, UpdateStatus, storeVars, brokerVars, procVars
<1>9. CASE RecordFilled
  BY <1>9
  DEF RecordFilled, UpdateStatus, storeVars, brokerVars, procVars
<1>10. ASSUME NEW v \in Views, CorrectFills(v) PROVE HaltInv'
  BY <1>10
  DEF CorrectFills, storeVars, brokerVars, procVars
<1>11. CASE UpdatePosition
  BY <1>11
  DEF UpdatePosition, storeVars, brokerVars, procVars
<1>12. CASE RecordPositionEvent
  BY <1>12
  DEF RecordPositionEvent, storeVars, brokerVars, procVars
<1>13. CASE Settle
  BY <1>13
  DEF Settle, storeVars, brokerVars, procVars
<1>14. CASE Announce
  BY <1>14
  DEF Announce, storeVars, brokerVars, procVars
<1>15. CASE RequestCancelLocally
  BY <1>15
  DEF RequestCancelLocally, UpdateStatus, storeVars, brokerVars, procVars
<1>16. CASE CancelGivesUp
  BY <1>16
  DEF CancelGivesUp, storeVars, brokerVars, procVars
<1>17. ASSUME NEW v \in Views, CancelPoll(v) PROVE HaltInv'
  BY <1>17
  DEF CancelPoll, UpdateStatus, storeVars, brokerVars, procVars
<1>18. CASE CancelAccepted
  BY <1>18
  DEF CancelAccepted, storeVars, brokerVars, procVars
<1>19. CASE CancelFails
  BY <1>19
  DEF CancelFails, storeVars, brokerVars, procVars
<1>20. CASE CancelReplyLost
  BY <1>20
  DEF CancelReplyLost, storeVars, brokerVars, procVars
<1>21. CASE SaveCancelOutcome
  BY <1>21
  DEF SaveCancelOutcome, UpdateStatus, storeVars, brokerVars, procVars
<1>22. CASE AfterCancelLoop
  BY <1>22
  DEF AfterCancelLoop, storeVars, brokerVars, procVars
<1>23. CASE HandleException
  BY <1>23
  DEF HandleException, UpdateStatus, storeVars, brokerVars, procVars
<1>24. CASE FinishRun
  BY <1>24
  DEF FinishRun, Forget, storeVars, brokerVars, procVars
<1>25. CASE CallRaises
  BY <1>25
  DEF CallRaises, storeVars, brokerVars, procVars
<1>26. CASE Crash
  BY <1>26
  DEF Crash, Forget, storeVars, brokerVars, procVars
<1>27. ASSUME NEW o \in OrderIds, NEW q \in 1 .. Qty, BrokerFills(o, q) PROVE HaltInv'
  BY <1>27
  DEF BrokerFills, storeVars, brokerVars, procVars
<1>28. ASSUME NEW o \in OrderIds, NEW final \in {"CANCELLED", "REJECTED", "FAILED"},
              BrokerCloses(o, final)
       PROVE  HaltInv'
  BY <1>28
  DEF BrokerCloses, storeVars, brokerVars, procVars
<1>29. CASE NewDay
  BY <1>29
  DEF NewDay, storeVars, brokerVars, procVars
<1>30. CASE UNCHANGED vars
  BY <1>30
  DEF vars
<1>31. QED
  BY <1>1, <1>2, <1>3, <1>4, <1>5, <1>6, <1>7, <1>8, <1>9, <1>10, <1>11, <1>12, <1>13, <1>14, <1>15,
     <1>16, <1>17, <1>18, <1>19, <1>20, <1>21, <1>22, <1>23, <1>24, <1>25, <1>26, <1>27, <1>28, <1>29, <1>30
  DEF Next, Program, Submission, Booking, CancelLoop, Closing, Broker

\* No order is submitted while one is UNKNOWN (_assert_trading_allowed), although
\* the check lies several calls before the submission; under every fault.
THEOREM HaltedOnUnknownCorrect == Spec => HaltedOnUnknown
<1> DEFINE Halts == (\E o \in OrderIds : Submits(o)) =>
                      \A p \in OrderIds : status[p] # "UNKNOWN"
<1>1. Init => HaltInv
  BY DEF Init, HaltInv
<1>2. TypeOK /\ HaltInv /\ [Next]_vars => [Halts]_vars
  <2> SUFFICES ASSUME TypeOK, HaltInv, [Next]_vars PROVE Halts
    OBVIOUS
  <2> USE DEF Submits
  <2>1. ASSUME NEW i \in Intents, StartRun(i) PROVE Halts
    BY <2>1
    DEF StartRun, storeVars, brokerVars, procVars
  <2>2. ASSUME NEW v \in Views, CheckReconciliation(v) PROVE Halts
    BY <2>2
    DEF CheckReconciliation, storeVars, brokerVars, procVars
  <2>3. CASE CheckIntent
    BY <2>3
    DEF CheckIntent, storeVars, brokerVars, procVars
  <2>4. ASSUME NEW o \in OrderIds, SubmitOrder(o) PROVE Halts
    BY <2>4 DEF SubmitOrder, HaltInv
  <2>5. ASSUME NEW o \in OrderIds, SubmitReplyLost(o) PROVE Halts
    BY <2>5 DEF SubmitReplyLost, HaltInv
  <2>6. CASE SubmitRefused
    BY <2>6
    DEF SubmitRefused, storeVars, brokerVars, procVars
  <2>7. CASE RecordOrder
    BY <2>7
    DEF RecordOrder, storeVars, brokerVars, procVars
  <2>8. ASSUME NEW v \in Views, Poll(v) PROVE Halts
    BY <2>8
    DEF Poll, UpdateStatus, storeVars, brokerVars, procVars
  <2>9. CASE RecordFilled
    BY <2>9
    DEF RecordFilled, UpdateStatus, storeVars, brokerVars, procVars
  <2>10. ASSUME NEW v \in Views, CorrectFills(v) PROVE Halts
    BY <2>10
    DEF CorrectFills, storeVars, brokerVars, procVars
  <2>11. CASE UpdatePosition
    BY <2>11
    DEF UpdatePosition, storeVars, brokerVars, procVars
  <2>12. CASE RecordPositionEvent
    BY <2>12
    DEF RecordPositionEvent, storeVars, brokerVars, procVars
  <2>13. CASE Settle
    BY <2>13
    DEF Settle, storeVars, brokerVars, procVars
  <2>14. CASE Announce
    BY <2>14
    DEF Announce, storeVars, brokerVars, procVars
  <2>15. CASE RequestCancelLocally
    BY <2>15
    DEF RequestCancelLocally, UpdateStatus, storeVars, brokerVars, procVars
  <2>16. CASE CancelGivesUp
    BY <2>16
    DEF CancelGivesUp, storeVars, brokerVars, procVars
  <2>17. ASSUME NEW v \in Views, CancelPoll(v) PROVE Halts
    BY <2>17
    DEF CancelPoll, UpdateStatus, storeVars, brokerVars, procVars
  <2>18. CASE CancelAccepted
    BY <2>18 DEF CancelAccepted, TypeOK
  <2>19. CASE CancelFails
    BY <2>19
    DEF CancelFails, storeVars, brokerVars, procVars
  <2>20. CASE CancelReplyLost
    BY <2>20
    DEF CancelReplyLost, storeVars, brokerVars, procVars
  <2>21. CASE SaveCancelOutcome
    BY <2>21
    DEF SaveCancelOutcome, UpdateStatus, storeVars, brokerVars, procVars
  <2>22. CASE AfterCancelLoop
    BY <2>22
    DEF AfterCancelLoop, storeVars, brokerVars, procVars
  <2>23. CASE HandleException
    BY <2>23
    DEF HandleException, UpdateStatus, storeVars, brokerVars, procVars
  <2>24. CASE FinishRun
    BY <2>24
    DEF FinishRun, Forget, storeVars, brokerVars, procVars
  <2>25. CASE CallRaises
    BY <2>25
    DEF CallRaises, storeVars, brokerVars, procVars
  <2>26. CASE Crash
    BY <2>26
    DEF Crash, Forget, storeVars, brokerVars, procVars
  <2>27. ASSUME NEW o \in OrderIds, NEW q \in 1 .. Qty, BrokerFills(o, q) PROVE Halts
    BY <2>27
    DEF BrokerFills, storeVars, brokerVars, procVars
  <2>28. ASSUME NEW o \in OrderIds, NEW final \in {"CANCELLED", "REJECTED", "FAILED"},
                BrokerCloses(o, final)
         PROVE  Halts
    BY <2>28
    DEF BrokerCloses, storeVars, brokerVars, procVars
  <2>29. CASE NewDay
    BY <2>29
    DEF NewDay, storeVars, brokerVars, procVars
  <2>30. CASE UNCHANGED vars
    BY <2>30
    DEF vars
  <2>31. QED
    BY <2>1, <2>2, <2>3, <2>4, <2>5, <2>6, <2>7, <2>8, <2>9, <2>10, <2>11, <2>12, <2>13, <2>14, <2>15,
       <2>16, <2>17, <2>18, <2>19, <2>20, <2>21, <2>22, <2>23, <2>24, <2>25, <2>26, <2>27, <2>28, <2>29, <2>30
    DEF Next, Program, Submission, Booking, CancelLoop, Closing, Broker
<1>3. QED
  BY <1>1, <1>2, HaltStep, TypeCorrect, PTL DEF Spec, HaltedOnUnknown

\* A verdict that does not block has found every live broker order of the symbol
\* among the local open orders (reconcile_local_and_broker, MISSING_LOCAL).
LEMMA ReconciliationSeesLiveOrders ==
  ASSUME CompleteViews, TypeInv, LiveOrderVisible, pc # "idle",
         NEW v \in Views, ~Verdict(want.symbol, v).block_new_orders,
         NEW o \in OrderIds, bstate[o] = "OPEN", intent[o].symbol = want.symbol
  PROVE  status[o] \in LocalOpenStatuses
<1> DEFINE local == LocalOpen(want.symbol)
           rows  == RowsById(want.symbol, v)
           evs   == ReconcileEvents(local, BookedIds(want.symbol), rows)
<1>1. v.unfilled /\ v.history /\ v.unmapped = {}
  BY DEF Views, CompleteViews
<1>2. o \in InUnfilled(v) /\ o \in InHistory(v)
  BY <1>1 DEF InUnfilled, InHistory, LiveOrderVisible
<1>3. o \in DOMAIN rows /\ rows[o] = HistoryRow(o, v)
  BY <1>2 DEF RowsById
<1>4. o \in BrokerOpen(rows)
  BY <1>1, <1>3 DEF BrokerOpen, HistoryRow
<1>5. ~\E e \in evs : e.severity = "CRITICAL"
  BY DEF Verdict, Reconcile
<1>6. o \in DOMAIN local
  <2> DEFINE e == [type |-> "MISSING_LOCAL", severity |-> "CRITICAL", order |-> o]
  <2>1. SUFFICES ASSUME o \notin DOMAIN local PROVE FALSE
    OBVIOUS
  <2>2. e \in Event("MISSING_LOCAL", "CRITICAL", MissingLocal(local, rows))
    BY <1>4, <2>1 DEF Event, MissingLocal
  <2>3. e \in evs
    BY <2>2 DEF ReconcileEvents
  <2>4. QED
    BY <2>3, <1>5
<1>7. QED
  BY <1>6 DEF LocalOpen

\* The gate invariant is inductive.
LEMMA GateStep ==
  CompleteViews /\ TypeInv /\ GateInv /\ [Next]_vars => GateInv'
<1> SUFFICES ASSUME CompleteViews, TypeInv, GateInv, [Next]_vars PROVE GateInv'
  OBVIOUS
<1> USE DEF GateInv, LiveOrderVisible, GatePassed, MarketIntentUnique, HasBlockingIntent
<1>1. ASSUME NEW i \in Intents, StartRun(i) PROVE GateInv'
  BY <1>1
  DEF StartRun, storeVars, brokerVars, procVars
<1>2. ASSUME NEW v \in Views, CheckReconciliation(v) PROVE GateInv'
  <2>1. CASE pc' = "finish"
    BY <1>2, <2>1 DEF CheckReconciliation, storeVars, brokerVars
  <2>2. CASE pc' # "finish"
    <3>1. /\ pc = "recon" /\ pc' = "price" /\ UNCHANGED <<want, storeVars, brokerVars>>
          /\ ~Verdict(want.symbol, v).block_new_orders
      BY <1>2, <2>2 DEF CheckReconciliation
    <3>2. \A o \in OrderIds : (bstate[o] = "OPEN" /\ intent[o].symbol = want.symbol)
                               => status[o] \in LocalOpenStatuses
      BY <3>1, ReconciliationSeesLiveOrders
    <3>3. QED
      BY <3>1, <3>2 DEF storeVars, brokerVars
  <2>3. QED
    BY <2>1, <2>2
<1>3. CASE CheckIntent
  BY <1>3
  DEF CheckIntent, storeVars, brokerVars, procVars
<1>4. ASSUME NEW o \in OrderIds, SubmitOrder(o) PROVE GateInv'
  <2>1. want \in Intents
    BY <1>4 DEF SubmitOrder, TypeInv, RunMemory
  <2>2. \A p \in OrderIds : bstate[p] = "OPEN" => intent[p] # want
    BY <1>4 DEF SubmitOrder, BlockingStatuses
  <2>3. \A p \in OrderIds : p # o =>
          bstate'[p] = bstate[p] /\ intent'[p] = intent[p] /\ btoday'[p] = btoday[p]
    BY <1>4 DEF SubmitOrder, BrokerTakes, TypeInv, TypeOK
  <2>4. intent'[o] = want /\ btoday'[o]
    BY <1>4 DEF SubmitOrder, BrokerTakes, TypeInv, TypeOK
  <2>5. pc' \notin {"price", "submit"}
    BY <1>4 DEF SubmitOrder
  <2>6. QED
    BY <2>1, <2>2, <2>3, <2>4, <2>5
<1>5. ASSUME NEW o \in OrderIds, SubmitReplyLost(o) PROVE GateInv'
  <2>1. want \in Intents
    BY <1>5 DEF SubmitReplyLost, TypeInv, RunMemory
  <2>2. \A p \in OrderIds : bstate[p] = "OPEN" => intent[p] # want
    BY <1>5 DEF SubmitReplyLost, BlockingStatuses
  <2>3. \A p \in OrderIds : p # o =>
          bstate'[p] = bstate[p] /\ intent'[p] = intent[p] /\ btoday'[p] = btoday[p]
    BY <1>5 DEF SubmitReplyLost, BrokerTakes, TypeInv, TypeOK
  <2>4. intent'[o] = want /\ btoday'[o]
    BY <1>5 DEF SubmitReplyLost, BrokerTakes, TypeInv, TypeOK
  <2>5. pc' \notin {"price", "submit"}
    BY <1>5 DEF SubmitReplyLost
  <2>6. QED
    BY <2>1, <2>2, <2>3, <2>4, <2>5
<1>6. CASE SubmitRefused
  BY <1>6
  DEF SubmitRefused, storeVars, brokerVars, procVars
<1>7. CASE RecordOrder
  BY <1>7
  DEF RecordOrder, storeVars, brokerVars, procVars
<1>8. ASSUME NEW v \in Views, Poll(v) PROVE GateInv'
  BY <1>8
  DEF Poll, UpdateStatus, storeVars, brokerVars, procVars
<1>9. CASE RecordFilled
  BY <1>9
  DEF RecordFilled, UpdateStatus, storeVars, brokerVars, procVars
<1>10. ASSUME NEW v \in Views, CorrectFills(v) PROVE GateInv'
  BY <1>10
  DEF CorrectFills, storeVars, brokerVars, procVars
<1>11. CASE UpdatePosition
  BY <1>11
  DEF UpdatePosition, storeVars, brokerVars, procVars
<1>12. CASE RecordPositionEvent
  BY <1>12
  DEF RecordPositionEvent, storeVars, brokerVars, procVars
<1>13. CASE Settle
  BY <1>13
  DEF Settle, storeVars, brokerVars, procVars
<1>14. CASE Announce
  BY <1>14
  DEF Announce, storeVars, brokerVars, procVars
<1>15. CASE RequestCancelLocally
  BY <1>15
  DEF RequestCancelLocally, UpdateStatus, storeVars, brokerVars, procVars
<1>16. CASE CancelGivesUp
  BY <1>16
  DEF CancelGivesUp, storeVars, brokerVars, procVars
<1>17. ASSUME NEW v \in Views, CancelPoll(v) PROVE GateInv'
  BY <1>17
  DEF CancelPoll, UpdateStatus, storeVars, brokerVars, procVars
<1>18. CASE CancelAccepted
  BY <1>18
  DEF CancelAccepted, TypeInv, TypeOK, storeVars, brokerVars, procVars
<1>19. CASE CancelFails
  BY <1>19
  DEF CancelFails, storeVars, brokerVars, procVars
<1>20. CASE CancelReplyLost
  BY <1>20
  DEF CancelReplyLost, TypeInv, TypeOK, storeVars, brokerVars, procVars
<1>21. CASE SaveCancelOutcome
  BY <1>21
  DEF SaveCancelOutcome, UpdateStatus, storeVars, brokerVars, procVars
<1>22. CASE AfterCancelLoop
  BY <1>22
  DEF AfterCancelLoop, storeVars, brokerVars, procVars
<1>23. CASE HandleException
  BY <1>23
  DEF HandleException, UpdateStatus, storeVars, brokerVars, procVars
<1>24. CASE FinishRun
  BY <1>24
  DEF FinishRun, Forget, storeVars, brokerVars, procVars
<1>25. CASE CallRaises
  BY <1>25
  DEF CallRaises, storeVars, brokerVars, procVars
<1>26. CASE Crash
  BY <1>26
  DEF Crash, Forget, storeVars, brokerVars, procVars
<1>27. ASSUME NEW o \in OrderIds, NEW q \in 1 .. Qty, BrokerFills(o, q) PROVE GateInv'
  BY <1>27
  DEF BrokerFills, TypeInv, TypeOK, storeVars, brokerVars, procVars
<1>28. ASSUME NEW o \in OrderIds, NEW final \in {"CANCELLED", "REJECTED", "FAILED"},
              BrokerCloses(o, final)
       PROVE  GateInv'
  BY <1>28
  DEF BrokerCloses, TypeInv, TypeOK, storeVars, brokerVars, procVars
<1>29. CASE NewDay
  BY <1>29
  DEF NewDay, TypeInv, TypeOK, storeVars, brokerVars, procVars
<1>30. CASE UNCHANGED vars
  BY <1>30
  DEF vars
<1> HIDE DEF GateInv
<1>31. QED
  BY <1>1, <1>2, <1>3, <1>4, <1>5, <1>6, <1>7, <1>8, <1>9, <1>10, <1>11, <1>12, <1>13, <1>14, <1>15,
     <1>16, <1>17, <1>18, <1>19, <1>20, <1>21, <1>22, <1>23, <1>24, <1>25, <1>26, <1>27, <1>28, <1>29, <1>30
  DEF Next, Program, Submission, Booking, CancelLoop, Closing, Broker

\* A write to the status of the run's own order keeps StoreInv: no other open
\* order has its intent.
LEMMA OwnStatusOnly ==
  ASSUME ConstantsAssumption, StoreInv, cur \in OrderIds, UNCHANGED <<cur, intent, bstate>>,
         pc' \notin {"idle", "recon", "price", "submit"},
         \A o \in OrderIds \ {cur} : status'[o] = status[o]
  PROVE  StoreInv'
<1>1. cur # None /\ cur' = cur /\ intent' = intent /\ bstate' = bstate
  BY DEF ConstantsAssumption
<1>2. /\ bstate[cur] # "NONE"
      /\ \A o \in OrderIds \ {cur} :
           intent[o] = intent[cur] => status[o] \notin LocalOpenStatuses
  BY <1>1 DEF StoreInv
<1>3. \A o \in OrderIds : bstate'[o] = "NONE" => status'[o] = "ABSENT"
  BY <1>1, <1>2 DEF StoreInv
<1>4. StoreIntentUnique'
  <2> SUFFICES ASSUME NEW o \in OrderIds, NEW p \in OrderIds, o # p, intent[o] = intent[p],
                      status'[o] \in LocalOpenStatuses, status'[p] \in LocalOpenStatuses
               PROVE  FALSE
    BY <1>1 DEF StoreIntentUnique
  <2>1. CASE o = cur
    BY <1>2, <2>1
  <2>2. CASE p = cur
    BY <1>2, <2>2
  <2>3. CASE o # cur /\ p # cur
    BY <2>3 DEF StoreInv, StoreIntentUnique
  <2>4. QED
    BY <2>1, <2>2, <2>3
<1>5. QED
  BY <1>1, <1>2, <1>3, <1>4 DEF StoreInv

\* Under all faults, a run's order is the only one of its intent that is open in
\* the store: between the duplicate-intent gate and record_order nothing is opened.
LEMMA StoreStep == TypeInv /\ StoreInv /\ [Next]_vars => StoreInv'
<1> SUFFICES ASSUME TypeInv, StoreInv, [Next]_vars PROVE StoreInv'
  OBVIOUS
<1> USE DEF StoreInv, StoreIntentUnique, HasBlockingIntent, BlockingStatuses, LocalOpenStatuses
<1>1. ASSUME NEW i \in Intents, StartRun(i) PROVE StoreInv'
  BY <1>1
  DEF StartRun, HasUnknown, TypeInv, TypeOK, storeVars, brokerVars, procVars
<1>2. ASSUME NEW v \in Views, CheckReconciliation(v) PROVE StoreInv'
  BY <1>2
  DEF CheckReconciliation, TypeInv, TypeOK, storeVars, brokerVars, procVars
<1>3. CASE CheckIntent
  BY <1>3
  DEF CheckIntent, TypeInv, TypeOK, storeVars, brokerVars, procVars
<1>4. ASSUME NEW o \in OrderIds, SubmitOrder(o) PROVE StoreInv'
  BY <1>4
  DEF SubmitOrder, BrokerTakes, TypeInv, TypeOK, storeVars, brokerVars, procVars
<1>5. ASSUME NEW o \in OrderIds, SubmitReplyLost(o) PROVE StoreInv'
  BY <1>5
  DEF SubmitReplyLost, BrokerTakes, TypeInv, TypeOK, storeVars, brokerVars, procVars
<1>6. CASE SubmitRefused
  BY <1>6
  DEF SubmitRefused, TypeInv, TypeOK, storeVars, brokerVars, procVars
<1>7. CASE RecordOrder
  <2>1. /\ cur \in OrderIds /\ UNCHANGED <<cur, intent, bstate>>
        /\ pc' \notin {"idle", "recon", "price", "submit"}
        /\ \A o \in OrderIds \ {cur} : status'[o] = status[o]
    BY <1>7 DEF RecordOrder, TypeInv, TypeOK, RunMemory, OrderPoints, brokerVars
  <2>2. QED
    BY <2>1, OwnStatusOnly, ConstantsAssumption
<1>8. ASSUME NEW v \in Views, Poll(v) PROVE StoreInv'
  <2>1. /\ cur \in OrderIds /\ UNCHANGED <<cur, intent, bstate>>
        /\ pc' \notin {"idle", "recon", "price", "submit"}
        /\ \A o \in OrderIds \ {cur} : status'[o] = status[o]
    BY <1>8 DEF Poll, UpdateStatus, TypeInv, TypeOK, RunMemory, OrderPoints, brokerVars
  <2>2. QED
    BY <2>1, OwnStatusOnly, ConstantsAssumption
<1>9. CASE RecordFilled
  <2>1. /\ cur \in OrderIds /\ UNCHANGED <<cur, intent, bstate>>
        /\ pc' \notin {"idle", "recon", "price", "submit"}
        /\ \A o \in OrderIds \ {cur} : status'[o] = status[o]
    BY <1>9 DEF RecordFilled, UpdateStatus, TypeInv, TypeOK, RunMemory, OrderPoints, brokerVars
  <2>2. QED
    BY <2>1, OwnStatusOnly, ConstantsAssumption
<1>10. ASSUME NEW v \in Views, CorrectFills(v) PROVE StoreInv'
  BY <1>10
  DEF CorrectFills, TypeInv, TypeOK, storeVars, brokerVars, procVars
<1>11. CASE UpdatePosition
  BY <1>11
  DEF UpdatePosition, TypeInv, TypeOK, storeVars, brokerVars, procVars
<1>12. CASE RecordPositionEvent
  BY <1>12
  DEF RecordPositionEvent, TypeInv, TypeOK, storeVars, brokerVars, procVars
<1>13. CASE Settle
  BY <1>13
  DEF Settle, TypeInv, TypeOK, storeVars, brokerVars, procVars
<1>14. CASE Announce
  BY <1>14
  DEF Announce, TypeInv, TypeOK, storeVars, brokerVars, procVars
<1>15. CASE RequestCancelLocally
  <2>1. /\ cur \in OrderIds /\ UNCHANGED <<cur, intent, bstate>>
        /\ pc' \notin {"idle", "recon", "price", "submit"}
        /\ \A o \in OrderIds \ {cur} : status'[o] = status[o]
    BY <1>15 DEF RequestCancelLocally, UpdateStatus, TypeInv, TypeOK, RunMemory, OrderPoints, brokerVars
  <2>2. QED
    BY <2>1, OwnStatusOnly, ConstantsAssumption
<1>16. CASE CancelGivesUp
  BY <1>16
  DEF CancelGivesUp, TypeInv, TypeOK, storeVars, brokerVars, procVars
<1>17. ASSUME NEW v \in Views, CancelPoll(v) PROVE StoreInv'
  <2>1. /\ cur \in OrderIds /\ UNCHANGED <<cur, intent, bstate>>
        /\ pc' \notin {"idle", "recon", "price", "submit"}
        /\ \A o \in OrderIds \ {cur} : status'[o] = status[o]
    BY <1>17 DEF CancelPoll, UpdateStatus, TypeInv, TypeOK, RunMemory, OrderPoints, brokerVars
  <2>2. QED
    BY <2>1, OwnStatusOnly, ConstantsAssumption
<1>18. CASE CancelAccepted
  BY <1>18
  DEF CancelAccepted, TypeInv, TypeOK, storeVars, brokerVars, procVars
<1>19. CASE CancelFails
  BY <1>19
  DEF CancelFails, TypeInv, TypeOK, storeVars, brokerVars, procVars
<1>20. CASE CancelReplyLost
  BY <1>20
  DEF CancelReplyLost, TypeInv, TypeOK, storeVars, brokerVars, procVars
<1>21. CASE SaveCancelOutcome
  <2>1. /\ cur \in OrderIds /\ UNCHANGED <<cur, intent, bstate>>
        /\ pc' \notin {"idle", "recon", "price", "submit"}
        /\ \A o \in OrderIds \ {cur} : status'[o] = status[o]
    BY <1>21 DEF SaveCancelOutcome, UpdateStatus, TypeInv, TypeOK, RunMemory, OrderPoints, brokerVars
  <2>2. QED
    BY <2>1, OwnStatusOnly, ConstantsAssumption
<1>22. CASE AfterCancelLoop
  BY <1>22
  DEF AfterCancelLoop, TypeInv, TypeOK, storeVars, brokerVars, procVars
<1>23. CASE HandleException
  <2>1. CASE cur = None
    <3>1. UNCHANGED <<cur, status, intent, bstate>> /\ pc' = "finish"
      BY <1>23, <2>1 DEF HandleException, brokerVars
    <3>2. QED
      BY <2>1, <3>1
  <2>2. CASE cur # None
    <3>1. /\ cur \in OrderIds /\ UNCHANGED <<cur, intent, bstate>>
          /\ pc' \notin {"idle", "recon", "price", "submit"}
          /\ \A o \in OrderIds \ {cur} : status'[o] = status[o]
      BY <1>23, <2>2 DEF HandleException, UpdateStatus, TypeInv, TypeOK, brokerVars
    <3>2. QED
      BY <3>1, OwnStatusOnly, ConstantsAssumption
  <2>3. QED
    BY <2>1, <2>2
<1>24. CASE FinishRun
  BY <1>24
  DEF FinishRun, Forget, TypeInv, TypeOK, storeVars, brokerVars, procVars
<1>25. CASE CallRaises
  BY <1>25
  DEF CallRaises, TypeInv, TypeOK, storeVars, brokerVars, procVars
<1>26. CASE Crash
  BY <1>26
  DEF Crash, Forget, TypeInv, TypeOK, storeVars, brokerVars, procVars
<1>27. ASSUME NEW o \in OrderIds, NEW q \in 1 .. Qty, BrokerFills(o, q) PROVE StoreInv'
  BY <1>27
  DEF BrokerFills, TypeInv, TypeOK, storeVars, brokerVars, procVars
<1>28. ASSUME NEW o \in OrderIds, NEW final \in {"CANCELLED", "REJECTED", "FAILED"},
              BrokerCloses(o, final)
       PROVE  StoreInv'
  BY <1>28
  DEF BrokerCloses, TypeInv, TypeOK, storeVars, brokerVars, procVars
<1>29. CASE NewDay
  BY <1>29
  DEF NewDay, TypeInv, TypeOK, storeVars, brokerVars, procVars
<1>30. CASE UNCHANGED vars
  BY <1>30
  DEF vars
<1> HIDE DEF StoreInv
<1>31. QED
  BY <1>1, <1>2, <1>3, <1>4, <1>5, <1>6, <1>7, <1>8, <1>9, <1>10, <1>11, <1>12, <1>13, <1>14, <1>15,
     <1>16, <1>17, <1>18, <1>19, <1>20, <1>21, <1>22, <1>23, <1>24, <1>25, <1>26, <1>27, <1>28, <1>29, <1>30
  DEF Next, Program, Submission, Booking, CancelLoop, Closing, Broker

\* Under all faults the store never has two open orders of one intent, and with
\* complete broker views neither has the market, through crashes, exceptions,
\* lost replies and changes of day (the two gates of run()).
THEOREM LiveIntentUniqueCorrect == Spec => []LiveIntentUnique
<1> DEFINE Inv == TypeInv /\ StoreInv /\ (CompleteViews => GateInv)
<1>1. Init => TypeInv
  BY ConstantsAssumption
  DEF Init, TypeInv, TypeOK, RunMemory, OrderPoints, Points, TryPoints, RunResults, Callers,
      Terminal, OrderStatuses, BrokerStates, ConstantsAssumption
<1>2. Init => GateInv /\ StoreInv
  BY DEF Init, GateInv, LiveOrderVisible, GatePassed, MarketIntentUnique, StoreInv,
    StoreIntentUnique, LocalOpenStatuses
<1>3. Inv /\ [Next]_vars => Inv'
  <2> SUFFICES ASSUME Inv, [Next]_vars PROVE Inv'
    OBVIOUS
  <2>1. CompleteViews' = CompleteViews
    BY FaultsFixed DEF CompleteViews
  <2>2. QED
    BY <2>1, TypeStep, GateStep, StoreStep, ConstantsAssumption
<1>4. Inv => LiveIntentUnique
  BY DEF GateInv, StoreInv, LiveIntentUnique
<1>5. Init => Inv
  BY <1>1, <1>2
<1> HIDE DEF Inv
<1>6. QED
  BY <1>3, <1>4, <1>5, PTL DEF Spec

\* The status of the run's order at each program point is inductive.
LEMMA PhaseStep ==
  NothingRaises /\ TypeInv /\ OrderPhase /\ [Next]_vars => OrderPhase'
<1> SUFFICES ASSUME NothingRaises, TypeInv, OrderPhase, [Next]_vars PROVE OrderPhase'
  OBVIOUS
<1>0. /\ status \in [OrderIds -> OrderStatuses]
      /\ bstate \in [OrderIds -> BrokerStates]
      /\ caller \in Callers /\ ret \in Terminal \cup {"UNKNOWN"}
      /\ cur \in OrderIds \cup {None}
      /\ pc \in OrderPoints => cur \in OrderIds
  BY DEF TypeInv, TypeOK, RunMemory
<1> USE DEF OrderPhase, OrderPoints, BookingStatuses, Callers
<1>1. ASSUME NEW i \in Intents, StartRun(i) PROVE OrderPhase'
  BY <1>1, <1>0, ConstantsAssumption
  DEF StartRun, storeVars, brokerVars, procVars, ConstantsAssumption
<1>2. ASSUME NEW v \in Views, CheckReconciliation(v) PROVE OrderPhase'
  BY <1>2, <1>0, ConstantsAssumption
  DEF CheckReconciliation, storeVars, brokerVars, procVars, ConstantsAssumption
<1>3. CASE CheckIntent
  BY <1>3, <1>0, ConstantsAssumption
  DEF CheckIntent, storeVars, brokerVars, procVars, ConstantsAssumption
<1>4. ASSUME NEW o \in OrderIds, SubmitOrder(o) PROVE OrderPhase'
  BY <1>4, <1>0, ConstantsAssumption
  DEF SubmitOrder, BrokerTakes, storeVars, brokerVars, procVars, ConstantsAssumption
<1>5. ASSUME NEW o \in OrderIds, SubmitReplyLost(o) PROVE OrderPhase'
  BY <1>5, <1>0, ConstantsAssumption
  DEF SubmitReplyLost, BrokerTakes, storeVars, brokerVars, procVars, ConstantsAssumption
<1>6. CASE SubmitRefused
  BY <1>6, <1>0, ConstantsAssumption
  DEF SubmitRefused, storeVars, brokerVars, procVars, ConstantsAssumption
<1>7. CASE RecordOrder
  BY <1>7, <1>0, ConstantsAssumption
  DEF RecordOrder, storeVars, brokerVars, procVars, ConstantsAssumption
<1>8. ASSUME NEW v \in Views, Poll(v) PROVE OrderPhase'
  BY <1>8, <1>0, ConstantsAssumption
  DEF Poll, UpdateStatus, storeVars, brokerVars, procVars, ConstantsAssumption
<1>9. CASE RecordFilled
  BY <1>9, <1>0, ConstantsAssumption
  DEF RecordFilled, UpdateStatus, storeVars, brokerVars, procVars, ConstantsAssumption
<1>10. ASSUME NEW v \in Views, CorrectFills(v) PROVE OrderPhase'
  BY <1>10, <1>0, ConstantsAssumption
  DEF CorrectFills, storeVars, brokerVars, procVars, ConstantsAssumption
<1>11. CASE UpdatePosition
  BY <1>11, <1>0, ConstantsAssumption
  DEF UpdatePosition, storeVars, brokerVars, procVars, ConstantsAssumption
<1>12. CASE RecordPositionEvent
  BY <1>12, <1>0, ConstantsAssumption
  DEF RecordPositionEvent, storeVars, brokerVars, procVars, ConstantsAssumption
<1>13. CASE Settle
  BY <1>13, <1>0, ConstantsAssumption
  DEF Settle, storeVars, brokerVars, procVars, ConstantsAssumption
<1>14. CASE Announce
  BY <1>14, <1>0, ConstantsAssumption
  DEF Announce, storeVars, brokerVars, procVars, ConstantsAssumption
<1>15. CASE RequestCancelLocally
  BY <1>15, <1>0, ConstantsAssumption
  DEF RequestCancelLocally, UpdateStatus, storeVars, brokerVars, procVars, ConstantsAssumption
<1>16. CASE CancelGivesUp
  BY <1>16, <1>0, ConstantsAssumption
  DEF CancelGivesUp, storeVars, brokerVars, procVars, ConstantsAssumption
<1>17. ASSUME NEW v \in Views, CancelPoll(v) PROVE OrderPhase'
  BY <1>17, <1>0, ConstantsAssumption
  DEF CancelPoll, UpdateStatus, Terminal, storeVars, brokerVars, procVars, ConstantsAssumption
<1>18. CASE CancelAccepted
  BY <1>18, <1>0, ConstantsAssumption
  DEF CancelAccepted, storeVars, brokerVars, procVars, ConstantsAssumption
<1>19. CASE CancelFails
  BY <1>19, <1>0, ConstantsAssumption
  DEF CancelFails, storeVars, brokerVars, procVars, ConstantsAssumption
<1>20. CASE CancelReplyLost
  BY <1>20, <1>0, ConstantsAssumption
  DEF CancelReplyLost, storeVars, brokerVars, procVars, ConstantsAssumption
<1>21. CASE SaveCancelOutcome
  BY <1>21, <1>0, ConstantsAssumption
  DEF SaveCancelOutcome, UpdateStatus, Terminal, storeVars, brokerVars,
      procVars, ConstantsAssumption
<1>22. CASE AfterCancelLoop
  BY <1>22, <1>0, ConstantsAssumption
  DEF AfterCancelLoop, Terminal, storeVars, brokerVars, procVars, ConstantsAssumption
<1>23. CASE HandleException
  BY <1>23, <1>0, ConstantsAssumption
  DEF HandleException, UpdateStatus, NothingRaises, storeVars, brokerVars,
      procVars, ConstantsAssumption
<1>24. CASE FinishRun
  BY <1>24, <1>0, ConstantsAssumption
  DEF FinishRun, Forget, storeVars, brokerVars, procVars, ConstantsAssumption
<1>25. CASE CallRaises
  BY <1>25 DEF CallRaises, NothingRaises
<1>26. CASE Crash
  BY <1>26, <1>0, ConstantsAssumption
  DEF Crash, Forget, storeVars, brokerVars, procVars, ConstantsAssumption
<1>27. ASSUME NEW o \in OrderIds, NEW q \in 1 .. Qty, BrokerFills(o, q) PROVE OrderPhase'
  BY <1>27, <1>0, ConstantsAssumption
  DEF BrokerFills, storeVars, brokerVars, procVars, ConstantsAssumption
<1>28. ASSUME NEW o \in OrderIds, NEW final \in {"CANCELLED", "REJECTED", "FAILED"},
              BrokerCloses(o, final)
       PROVE  OrderPhase'
  BY <1>28, <1>0, ConstantsAssumption
  DEF BrokerCloses, storeVars, brokerVars, procVars, ConstantsAssumption
<1>29. CASE NewDay
  BY <1>29, <1>0, ConstantsAssumption
  DEF NewDay, storeVars, brokerVars, procVars, ConstantsAssumption
<1>30. CASE UNCHANGED vars
  BY <1>30, <1>0, ConstantsAssumption
  DEF vars, ConstantsAssumption
<1> HIDE DEF OrderPhase
<1>31. QED
  BY <1>1, <1>2, <1>3, <1>4, <1>5, <1>6, <1>7, <1>8, <1>9, <1>10, <1>11, <1>12, <1>13, <1>14, <1>15,
     <1>16, <1>17, <1>18, <1>19, <1>20, <1>21, <1>22, <1>23, <1>24, <1>25, <1>26, <1>27, <1>28, <1>29, <1>30
  DEF Next, Program, Submission, Booking, CancelLoop, Closing, Broker

\* A status that no step rewrites.
Settled(o) == status[o] \in {"FILLED", "CANCELLED", "UNKNOWN"}

\* No step rewrites an order that is FILLED, CANCELLED or UNKNOWN.
LEMMA SettledKept ==
  ASSUME NothingRaises, TypeInv, OrderPhase, [Next]_vars, NEW x \in OrderIds, Settled(x)
  PROVE  status'[x] = status[x]
<1>0. /\ status \in [OrderIds -> OrderStatuses]
      /\ caller \in Callers
      /\ cur \in OrderIds \cup {None}
      /\ pc \in OrderPoints => cur \in OrderIds
  BY DEF TypeInv, TypeOK, RunMemory
<1> USE DEF OrderPhase, OrderPoints, BookingStatuses, Callers, Settled
<1>1. ASSUME NEW i \in Intents, StartRun(i) PROVE status'[x] = status[x]
  BY <1>1, <1>0, ConstantsAssumption
  DEF StartRun, storeVars, brokerVars, procVars, ConstantsAssumption
<1>2. ASSUME NEW v \in Views, CheckReconciliation(v) PROVE status'[x] = status[x]
  BY <1>2, <1>0, ConstantsAssumption
  DEF CheckReconciliation, storeVars, brokerVars, procVars, ConstantsAssumption
<1>3. CASE CheckIntent
  BY <1>3, <1>0, ConstantsAssumption
  DEF CheckIntent, storeVars, brokerVars, procVars, ConstantsAssumption
<1>4. ASSUME NEW o \in OrderIds, SubmitOrder(o) PROVE status'[x] = status[x]
  BY <1>4, <1>0, ConstantsAssumption
  DEF SubmitOrder, BrokerTakes, storeVars, brokerVars, procVars, ConstantsAssumption
<1>5. ASSUME NEW o \in OrderIds, SubmitReplyLost(o) PROVE status'[x] = status[x]
  BY <1>5, <1>0, ConstantsAssumption
  DEF SubmitReplyLost, BrokerTakes, storeVars, brokerVars, procVars, ConstantsAssumption
<1>6. CASE SubmitRefused
  BY <1>6, <1>0, ConstantsAssumption
  DEF SubmitRefused, storeVars, brokerVars, procVars, ConstantsAssumption
<1>7. CASE RecordOrder
  BY <1>7, <1>0, ConstantsAssumption
  DEF RecordOrder, storeVars, brokerVars, procVars, ConstantsAssumption
<1>8. ASSUME NEW v \in Views, Poll(v) PROVE status'[x] = status[x]
  BY <1>8, <1>0, ConstantsAssumption
  DEF Poll, UpdateStatus, storeVars, brokerVars, procVars, ConstantsAssumption
<1>9. CASE RecordFilled
  BY <1>9, <1>0, ConstantsAssumption
  DEF RecordFilled, UpdateStatus, storeVars, brokerVars, procVars, ConstantsAssumption
<1>10. ASSUME NEW v \in Views, CorrectFills(v) PROVE status'[x] = status[x]
  BY <1>10, <1>0, ConstantsAssumption
  DEF CorrectFills, storeVars, brokerVars, procVars, ConstantsAssumption
<1>11. CASE UpdatePosition
  BY <1>11, <1>0, ConstantsAssumption
  DEF UpdatePosition, storeVars, brokerVars, procVars, ConstantsAssumption
<1>12. CASE RecordPositionEvent
  BY <1>12, <1>0, ConstantsAssumption
  DEF RecordPositionEvent, storeVars, brokerVars, procVars, ConstantsAssumption
<1>13. CASE Settle
  BY <1>13, <1>0, ConstantsAssumption
  DEF Settle, storeVars, brokerVars, procVars, ConstantsAssumption
<1>14. CASE Announce
  BY <1>14, <1>0, ConstantsAssumption
  DEF Announce, storeVars, brokerVars, procVars, ConstantsAssumption
<1>15. CASE RequestCancelLocally
  BY <1>15, <1>0, ConstantsAssumption
  DEF RequestCancelLocally, UpdateStatus, storeVars, brokerVars, procVars, ConstantsAssumption
<1>16. CASE CancelGivesUp
  BY <1>16, <1>0, ConstantsAssumption
  DEF CancelGivesUp, storeVars, brokerVars, procVars, ConstantsAssumption
<1>17. ASSUME NEW v \in Views, CancelPoll(v) PROVE status'[x] = status[x]
  BY <1>17, <1>0, ConstantsAssumption
  DEF CancelPoll, UpdateStatus, storeVars, brokerVars, procVars, ConstantsAssumption
<1>18. CASE CancelAccepted
  BY <1>18, <1>0, ConstantsAssumption
  DEF CancelAccepted, storeVars, brokerVars, procVars, ConstantsAssumption
<1>19. CASE CancelFails
  BY <1>19, <1>0, ConstantsAssumption
  DEF CancelFails, storeVars, brokerVars, procVars, ConstantsAssumption
<1>20. CASE CancelReplyLost
  BY <1>20, <1>0, ConstantsAssumption
  DEF CancelReplyLost, storeVars, brokerVars, procVars, ConstantsAssumption
<1>21. CASE SaveCancelOutcome
  BY <1>21, <1>0, ConstantsAssumption
  DEF SaveCancelOutcome, UpdateStatus, storeVars, brokerVars, procVars, ConstantsAssumption
<1>22. CASE AfterCancelLoop
  BY <1>22, <1>0, ConstantsAssumption
  DEF AfterCancelLoop, storeVars, brokerVars, procVars, ConstantsAssumption
<1>23. CASE HandleException
  BY <1>23, <1>0, ConstantsAssumption
  DEF HandleException, UpdateStatus, NothingRaises, storeVars, brokerVars,
      procVars, ConstantsAssumption
<1>24. CASE FinishRun
  BY <1>24, <1>0, ConstantsAssumption
  DEF FinishRun, Forget, storeVars, brokerVars, procVars, ConstantsAssumption
<1>25. CASE CallRaises
  BY <1>25 DEF CallRaises, NothingRaises
<1>26. CASE Crash
  BY <1>26, <1>0, ConstantsAssumption
  DEF Crash, Forget, storeVars, brokerVars, procVars, ConstantsAssumption
<1>27. ASSUME NEW o \in OrderIds, NEW q \in 1 .. Qty, BrokerFills(o, q) PROVE status'[x] = status[x]
  BY <1>27, <1>0, ConstantsAssumption
  DEF BrokerFills, storeVars, brokerVars, procVars, ConstantsAssumption
<1>28. ASSUME NEW o \in OrderIds, NEW final \in {"CANCELLED", "REJECTED", "FAILED"},
              BrokerCloses(o, final)
       PROVE  status'[x] = status[x]
  BY <1>28, <1>0, ConstantsAssumption
  DEF BrokerCloses, storeVars, brokerVars, procVars, ConstantsAssumption
<1>29. CASE NewDay
  BY <1>29, <1>0, ConstantsAssumption
  DEF NewDay, storeVars, brokerVars, procVars, ConstantsAssumption
<1>30. CASE UNCHANGED vars
  BY <1>30, <1>0, ConstantsAssumption
  DEF vars, ConstantsAssumption
<1>31. QED
  BY <1>1, <1>2, <1>3, <1>4, <1>5, <1>6, <1>7, <1>8, <1>9, <1>10, <1>11, <1>12, <1>13, <1>14, <1>15,
     <1>16, <1>17, <1>18, <1>19, <1>20, <1>21, <1>22, <1>23, <1>24, <1>25, <1>26, <1>27, <1>28, <1>29, <1>30
  DEF Next, Program, Submission, Booking, CancelLoop, Closing, Broker

\* As long as no call raises, OrderPhase holds throughout.
PhaseInv == TypeInv /\ (NothingRaises => OrderPhase)

LEMMA PhaseInvariant == Spec => []PhaseInv
<1>1. Init => PhaseInv
  BY ConstantsAssumption
  DEF Init, TypeInv, TypeOK, RunMemory, OrderPoints, Points, TryPoints, RunResults, Callers,
      Terminal, OrderStatuses, BrokerStates, ConstantsAssumption, OrderPhase, PhaseInv
<1>2. PhaseInv /\ [Next]_vars => PhaseInv'
  <2> SUFFICES ASSUME PhaseInv, [Next]_vars PROVE PhaseInv'
    OBVIOUS
  <2>1. NothingRaises' = NothingRaises
    BY FaultsFixed DEF NothingRaises
  <2>2. QED
    BY <2>1, TypeStep, PhaseStep, ConstantsAssumption DEF PhaseInv
<1>3. QED
  BY <1>1, <1>2, PTL DEF Spec

\* Unless a call raises, no step of the runner rewrites an UNKNOWN order: the
\* except clause of run() writes UNKNOWN over UNKNOWN only.
THEOREM UnknownPreservedCorrect == Spec => UnknownPreserved
<1> DEFINE Keeps == NothingRaises =>
                      \A o \in OrderIds : status[o] = "UNKNOWN" => status'[o] = "UNKNOWN"
<1>1. PhaseInv /\ [Next]_vars => [Keeps]_vars
  BY SettledKept DEF Settled, PhaseInv
<1>2. QED
  BY <1>1, PhaseInvariant, PTL DEF Spec, UnknownPreserved

\* Unless a call raises, FILLED and CANCELLED are final in the store.
THEOREM TerminalIsFinalCorrect == Spec => TerminalIsFinal
<1> DEFINE Keeps == NothingRaises =>
                      \A o \in OrderIds :
                        status[o] \in {"FILLED", "CANCELLED"} => status'[o] = status[o]
<1>1. PhaseInv /\ [Next]_vars => [Keeps]_vars
  BY SettledKept DEF Settled, PhaseInv
<1>2. QED
  BY <1>1, PhaseInvariant, PTL DEF Spec, TerminalIsFinal

\* Unless a call raises, a run that reaches its end has left no order open
\* locally (run(), cancel_until_terminal).
THEOREM FinishedRunClosesOrderCorrect == Spec => []FinishedRunClosesOrder
<1>1. PhaseInv => FinishedRunClosesOrder
  BY DEF PhaseInv, OrderPhase, FinishedRunClosesOrder, LocalOpenStatuses
<1>2. QED
  BY <1>1, PhaseInvariant, PTL

-----------------------------------------------------------------------------
(* Every run is bounded *)

AttemptsLeft == 2 * (MaxAttempts - count)

\* The calls that a run has still to make, at most.  A correction inside the
\* cancel loop comes before the end of the loop, the others after it.
CallsLeft ==
  CASE pc = "idle"       -> 0
    [] pc = "finish"     -> 1
    [] pc = "handler"    -> 2
    [] pc = "announce"   -> 3
    [] pc = "settle"     -> IF caller = "midCancel" THEN 10 ELSE 4
    [] pc = "event"      -> IF caller = "midCancel" THEN 11 ELSE 5
    [] pc = "position"   -> IF caller = "midCancel" THEN 12 ELSE 6
    [] pc = "fix"        -> IF caller = "midCancel" THEN 13 ELSE 7
    [] pc = "filled"     -> 8
    [] pc = "audit"      -> 8
    [] pc = "cancelSave" -> 9
    [] pc = "cancelTop"  -> 14 + AttemptsLeft
    [] pc = "cancelReq"  -> 15 + AttemptsLeft
    [] pc = "cancel"     -> 15 + 2 * MaxAttempts
    [] pc = "poll"       -> 15 + 2 * MaxAttempts + (MaxPolls - count)
    [] pc = "record"     -> 16 + 2 * MaxAttempts + MaxPolls
    [] pc = "submit"     -> 17 + 2 * MaxAttempts + MaxPolls
    [] pc = "price"      -> 18 + 2 * MaxAttempts + MaxPolls
    [] pc = "recon"      -> 19 + 2 * MaxAttempts + MaxPolls

AttemptsCounted == pc \in {"cancelTop", "cancelReq"} => count <= MaxAttempts

\* A step of the process uses up calls; the broker's steps use up none.
LEMMA RunStep ==
  ASSUME TypeInv, AttemptsCounted, [Next]_vars
  PROVE  /\ AttemptsCounted'
         /\ pc # "idle" => UNCHANGED procVars \/ CallsLeft' < CallsLeft
<1> DEFINE Forward == /\ AttemptsCounted'
                      /\ pc # "idle" => UNCHANGED procVars \/ CallsLeft' < CallsLeft
<1> SUFFICES Forward
  OBVIOUS
<1>0. /\ MaxPolls \in Nat \ {0} /\ MaxAttempts \in Nat \ {0}
      /\ count \in 0 .. MaxPolls + MaxAttempts
      /\ pc \in Points /\ caller \in Callers
      /\ pc = "poll" => count < MaxPolls
  BY ConstantsAssumption DEF ConstantsAssumption, TypeInv, TypeOK, RunMemory
<1> USE DEF AttemptsCounted, CallsLeft, AttemptsLeft
<1>1. ASSUME NEW i \in Intents, StartRun(i) PROVE Forward
  BY <1>1, <1>0 DEF StartRun
<1>2. ASSUME NEW v \in Views, CheckReconciliation(v) PROVE Forward
  BY <1>2, <1>0 DEF CheckReconciliation
<1>3. CASE CheckIntent
  BY <1>3, <1>0 DEF CheckIntent
<1>4. ASSUME NEW o \in OrderIds, SubmitOrder(o) \/ SubmitReplyLost(o) PROVE Forward
  BY <1>4, <1>0 DEF SubmitOrder, SubmitReplyLost
<1>5. CASE SubmitRefused
  BY <1>5, <1>0 DEF SubmitRefused
<1>6. CASE RecordOrder
  BY <1>6, <1>0 DEF RecordOrder
<1>7. ASSUME NEW v \in Views, Poll(v) PROVE Forward
  BY <1>7, <1>0 DEF Poll
<1>8. CASE RecordFilled
  BY <1>8, <1>0 DEF RecordFilled
<1>9. ASSUME NEW v \in Views, CorrectFills(v) PROVE Forward
  BY <1>9, <1>0 DEF CorrectFills
<1>10. CASE UpdatePosition
  BY <1>10, <1>0 DEF UpdatePosition
<1>11. CASE RecordPositionEvent
  BY <1>11, <1>0 DEF RecordPositionEvent
<1>12. CASE Settle
  BY <1>12, <1>0 DEF Settle
<1>13. CASE Announce
  BY <1>13, <1>0 DEF Announce
<1>14. CASE RequestCancelLocally
  BY <1>14, <1>0 DEF RequestCancelLocally
<1>15. CASE CancelGivesUp
  BY <1>15, <1>0 DEF CancelGivesUp
<1>16. ASSUME NEW v \in Views, CancelPoll(v) PROVE Forward
  BY <1>16, <1>0 DEF CancelPoll
<1>17. CASE CancelAccepted \/ CancelFails \/ CancelReplyLost
  BY <1>17, <1>0 DEF CancelAccepted, CancelFails, CancelReplyLost
<1>18. CASE SaveCancelOutcome
  BY <1>18, <1>0 DEF SaveCancelOutcome
<1>19. CASE AfterCancelLoop
  BY <1>19, <1>0 DEF AfterCancelLoop
<1>20. CASE HandleException
  BY <1>20, <1>0 DEF HandleException
<1>21. CASE FinishRun
  BY <1>21, <1>0 DEF FinishRun, Forget
<1>22. CASE CallRaises
  BY <1>22, <1>0 DEF CallRaises, TryPoints
<1>23. CASE Crash
  BY <1>23, <1>0 DEF Crash, Forget, Points, TryPoints
<1>24. CASE Broker
  BY <1>24, <1>0 DEF Broker, BrokerFills, BrokerCloses, NewDay, procVars
<1>25. CASE UNCHANGED vars
  BY <1>25, <1>0 DEF vars, procVars
<1> HIDE DEF Forward
<1>26. QED
  BY <1>1, <1>2, <1>3, <1>4, <1>5, <1>6, <1>7, <1>8, <1>9, <1>10, <1>11, <1>12, <1>13, <1>14, <1>15, <1>16, <1>17, <1>18, <1>19, <1>20, <1>21, <1>22, <1>23, <1>24, <1>25
  DEF Next, Program, Submission, Booking, CancelLoop, Closing

\* A run is a bounded number of store transactions and broker calls, whatever the
\* broker answers and whatever fails: MaxPolls polls and MaxAttempts attempts of
\* two calls each, and at most 19 other calls.
THEOREM RunIsBounded ==
  Spec => /\ [](CallsLeft \in 0 .. 19 + 2 * MaxAttempts + MaxPolls)
          /\ [][pc # "idle" => UNCHANGED procVars \/ CallsLeft' < CallsLeft]_vars
<1> DEFINE Inv == TypeInv /\ AttemptsCounted
           Step == pc # "idle" => UNCHANGED procVars \/ CallsLeft' < CallsLeft
<1>1. Init => Inv
  BY ConstantsAssumption
  DEF Init, TypeInv, TypeOK, RunMemory, OrderPoints, Points, TryPoints, RunResults, Callers,
      Terminal, OrderStatuses, BrokerStates, ConstantsAssumption, AttemptsCounted
<1>2. Inv /\ [Next]_vars => Inv' /\ [Step]_vars
  BY RunStep, TypeStep, ConstantsAssumption
<1>3. Inv => CallsLeft \in 0 .. 19 + 2 * MaxAttempts + MaxPolls
  <2> SUFFICES ASSUME Inv PROVE CallsLeft \in 0 .. 19 + 2 * MaxAttempts + MaxPolls
    OBVIOUS
  <2>1. /\ MaxPolls \in Nat \ {0} /\ MaxAttempts \in Nat \ {0} /\ count \in Nat
        /\ pc \in Points /\ caller \in Callers
        /\ pc = "poll" => count < MaxPolls
        /\ pc \in {"cancelTop", "cancelReq"} => count <= MaxAttempts
    BY ConstantsAssumption
    DEF ConstantsAssumption, TypeInv, TypeOK, RunMemory, AttemptsCounted
  <2>2. /\ pc = "cancelTop" => CallsLeft = 14 + 2 * (MaxAttempts - count)
        /\ pc = "cancelReq" => CallsLeft = 15 + 2 * (MaxAttempts - count)
        /\ pc = "cancel" => CallsLeft = 15 + 2 * MaxAttempts
        /\ pc = "poll" => CallsLeft = 15 + 2 * MaxAttempts + (MaxPolls - count)
        /\ pc = "record" => CallsLeft = 16 + 2 * MaxAttempts + MaxPolls
        /\ pc = "submit" => CallsLeft = 17 + 2 * MaxAttempts + MaxPolls
        /\ pc = "price" => CallsLeft = 18 + 2 * MaxAttempts + MaxPolls
        /\ pc = "recon" => CallsLeft = 19 + 2 * MaxAttempts + MaxPolls
    BY DEF CallsLeft, AttemptsLeft
  <2>3. pc \notin {"cancelTop", "cancelReq", "cancel", "poll", "record", "submit", "price", "recon"}
          => CallsLeft \in 0 .. 13
    BY <2>1 DEF CallsLeft, Points, TryPoints
  <2>4. QED
    BY <2>1, <2>2, <2>3
<1> HIDE DEF Inv
<1>4. QED
  BY <1>1, <1>2, <1>3, PTL DEF Spec

-----------------------------------------------------------------------------
(* One share per order, as the code has it *)

\* The fill row and the booked share of an order; its executed share and FILLED.
SharesMatch ==
  \A o \in OrderIds : /\ fills[o] = {} <=> booked[o] = 0
                      /\ bfilled[o] # 0 <=> bstate[o] = "FILLED"

OneShareInv == TypeInv /\ NoOverBooking /\ SharesMatch

LEMMA OneShareStep == Qty = 1 /\ OneShareInv /\ [Next]_vars => SharesMatch'
<1> SUFFICES ASSUME Qty = 1, TypeInv, NoOverBooking, SharesMatch, [Next]_vars PROVE SharesMatch'
  BY DEF OneShareInv
<1>1. ASSUME UNCHANGED <<fills, booked, bstate, bfilled>> PROVE SharesMatch'
  BY <1>1 DEF SharesMatch
<1>2. ASSUME NEW o \in OrderIds, NEW b \in BrokerStates \ {"FILLED"}, bstate[o] # "FILLED",
             bstate' = [bstate EXCEPT ![o] = b], UNCHANGED <<fills, booked, bfilled>>
      PROVE  SharesMatch'
  BY <1>2 DEF SharesMatch, TypeInv, TypeOK
<1>3. ASSUME NEW v \in Views, CorrectFills(v) PROVE SharesMatch'
  <2> DEFINE missing == MissingFill(cur, Snapshot(cur, v).filled)
  <2>1. cur \in OrderIds /\ UNCHANGED <<bstate, bfilled>>
    BY <1>3 DEF CorrectFills, brokerVars, TypeInv, RunMemory, OrderPoints
  <2>2. missing > 0 => missing = 1 /\ booked[cur] = 0
    <3>1. Snapshot(cur, v).filled \in 0 .. 1
      BY SnapshotBounds, ConstantsAssumption DEF TypeInv
    <3>2. booked[cur] \in 0 .. 1
      BY <2>1 DEF TypeInv, TypeOK
    <3>3. QED
      BY <3>1, <3>2 DEF MissingFill
  <2>3. CASE missing <= 0
    <3>1. UNCHANGED <<fills, booked>>
      <4>1. ~(missing > 0)
        BY <2>3, <2>1, SnapshotBounds, ConstantsAssumption DEF MissingFill, TypeInv, TypeOK
      <4>2. QED
        BY <1>3, <4>1 DEF CorrectFills
    <3>2. QED
      BY <1>1, <2>1, <3>1
  <2>4. CASE missing > 0
    <3>1. fills[cur] = {}
      BY <2>1, <2>2, <2>4 DEF SharesMatch
    <3>2. /\ fills' = [fills EXCEPT ![cur] = @ \cup {missing}]
          /\ booked' = [booked EXCEPT ![cur] = @ + missing]
      BY <1>3, <2>2, <2>4, <3>1 DEF CorrectFills, DuplicateFill
    <3>3. QED
      BY <2>1, <2>2, <2>4, <3>1, <3>2 DEF SharesMatch, TypeInv, TypeOK
  <2>5. QED
    BY <1>3, <2>3, <2>4 DEF CorrectFills
<1>4. ASSUME NEW o \in OrderIds, NEW q \in 1 .. Qty, BrokerFills(o, q) PROVE SharesMatch'
  <2>1. q = 1 /\ bfilled[o] = 0 /\ bfilled[o] + q = Qty
    BY <1>4 DEF BrokerFills, TypeInv, TypeOK
  <2>2. bfilled' = [bfilled EXCEPT ![o] = 1] /\ bstate' = [bstate EXCEPT ![o] = "FILLED"]
    BY <1>4, <2>1 DEF BrokerFills
  <2>3. UNCHANGED <<fills, booked>>
    BY <1>4 DEF BrokerFills, storeVars
  <2>4. QED
    BY <2>2, <2>3 DEF SharesMatch, TypeInv, TypeOK
<1>5. CASE NewDay
  BY <1>5 DEF NewDay, storeVars, SharesMatch, TypeInv, TypeOK
<1>6. ASSUME NEW o \in OrderIds, NEW final \in {"CANCELLED", "REJECTED", "FAILED"},
             BrokerCloses(o, final)
      PROVE  SharesMatch'
  BY <1>2, <1>6 DEF BrokerCloses, storeVars, BrokerStates
<1>7. CASE Submission
  <2>1. ASSUME NEW o \in OrderIds, SubmitOrder(o) \/ SubmitReplyLost(o) PROVE SharesMatch'
    BY <1>2, <2>1 DEF SubmitOrder, SubmitReplyLost, BrokerTakes, BrokerStates
  <2>2. CASE \/ \E i \in Intents : StartRun(i)
             \/ \E v \in Views : CheckReconciliation(v)
             \/ CheckIntent \/ SubmitRefused \/ RecordOrder
    BY <1>1, <2>2 DEF StartRun, CheckReconciliation, CheckIntent, SubmitRefused, RecordOrder,
      storeVars, brokerVars
  <2>3. QED
    BY <1>7, <2>1, <2>2 DEF Submission
<1>8. CASE Booking
  <2>1. CASE \/ \E v \in Views : Poll(v)
             \/ RecordFilled \/ UpdatePosition \/ RecordPositionEvent \/ Settle \/ Announce
    BY <1>1, <2>1 DEF Poll, RecordFilled, UpdatePosition, RecordPositionEvent, Settle, Announce,
      storeVars, brokerVars
  <2>2. QED
    BY <1>3, <1>8, <2>1 DEF Booking
<1>9. CASE CancelLoop
  <2>1. CASE CancelAccepted \/ CancelReplyLost
    <3>1. cur \in OrderIds
      BY <2>1 DEF CancelAccepted, CancelReplyLost, TypeInv, RunMemory, OrderPoints
    <3>2. UNCHANGED <<fills, booked, bfilled>> /\ bstate[cur] = "OPEN"
      BY <2>1 DEF CancelAccepted, CancelReplyLost, storeVars
    <3>3. bstate' = [bstate EXCEPT ![cur] = "CANCELLED"] \/ UNCHANGED bstate
      BY <2>1 DEF CancelAccepted, CancelReplyLost
    <3>4. QED
      BY <1>1, <1>2, <3>1, <3>2, <3>3 DEF BrokerStates
  <2>2. CASE \/ RequestCancelLocally \/ CancelGivesUp \/ CancelFails
             \/ SaveCancelOutcome \/ AfterCancelLoop
             \/ \E v \in Views : CancelPoll(v)
    BY <1>1, <2>2 DEF RequestCancelLocally, CancelGivesUp, CancelPoll, CancelFails,
      SaveCancelOutcome, AfterCancelLoop, storeVars, brokerVars
  <2>3. QED
    BY <1>9, <2>1, <2>2 DEF CancelLoop
<1>10. CASE Closing \/ CallRaises \/ Crash \/ UNCHANGED vars
  BY <1>1, <1>10 DEF Closing, HandleException, FinishRun, CallRaises, Crash, storeVars,
    brokerVars, vars
<1>11. QED
  BY <1>4, <1>5, <1>6, <1>7, <1>8, <1>9, <1>10 DEF Next, Program, Broker

\* With one share, the order's rows and the broker's state match throughout.
LEMMA OneShareInvariant == ASSUME Qty = 1 PROVE Spec => []OneShareInv
<1>1. Init => TypeInv /\ SharesMatch
  BY ConstantsAssumption
  DEF Init, TypeInv, TypeOK, RunMemory, OrderPoints, Points, TryPoints, RunResults, Callers,
      Terminal, OrderStatuses, BrokerStates, ConstantsAssumption, SharesMatch
<1>2. TypeInv /\ [Next]_vars => TypeInv'
  BY TypeStep, ConstantsAssumption
<1>3. OneShareInv /\ [Next]_vars => SharesMatch'
  BY OneShareStep
<1>4. TypeInv /\ NoOverBooking /\ SharesMatch <=> OneShareInv
  BY DEF OneShareInv
<1>5. QED
  BY <1>1, <1>2, <1>3, <1>4, NoOverBookingCorrect, PTL DEF Spec

-----------------------------------------------------------------------------
(* Nothing is submitted over an execution that nobody booked *)

\* Past the reconciliation, the orders the broker shows for the run's symbol are
\* fully booked, or still locally open.
Accounted(p) == booked[p] = bfilled[p] \/ status[p] \in LocalOpenStatuses

AccountedGate ==
  pc \in {"price", "submit"} => \A p \in TodayOf(want.symbol) : Accounted(p)

\* A verdict that does not block has found a fill row for every execution shown
\* (reconcile_local_and_broker, FILL_MISMATCH).
LEMMA ReconciliationSeesFills ==
  ASSUME Qty = 1, CompleteViews, OneShareInv, NEW v \in Views,
         ~Verdict(want.symbol, v).block_new_orders,
         NEW p \in TodayOf(want.symbol)
  PROVE  booked[p] = bfilled[p]
<1> DEFINE rows == RowsById(want.symbol, v)
           ids  == BookedIds(want.symbol)
           evs  == ReconcileEvents(LocalOpen(want.symbol), ids, rows)
<1>1. p \in OrderIds /\ btoday[p] /\ intent[p].symbol = want.symbol
  BY DEF TodayOf
<1>2. p \in InHistory(v)
  BY <1>1 DEF Views, CompleteViews, InHistory
<1>3. p \in DOMAIN rows /\ rows[p].filled = bfilled[p]
  BY <1>1, <1>2 DEF RowsById, HistoryRow
<1>4. bfilled[p] > 0 => p \in ids
  <2> SUFFICES ASSUME bfilled[p] > 0, p \notin ids PROVE FALSE
    OBVIOUS
  <2> DEFINE e == [type |-> "FILL_MISMATCH", severity |-> "CRITICAL", order |-> p]
  <2>1. p \in FillMismatch(ids, rows)
    BY <1>3 DEF FillMismatch
  <2>2. e \in Event("FILL_MISMATCH", "CRITICAL", FillMismatch(ids, rows))
    BY <2>1 DEF Event
  <2>3. e \in evs
    BY <2>2 DEF ReconcileEvents
  <2>4. QED
    BY <2>3 DEF Verdict, Reconcile
<1>5. booked[p] \in 0 .. 1 /\ bfilled[p] \in 0 .. 1 /\ booked[p] <= bfilled[p]
  BY <1>1 DEF OneShareInv, NoOverBooking, TypeInv, TypeOK
<1>6. p \in ids => booked[p] # 0
  BY <1>1 DEF BookedIds, OneShareInv, SharesMatch
<1>7. QED
  BY <1>4, <1>5, <1>6

\* What holds past the reconciliation holds until the submission.
LEMMA AccountedStep ==
  ASSUME Qty = 1, CompleteViews, "lateFill" \notin faults, OneShareInv, GateInv,
         AccountedGate, [Next]_vars
  PROVE  AccountedGate'
<1>1. ASSUME pc' \notin {"price", "submit"} PROVE AccountedGate'
  BY <1>1 DEF AccountedGate
<1>2. ASSUME pc \in {"price", "submit"},
             UNCHANGED <<want, status, intent, booked, bfilled, btoday>>
      PROVE  AccountedGate'
  BY <1>2 DEF AccountedGate, TodayOf, Accounted
<1>3. ASSUME NEW v \in Views, CheckReconciliation(v) PROVE AccountedGate'
  <2>1. CASE pc' = "finish"
    BY <1>1, <2>1
  <2>2. CASE pc' # "finish"
    <3>1. UNCHANGED <<want, status, intent, booked, bfilled, btoday>>
      BY <1>3 DEF CheckReconciliation, storeVars, brokerVars
    <3>2. \A p \in TodayOf(want.symbol) : booked[p] = bfilled[p]
      BY <1>3, <2>2, ReconciliationSeesFills DEF CheckReconciliation
    <3>3. QED
      BY <3>1, <3>2 DEF AccountedGate, TodayOf, Accounted
  <2>3. QED
    BY <2>1, <2>2
<1>4. ASSUME NEW o \in OrderIds, NEW q \in 1 .. Qty, BrokerFills(o, q) PROVE AccountedGate'
  <2>1. bstate[o] = "OPEN" /\ UNCHANGED <<pc, want, status, intent, booked, btoday>>
    BY <1>4 DEF BrokerFills, storeVars, procVars
  <2>2. \A p \in OrderIds : p # o => bfilled'[p] = bfilled[p]
    BY <1>4 DEF BrokerFills, OneShareInv, TypeInv, TypeOK
  <2>3. (pc \in {"price", "submit"} /\ intent[o].symbol = want.symbol) =>
           status[o] \in LocalOpenStatuses
    BY <2>1 DEF GateInv, GatePassed
  <2>4. QED
    BY <2>1, <2>2, <2>3 DEF AccountedGate, TodayOf, Accounted
<1>5. ASSUME NEW o \in OrderIds, NEW final \in {"CANCELLED", "REJECTED", "FAILED"},
             BrokerCloses(o, final)
      PROVE  AccountedGate'
  BY <1>5 DEF BrokerCloses, storeVars, procVars, AccountedGate, TodayOf, Accounted
<1>6. CASE NewDay
  <2>1. UNCHANGED <<pc, want, status, intent, booked, bfilled>>
    BY <1>6 DEF NewDay, storeVars, procVars
  <2>2. TodayOf(want.symbol)' = {}
    BY <1>6 DEF NewDay, TodayOf
  <2>3. QED
    BY <2>1, <2>2 DEF AccountedGate
<1>7. CASE Submission
  <2>1. CASE CheckIntent
    BY <1>1, <1>2, <2>1 DEF CheckIntent, storeVars, brokerVars
  <2>2. CASE \/ \E i \in Intents : StartRun(i)
             \/ \E o \in OrderIds : SubmitOrder(o) \/ SubmitReplyLost(o)
             \/ SubmitRefused \/ RecordOrder
    BY <1>1, <2>2 DEF StartRun, SubmitOrder, SubmitReplyLost, SubmitRefused, RecordOrder
  <2>3. QED
    BY <1>3, <1>7, <2>1, <2>2 DEF Submission
<1>8. CASE Booking
  BY <1>1, <1>8 DEF Booking, Poll, RecordFilled, CorrectFills, UpdatePosition,
    RecordPositionEvent, Settle, Announce
<1>9. CASE CancelLoop
  BY <1>1, <1>9 DEF CancelLoop, RequestCancelLocally, CancelGivesUp, CancelPoll, CancelAccepted,
    CancelFails, CancelReplyLost, SaveCancelOutcome, AfterCancelLoop
<1>10. CASE Closing \/ CallRaises \/ Crash
  BY <1>1, <1>10 DEF Closing, HandleException, FinishRun, CallRaises, Crash
<1>11. CASE UNCHANGED vars
  BY <1>11 DEF vars, AccountedGate, TodayOf, Accounted
<1>12. QED
  BY <1>4, <1>5, <1>6, <1>7, <1>8, <1>9, <1>10, <1>11 DEF Next, Program, Broker

\* A step that submits an order does it for what the run wants.
LEMMA SubmissionStep ==
  ASSUME TypeInv, [Next]_vars, NEW o \in OrderIds, Submits(o)
  PROVE  pc = "submit" /\ intent'[o] = want
<1>1. ASSUME NEW x \in OrderIds, SubmitOrder(x) \/ SubmitReplyLost(x)
      PROVE  pc = "submit" /\ intent'[o] = want
  <2>1. pc = "submit" /\ BrokerTakes(x)
    BY <1>1 DEF SubmitOrder, SubmitReplyLost
  <2>2. x = o
    BY <2>1 DEF BrokerTakes, Submits, TypeInv, TypeOK
  <2>3. QED
    BY <2>1, <2>2 DEF BrokerTakes, TypeInv, TypeOK
<1>2. ASSUME UNCHANGED bstate PROVE FALSE
  BY <1>2 DEF Submits
<1>3. ASSUME NEW x, NEW b, bstate[x] = "OPEN", x \in OrderIds,
             bstate' = [bstate EXCEPT ![x] = b]
      PROVE  FALSE
  BY <1>3 DEF Submits, TypeInv, TypeOK
<1>4. CASE Submission
  <2>1. CASE \/ \E i \in Intents : StartRun(i)
             \/ \E v \in Views : CheckReconciliation(v)
             \/ CheckIntent \/ SubmitRefused \/ RecordOrder
    BY <1>2, <2>1 DEF StartRun, CheckReconciliation, CheckIntent, SubmitRefused, RecordOrder,
      brokerVars
  <2>2. QED
    BY <1>1, <1>4, <2>1 DEF Submission
<1>5. CASE Booking
  BY <1>2, <1>5 DEF Booking, Poll, RecordFilled, CorrectFills, UpdatePosition,
    RecordPositionEvent, Settle, Announce, brokerVars
<1>6. CASE CancelLoop
  <2>1. CASE CancelAccepted \/ CancelReplyLost
    BY <1>2, <1>3, <2>1 DEF CancelAccepted, CancelReplyLost, TypeInv, RunMemory, OrderPoints
  <2>2. CASE \/ RequestCancelLocally \/ CancelGivesUp \/ CancelFails
             \/ SaveCancelOutcome \/ AfterCancelLoop
             \/ \E v \in Views : CancelPoll(v)
    BY <1>2, <2>2 DEF RequestCancelLocally, CancelGivesUp, CancelPoll, CancelFails,
      SaveCancelOutcome, AfterCancelLoop, brokerVars
  <2>3. QED
    BY <1>6, <2>1, <2>2 DEF CancelLoop
<1>7. CASE Closing \/ CallRaises \/ Crash \/ UNCHANGED vars
  BY <1>2, <1>7 DEF Closing, HandleException, FinishRun, CallRaises, Crash, brokerVars, vars
<1>8. CASE Broker
  BY <1>8 DEF Broker, BrokerFills, BrokerCloses, NewDay, Submits, TypeInv, TypeOK
<1>9. QED
  BY <1>4, <1>5, <1>6, <1>7, <1>8 DEF Next, Program

\* With complete views and one share per order, whatever crashes, raises or is
\* lost, no order goes out while an execution of the symbol's orders of the day
\* is neither booked nor behind a locally open order (the gate of run() on
\* FILL_MISMATCH, and the runs' fill correction).
THEOREM SubmitOnlyWhenAccountedCorrect ==
  ASSUME Qty = 1 PROVE Spec => SubmitOnlyWhenAccounted
<1> DEFINE Views0 == CompleteViews /\ "lateFill" \notin faults
           Inv == Views0 => GateInv /\ AccountedGate
           Kept == \A o \in OrderIds :
                     (CompleteViews /\ "lateFill" \notin faults /\ Submits(o)) =>
                        \A p \in TodayOf(intent'[o].symbol) :
                          booked[p] = bfilled[p] \/ status[p] \in LocalOpenStatuses
<1>1. Init => Inv
  BY DEF Init, GateInv, LiveOrderVisible, GatePassed, MarketIntentUnique, AccountedGate
<1>2. OneShareInv /\ Inv /\ [Next]_vars => Inv'
  <2> SUFFICES ASSUME OneShareInv, Inv, [Next]_vars PROVE Inv'
    OBVIOUS
  <2>1. Views0' = Views0
    BY FaultsFixed DEF CompleteViews
  <2>2. Views0 => GateInv' /\ AccountedGate'
    BY GateStep, AccountedStep DEF OneShareInv
  <2>3. QED
    BY <2>1, <2>2
<1>3. OneShareInv /\ Inv /\ [Next]_vars => [Kept]_vars
  <2> SUFFICES ASSUME OneShareInv, Inv, [Next]_vars, CompleteViews, "lateFill" \notin faults,
                      NEW o \in OrderIds, Submits(o), NEW p \in TodayOf(intent'[o].symbol)
               PROVE  booked[p] = bfilled[p] \/ status[p] \in LocalOpenStatuses
    OBVIOUS
  <2>1. pc = "submit" /\ intent'[o] = want
    BY SubmissionStep DEF OneShareInv
  <2>2. QED
    BY <2>1 DEF AccountedGate, Accounted
<1> HIDE DEF Inv
<1>4. QED
  BY <1>1, <1>2, <1>3, OneShareInvariant, PTL DEF Spec, SubmitOnlyWhenAccounted

-----------------------------------------------------------------------------
(* A run is reported FILLED exactly when it booked *)

\* The run's order before the correction that books it.
Unbooked == {"record", "poll", "filled", "fix", "cancel", "cancelTop", "cancelReq",
             "cancelSave", "audit"}

\* What the run knows of its order's execution, undisturbed.
ReportPhase ==
  /\ \A o \in OrderIds : bstate[o] # "NONE" => btoday[o]
  /\ pc \in {"idle", "recon", "price", "submit"} => cur = None
  /\ pc \notin {"announce", "finish"} => result # "FILLED"
  /\ pc \in OrderPoints => bstate[cur] # "NONE"
  /\ pc \in Unbooked => fills[cur] = {}
  /\ pc = "filled" => bstate[cur] = "FILLED"
  /\ (pc \in {"cancelSave", "audit"} /\ ret = "FILLED") => bstate[cur] = "FILLED"
  /\ (pc = "fix" /\ caller # "cancelled") => bstate[cur] = "FILLED"
  /\ pc \in {"fix", "position", "event", "settle"} => caller # "midCancel"
  /\ pc \in {"position", "event"} => fills[cur] # {}
  /\ pc = "settle" => /\ delta > 0 <=> fills[cur] # {}
                      /\ caller # "cancelled" => delta > 0
  /\ pc = "announce" => IF caller = "polled" THEN fills[cur] # {}
                        ELSE result = "FILLED" <=> fills[cur] # {}
  /\ (pc = "handler" /\ cur # None) => fills[cur] = {}
  /\ (pc = "finish" /\ cur # None) => (result = "FILLED" <=> fills[cur] # {})

\* An undisturbed snapshot of one share shows what the broker did.
LEMMA SnapshotTells ==
  ASSUME Qty = 1, Undisturbed, OneShareInv, NEW v \in Views, NEW o \in OrderIds,
         bstate[o] # "NONE", btoday[o]
  PROVE  /\ Snapshot(o, v).filled = bfilled[o]
         /\ SnapshotState(Snapshot(o, v)) = "FILLED" <=> bstate[o] = "FILLED"
         /\ SnapshotState(Snapshot(o, v)) = "CANCELLED" => Snapshot(o, v).filled = 0
<1>1. v.unfilled /\ v.history /\ v.unmapped = {}
  BY DEF Views, Undisturbed
<1>2. bfilled[o] \in 0 .. 1 /\ (bfilled[o] # 0 <=> bstate[o] = "FILLED")
  BY DEF OneShareInv, SharesMatch, TypeInv, TypeOK
<1>3. CASE bstate[o] = "OPEN"
  <2>1. Snapshot(o, v) = UnfilledRow(o)
    BY <1>1, <1>3 DEF Snapshot, InUnfilled
  <2>2. QED
    BY <1>2, <1>3, <2>1 DEF UnfilledRow, SnapshotState
<1>4. CASE bstate[o] # "OPEN"
  <2>1. Snapshot(o, v) = HistoryRow(o, v)
    BY <1>1, <1>4 DEF Snapshot, InUnfilled, InHistory
  <2>2. bstate[o] \in {"FILLED", "CANCELLED", "REJECTED", "FAILED", "EXPIRED"}
    BY <1>4 DEF OneShareInv, TypeInv, TypeOK, BrokerStates
  <2>3. HistoryRow(o, v) = [status |-> IF bstate[o] = "EXPIRED" THEN "UNKNOWN" ELSE bstate[o],
                            filled |-> bfilled[o]]
    BY <1>1, <2>2 DEF HistoryRow
  <2>4. QED
    BY <1>2, <2>1, <2>2, <2>3 DEF SnapshotState
<1>5. QED
  BY <1>3, <1>4

LEMMA ReportStep ==
  ASSUME Qty = 1, Undisturbed, OneShareInv, ReportPhase, [Next]_vars
  PROVE  ReportPhase'
<1>0. /\ TypeInv /\ TypeOK /\ RunMemory /\ SharesMatch /\ NoOverBooking
      /\ cur \in OrderIds \cup {None} /\ None \notin OrderIds
      /\ pc \in OrderPoints => cur \in OrderIds
      /\ bstate \in [OrderIds -> BrokerStates]
      /\ btoday \in [OrderIds -> BOOLEAN]
      /\ fills \in [OrderIds -> SUBSET (1 .. Qty)]
  BY ConstantsAssumption DEF OneShareInv, TypeInv, TypeOK, RunMemory, ConstantsAssumption
<1> USE DEF ReportPhase, OrderPoints, Unbooked
<1>1. CASE \E i \in Intents : StartRun(i)
  BY <1>0, <1>1 DEF StartRun, brokerVars
<1>2. CASE \E v \in Views : CheckReconciliation(v)
  BY <1>0, <1>2 DEF CheckReconciliation, storeVars, brokerVars
<1>3. CASE CheckIntent
  BY <1>0, <1>3 DEF CheckIntent, storeVars, brokerVars
<1>4. ASSUME NEW o \in OrderIds, SubmitOrder(o) \/ SubmitReplyLost(o) PROVE ReportPhase'
  <2>1. bstate[o] = "NONE" /\ fills[o] = {}
    <3>1. bstate[o] = "NONE"
      BY <1>4 DEF SubmitOrder, SubmitReplyLost, BrokerTakes
    <3>2. booked[o] = 0
      BY <1>0, <3>1 DEF SharesMatch, NoOverBooking, TypeOK
    <3>3. QED
      BY <1>0, <3>1, <3>2 DEF SharesMatch
  <2>2. CASE SubmitOrder(o)
    BY <1>0, <2>1, <2>2 DEF SubmitOrder, BrokerTakes
  <2>3. CASE SubmitReplyLost(o)
    BY <1>0, <2>1, <2>3 DEF SubmitReplyLost, BrokerTakes
  <2>4. QED
    BY <1>4, <2>2, <2>3
<1>5. CASE SubmitRefused
  BY <1>0, <1>5 DEF SubmitRefused, storeVars, brokerVars
<1>6. CASE RecordOrder
  BY <1>0, <1>6 DEF RecordOrder, brokerVars
<1>7. ASSUME NEW v \in Views, Poll(v) PROVE ReportPhase'
  <2>1. SnapshotState(Snapshot(cur, v)) = "FILLED" <=> bstate[cur] = "FILLED"
    BY <1>0, <1>7, SnapshotTells DEF Poll
  <2>2. QED
    BY <1>0, <1>7, <2>1 DEF Poll, brokerVars
<1>8. CASE RecordFilled
  BY <1>0, <1>8 DEF RecordFilled, brokerVars
<1>9. ASSUME NEW v \in Views, CorrectFills(v) PROVE ReportPhase'
  <2>1. cur \in OrderIds /\ pc = "fix" /\ fills[cur] = {} /\ booked[cur] = 0
    BY <1>0, <1>9 DEF CorrectFills, SharesMatch
  <2>2. Snapshot(cur, v).filled = bfilled[cur] /\ bfilled[cur] \in 0 .. 1
    BY <1>0, <1>9, <2>1, SnapshotTells DEF TypeOK
  <2>3. MissingFill(cur, Snapshot(cur, v).filled) = bfilled[cur]
    BY <2>1, <2>2 DEF MissingFill
  <2>4. CASE bfilled[cur] = 0
    <3>1. bstate[cur] # "FILLED"
      BY <1>0, <2>1, <2>4 DEF SharesMatch
    <3>2. delta' = 0 /\ pc' = "settle" /\ UNCHANGED fills
      BY <1>9, <2>3, <2>4 DEF CorrectFills
    <3>3. UNCHANGED <<cur, result, caller, ret, bstate, btoday>>
      BY <1>9 DEF CorrectFills, brokerVars
    <3>4. QED
      BY <2>1, <3>1, <3>2, <3>3
  <2>5. CASE bfilled[cur] = 1
    <3>1. /\ pc' = "position"
          /\ fills' = [fills EXCEPT ![cur] = @ \cup {1}]
      BY <1>9, <2>1, <2>3, <2>5 DEF CorrectFills, DuplicateFill
    <3>2. UNCHANGED <<cur, result, caller, ret, bstate, btoday>>
      BY <1>9 DEF CorrectFills, brokerVars
    <3>3. QED
      BY <1>0, <2>1, <3>1, <3>2
  <2>6. QED
    BY <2>2, <2>4, <2>5
<1>10. CASE UpdatePosition
  BY <1>0, <1>10 DEF UpdatePosition, brokerVars
<1>11. CASE RecordPositionEvent
  BY <1>0, <1>11 DEF RecordPositionEvent, RunMemory, brokerVars
<1>12. CASE Settle
  BY <1>0, <1>12 DEF Settle, TypeOK, Callers, storeVars, brokerVars
<1>13. CASE Announce
  BY <1>0, <1>13 DEF Announce, storeVars, brokerVars
<1>14. CASE RequestCancelLocally
  BY <1>0, <1>14 DEF RequestCancelLocally, brokerVars
<1>15. CASE CancelGivesUp
  BY <1>0, <1>15 DEF CancelGivesUp, storeVars, brokerVars
<1>16. ASSUME NEW v \in Views, CancelPoll(v) PROVE ReportPhase'
  <2>1. /\ SnapshotState(Snapshot(cur, v)) = "FILLED" <=> bstate[cur] = "FILLED"
        /\ SnapshotState(Snapshot(cur, v)) = "CANCELLED" => Snapshot(cur, v).filled = 0
    BY <1>0, <1>16, SnapshotTells DEF CancelPoll
  <2>2. QED
    BY <1>0, <1>16, <2>1 DEF CancelPoll, brokerVars
<1>17. CASE CancelAccepted
  BY <1>0, <1>17 DEF CancelAccepted, storeVars
<1>18. CASE CancelFails
  BY <1>0, <1>18 DEF CancelFails, storeVars, brokerVars
<1>19. CASE CancelReplyLost
  BY <1>0, <1>19 DEF CancelReplyLost, storeVars
<1>20. CASE SaveCancelOutcome
  BY <1>0, <1>20 DEF SaveCancelOutcome, brokerVars
<1>21. CASE AfterCancelLoop
  BY <1>0, <1>21 DEF AfterCancelLoop, storeVars, brokerVars
<1>22. CASE HandleException
  BY <1>0, <1>22 DEF HandleException, brokerVars
<1>23. CASE FinishRun
  BY <1>0, <1>23 DEF FinishRun, Forget, brokerVars
<1>24. CASE CallRaises \/ Crash \/ NewDay
  BY <1>24 DEF CallRaises, Crash, NewDay, Undisturbed
<1>25. ASSUME NEW o \in OrderIds, NEW q \in 1 .. Qty, BrokerFills(o, q) PROVE ReportPhase'
  <2>1. UNCHANGED <<pc, cur, result, caller, ret, delta, fills, btoday>>
    BY <1>25 DEF BrokerFills, procVars, storeVars
  <2>2. bstate[o] # "NONE" /\ bfilled[o] + q = Qty
    BY <1>0, <1>25 DEF BrokerFills, TypeOK
  <2>3. bstate' = [bstate EXCEPT ![o] = "FILLED"]
    BY <1>25, <2>2 DEF BrokerFills
  <2>4. QED
    BY <1>0, <2>1, <2>2, <2>3
<1>26. ASSUME NEW o \in OrderIds, NEW final \in {"CANCELLED", "REJECTED", "FAILED"},
              BrokerCloses(o, final)
       PROVE  ReportPhase'
  BY <1>0, <1>26 DEF BrokerCloses, procVars, storeVars
<1>27. CASE UNCHANGED vars
  BY <1>27 DEF vars
<1> HIDE DEF ReportPhase
<1>28. QED
  BY <1>1, <1>2, <1>3, <1>4, <1>5, <1>6, <1>7, <1>8, <1>9, <1>10, <1>11, <1>12, <1>13, <1>14,
     <1>15, <1>16, <1>17, <1>18, <1>19, <1>20, <1>21, <1>22, <1>23, <1>24, <1>25, <1>26, <1>27
  DEF Next, Program, Submission, Booking, CancelLoop, Closing, Broker

\* With one share per order, and disturbed by lost replies and late fills at
\* most, a run that reached the broker is reported FILLED exactly when it booked
\* the execution, whether the fill came while it polled or while it cancelled.
THEOREM ResultTellsBookingCorrect ==
  ASSUME Qty = 1 PROVE Spec => []ResultTellsBooking
<1> DEFINE Inv == Undisturbed => ReportPhase
<1>1. Init => Inv
  BY DEF Init, ReportPhase, OrderPoints, Unbooked
<1>2. OneShareInv /\ Inv /\ [Next]_vars => Inv'
  <2> SUFFICES ASSUME OneShareInv, Inv, [Next]_vars PROVE Inv'
    OBVIOUS
  <2>1. Undisturbed' = Undisturbed
    BY FaultsFixed DEF Undisturbed
  <2>2. QED
    BY <2>1, ReportStep
<1>3. Inv => ResultTellsBooking
  BY DEF ReportPhase, ResultTellsBooking
<1> HIDE DEF Inv
<1>4. QED
  BY <1>1, <1>2, <1>3, OneShareInvariant, PTL DEF Spec

=============================================================================
