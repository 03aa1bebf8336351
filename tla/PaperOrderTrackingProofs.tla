---------------------- MODULE PaperOrderTrackingProofs ----------------------
(***************************************************************************)
(* Proofs about PaperOrderTracking, for any number of decisions, symbols   *)
(* and days and for any limits: the symbol of an order that the broker may *)
(* still execute stays blocked, and a fill row stands for an execution,    *)
(* once.                                                                   *)
(***************************************************************************)
EXTENDS PaperOrderTracking, FiniteSetTheorems, TLAPS

\* The run has passed the check for active orders.
Own == {"claim", "baseline", "submit", "unknown", "fail"} \cup TailPoints

\* Nothing tells of the decision yet.
Untouched(d) ==
  bstate[d] = "NONE" /\ status[d] = "ABSENT" /\ event[d] = "NONE" /\ failure[d] = "NONE"
    /\ fills[d] = {} /\ baseline[d] = NoBaseline

\* Where a run stands, and what it has in hand there.
Working ==
  /\ at = "read" => latest \notin claimed
  /\ at \in RefreshPoints \cup {"claim"} => dec \notin claimed
  /\ at \in Own => dec \in Decisions /\ todo = {}
  /\ at \in Own \ {"claim"} => dec \in claimed
  /\ todo \subseteq ActiveOrders
  /\ at \in {"position", "write"} => cur \in ActiveOrders
  /\ at = "mirror" => cur \in Decisions /\ status[cur] = local
  /\ at \in {"position", "write", "mirror"} => cur \notin todo
  /\ at = "position" => baseline[cur] # NoBaseline
  /\ \A d \in Decisions \ claimed : Untouched(d)
  /\ at \in {"baseline", "submit"} => Untouched(dec)
  /\ at \in Own => baseline[dec] = NoBaseline
  /\ at \in Own \ {"audit", "unknown"} => event[dec] = "NONE"
  /\ at \in {"record", "snap", "save", "book"} => fills[dec] = {}

\* The order blocks its symbol, by its row, by an event, or since the run that
\* submits it has not ended.
Holds(d) ==
  \/ status[d] \in Active
  \/ d \notin hidden /\ (event[d] \in Active \/ failure[d] \in Active)
  \/ at \in Own /\ dec = d

\* One order to a symbol, none that may be executed goes without its block, and
\* the position grows by nothing but that order.
Blocks ==
  /\ \A d, e \in Decisions : (Holds(d) /\ Holds(e) /\ symbol[d] = symbol[e]) => d = e
  /\ \A d \in Decisions : bstate[d] = "OPEN" => Holds(d)
  /\ \A d \in Decisions :
       (Holds(d) /\ baseline[d] # NoBaseline /\ bstate[d] # "FILLED") =>
          Held(symbol[d]) = baseline[d]
  /\ (at \in {"submit"} \cup TailPoints /\ bstate[dec] # "FILLED") => Held(symbol[dec]) = base

\* A status that is not active is the broker's word, or the position's; what is
\* left to a later run is in sight: an event is hidden only if no call raises,
\* and then the order's row is there.
Reports ==
  /\ at \in {"position", "write", "mirror"} =>
       /\ local \notin Active => bstate[cur] # "OPEN"
       /\ local = "FILLED" => bstate[cur] = "FILLED"
  /\ at \in {"save", "book", "settle", "event", "audit"} =>
       /\ local \notin Active => bstate[dec] # "OPEN"
       /\ local = "FILLED" => bstate[dec] = "FILLED"
  /\ at = "settle" => bstate[dec] = "FILLED"
  /\ at = "book" => local = "FILLED"
  /\ at = "fail" => bstate[dec] = "NONE"
  /\ at = "audit" => event[dec] = local
  /\ at = "unknown" => "raise" \in faults
  /\ "raise" \in faults => hidden = {}
  /\ "raise" \notin faults =>
       \A d \in Decisions : bstate[d] = "OPEN" => status[d] \in Active \/ (at = "record" /\ dec = d)
  /\ \A d \in Decisions : fills[d] # {} => bstate[d] = "FILLED"

\* Without crashes and exceptions: an active order has no fill, but for the one
\* whose status is being written, and a filled one has one.
Booking ==
  /\ at = "position" => local # "FILLED"
  /\ at \in {"write", "mirror"} /\ local = "FILLED" => fills[cur] # {}
  /\ at = "book" => status[dec] = "FILLED"
  /\ at = "settle" => fills[dec] # {}
  /\ \A d \in Decisions : status[d] \in Active /\ ~(at = "write" /\ cur = d) => fills[d] = {}
  /\ at = "write" /\ local \in Active => fills[cur] = {}
  /\ \A d \in Decisions : fills[d] = {} \/ \E s \in Sources : fills[d] = {s}
  /\ \A d \in Decisions : status[d] = "FILLED" => fills[d] # {} \/ (at = "book" /\ dec = d)

\* Without exceptions, runs may die: FILLED has its fill, but for the first look,
\* which writes the fill and then the event after it.
Survives ==
  /\ at = "position" => local # "FILLED"
  /\ at \in {"write", "mirror"} /\ local = "FILLED" => fills[cur] # {}
  /\ at = "settle" => fills[dec] # {}
  /\ at = "event" /\ status[dec] = "FILLED" => fills[dec] # {}
  /\ \A d \in Decisions : status[d] = "FILLED" /\ event[d] # "NONE" => fills[d] # {}

TrackInv ==
  /\ TypeOK /\ Working
  /\ Remembering => Blocks /\ Reports
  /\ faults \cap {"crash", "raise"} = {} => Booking
  /\ "raise" \notin faults => Survives

-----------------------------------------------------------------------------
\* The assumptions in the form the steps need.
LEMMA TrackFacts == None \notin Decisions /\ Days \in Nat \ {0} /\ IsFiniteSet(Decisions)
BY TrackingAssumption DEF TrackingAssumption

\* A position is a number.
LEMMA HeldNat == \A s : Held(s) \in Nat
<1> SUFFICES ASSUME NEW s PROVE Held(s) \in Nat
  OBVIOUS
<1> DEFINE S == { d \in Decisions : bstate[d] = "FILLED" /\ symbol[d] = s }
<1>1. IsFiniteSet(S)
  BY FS_Subset, TrackingAssumption DEF TrackingAssumption
<1>2. QED
  BY <1>1, FS_CardinalityType DEF Held

\* A position changes only when an order of its symbol is executed.
LEMMA HeldSame ==
  ASSUME UNCHANGED symbol,
         \A d \in Decisions : bstate'[d] = "FILLED" <=> bstate[d] = "FILLED"
  PROVE  \A s : Cardinality({ d \in Decisions : bstate'[d] = "FILLED" /\ symbol'[d] = s })
                = Held(s)
<1> SUFFICES ASSUME NEW s
    PROVE Cardinality({ d \in Decisions : bstate'[d] = "FILLED" /\ symbol'[d] = s }) = Held(s)
  OBVIOUS
<1>1. { d \in Decisions : bstate'[d] = "FILLED" /\ symbol'[d] = s }
      = { d \in Decisions : bstate[d] = "FILLED" /\ symbol[d] = s }
  OBVIOUS
<1>2. QED
  BY <1>1 DEF Held

\* What the two status maps return.
LEMMA StatusMaps ==
  ASSUME NEW d, NEW a \in SnapshotAnswers
  PROVE  /\ RefreshedStatus(d, a) \in LocalStatuses /\ FirstStatus(a) \in LocalStatuses
         /\ RefreshedStatus(d, a) = "FILLED" <=> a = "FILLED"
         /\ FirstStatus(a) = "FILLED" <=> a = "FILLED"
         /\ RefreshedStatus(d, a) \notin Active => a \in {"FILLED", "CLOSED"}
         /\ FirstStatus(a) \notin Active => a \in {"FILLED", "CLOSED"}
<1> USE DEF RefreshedStatus, FirstStatus, SnapshotAnswers, LocalStatuses, Active
<1>1. a \in {"NOT_FOUND", "UNKNOWN", "PENDING", "FILLED", "CLOSED", "FAILED"}
  OBVIOUS
<1>2. FirstStatus(a) = IF a \in {"FILLED", "CLOSED"} THEN a ELSE "PENDING"
  BY <1>1
<1>3. RefreshedStatus(d, a) \in IF a \in {"FILLED", "CLOSED"} THEN {a} ELSE {"PENDING", "UNKNOWN"}
  BY <1>1
<1>4. QED
  BY <1>1, <1>2, <1>3

\* The broker shows an execution, or an end, that has taken place.
LEMMA TrueAnswers ==
  ASSUME NEW d \in Decisions, NEW a \in Answers(d)
  PROVE  /\ a = "FILLED" => bstate[d] = "FILLED"
         /\ a = "CLOSED" => bstate[d] = "CLOSED"
BY DEF Answers

\* Initially nobody has decided or submitted anything.
LEMMA TrackInit == Init => TrackInv
<1> SUFFICES ASSUME Init PROVE TrackInv
  OBVIOUS
<1> USE TrackingAssumption DEF TrackingAssumption, Init
<1>1. TypeOK
  <2>1. 1 \in 1 .. Days /\ 0 \in 0 .. Days /\ 0 \in 0 .. 2 /\ 0 \in Nat
    OBVIOUS
  <2>2. fills \in [Decisions -> SUBSET Sources] /\ symbol \in [Decisions -> Symbols]
    OBVIOUS
  <2>3. day \in [Decisions -> 0 .. Days] /\ age \in [Decisions -> 0 .. 2]
        /\ baseline \in [Decisions -> Nat \cup {NoBaseline}]
    BY <2>1
  <2>4. QED
    BY <2>1, <2>2, <2>3 DEF TypeOK, Points, LocalStatuses, Active, BrokerStates
<1>2. Working
  BY DEF Working, Own, RefreshPoints, TailPoints, ActiveOrders, Untouched
<1>3. Blocks /\ Reports
  BY DEF Blocks, Reports, Holds, Own, TailPoints, Active
<1>4. Booking /\ Survives
  BY DEF Booking, Survives, Active
<1>5. QED
  BY <1>1, <1>2, <1>3, <1>4 DEF TrackInv

\* Every step keeps the types.
LEMMA TypeStep ==
  TypeOK /\ Working /\ [Next]_vars => TypeOK'
<1> SUFFICES ASSUME TypeOK, Working, [Next]_vars PROVE TypeOK'
  OBVIOUS
<1> USE TrackFacts
    DEF TypeOK, Working, Own, Goto, End, Points, RefreshPoints, TailPoints, runVars,
        storeVars, brokerVars, LocalStatuses, Active, BrokerStates
<1>1. CASE PassGuard
  BY <1>1 DEF PassGuard
<1>2. CASE Decide
  BY <1>2 DEF Decide
<1>3. CASE ReadDecision
  BY <1>3 DEF ReadDecision
<1>4. CASE ListOrders
  BY <1>4 DEF ListOrders, ActiveOrders
<1>5. ASSUME NEW d \in Decisions, NEW a \in SnapshotAnswers, LookUp(d, a) PROVE TypeOK'
  BY <1>5, StatusMaps DEF LookUp, Sources, LocalStatuses
<1>6. CASE AskPosition
  BY <1>6 DEF AskPosition, Sources
<1>7. CASE WriteStatus
  BY <1>7 DEF WriteStatus
<1>8. CASE MirrorStatus
  BY <1>8 DEF MirrorStatus
<1>9. CASE RefreshRaises
  BY <1>9 DEF RefreshRaises
<1>10. CASE CheckActive
  BY <1>10 DEF CheckActive
<1>11. CASE Claim
  BY <1>11 DEF Claim
<1>12. CASE ReadBaseline
  BY <1>12, HeldNat DEF ReadBaseline
<1>13. CASE SubmitOrder
  BY <1>13 DEF SubmitOrder, BrokerTakes
<1>14. CASE SubmitReplyLost
  BY <1>14 DEF SubmitReplyLost, BrokerTakes
<1>15. CASE SubmitRefused
  BY <1>15 DEF SubmitRefused
<1>16. CASE RecordOrder
  BY <1>16 DEF RecordOrder
<1>17. ASSUME NEW a \in SnapshotAnswers, FirstLook(a) PROVE TypeOK'
  BY <1>17, StatusMaps DEF FirstLook
<1>18. CASE SaveStatus
  BY <1>18 DEF SaveStatus
<1>19. CASE BookFill
  BY <1>19 DEF BookFill, Sources
<1>20. CASE SettleStatus
  BY <1>20 DEF SettleStatus
<1>21. CASE RecordEvent
  BY <1>21 DEF RecordEvent
<1>22. CASE RecordBaseline
  BY <1>22 DEF RecordBaseline
<1>23. CASE TailRaises
  BY <1>23 DEF TailRaises
<1>24. CASE MarkUnknown
  BY <1>24 DEF MarkUnknown
<1>25. CASE MarkFailed
  BY <1>25 DEF MarkFailed
<1>26. CASE IterationRaises
  BY <1>26 DEF IterationRaises
<1>27. CASE Crash
  BY <1>27 DEF Crash
<1>28. CASE NextBucket
  BY <1>28 DEF NextBucket
<1>29. ASSUME NEW d \in Decisions, NEW b \in BrokerStates, BrokerMoves(d, b) PROVE TypeOK'
  BY <1>29 DEF BrokerMoves
<1>30. CASE GrowOlder
  BY <1>30 DEF GrowOlder
<1>31. CASE NewDay
  BY <1>31 DEF NewDay
<1>32. ASSUME NEW d \in Decisions, HideEvents(d) PROVE TypeOK'
  BY <1>32 DEF HideEvents
<1>33. CASE UNCHANGED vars
  BY <1>33 DEF vars
<1> HIDE DEF TypeOK
<1>34. QED
  BY <1>1, <1>2, <1>3, <1>4, <1>5, <1>6, <1>7, <1>8, <1>9, <1>10, <1>11, <1>12, <1>13, <1>14,
     <1>15, <1>16, <1>17, <1>18, <1>19, <1>20, <1>21, <1>22, <1>23, <1>24, <1>25, <1>26, <1>27,
     <1>28, <1>29, <1>30, <1>31, <1>32, <1>33
  DEF Next, Program, Iterate, Refresh, Submit, Environment

\* Every step keeps what a run has in hand.
LEMMA WorkingStep ==
  TypeOK /\ Working /\ [Next]_vars => Working'
<1> SUFFICES ASSUME TypeOK, Working, [Next]_vars PROVE Working'
  OBVIOUS
<1> USE TrackFacts
    DEF TypeOK, Working, Own, Goto, End, RefreshPoints, TailPoints, runVars, storeVars,
        brokerVars, ActiveOrders, Untouched, BaselineKnown, Named
<1>1. CASE PassGuard
  BY <1>1 DEF PassGuard
<1>2. CASE Decide
  BY <1>2 DEF Decide
<1>3. CASE ReadDecision
  BY <1>3 DEF ReadDecision
<1>4. CASE ListOrders
  BY <1>4 DEF ListOrders
<1>5. ASSUME NEW d \in Decisions, NEW a \in SnapshotAnswers, LookUp(d, a) PROVE Working'
  <2>1. /\ at = "refresh" /\ d \in todo /\ todo' = todo \ {d} /\ cur' = d
        /\ at' \in {"position", "write"}
        /\ at' = "position" => baseline[d] # NoBaseline
        /\ UNCHANGED <<dec, latest, claimed, status, event, failure, baseline, bstate>>
    BY <1>5 DEF LookUp
  <2>2. d \in claimed /\ status[d] \in Active
    BY <2>1 DEF Active
  <2>3. \A e \in Decisions \ {d} : fills'[e] = fills[e]
    BY <1>5 DEF LookUp
  <2>4. QED
    BY <2>1, <2>2, <2>3
<1>6. CASE AskPosition
  BY <1>6 DEF AskPosition
<1>7. CASE WriteStatus
  <2>1. /\ at = "write" /\ at' = "mirror" /\ status' = [status EXCEPT ![cur] = local]
        /\ UNCHANGED <<dec, todo, cur, local, latest, claimed, event, failure, fills, baseline,
                       bstate>>
    BY <1>7 DEF WriteStatus
  <2>2. cur \in Decisions /\ cur \notin todo /\ cur \in claimed
    BY <2>1 DEF Active
  <2>3. todo \subseteq ActiveOrders'
    BY <2>1, <2>2
  <2>4. status'[cur] = local /\ \A e \in Decisions \ {cur} : status'[e] = status[e]
    BY <2>1, <2>2
  <2>5. QED
    BY <2>1, <2>2, <2>3, <2>4
<1>8. CASE MirrorStatus
  BY <1>8 DEF MirrorStatus
<1>9. CASE RefreshRaises
  BY <1>9 DEF RefreshRaises
<1>10. CASE CheckActive
  BY <1>10 DEF CheckActive, Free
<1>11. CASE Claim
  BY <1>11 DEF Claim
<1>12. CASE ReadBaseline
  BY <1>12 DEF ReadBaseline
<1>13. CASE SubmitOrder
  BY <1>13 DEF SubmitOrder, BrokerTakes
<1>14. CASE SubmitReplyLost
  BY <1>14 DEF SubmitReplyLost, BrokerTakes
<1>15. CASE SubmitRefused
  BY <1>15 DEF SubmitRefused
<1>16. CASE RecordOrder
  BY <1>16 DEF RecordOrder
<1>17. ASSUME NEW a \in SnapshotAnswers, FirstLook(a) PROVE Working'
  BY <1>17 DEF FirstLook
<1>18. CASE SaveStatus
  BY <1>18 DEF SaveStatus
<1>19. CASE BookFill
  BY <1>19 DEF BookFill
<1>20. CASE SettleStatus
  BY <1>20 DEF SettleStatus
<1>21. CASE RecordEvent
  BY <1>21 DEF RecordEvent
<1>22. CASE RecordBaseline
  BY <1>22 DEF RecordBaseline
<1>23. CASE TailRaises
  BY <1>23 DEF TailRaises
<1>24. CASE MarkUnknown
  BY <1>24 DEF MarkUnknown
<1>25. CASE MarkFailed
  BY <1>25 DEF MarkFailed
<1>26. CASE IterationRaises
  BY <1>26 DEF IterationRaises
<1>27. CASE Crash
  BY <1>27 DEF Crash
<1>28. CASE NextBucket
  BY <1>28 DEF NextBucket
<1>29. ASSUME NEW d \in Decisions, NEW b \in BrokerStates, BrokerMoves(d, b) PROVE Working'
  BY <1>29 DEF BrokerMoves
<1>30. CASE GrowOlder
  BY <1>30 DEF GrowOlder
<1>31. CASE NewDay
  BY <1>31 DEF NewDay
<1>32. ASSUME NEW d \in Decisions, HideEvents(d) PROVE Working'
  BY <1>32 DEF HideEvents
<1>33. CASE UNCHANGED vars
  BY <1>33 DEF vars
<1> HIDE DEF Working
<1>34. QED
  BY <1>1, <1>2, <1>3, <1>4, <1>5, <1>6, <1>7, <1>8, <1>9, <1>10, <1>11, <1>12, <1>13, <1>14,
     <1>15, <1>16, <1>17, <1>18, <1>19, <1>20, <1>21, <1>22, <1>23, <1>24, <1>25, <1>26, <1>27,
     <1>28, <1>29, <1>30, <1>31, <1>32, <1>33
  DEF Next, Program, Iterate, Refresh, Submit, Environment

\* Without crashes and exceptions every step books an execution once, next to FILLED.
LEMMA BookingStep ==
  TypeOK /\ Working /\ faults \cap {"crash", "raise"} = {} /\ Booking /\ [Next]_vars => Booking'
<1> SUFFICES ASSUME TypeOK, Working, faults \cap {"crash", "raise"} = {}, Booking, [Next]_vars
             PROVE Booking'
  OBVIOUS
<1> USE TrackFacts
    DEF TypeOK, Working, Booking, Own, Goto, End, RefreshPoints, TailPoints, runVars,
        storeVars, brokerVars, ActiveOrders, Untouched
<1>1. CASE PassGuard
  BY <1>1 DEF PassGuard, Active, Sources
<1>2. CASE Decide
  BY <1>2 DEF Decide, Active, Sources
<1>3. CASE ReadDecision
  BY <1>3 DEF ReadDecision, Active, Sources
<1>4. CASE ListOrders
  BY <1>4 DEF ListOrders, Active, Sources
<1>5. ASSUME NEW d \in Decisions, NEW a \in SnapshotAnswers, LookUp(d, a) PROVE Booking'
  <2>1. /\ at = "refresh" /\ d \in todo /\ cur' = d /\ local' = RefreshedStatus(d, a)
        /\ fills' = [fills EXCEPT ![d] = @ \cup (IF a = "FILLED" THEN {"ORDER_STATUS"} ELSE {})]
        /\ a = "FILLED" => at' = "write"
        /\ at' \in {"position", "write"}
        /\ UNCHANGED <<dec, status>>
    BY <1>5 DEF LookUp
  <2>2. fills[d] = {} /\ status[d] \in Active
    BY <2>1
  <2>3. fills'[d] = (IF a = "FILLED" THEN {"ORDER_STATUS"} ELSE {})
        /\ \A e \in Decisions \ {d} : fills'[e] = fills[e]
    BY <2>1, <2>2
  <2>4. local' = "FILLED" <=> a = "FILLED"
    BY <2>1, StatusMaps
  <2>5. a = "FILLED" => local' \notin Active /\ fills'[d] = {"ORDER_STATUS"}
    BY <2>3, <2>4 DEF Active
  <2>6. "ORDER_STATUS" \in Sources
    BY DEF Sources
  <2>7. QED
    BY <2>1, <2>2, <2>3, <2>4, <2>5, <2>6 DEF Active
<1>6. CASE AskPosition
  <2>1. fills[cur] = {} /\ cur \in Decisions /\ status[cur] \in Active /\ "raise" \notin faults
    BY <1>6 DEF AskPosition
  <2>2. \/ local' = "FILLED" /\ fills' = [fills EXCEPT ![cur] = {"POSITION_DELTA_FALLBACK"}]
        \/ UNCHANGED <<local, fills>>
    BY <1>6, <2>1 DEF AskPosition
  <2>3. at = "position" /\ at' = "write" /\ UNCHANGED <<dec, cur, status, faults>>
    BY <1>6 DEF AskPosition
  <2>4. "POSITION_DELTA_FALLBACK" \in Sources
    BY DEF Sources
  <2>5. \A e \in Decisions \ {cur} : fills'[e] = fills[e]
    BY <2>1, <2>2
  <2>6. \/ local' = "FILLED" /\ fills'[cur] = {"POSITION_DELTA_FALLBACK"}
        \/ UNCHANGED local /\ fills'[cur] = {}
    BY <2>1, <2>2
  <2>7. \A e \in Decisions : fills'[e] = {} \/ \E s \in Sources : fills'[e] = {s}
    BY <2>4, <2>5, <2>6
  <2>8. CASE local' = "FILLED" /\ fills'[cur] = {"POSITION_DELTA_FALLBACK"}
    BY <2>1, <2>3, <2>5, <2>7, <2>8 DEF Active
  <2>9. CASE UNCHANGED local /\ fills'[cur] = {}
    BY <2>1, <2>3, <2>5, <2>7, <2>9 DEF Active
  <2>10. QED
    BY <2>6, <2>8, <2>9
<1>7. CASE WriteStatus
  BY <1>7 DEF WriteStatus, Active, Sources
<1>8. CASE MirrorStatus
  BY <1>8 DEF MirrorStatus, Active, Sources
<1>9. CASE RefreshRaises
  BY <1>9 DEF RefreshRaises
<1>10. CASE CheckActive
  BY <1>10 DEF CheckActive, Active, Sources
<1>11. CASE Claim
  BY <1>11 DEF Claim, Active, Sources
<1>12. CASE ReadBaseline
  BY <1>12 DEF ReadBaseline, Active, Sources
<1>13. CASE SubmitOrder
  BY <1>13 DEF SubmitOrder, BrokerTakes
<1>14. CASE SubmitReplyLost
  BY <1>14 DEF SubmitReplyLost, BrokerTakes
<1>15. CASE SubmitRefused
  BY <1>15 DEF SubmitRefused, Active, Sources
<1>16. CASE RecordOrder
  BY <1>16 DEF RecordOrder, Active, Sources
<1>17. ASSUME NEW a \in SnapshotAnswers, FirstLook(a) PROVE Booking'
  BY <1>17 DEF FirstLook, Active, Sources
<1>18. CASE SaveStatus
  BY <1>18 DEF SaveStatus, Active, Sources
<1>19. CASE BookFill
  <2>1. /\ fills[dec] = {} /\ dec \in Decisions /\ at = "book" /\ at' = "settle"
        /\ fills' = [fills EXCEPT ![dec] = {"ORDER_STATUS"}]
        /\ UNCHANGED <<dec, cur, local, status>>
    BY <1>19 DEF BookFill
  <2>2. fills'[dec] = {"ORDER_STATUS"} /\ \A e \in Decisions \ {dec} : fills'[e] = fills[e]
    BY <2>1
  <2>3. status[dec] = "FILLED"
    BY <2>1
  <2>4. QED
    BY <2>1, <2>2, <2>3 DEF Sources, Active
<1>20. CASE SettleStatus
  BY <1>20 DEF SettleStatus, Active, Sources
<1>21. CASE RecordEvent
  BY <1>21 DEF RecordEvent, Active, Sources
<1>22. CASE RecordBaseline
  BY <1>22 DEF RecordBaseline, Active, Sources
<1>23. CASE TailRaises
  BY <1>23 DEF TailRaises, Active, Sources
<1>24. CASE MarkUnknown
  BY <1>24 DEF MarkUnknown, Active, Sources
<1>25. CASE MarkFailed
  BY <1>25 DEF MarkFailed, Active, Sources
<1>26. CASE IterationRaises
  BY <1>26 DEF IterationRaises, Active, Sources
<1>27. CASE Crash
  BY <1>27 DEF Crash, Active, Sources
<1>28. CASE NextBucket
  BY <1>28 DEF NextBucket, Active, Sources
<1>29. ASSUME NEW d \in Decisions, NEW b \in BrokerStates, BrokerMoves(d, b) PROVE Booking'
  BY <1>29 DEF BrokerMoves, Active, Sources
<1>30. CASE GrowOlder
  BY <1>30 DEF GrowOlder, Active, Sources
<1>31. CASE NewDay
  BY <1>31 DEF NewDay, Active, Sources
<1>32. ASSUME NEW d \in Decisions, HideEvents(d) PROVE Booking'
  BY <1>32 DEF HideEvents, Active, Sources
<1>33. CASE UNCHANGED vars
  BY <1>33 DEF vars
<1> HIDE DEF Booking
<1>34. QED
  BY <1>1, <1>2, <1>3, <1>4, <1>5, <1>6, <1>7, <1>8, <1>9, <1>10, <1>11, <1>12, <1>13, <1>14,
     <1>15, <1>16, <1>17, <1>18, <1>19, <1>20, <1>21, <1>22, <1>23, <1>24, <1>25, <1>26, <1>27,
     <1>28, <1>29, <1>30, <1>31, <1>32, <1>33
  DEF Next, Program, Iterate, Refresh, Submit, Environment

\* Without exceptions every step, also one that is the last of a run, keeps a
\* fill with FILLED.
LEMMA SurvivesStep ==
  TypeOK /\ Working /\ "raise" \notin faults /\ Survives /\ [Next]_vars => Survives'
<1> SUFFICES ASSUME TypeOK, Working, "raise" \notin faults, Survives, [Next]_vars PROVE Survives'
  OBVIOUS
<1> USE TrackFacts DEF TypeOK, Goto, runVars, storeVars, brokerVars
<1>1. /\ at \in {"position", "write", "mirror"} => cur \in Decisions /\ cur \notin todo
      /\ at \in Own => dec \in Decisions
      /\ at \in Own \ {"audit", "unknown"} => event[dec] = "NONE"
  BY DEF Working, ActiveOrders
<1>2. ASSUME NEW d \in Decisions, NEW a \in SnapshotAnswers, LookUp(d, a) PROVE Survives'
  <2>1. /\ cur' = d /\ local' = RefreshedStatus(d, a)
        /\ fills' = [fills EXCEPT ![d] = @ \cup (IF a = "FILLED" THEN {"ORDER_STATUS"} ELSE {})]
        /\ a = "FILLED" => at' = "write"
        /\ at' \in {"position", "write"} /\ UNCHANGED <<status, event>>
    BY <1>2 DEF LookUp
  <2>2. local' = "FILLED" <=> a = "FILLED"
    BY <2>1, StatusMaps
  <2>3. /\ a = "FILLED" => fills'[d] # {}
        /\ \A e \in Decisions : fills[e] # {} => fills'[e] # {}
    BY <2>1
  <2>4. QED
    BY <2>1, <2>2, <2>3 DEF Survives
<1>3. CASE AskPosition
  <2>1. /\ at = "position" /\ at' = "write" /\ cur \in Decisions
        /\ UNCHANGED <<cur, status, event>>
        /\ \/ fills' = [fills EXCEPT ![cur] = @ \cup {"POSITION_DELTA_FALLBACK"}]
           \/ UNCHANGED <<local, fills>>
    BY <1>1, <1>3 DEF AskPosition
  <2>2. \A e \in Decisions : fills[e] # {} => fills'[e] # {}
    BY <2>1
  <2>3. local' # "FILLED" \/ fills'[cur] # {}
    BY <2>1 DEF Survives
  <2>4. QED
    BY <2>1, <2>2, <2>3 DEF Survives
<1>4. CASE WriteStatus \/ MirrorStatus
  BY <1>1, <1>4 DEF WriteStatus, MirrorStatus, Survives
<1>5. CASE RecordOrder \/ SaveStatus \/ SettleStatus
  BY <1>1, <1>5 DEF RecordOrder, SaveStatus, SettleStatus, Survives, Own, TailPoints
<1>6. CASE BookFill
  <2>1. /\ at = "book" /\ dec \in Decisions /\ at' \in {"event", "settle"}
        /\ fills' = [fills EXCEPT ![dec] = @ \cup {"ORDER_STATUS"}]
        /\ UNCHANGED <<dec, cur, local, status, event>>
    BY <1>1, <1>6 DEF BookFill, Own, TailPoints
  <2>2. fills'[dec] # {} /\ \A e \in Decisions : fills[e] # {} => fills'[e] # {}
    BY <2>1
  <2>3. QED
    BY <2>1, <2>2 DEF Survives
<1>7. CASE RecordEvent
  BY <1>1, <1>7 DEF RecordEvent, Survives, Own, TailPoints
<1>8. CASE PassGuard \/ Decide \/ ReadDecision \/ ListOrders \/ CheckActive \/ Claim
             \/ ReadBaseline \/ SubmitOrder \/ SubmitReplyLost \/ SubmitRefused
             \/ (\E a \in SnapshotAnswers : FirstLook(a))
  <2>1. UNCHANGED <<status, event, fills>>
    BY <1>8 DEF PassGuard, Decide, ReadDecision, ListOrders, CheckActive, Claim, ReadBaseline,
      SubmitOrder, SubmitReplyLost, SubmitRefused, FirstLook
  <2>2. at' \in {"idle", "decide", "read", "list", "refresh", "claim", "baseline", "submit",
                 "record", "fail", "save"}
    BY <1>8 DEF PassGuard, Decide, ReadDecision, ListOrders, CheckActive, Claim, ReadBaseline,
      SubmitOrder, SubmitReplyLost, SubmitRefused, FirstLook, End
  <2>3. QED
    BY <2>1, <2>2 DEF Survives
<1>9. CASE RecordBaseline \/ MarkUnknown \/ MarkFailed \/ Crash
  <2>1. UNCHANGED <<status, event, fills>> /\ at' = "idle"
    BY <1>9 DEF RecordBaseline, MarkUnknown, MarkFailed, Crash, End
  <2>2. QED
    BY <2>1 DEF Survives
<1>10. CASE IterationRaises \/ RefreshRaises \/ TailRaises
  BY <1>10 DEF IterationRaises, RefreshRaises, TailRaises
<1>11. CASE Environment \/ UNCHANGED vars
  <2>1. UNCHANGED <<at, dec, cur, local, status, event, fills>>
    BY <1>11 DEF Environment, NextBucket, GrowOlder, NewDay, BrokerMoves, HideEvents, vars
  <2>2. QED
    BY <2>1 DEF Survives
<1>12. QED
  BY <1>2, <1>3, <1>4, <1>5, <1>6, <1>7, <1>8, <1>9, <1>10, <1>11
  DEF Next, Program, Iterate, Refresh, Submit

\* A step that executes nothing, blocks nothing anew and gives up no order that
\* may be executed keeps the blocks.
LEMMA BlocksKept ==
  ASSUME Blocks, UNCHANGED <<symbol, baseline>>,
         \A d \in Decisions : bstate'[d] = "FILLED" <=> bstate[d] = "FILLED",
         \A d \in Decisions : Holds(d)' => Holds(d),
         \A d \in Decisions : bstate'[d] = "OPEN" => Holds(d)',
         at' \in {"submit"} \cup TailPoints =>
           at \in {"submit"} \cup TailPoints /\ dec' = dec /\ base' = base /\ dec \in Decisions
  PROVE  Blocks'
<1>1. \A s : Cardinality({ d \in Decisions : bstate'[d] = "FILLED" /\ symbol'[d] = s }) = Held(s)
  BY HeldSame
<1>2. \A d \in Decisions : Held(symbol[d])' = Held(symbol[d])
  BY <1>1 DEF Held
<1>3. \A d, e \in Decisions : (Holds(d)' /\ Holds(e)' /\ symbol'[d] = symbol'[e]) => d = e
  BY DEF Blocks
<1>4. \A d \in Decisions :
        (Holds(d)' /\ baseline'[d] # NoBaseline /\ bstate'[d] # "FILLED") =>
           Held(symbol[d])' = baseline'[d]
  BY <1>2 DEF Blocks
<1>5. (at' \in {"submit"} \cup TailPoints /\ bstate'[dec'] # "FILLED") => Held(symbol[dec])' = base'
  BY <1>2 DEF Blocks
<1>6. QED
  BY <1>3, <1>4, <1>5 DEF Blocks

\* The position confirms no order that has not been executed.
LEMMA ConfirmsExecution ==
  ASSUME TypeOK, Working, Blocks, at = "position", PositionConfirms(cur)
  PROVE  bstate[cur] = "FILLED"
<1>1. cur \in Decisions /\ Holds(cur) /\ baseline[cur] # NoBaseline
  BY DEF Working, ActiveOrders, Holds
<1>2. baseline[cur] \in Nat
  BY <1>1 DEF TypeOK
<1>3. Held(symbol[cur]) # baseline[cur]
  BY <1>2, HeldNat DEF PositionConfirms
<1>4. QED
  BY <1>1, <1>3 DEF Blocks

\* As long as every submission is remembered, the run believes what has happened.
LEMMA ReportsStep ==
  TypeOK /\ Working /\ Remembering /\ Blocks /\ Reports /\ [Next]_vars => Reports'
<1> SUFFICES ASSUME TypeOK, Working, Remembering, Blocks, Reports, [Next]_vars
             PROVE Reports'
  OBVIOUS
<1> USE TrackFacts
    DEF TypeOK, Working, Reports, Own, Goto, End, RefreshPoints, TailPoints, runVars,
        storeVars, brokerVars, ActiveOrders, Untouched, Remembering
<1>1. CASE PassGuard
  BY <1>1 DEF PassGuard
<1>2. CASE Decide
  BY <1>2 DEF Decide
<1>3. CASE ReadDecision
  BY <1>3 DEF ReadDecision
<1>4. CASE ListOrders
  BY <1>4 DEF ListOrders
<1>5. ASSUME NEW d \in Decisions, NEW a \in SnapshotAnswers, LookUp(d, a) PROVE Reports'
  <2>1. /\ cur' = d /\ local' = RefreshedStatus(d, a) /\ a \in Answers(d)
        /\ at = "refresh" /\ at' \in {"position", "write"}
        /\ UNCHANGED <<dec, bstate, hidden, status, faults>>
        /\ fills' = [fills EXCEPT ![d] = @ \cup (IF a = "FILLED" THEN {"ORDER_STATUS"} ELSE {})]
    BY <1>5 DEF LookUp
  <2>2. /\ local' \notin Active => a \in {"FILLED", "CLOSED"}
        /\ local' = "FILLED" => a = "FILLED"
    BY <2>1, StatusMaps
  <2>3. /\ a = "FILLED" => bstate[d] = "FILLED"
        /\ a = "CLOSED" => bstate[d] = "CLOSED"
    BY <2>1, TrueAnswers
  <2>4. \A e \in Decisions : fills'[e] # {} => bstate[e] = "FILLED"
    BY <2>1, <2>3
  <2>5. QED
    BY <2>1, <2>2, <2>3, <2>4
<1>6. CASE AskPosition
  <2>1. PositionConfirms(cur) => bstate[cur] = "FILLED"
    BY <1>6, ConfirmsExecution DEF AskPosition
  <2>2. /\ at = "position" /\ at' = "write"
        /\ UNCHANGED <<dec, cur, bstate, hidden, status, faults>>
        /\ \/ bstate[cur] = "FILLED" /\ local' = "FILLED"
              /\ fills' \in {fills, [fills EXCEPT ![cur] = @ \cup {"POSITION_DELTA_FALLBACK"}]}
           \/ UNCHANGED <<local, fills>>
    BY <1>6, <2>1 DEF AskPosition
  <2>3. \A e \in Decisions : fills'[e] # {} => bstate[e] = "FILLED"
    BY <2>2
  <2>4. QED
    BY <2>2, <2>3
<1>7. CASE WriteStatus
  BY <1>7 DEF WriteStatus
<1>8. CASE MirrorStatus
  BY <1>8 DEF MirrorStatus
<1>9. CASE RefreshRaises
  BY <1>9 DEF RefreshRaises
<1>10. CASE CheckActive
  BY <1>10 DEF CheckActive
<1>11. CASE Claim
  BY <1>11 DEF Claim
<1>12. CASE ReadBaseline
  BY <1>12 DEF ReadBaseline
<1>13. CASE SubmitOrder
  BY <1>13 DEF SubmitOrder, BrokerTakes
<1>14. CASE SubmitReplyLost
  BY <1>14 DEF SubmitReplyLost
<1>15. CASE SubmitRefused
  BY <1>15 DEF SubmitRefused
<1>16. CASE RecordOrder
  BY <1>16 DEF RecordOrder, Active
<1>17. ASSUME NEW a \in SnapshotAnswers, FirstLook(a) PROVE Reports'
  <2>1. /\ at = "snap" /\ at' = "save" /\ local' = FirstStatus(a) /\ a \in Answers(dec)
        /\ UNCHANGED <<dec, bstate, fills, hidden, status, faults>>
    BY <1>17 DEF FirstLook
  <2>2. /\ local' \notin Active => a \in {"FILLED", "CLOSED"}
        /\ local' = "FILLED" => a = "FILLED"
    BY <2>1, StatusMaps
  <2>3. /\ a = "FILLED" => bstate[dec] = "FILLED"
        /\ a = "CLOSED" => bstate[dec] = "CLOSED"
    BY <2>1, TrueAnswers
  <2>4. QED
    BY <2>1, <2>2, <2>3
<1>18. CASE SaveStatus
  BY <1>18 DEF SaveStatus
<1>19. CASE BookFill
  BY <1>19 DEF BookFill
<1>20. CASE SettleStatus
  BY <1>20 DEF SettleStatus
<1>21. CASE RecordEvent
  BY <1>21 DEF RecordEvent
<1>22. CASE RecordBaseline
  BY <1>22 DEF RecordBaseline
<1>23. CASE TailRaises
  BY <1>23 DEF TailRaises
<1>24. CASE MarkUnknown
  BY <1>24 DEF MarkUnknown
<1>25. CASE MarkFailed
  BY <1>25 DEF MarkFailed
<1>26. CASE IterationRaises
  BY <1>26 DEF IterationRaises
<1>27. CASE Crash
  BY <1>27 DEF Crash
<1>28. CASE NextBucket
  BY <1>28 DEF NextBucket
<1>29. ASSUME NEW d \in Decisions, NEW b \in BrokerStates, BrokerMoves(d, b) PROVE Reports'
  BY <1>29 DEF BrokerMoves
<1>30. CASE GrowOlder
  BY <1>30 DEF GrowOlder
<1>31. CASE NewDay
  BY <1>31 DEF NewDay
<1>32. ASSUME NEW d \in Decisions, HideEvents(d) PROVE Reports'
  BY <1>32 DEF HideEvents
<1>33. CASE UNCHANGED vars
  BY <1>33 DEF vars
<1> HIDE DEF Reports
<1>34. QED
  BY <1>1, <1>2, <1>3, <1>4, <1>5, <1>6, <1>7, <1>8, <1>9, <1>10, <1>11, <1>12, <1>13, <1>14,
     <1>15, <1>16, <1>17, <1>18, <1>19, <1>20, <1>21, <1>22, <1>23, <1>24, <1>25, <1>26, <1>27,
     <1>28, <1>29, <1>30, <1>31, <1>32, <1>33
  DEF Next, Program, Iterate, Refresh, Submit, Environment

\* As long as every submission is remembered, its symbol stays blocked.
LEMMA BlocksStep ==
  TypeOK /\ Working /\ Remembering /\ Blocks /\ Reports /\ [Next]_vars => Blocks'
<1> SUFFICES ASSUME TypeOK, Working, Remembering, Blocks, Reports, [Next]_vars
             PROVE Blocks'
  OBVIOUS
<1> USE TrackFacts
    DEF Own, Goto, End, TailPoints, RefreshPoints, runVars, storeVars, brokerVars,
        Holds, Remembering
<1>1. CASE PassGuard
  <2>1. \A d \in Decisions : Holds(d)' => Holds(d)
    BY <1>1 DEF PassGuard, TypeOK, Active
  <2>2. \A d \in Decisions : bstate'[d] = "OPEN" => Holds(d)'
    BY <1>1 DEF PassGuard, Blocks, TypeOK, Active, Reports, Working, Untouched
  <2>3. QED
    BY <1>1, <2>1, <2>2, BlocksKept DEF PassGuard, Working
<1>2. CASE Decide
  <2>1. \A d \in Decisions : Holds(d)' => Holds(d)
    BY <1>2 DEF Decide, TypeOK, Active
  <2>2. \A d \in Decisions : bstate'[d] = "OPEN" => Holds(d)'
    BY <1>2 DEF Decide, Blocks, TypeOK, Active, Reports, Working, Untouched
  <2>3. QED
    BY <1>2, <2>1, <2>2, BlocksKept DEF Decide, Working
<1>3. CASE ReadDecision
  <2>1. \A d \in Decisions : Holds(d)' => Holds(d)
    BY <1>3 DEF ReadDecision, TypeOK, Active
  <2>2. \A d \in Decisions : bstate'[d] = "OPEN" => Holds(d)'
    BY <1>3 DEF ReadDecision, Blocks, TypeOK, Active, Reports, Working, Untouched
  <2>3. QED
    BY <1>3, <2>1, <2>2, BlocksKept DEF ReadDecision, Working
<1>4. CASE ListOrders
  <2>1. \A d \in Decisions : Holds(d)' => Holds(d)
    BY <1>4 DEF ListOrders, TypeOK, Active
  <2>2. \A d \in Decisions : bstate'[d] = "OPEN" => Holds(d)'
    BY <1>4 DEF ListOrders, Blocks, TypeOK, Active, Reports, Working, Untouched
  <2>3. QED
    BY <1>4, <2>1, <2>2, BlocksKept DEF ListOrders, Working
<1>5. ASSUME NEW d \in Decisions, NEW a \in SnapshotAnswers, LookUp(d, a) PROVE Blocks'
  <2>1. at = "refresh" /\ at' \in {"position", "write"}
        /\ UNCHANGED <<dec, status, event, baseline, failure, hidden, bstate, symbol>>
    BY <1>5 DEF LookUp
  <2>2. \A e \in Decisions : Holds(e)' <=> Holds(e)
    BY <2>1
  <2>3. \A e \in Decisions : bstate[e] = "OPEN" => Holds(e)
    BY DEF Blocks
  <2>4. QED
    BY <2>1, <2>2, <2>3, BlocksKept
<1>6. CASE AskPosition
  <2>1. \A d \in Decisions : Holds(d)' => Holds(d)
    BY <1>6 DEF AskPosition, TypeOK, Active
  <2>2. \A d \in Decisions : bstate'[d] = "OPEN" => Holds(d)'
    BY <1>6 DEF AskPosition, Blocks, TypeOK, Active, Reports, Working, Untouched
  <2>3. QED
    BY <1>6, <2>1, <2>2, BlocksKept DEF AskPosition, Working
<1>7. CASE WriteStatus
  <2>1. at = "write" /\ at' = "mirror" /\ status' = [status EXCEPT ![cur] = local]
        /\ cur \in Decisions /\ status[cur] \in Active
        /\ UNCHANGED <<dec, event, baseline, failure, hidden, bstate, symbol>>
    BY <1>7 DEF WriteStatus, Working, ActiveOrders
  <2>2. \A e \in Decisions : Holds(e)' => Holds(e)
    BY <2>1 DEF TypeOK
  <2>3. \A e \in Decisions : bstate'[e] = "OPEN" => Holds(e)'
    <3>1. bstate[cur] = "OPEN" => local \in Active
      BY <2>1 DEF Reports
    <3>2. QED
      BY <2>1, <3>1 DEF Blocks, TypeOK
  <2>4. QED
    BY <2>1, <2>2, <2>3, BlocksKept
<1>8. CASE MirrorStatus
  <2>1. /\ at = "mirror" /\ at' = "refresh" /\ cur \in Decisions /\ status[cur] = local
        /\ event' = [event EXCEPT ![cur] = IF @ = "NONE" THEN @ ELSE local]
        /\ failure' = [failure EXCEPT ![cur] = IF Named(cur) THEN local ELSE @]
        /\ UNCHANGED <<dec, status, baseline, hidden, bstate, symbol>>
    BY <1>8 DEF MirrorStatus, Working
  <2>2. \A e \in Decisions : Holds(e)' => Holds(e)
    BY <2>1 DEF TypeOK
  <2>3. \A e \in Decisions : bstate'[e] = "OPEN" => Holds(e)'
    <3>1. bstate[cur] = "OPEN" => status'[cur] \in Active
      BY <2>1 DEF Reports
    <3>2. QED
      BY <2>1, <3>1 DEF Blocks, TypeOK
  <2>4. QED
    BY <2>1, <2>2, <2>3, BlocksKept
<1>9. CASE RefreshRaises
  <2>1. \A d \in Decisions : Holds(d)' => Holds(d)
    BY <1>9 DEF RefreshRaises, TypeOK, Active
  <2>2. \A d \in Decisions : bstate'[d] = "OPEN" => Holds(d)'
    BY <1>9 DEF RefreshRaises, Blocks, TypeOK, Active, Reports, Working, Untouched
  <2>3. QED
    BY <1>9, <2>1, <2>2, BlocksKept DEF RefreshRaises, Working
<1>10. CASE CheckActive
  <2>1. CASE ~Free(dec)
    BY <1>10, <2>1, BlocksKept DEF CheckActive, Blocks
  <2>2. CASE Free(dec)
    <3>1. /\ at = "refresh" /\ at' = "claim" /\ dec' = dec
          /\ UNCHANGED <<status, event, baseline, failure, hidden, bstate, symbol>>
      BY <1>10, <2>2 DEF CheckActive
    <3>2. dec \in Decisions /\ ~Blocked(symbol[dec]) /\ dec \notin claimed
      BY <2>2, <3>1 DEF Free, TypeOK, Working
    <3>3. \A e \in Decisions : Holds(e) => symbol[e] # symbol[dec]
      <4>1. SUFFICES ASSUME NEW e \in Decisions, Holds(e), symbol[e] = symbol[dec] PROVE FALSE
        OBVIOUS
      <4>2. status[e] \in Active => e \in ActiveOrders
        BY DEF ActiveOrders
      <4>3. e \notin hidden /\ event[e] \in Active =>
              <<e, "order">> \in ActiveEvents /\ <<e, "order">>[1] = e
        BY DEF ActiveEvents
      <4>4. e \notin hidden /\ failure[e] \in Active =>
              <<e, "failed">> \in ActiveEvents /\ <<e, "failed">>[1] = e
        BY DEF ActiveEvents
      <4>5. status[e] \in Active \/ (e \notin hidden /\ (event[e] \in Active \/ failure[e] \in Active))
        BY <3>1, <4>1
      <4>6. QED
        BY <3>2, <4>1, <4>2, <4>3, <4>4, <4>5 DEF Blocked
    <3>4. Untouched(dec)
      BY <3>2 DEF Working
    <3>5. \A e \in Decisions : Holds(e)' <=> Holds(e) \/ e = dec
      BY <3>1
    <3>6. \A e \in Decisions : Held(symbol[e])' = Held(symbol[e])
      BY <3>1, HeldSame DEF Held
    <3>7. QED
      BY <3>1, <3>3, <3>4, <3>5, <3>6 DEF Blocks, Untouched
  <2>3. QED
    BY <2>1, <2>2
<1>11. CASE Claim
  <2>1. \A d \in Decisions : Holds(d)' => Holds(d)
    BY <1>11 DEF Claim, TypeOK, Active
  <2>2. \A d \in Decisions : bstate'[d] = "OPEN" => Holds(d)'
    BY <1>11 DEF Claim, Blocks, TypeOK, Active, Reports, Working, Untouched
  <2>3. QED
    BY <1>11, <2>1, <2>2, BlocksKept DEF Claim, Working
<1>12. CASE ReadBaseline
  <2>1. /\ at = "baseline" /\ at' \in {"submit", "fail"} /\ dec' = dec
        /\ at' = "submit" => base' = Held(symbol[dec])
        /\ UNCHANGED <<status, event, baseline, failure, hidden, bstate, symbol>>
    BY <1>12 DEF ReadBaseline
  <2>2. \A e \in Decisions : Holds(e)' <=> Holds(e)
    BY <2>1
  <2>3. \A e \in Decisions : Held(symbol[e])' = Held(symbol[e])
    BY <2>1, HeldSame DEF Held
  <2>4. dec \in Decisions
    BY <2>1 DEF Working
  <2>5. QED
    BY <2>1, <2>2, <2>3, <2>4 DEF Blocks
<1>13. CASE SubmitOrder
  <2>1. /\ at = "submit" /\ at' = "record" /\ bstate' = [bstate EXCEPT ![dec] = "OPEN"]
        /\ dec \in Decisions /\ bstate[dec] = "NONE"
        /\ UNCHANGED <<dec, base, status, event, baseline, failure, hidden, symbol>>
    BY <1>13 DEF SubmitOrder, BrokerTakes, Working, Untouched
  <2>2. \A e \in Decisions : Holds(e)' <=> Holds(e)
    BY <2>1
  <2>3. \A e \in Decisions : bstate'[e] = "OPEN" => Holds(e)'
    BY <2>1 DEF Blocks, TypeOK
  <2>4. \A e \in Decisions : bstate'[e] = "FILLED" <=> bstate[e] = "FILLED"
    BY <2>1 DEF TypeOK
  <2>5. QED
    BY <2>1, <2>2, <2>3, <2>4, BlocksKept
<1>14. CASE SubmitReplyLost
  BY <1>14 DEF SubmitReplyLost
<1>15. CASE SubmitRefused
  <2>1. \A d \in Decisions : Holds(d)' => Holds(d)
    BY <1>15 DEF SubmitRefused, TypeOK, Active
  <2>2. \A d \in Decisions : bstate'[d] = "OPEN" => Holds(d)'
    BY <1>15 DEF SubmitRefused, Blocks, TypeOK, Active, Reports, Working, Untouched
  <2>3. QED
    BY <1>15, <2>1, <2>2, BlocksKept DEF SubmitRefused, Working
<1>16. CASE RecordOrder
  <2>1. \A d \in Decisions : Holds(d)' => Holds(d)
    BY <1>16 DEF RecordOrder, TypeOK, Active
  <2>2. \A d \in Decisions : bstate'[d] = "OPEN" => Holds(d)'
    BY <1>16 DEF RecordOrder, Blocks, TypeOK, Active, Reports, Working, Untouched
  <2>3. QED
    BY <1>16, <2>1, <2>2, BlocksKept DEF RecordOrder, Working
<1>17. ASSUME NEW a \in SnapshotAnswers, FirstLook(a) PROVE Blocks'
  <2>1. \A d \in Decisions : Holds(d)' => Holds(d)
    BY <1>17 DEF FirstLook, TypeOK, Active
  <2>2. \A d \in Decisions : bstate'[d] = "OPEN" => Holds(d)'
    BY <1>17 DEF FirstLook, Blocks, TypeOK, Active, Reports, Working, Untouched
  <2>3. QED
    BY <1>17, <2>1, <2>2, BlocksKept DEF FirstLook, Working
<1>18. CASE SaveStatus
  <2>1. \A d \in Decisions : Holds(d)' => Holds(d)
    BY <1>18 DEF SaveStatus, TypeOK, Active
  <2>2. \A d \in Decisions : bstate'[d] = "OPEN" => Holds(d)'
    BY <1>18 DEF SaveStatus, Blocks, TypeOK, Active, Reports, Working, Untouched
  <2>3. QED
    BY <1>18, <2>1, <2>2, BlocksKept DEF SaveStatus, Working
<1>19. CASE BookFill
  <2>1. \A d \in Decisions : Holds(d)' => Holds(d)
    BY <1>19 DEF BookFill, TypeOK, Active
  <2>2. \A d \in Decisions : bstate'[d] = "OPEN" => Holds(d)'
    BY <1>19 DEF BookFill, Blocks, TypeOK, Active, Reports, Working, Untouched
  <2>3. QED
    BY <1>19, <2>1, <2>2, BlocksKept DEF BookFill, Working
<1>20. CASE SettleStatus
  <2>1. \A d \in Decisions : Holds(d)' => Holds(d)
    BY <1>20 DEF SettleStatus, TypeOK, Active
  <2>2. \A d \in Decisions : bstate'[d] = "OPEN" => Holds(d)'
    BY <1>20 DEF SettleStatus, Blocks, TypeOK, Active, Reports, Working, Untouched
  <2>3. QED
    BY <1>20, <2>1, <2>2, BlocksKept DEF SettleStatus, Working
<1>21. CASE RecordEvent
  <2>1. /\ at = "event" /\ at' = "audit" /\ dec \in Decisions
        /\ event' = [event EXCEPT ![dec] = local]
        /\ UNCHANGED <<dec, base, status, baseline, failure, hidden, bstate, symbol>>
    BY <1>21 DEF RecordEvent, Working
  <2>2. \A e \in Decisions : Holds(e)' <=> Holds(e)
    BY <2>1 DEF TypeOK
  <2>3. \A e \in Decisions : bstate'[e] = "OPEN" => Holds(e)'
    BY <2>1, <2>2 DEF Blocks
  <2>4. QED
    BY <2>1, <2>2, <2>3, BlocksKept
<1>22. CASE RecordBaseline
  <2>1. /\ at = "audit" /\ at' = "idle" /\ dec \in Decisions
        /\ baseline' = [baseline EXCEPT ![dec] = base]
        /\ UNCHANGED <<status, event, failure, hidden, bstate, symbol>>
    BY <1>22 DEF RecordBaseline, Working
  <2>2. \A e \in Decisions : Holds(e)' => Holds(e)
    BY <2>1 DEF TypeOK
  <2>3. \A e \in Decisions : bstate'[e] = "OPEN" => Holds(e)'
    <3>1. bstate[dec] = "OPEN" =>
            status[dec] \in Active \/ (hidden = {} /\ event[dec] \in Active)
      BY <2>1 DEF Reports
    <3>2. QED
      BY <2>1, <3>1 DEF Blocks, TypeOK
  <2>4. \A e \in Decisions : Held(symbol[e])' = Held(symbol[e])
    BY <2>1, HeldSame DEF Held
  <2>5. bstate[dec] # "FILLED" => Held(symbol[dec]) = base
    BY <2>1 DEF Blocks
  <2>6. QED
    BY <2>1, <2>2, <2>3, <2>4, <2>5 DEF Blocks, TypeOK
<1>23. CASE TailRaises
  <2>1. \A d \in Decisions : Holds(d)' => Holds(d)
    BY <1>23 DEF TailRaises, TypeOK, Active
  <2>2. \A d \in Decisions : bstate'[d] = "OPEN" => Holds(d)'
    BY <1>23 DEF TailRaises, Blocks, TypeOK, Active, Reports, Working, Untouched
  <2>3. QED
    BY <1>23, <2>1, <2>2, BlocksKept DEF TailRaises, Working
<1>24. CASE MarkUnknown
  <2>1. /\ at = "unknown" /\ at' = "idle" /\ dec \in Decisions
        /\ failure' = [failure EXCEPT ![dec] = "UNKNOWN"]
        /\ UNCHANGED <<status, event, baseline, hidden, bstate, symbol>>
    BY <1>24 DEF MarkUnknown, Working
  <2>2. \A e \in Decisions : Holds(e)' => Holds(e)
    BY <2>1 DEF TypeOK
  <2>3. hidden = {} /\ failure'[dec] \in Active
    BY <2>1 DEF Reports, Active, TypeOK
  <2>4. \A e \in Decisions : bstate'[e] = "OPEN" => Holds(e)'
    BY <2>1, <2>3 DEF Blocks, TypeOK
  <2>5. QED
    BY <2>1, <2>2, <2>4, BlocksKept
<1>25. CASE MarkFailed
  <2>1. /\ at = "fail" /\ at' = "idle" /\ dec \in Decisions /\ bstate[dec] = "NONE"
        /\ failure' = [failure EXCEPT ![dec] = "FAILED"]
        /\ UNCHANGED <<status, event, baseline, hidden, bstate, symbol>>
    BY <1>25 DEF MarkFailed, Working, Reports
  <2>2. \A e \in Decisions : Holds(e)' => Holds(e)
    BY <2>1 DEF TypeOK, Active
  <2>3. \A e \in Decisions : bstate'[e] = "OPEN" => Holds(e)'
    BY <2>1 DEF Blocks, TypeOK
  <2>4. QED
    BY <2>1, <2>2, <2>3, BlocksKept
<1>26. CASE IterationRaises
  <2>1. \A d \in Decisions : Holds(d)' => Holds(d)
    BY <1>26 DEF IterationRaises, TypeOK, Active
  <2>2. \A d \in Decisions : bstate'[d] = "OPEN" => Holds(d)'
    BY <1>26 DEF IterationRaises, Blocks, TypeOK, Active, Reports, Working, Untouched
  <2>3. QED
    BY <1>26, <2>1, <2>2, BlocksKept DEF IterationRaises, Working
<1>27. CASE Crash
  BY <1>27 DEF Crash
<1>28. CASE NextBucket
  <2>1. \A d \in Decisions : Holds(d)' => Holds(d)
    BY <1>28 DEF NextBucket, TypeOK, Active
  <2>2. \A d \in Decisions : bstate'[d] = "OPEN" => Holds(d)'
    BY <1>28 DEF NextBucket, Blocks, TypeOK, Active, Reports, Working, Untouched
  <2>3. QED
    BY <1>28, <2>1, <2>2, BlocksKept DEF NextBucket, Working
<1>29. ASSUME NEW d \in Decisions, NEW b \in BrokerStates, BrokerMoves(d, b) PROVE Blocks'
  <2>1. /\ bstate[d] = "OPEN" /\ bstate' = [bstate EXCEPT ![d] = b] /\ b # "OPEN"
        /\ UNCHANGED <<at, dec, base, status, event, baseline, failure, hidden, symbol>>
    BY <1>29 DEF BrokerMoves
  <2>2. \A e \in Decisions : Holds(e)' <=> Holds(e)
    BY <2>1
  <2>3. \A e \in Decisions : bstate'[e] = "OPEN" => Holds(e)'
    BY <2>1, <2>2 DEF Blocks, TypeOK
  <2>4. CASE b # "FILLED"
    <3>1. \A e \in Decisions : bstate'[e] = "FILLED" <=> bstate[e] = "FILLED"
      BY <2>1, <2>4 DEF TypeOK
    <3>2. dec \in Decisions \/ at \notin {"submit"} \cup TailPoints
      BY DEF Working
    <3>3. QED
      BY <2>1, <2>2, <2>3, <3>1, <3>2, BlocksKept
  <2>5. CASE b = "FILLED"
    <3>1. \A e \in Decisions : Holds(e) /\ e # d => symbol[e] # symbol[d]
      BY <2>1 DEF Blocks
    <3>2. ASSUME NEW e \in Decisions, Holds(e), e # d
          PROVE  /\ Held(symbol[e])' = Held(symbol[e])
                 /\ bstate'[e] = "FILLED" <=> bstate[e] = "FILLED"
      <4>1. { x \in Decisions : bstate'[x] = "FILLED" /\ symbol'[x] = symbol'[e] }
            = { x \in Decisions : bstate[x] = "FILLED" /\ symbol[x] = symbol[e] }
        BY <2>1, <3>1, <3>2 DEF TypeOK
      <4>2. QED
        BY <2>1, <3>2, <4>1 DEF Held, TypeOK
    <3>3. bstate'[d] = "FILLED"
      BY <2>1, <2>5 DEF TypeOK
    <3>4. at \in {"submit"} \cup TailPoints => dec \in Decisions /\ Holds(dec)
      BY DEF Working
    <3>5. QED
      BY <2>1, <2>2, <2>3, <3>2, <3>3, <3>4 DEF Blocks
  <2>6. QED
    BY <2>4, <2>5
<1>30. CASE GrowOlder
  <2>1. \A d \in Decisions : Holds(d)' => Holds(d)
    BY <1>30 DEF GrowOlder, TypeOK, Active
  <2>2. \A d \in Decisions : bstate'[d] = "OPEN" => Holds(d)'
    BY <1>30 DEF GrowOlder, Blocks, TypeOK, Active, Reports, Working, Untouched
  <2>3. QED
    BY <1>30, <2>1, <2>2, BlocksKept DEF GrowOlder, Working
<1>31. CASE NewDay
  <2>1. \A d \in Decisions : Holds(d)' => Holds(d)
    BY <1>31 DEF NewDay, TypeOK, Active
  <2>2. \A d \in Decisions : bstate'[d] = "OPEN" => Holds(d)'
    BY <1>31 DEF NewDay, Blocks, TypeOK, Active, Reports, Working, Untouched
  <2>3. QED
    BY <1>31, <2>1, <2>2, BlocksKept DEF NewDay, Working
<1>32. ASSUME NEW d \in Decisions, HideEvents(d) PROVE Blocks'
  <2>1. "raise" \notin faults /\ hidden \subseteq hidden'
        /\ UNCHANGED <<at, dec, base, status, event, baseline, failure, bstate, symbol>>
    BY <1>32 DEF HideEvents
  <2>2. \A e \in Decisions : Holds(e)' => Holds(e)
    BY <2>1
  <2>3. \A e \in Decisions : bstate'[e] = "OPEN" => Holds(e)'
    BY <2>1 DEF Reports
  <2>4. QED
    BY <2>1, <2>2, <2>3, BlocksKept DEF Working
<1>33. CASE UNCHANGED vars
  BY <1>33, BlocksKept DEF vars, Blocks, Working
<1> HIDE DEF Blocks
<1>34. QED
  BY <1>1, <1>2, <1>3, <1>4, <1>5, <1>6, <1>7, <1>8, <1>9, <1>10, <1>11, <1>12, <1>13, <1>14,
     <1>15, <1>16, <1>17, <1>18, <1>19, <1>20, <1>21, <1>22, <1>23, <1>24, <1>25, <1>26, <1>27,
     <1>28, <1>29, <1>30, <1>31, <1>32, <1>33
  DEF Next, Program, Iterate, Refresh, Submit, Environment

-----------------------------------------------------------------------------
\* What may go wrong is settled at the start.
LEMMA FaultsFixed == [Next]_vars => faults' = faults
  BY DEF Next, Program, Iterate, Refresh, Submit, Environment, PassGuard, Decide, ReadDecision,
    ListOrders, LookUp, AskPosition, WriteStatus, MirrorStatus, RefreshRaises, CheckActive, Claim,
    ReadBaseline, SubmitOrder, SubmitReplyLost, SubmitRefused, RecordOrder, FirstLook, SaveStatus,
    BookFill, SettleStatus, RecordEvent, RecordBaseline, TailRaises, MarkUnknown, MarkFailed,
    IterationRaises, Crash, NextBucket, BrokerMoves, GrowOlder, NewDay, HideEvents, vars

\* Every step keeps the invariant.
LEMMA TrackStep == TrackInv /\ [Next]_vars => TrackInv'
<1> SUFFICES ASSUME TrackInv, [Next]_vars PROVE TrackInv'
  OBVIOUS
<1>1. TypeOK' /\ Working'
  BY TypeStep, WorkingStep DEF TrackInv
<1>2. faults' = faults
  BY FaultsFixed
<1>3. Remembering => Blocks' /\ Reports'
  BY BlocksStep, ReportsStep DEF TrackInv
<1>4. faults \cap {"crash", "raise"} = {} => Booking'
  BY BookingStep DEF TrackInv
<1>5. Remembering' => Remembering
  BY <1>2 DEF Remembering
<1>6. "raise" \notin faults => Survives'
  BY SurvivesStep DEF TrackInv
<1>7. QED
  BY <1>1, <1>2, <1>3, <1>4, <1>5, <1>6 DEF TrackInv

\* The types, under every fault.
THEOREM TrackingTypesCorrect == Spec => []TypeOK
<1>1. TrackInv => TypeOK
  BY DEF TrackInv
<1>2. QED
  BY TrackInit, TrackStep, <1>1, PTL DEF Spec

\* No second order for a symbol while the first may be executed
\* (_active_order_blocker), if no submission is forgotten.
THEOREM OneLiveOrderCorrect == Spec => []OneLiveOrder
<1>1. TrackInv => OneLiveOrder
  BY DEF TrackInv, Blocks, OneLiveOrder
<1>2. QED
  BY TrackInit, TrackStep, <1>1, PTL DEF Spec

\* A fill row stands for an execution of its order, also when only the position
\* tells of it (_refresh_active_local_orders): the block on the symbol is what
\* makes the change of the position that order's.
THEOREM FillIsRealCorrect == Spec => []FillIsReal
<1>1. TrackInv => FillIsReal
  BY DEF TrackInv, Reports, FillIsReal
<1>2. QED
  BY TrackInit, TrackStep, <1>1, PTL DEF Spec

\* An execution is booked once, whichever source tells of it first (record_fill).
THEOREM BookedOnceCorrect == Spec => []BookedOnce
<1>1. TrackInv => BookedOnce
  <2> SUFFICES ASSUME Booking, NEW d \in Decisions PROVE Cardinality(fills[d]) <= 1
    BY DEF TrackInv, BookedOnce
  <2>1. CASE fills[d] = {}
    BY <2>1, FS_EmptySet
  <2>2. CASE \E s \in Sources : fills[d] = {s}
    BY <2>2, FS_Singleton
  <2>3. QED
    BY <2>1, <2>2 DEF Booking
<1>2. QED
  BY TrackInit, TrackStep, <1>1, PTL DEF Spec

\* A filled order has its fill row, or is about to get it in this very run; where
\* runs die, the fill is lost only together with the execution event.
THEOREM FilledIsBookedCorrect == Spec => []FilledIsBooked
<1>1. TrackInv => FilledIsBooked
  BY DEF TrackInv, Booking, Survives, FilledIsBooked
<1>2. QED
  BY TrackInit, TrackStep, <1>1, PTL DEF Spec

-----------------------------------------------------------------------------
(* An executed order is not given up *)

\* CLOSED is the broker's word alone: no timeout, lost answer or unknown text
\* closes an order.
ClosedIsClosed ==
  /\ \A d \in Decisions : status[d] = "CLOSED" => bstate[d] = "CLOSED"
  /\ at \in {"position", "write", "mirror"} /\ local = "CLOSED" => bstate[cur] = "CLOSED"
  /\ at \in {"save", "book", "settle", "event"} /\ local = "CLOSED" => bstate[dec] = "CLOSED"

\* An order that the broker executed stays among those a refresh looks up until
\* its fill is booked, or is being booked by the run that submitted it.
ExecutedNotGivenUp ==
  faults \cap {"crash", "raise"} = {} =>
    \A d \in Decisions :
      (status[d] # "ABSENT" /\ bstate[d] = "FILLED") =>
        status[d] \in Active \/ fills[d] # {} \/ (at = "book" /\ dec = d)

\* A status that is derived is CLOSED only if the answer is.
LEMMA ClosedAnswers ==
  ASSUME NEW d \in Decisions, NEW a \in Answers(d)
  PROVE  /\ FirstStatus(a) = "CLOSED" => bstate[d] = "CLOSED"
         /\ RefreshedStatus(d, a) = "CLOSED" => bstate[d] = "CLOSED"
BY DEF Answers, FirstStatus, RefreshedStatus

\* Every step keeps it.
LEMMA ClosedStep == TrackInv /\ ClosedIsClosed /\ [Next]_vars => ClosedIsClosed'
<1> SUFFICES ASSUME TypeOK, Working, ClosedIsClosed, [Next]_vars PROVE ClosedIsClosed'
  BY DEF TrackInv
<1> USE DEF TypeOK, Goto
<1>1. /\ at \in {"position", "write", "mirror"} => cur \in Decisions
      /\ at \in Own => dec \in Decisions
  BY DEF Working, ActiveOrders
<1>2. ASSUME NEW d \in Decisions, NEW a \in SnapshotAnswers, LookUp(d, a) PROVE ClosedIsClosed'
  <2>1. /\ a \in Answers(d) /\ cur' = d /\ local' = RefreshedStatus(d, a)
        /\ at' \in {"position", "write"} /\ UNCHANGED <<status, brokerVars>>
    BY <1>2 DEF LookUp
  <2>2. local' = "CLOSED" => bstate[d] = "CLOSED"
    BY <2>1, ClosedAnswers
  <2>3. QED
    BY <2>1, <2>2 DEF ClosedIsClosed, brokerVars
<1>3. ASSUME NEW a \in SnapshotAnswers, FirstLook(a) PROVE ClosedIsClosed'
  <2>1. /\ a \in Answers(dec) /\ local' = FirstStatus(a) /\ dec \in Decisions
        /\ at' = "save" /\ UNCHANGED <<dec, status, brokerVars>>
    BY <1>1, <1>3 DEF FirstLook, storeVars, Own, TailPoints
  <2>2. local' = "CLOSED" => bstate[dec] = "CLOSED"
    BY <2>1, ClosedAnswers
  <2>3. QED
    BY <2>1, <2>2 DEF ClosedIsClosed, brokerVars
<1>4. CASE AskPosition \/ MirrorStatus
  BY <1>1, <1>4 DEF AskPosition, MirrorStatus, ClosedIsClosed, brokerVars
<1>5. CASE WriteStatus \/ RecordOrder \/ SaveStatus \/ BookFill \/ SettleStatus
  BY <1>1, <1>5 DEF WriteStatus, RecordOrder, SaveStatus, BookFill, SettleStatus, ClosedIsClosed,
    brokerVars, Own, TailPoints
<1>6. CASE SubmitOrder \/ SubmitReplyLost
  <2>1. dec \in Decisions /\ status[dec] # "CLOSED"
    BY <1>1, <1>6 DEF SubmitOrder, SubmitReplyLost, Working, Untouched, Own
  <2>2. /\ bstate' = [bstate EXCEPT ![dec] = "OPEN"] /\ status' = status
        /\ at' \in {"record", "fail"}
    BY <1>6 DEF SubmitOrder, SubmitReplyLost, BrokerTakes, storeVars
  <2>3. QED
    BY <2>1, <2>2 DEF ClosedIsClosed
<1>7. CASE PassGuard \/ Decide \/ ReadDecision \/ ListOrders \/ RefreshRaises \/ CheckActive
             \/ Claim \/ ReadBaseline \/ SubmitRefused
  <2>1. UNCHANGED <<status, bstate>>
    BY <1>7 DEF PassGuard, Decide, ReadDecision, ListOrders, RefreshRaises, CheckActive, Claim,
      ReadBaseline, SubmitRefused, storeVars, brokerVars
  <2>2. at' \in {"idle", "decide", "read", "list", "refresh", "claim", "baseline", "submit", "fail"}
    BY <1>7 DEF PassGuard, Decide, ReadDecision, ListOrders, RefreshRaises, CheckActive, Claim,
      ReadBaseline, SubmitRefused, End
  <2>3. QED
    BY <2>1, <2>2 DEF ClosedIsClosed
<1>8. CASE RecordEvent \/ RecordBaseline \/ TailRaises \/ MarkUnknown \/ MarkFailed
             \/ IterationRaises \/ Crash
  <2>1. UNCHANGED <<status, bstate>> /\ at' \in {"idle", "audit", "unknown"}
    BY <1>8 DEF RecordEvent, RecordBaseline, TailRaises, MarkUnknown, MarkFailed,
      IterationRaises, Crash, End, storeVars, brokerVars
  <2>2. QED
    BY <2>1 DEF ClosedIsClosed
<1>9. ASSUME NEW d \in Decisions, NEW b \in BrokerStates, BrokerMoves(d, b)
      PROVE  ClosedIsClosed'
  BY <1>9 DEF BrokerMoves, ClosedIsClosed, runVars, storeVars
<1>10. CASE NewDay
  BY <1>1, <1>10 DEF NewDay, ClosedIsClosed, runVars, storeVars, Own, TailPoints
<1>11. CASE NextBucket \/ GrowOlder \/ (\E d \in Decisions : HideEvents(d)) \/ UNCHANGED vars
  <2>1. UNCHANGED <<at, dec, cur, local, status, bstate>>
    BY <1>11 DEF NextBucket, GrowOlder, HideEvents, vars, runVars, storeVars, brokerVars
  <2>2. QED
    BY <2>1 DEF ClosedIsClosed
<1>12. QED
  BY <1>2, <1>3, <1>4, <1>5, <1>6, <1>7, <1>8, <1>9, <1>10, <1>11
  DEF Next, Program, Iterate, Refresh, Submit, Environment

\* What ExecutionIsBooked needs of the states: as long as nothing cuts a run off,
\* neither the grace time of _refresh_active_local_orders, nor a query without
\* an answer, nor an unmapped text takes an executed order out of the active
\* ones before its fill row is there.
THEOREM ExecutedNotGivenUpCorrect == Spec => []ExecutedNotGivenUp
<1>1. Init => TrackInv /\ ClosedIsClosed
  BY TrackInit DEF Init, ClosedIsClosed
<1>2. TrackInv /\ ClosedIsClosed /\ [Next]_vars => (TrackInv /\ ClosedIsClosed)'
  BY TrackStep, ClosedStep
<1>3. TrackInv /\ ClosedIsClosed => ExecutedNotGivenUp
  BY DEF TrackInv, Booking, ClosedIsClosed, ExecutedNotGivenUp, TypeOK, LocalStatuses
<1>4. QED
  BY <1>1, <1>2, <1>3, PTL DEF Spec

-----------------------------------------------------------------------------
(* An iteration ends *)

\* The steps from a point to the end of the iteration, but for the orders that
\* are still to be refreshed.
PointsLeft ==
  [idle |-> 0, fail |-> 1, unknown |-> 1, audit |-> 2, event |-> 3, settle |-> 4, book |-> 5,
   save |-> 6, snap |-> 7, record |-> 8, submit |-> 9, baseline |-> 10, claim |-> 11,
   refresh |-> 12, mirror |-> 13, write |-> 14, position |-> 15, list |-> 13, read |-> 14,
   decide |-> 15]

\* The orders to be refreshed: before they are listed, all may be.
OrdersLeft ==
  IF at \in {"decide", "read", "list"} THEN Cardinality(Decisions) ELSE Cardinality(todo)

\* A refresh takes four steps of an order at most.
StepsLeft == PointsLeft[at] + 4 * OrdersLeft

\* The orders that a run has listed are a finite number.
LEMMA OrdersLeftBounded == TypeOK => OrdersLeft \in 0 .. Cardinality(Decisions)
<1> SUFFICES ASSUME TypeOK PROVE OrdersLeft \in 0 .. Cardinality(Decisions)
  OBVIOUS
<1>1. IsFiniteSet(todo) /\ Cardinality(todo) <= Cardinality(Decisions)
  BY TrackFacts, FS_Subset DEF TypeOK
<1>2. Cardinality(todo) \in Nat /\ Cardinality(Decisions) \in Nat
  BY <1>1, TrackFacts, FS_CardinalityType
<1>3. QED
  BY <1>1, <1>2 DEF OrdersLeft

\* Every step of a run takes it nearer to its end, also one that raises.
LEMMA StepsStep ==
  TypeOK /\ TypeOK' /\ [Next]_vars =>
    (at # "idle" => UNCHANGED runVars \/ StepsLeft' < StepsLeft)
<1> SUFFICES ASSUME TypeOK, TypeOK', [Next]_vars, at # "idle"
             PROVE  UNCHANGED runVars \/ StepsLeft' < StepsLeft
  OBVIOUS
<1>1. /\ OrdersLeft \in Nat /\ OrdersLeft' \in Nat
      /\ OrdersLeft <= Cardinality(Decisions) /\ OrdersLeft' <= Cardinality(Decisions)
      /\ Cardinality(Decisions) \in Nat
  <2>1. /\ Cardinality(Decisions) \in Nat
        /\ Cardinality(todo') \in Nat /\ Cardinality(todo') <= Cardinality(Decisions)
    BY TrackFacts, FS_Subset, FS_CardinalityType DEF TypeOK
  <2>2. OrdersLeft' \in Nat /\ OrdersLeft' <= Cardinality(Decisions)
    BY <2>1 DEF OrdersLeft
  <2>3. QED
    BY <2>1, <2>2, OrdersLeftBounded
<1>2. ASSUME NEW d \in todo, todo' = todo \ {d}, at = "refresh",
             at' \in {"refresh", "position", "write"}
      PROVE  OrdersLeft' = OrdersLeft - 1
  <2>1. IsFiniteSet(todo)
    BY TrackFacts, FS_Subset DEF TypeOK
  <2>2. Cardinality(todo') = Cardinality(todo) - 1
    BY <1>2, <2>1, FS_RemoveElement
  <2>3. QED
    BY <1>2, <2>2 DEF OrdersLeft
<1>3. CASE Decide
  <2>1. at = "decide" /\ at' = "read" /\ OrdersLeft' = OrdersLeft
    BY <1>3 DEF Decide, Goto, OrdersLeft
  <2>2. QED
    BY <1>1, <2>1 DEF StepsLeft, PointsLeft
<1>4. CASE ReadDecision \/ ListOrders
  <2>1. /\ at \in {"read", "list"} /\ OrdersLeft = Cardinality(Decisions)
        /\ at = "read" => at' \in {"idle", "list"}
        /\ at = "list" => at' = "refresh"
    BY <1>4 DEF ReadDecision, ListOrders, Goto, End, OrdersLeft
  <2>2. QED
    BY <1>1, <2>1 DEF StepsLeft, PointsLeft
<1>5. ASSUME NEW d \in Decisions, NEW a \in SnapshotAnswers, LookUp(d, a)
      PROVE  StepsLeft' < StepsLeft
  <2>1. d \in todo /\ todo' = todo \ {d} /\ at = "refresh" /\ at' \in {"position", "write"}
    BY <1>5 DEF LookUp, Goto
  <2>2. OrdersLeft' = OrdersLeft - 1
    BY <1>2, <2>1
  <2>3. QED
    BY <1>1, <2>1, <2>2 DEF StepsLeft, PointsLeft
<1>6. CASE AskPosition \/ WriteStatus \/ MirrorStatus
  <2>1. /\ OrdersLeft' = OrdersLeft
        /\ <<at, at'>> \in {<<"position", "write">>, <<"write", "mirror">>, <<"mirror", "refresh">>}
    BY <1>6 DEF AskPosition, WriteStatus, MirrorStatus, Goto, OrdersLeft
  <2>2. QED
    BY <1>1, <2>1 DEF StepsLeft, PointsLeft
<1>7. CASE RefreshRaises
  <2>1. CASE at \in {"write", "mirror"}
    <3>1. OrdersLeft' = OrdersLeft /\ at' = "refresh"
      BY <1>7, <2>1 DEF RefreshRaises, Goto, OrdersLeft
    <3>2. QED
      BY <1>1, <2>1, <3>1 DEF StepsLeft, PointsLeft
  <2>2. CASE at = "refresh"
    <3>1. PICK d \in todo : todo' = todo \ {d}
      BY <1>7, <2>2 DEF RefreshRaises
    <3>2. at' = "refresh"
      BY <1>7 DEF RefreshRaises, Goto
    <3>3. OrdersLeft' = OrdersLeft - 1
      BY <1>2, <2>2, <3>1, <3>2
    <3>4. QED
      BY <1>1, <2>2, <3>2, <3>3 DEF StepsLeft, PointsLeft
  <2>3. CASE at = "list"
    <3>1. at' = "refresh" /\ OrdersLeft = Cardinality(Decisions)
      BY <1>7, <2>3 DEF RefreshRaises, Goto, OrdersLeft
    <3>2. QED
      BY <1>1, <2>3, <3>1 DEF StepsLeft, PointsLeft
  <2>4. QED
    BY <1>7, <2>1, <2>2, <2>3 DEF RefreshRaises
<1>8. ASSUME at' = "idle", todo' = {} PROVE StepsLeft' < StepsLeft
  <2>1. OrdersLeft' = 0
    BY <1>8, FS_EmptySet DEF OrdersLeft
  <2>2. at \in Points \ {"idle"}
    BY DEF TypeOK
  <2>3. QED
    BY <1>1, <1>8, <2>1, <2>2 DEF StepsLeft, PointsLeft, Points, RefreshPoints, TailPoints
<1>9. CASE IterationRaises \/ Crash \/ RecordBaseline \/ MarkUnknown \/ MarkFailed
  BY <1>8, <1>9 DEF IterationRaises, Crash, RecordBaseline, MarkUnknown, MarkFailed, End, Goto
<1>10. CASE CheckActive
  <2>1. at = "refresh" /\ ((at' = "idle" /\ todo' = {}) \/ (at' = "claim" /\ todo' = todo))
    BY <1>10 DEF CheckActive, End, Goto
  <2>2. CASE at' = "claim" /\ todo' = todo
    <3>1. OrdersLeft' = OrdersLeft
      BY <2>1, <2>2 DEF OrdersLeft
    <3>2. QED
      BY <1>1, <2>1, <2>2, <3>1 DEF StepsLeft, PointsLeft
  <2>3. QED
    BY <1>8, <2>1, <2>2
<1>11. CASE Claim \/ ReadBaseline \/ SubmitOrder \/ SubmitReplyLost \/ SubmitRefused \/ RecordOrder
             \/ (\E a \in SnapshotAnswers : FirstLook(a))
             \/ SaveStatus \/ BookFill \/ SettleStatus \/ RecordEvent \/ TailRaises
  <2>1. /\ todo' = todo
        /\ \/ <<at, at'>> \in {<<"claim", "baseline">>, <<"baseline", "submit">>,
                <<"baseline", "fail">>, <<"submit", "record">>, <<"submit", "fail">>,
                <<"record", "snap">>, <<"snap", "save">>, <<"save", "book">>, <<"save", "event">>,
                <<"book", "settle">>, <<"book", "event">>, <<"settle", "event">>,
                <<"event", "audit">>}
           \/ at \in TailPoints /\ at' = "unknown"
    BY <1>11 DEF Claim, ReadBaseline, SubmitOrder, SubmitReplyLost, SubmitRefused, RecordOrder,
      FirstLook, SaveStatus, BookFill, SettleStatus, RecordEvent, TailRaises, Goto
  <2>2. OrdersLeft' = OrdersLeft
    BY <2>1 DEF OrdersLeft, TailPoints
  <2>3. QED
    BY <1>1, <2>1, <2>2 DEF StepsLeft, PointsLeft, TailPoints
<1>12. CASE Environment \/ UNCHANGED vars
  BY <1>12 DEF Environment, NextBucket, GrowOlder, NewDay, BrokerMoves, HideEvents, runVars, vars
<1>13. CASE PassGuard
  BY <1>13 DEF PassGuard
<1>14. QED
  BY <1>3, <1>4, <1>5, <1>6, <1>7, <1>9, <1>10, <1>11, <1>12, <1>13
  DEF Next, Program, Iterate, Refresh, Submit

\* An iteration (_iteration, run_task585) has no loop but the one over the orders
\* it listed, and that one takes an order out in every round, whatever raises:
\* it ends after 15 steps and four for every order at most.
THEOREM IterationIsBounded ==
  Spec => /\ [](StepsLeft \in 0 .. 15 + 4 * Cardinality(Decisions))
          /\ [][at # "idle" => UNCHANGED runVars \/ StepsLeft' < StepsLeft]_vars
<1>1. TypeOK => StepsLeft \in 0 .. 15 + 4 * Cardinality(Decisions)
  <2> SUFFICES ASSUME TypeOK PROVE StepsLeft \in 0 .. 15 + 4 * Cardinality(Decisions)
    OBVIOUS
  <2>1. OrdersLeft \in 0 .. Cardinality(Decisions) /\ Cardinality(Decisions) \in Nat
    BY TrackFacts, FS_CardinalityType, OrdersLeftBounded
  <2>2. PointsLeft[at] \in 0 .. 15
    BY DEF PointsLeft, TypeOK, Points, RefreshPoints, TailPoints
  <2>3. QED
    BY <2>1, <2>2 DEF StepsLeft
<1>2. TypeOK /\ TypeOK' /\ [Next]_vars =>
        [at # "idle" => UNCHANGED runVars \/ StepsLeft' < StepsLeft]_vars
  BY StepsStep
<1>3. QED
  BY TrackingTypesCorrect, <1>1, <1>2, PTL DEF Spec

=============================================================================
