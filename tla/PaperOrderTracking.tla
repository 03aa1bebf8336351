------------------------- MODULE PaperOrderTracking -------------------------
(***************************************************************************)
(* What becomes of a paper order: the iterations of                        *)
(* app/task_588_kis_paper_market_hours_runtime_loop.py, and in them        *)
(* app/task_585_kis_paper_order_execution.py run_task585: the check for    *)
(* active orders, the refresh of those orders, the submission, the first   *)
(* snapshot, and the execution event by which later runs remember the      *)
(* order.  PaperOrderExecution models the intent of a decision; here it is *)
(* the set `claimed`, and since a decision is submitted at most once, its  *)
(* order goes by the name of the decision.                                 *)
(*                                                                         *)
(* A step is one call to the broker or one transaction of the store; the   *)
(* two reads of an active-order check are one step.  There is one executor *)
(* (PaperOrderExecution has several).  Orders are for one share, as Task   *)
(* 584 decides them, and buy: a sale mirrors the position.                 *)
(* SKIPPED events are left out, except that they push others out of the    *)
(* 200 rows a run reads.  The orders themselves stay within the 200.       *)
(***************************************************************************)
EXTENDS Integers, FiniteSetsExt

CONSTANTS
  Decisions,    \* ids of Task 584's decisions, reused until one is claimed
  Symbols,
  MaxOpen,      \* TRADING_MAX_OPEN_ORDERS: 1
  MaxDaily,     \* TRADING_MAX_PAPER_ORDERS_PER_DAY: 3
  Days,         \* last day (bounds the calendar)
  FaultSets,    \* the combinations of faults the environment may commit
  None          \* no decision

FaultKinds == {"crash",      \* the executor dies, or an except clause raises
               "raise",      \* a call raises an exception
               "lostReply",  \* the broker takes the order, the reply is lost
               "fetch",      \* the broker does not answer a query
               "text",       \* the status text of a row is not in the map
               "newDay",     \* the trading day ends
               "window"}     \* 200 later rows hide an execution event

ASSUME TrackingAssumption ==
  /\ MaxOpen \in Nat \ {0} /\ MaxDaily \in Nat \ {0} /\ Days \in Nat \ {0}
  /\ IsFiniteSet(Decisions)
  /\ FaultSets \subseteq SUBSET FaultKinds
  /\ None \notin Decisions

\* active_statuses
Active == {"SUBMITTED", "PENDING", "UNKNOWN"}

\* "CLOSED" stands for CANCELLED and REJECTED.
LocalStatuses == Active \cup {"FILLED", "CLOSED"}

BrokerStates == {"NONE", "OPEN", "FILLED", "CLOSED", "FAILED", "EXPIRED"}

\* mapped_status and raw_status of a snapshot; "UNKNOWN" is an unmapped text.
SnapshotAnswers == {"NOT_FOUND", "UNKNOWN", "PENDING", "FILLED", "CLOSED", "FAILED"}

Sources == {"ORDER_STATUS", "POSITION_DELTA_FALLBACK"}

\* No pre_order_position_qty.
NoBaseline == -1

RefreshPoints == {"list", "refresh", "position", "write", "mirror"}
TailPoints    == {"record", "snap", "save", "book", "settle", "event", "audit"}
Points == {"idle", "decide", "read", "claim", "baseline", "submit",
           "unknown", "fail"} \cup RefreshPoints \cup TailPoints

VARIABLES
  \* the executor
  at,        \* program point
  dec,       \* the decision the run works on
  todo,      \* active orders it still has to refresh
  doubted,   \* those it listed as UNKNOWN
  cur,       \* the order it is refreshing
  local,     \* local_status, to be written
  base,      \* pre_order_position_qty of its submission
  \* the store
  beat,      \* the heartbeat of the present 5-minute bucket is there
  latest,    \* the latest decision, None if it is no candidate
  claimed,   \* decisions whose intent has left CREATED
  status,    \* orders.status
  fills,     \* sources of the fill rows: with the order they make the dedupe key
  event,     \* order_status of the event written at the end of a submission
  baseline,  \* pre_order_position_qty of that event, NoBaseline before it is written
  failure,   \* order_status of the event <decision>-failed
  hidden,    \* decisions whose events are no longer among the 200 read
  \* the broker and the calendar
  bstate, symbol,
  day, age,  \* of the submission; age 1: past the grace, 2: position may confirm
  today,
  faults     \* what may go wrong in this behaviour; chosen at the start

runVars    == <<at, dec, todo, doubted, cur, local, base>>
storeVars  == <<beat, latest, claimed, status, fills, event, baseline, failure, hidden>>
brokerVars == <<bstate, symbol, day, age, today>>
vars == <<at, dec, todo, doubted, cur, local, base,
          beat, latest, claimed, status, fills, event, baseline, failure, hidden,
          bstate, symbol, day, age, today, faults>>

TypeOK ==
  /\ at \in Points
  /\ dec \in Decisions \cup {None}
  /\ todo \in SUBSET Decisions
  /\ doubted \in SUBSET Decisions
  /\ cur \in Decisions \cup {None}
  /\ local \in LocalStatuses
  /\ base \in Nat
  /\ beat \in BOOLEAN
  /\ latest \in Decisions \cup {None}
  /\ claimed \subseteq Decisions
  /\ status \in [Decisions -> LocalStatuses \cup {"ABSENT"}]
  /\ fills \in [Decisions -> SUBSET Sources]
  /\ event \in [Decisions -> LocalStatuses \cup {"NONE"}]
  /\ baseline \in [Decisions -> Nat \cup {NoBaseline}]
  /\ failure \in [Decisions -> LocalStatuses \cup {"NONE", "FAILED"}]
  /\ hidden \subseteq Decisions
  /\ bstate \in [Decisions -> BrokerStates]
  /\ symbol \in [Decisions -> Symbols]
  /\ day \in [Decisions -> 0 .. Days]
  /\ age \in [Decisions -> 0 .. 2]
  /\ today \in 1 .. Days
  /\ faults \in FaultSets

Init ==
  /\ at = "idle"
  /\ dec = None
  /\ todo = {}
  /\ doubted = {}
  /\ cur = None
  /\ local = "PENDING"
  /\ base = 0
  /\ beat = FALSE /\ latest = None /\ claimed = {}
  /\ status = [d \in Decisions |-> "ABSENT"]
  /\ fills = [d \in Decisions |-> {}]
  /\ event = [d \in Decisions |-> "NONE"]
  /\ baseline = [d \in Decisions |-> NoBaseline]
  /\ failure = [d \in Decisions |-> "NONE"]
  /\ hidden = {}
  /\ bstate = [d \in Decisions |-> "NONE"]
  /\ symbol \in [Decisions -> Symbols]
  /\ day = [d \in Decisions |-> 0]
  /\ age = [d \in Decisions |-> 0]
  /\ today = 1
  /\ faults \in FaultSets

-----------------------------------------------------------------------------
(* What the program reads *)

\* The position of the account, of bought shares.
Held(s) == Cardinality({ d \in Decisions : bstate[d] = "FILLED" /\ symbol[d] = s })

\* get_order_snapshot: the endpoints show the day's orders.
Answers(d) ==
  (IF bstate[d] # "NONE" /\ day[d] = today
   THEN {IF bstate[d] = "OPEN" THEN "PENDING" ELSE bstate[d]}
        \cup (IF "text" \in faults /\ bstate[d] \notin {"OPEN", "FILLED"}
              THEN {"UNKNOWN"} ELSE {})
   ELSE {"NOT_FOUND"})
  \cup (IF "fetch" \in faults THEN {"NOT_FOUND"} ELSE {})

\* Mutant: a status that is not in the list is passed on.
RefreshedStatusRaw(d, a) ==
  CASE a = "NOT_FOUND" /\ age[d] > 0 -> "UNKNOWN"
    [] a \in {"NOT_FOUND", "UNKNOWN"} -> "PENDING"
    [] OTHER -> a

\* The status a refresh derives from a snapshot.
RefreshedStatus(d, a) ==
  CASE a = "NOT_FOUND" /\ age[d] > 0 -> "UNKNOWN"
    [] a \in {"NOT_FOUND", "UNKNOWN"} -> "PENDING"
    [] a = "FAILED" -> "UNKNOWN"
    [] OTHER -> a

\* The status the first snapshot after a submission gives.
FirstStatus(a) ==
  IF a \in {"NOT_FOUND", "UNKNOWN", "FAILED"} THEN "PENDING" ELSE a

\* The failed event names the order unless it says FAILED.
Named(d) == failure[d] \notin {"NONE", "FAILED"}

\* The latest event of the order has a baseline.
BaselineKnown(d) == d \notin hidden /\ baseline[d] # NoBaseline /\ ~Named(d)

Recorded == { d \in Decisions : status[d] # "ABSENT" }
RecordedOn(x) == { d \in Recorded : day[d] = x }

\* The orders counted against the daily limit: those of today, or of the
\* latest day that has any.
Counted ==
  IF RecordedOn(today) # {} \/ Recorded = {} THEN RecordedOn(today)
  ELSE RecordedOn(Max({ day[d] : d \in Recorded }))

DailyLimitReached == Cardinality(Counted) >= MaxDaily

\* Mutant: an order that is in doubt is given up.
ActiveOrdersKnown == { d \in Decisions : status[d] \in Active \ {"UNKNOWN"} }

\* Order rows and event rows that hold their symbol, and those of the last
\* minutes, which hold all symbols once there are MaxOpen.
ActiveOrders == { d \in Decisions : status[d] \in Active }

ActiveEvents ==
  { <<d, "order">> : d \in { x \in Decisions \ hidden : event[x] \in Active } } \cup
  { <<d, "failed">> : d \in { x \in Decisions \ hidden : failure[x] \in Active } }

\* _active_order_blocker
Blocked(s) ==
  \/ DailyLimitReached
  \/ \E d \in ActiveOrders : symbol[d] = s
  \/ Cardinality({ d \in ActiveOrders : age[d] = 0 }) >= MaxOpen
  \/ \E e \in ActiveEvents : symbol[e[1]] = s
  \/ Cardinality({ e \in ActiveEvents : age[e[1]] = 0 }) >= MaxOpen

Free(d) == d # None /\ ~Blocked(symbol[d])

-----------------------------------------------------------------------------
(* An iteration up to its refresh *)

Goto(point) == at' = point

\* The run is over; nothing of its memory is left.
End ==
  /\ Goto("idle")
  /\ dec' = None
  /\ todo' = {}
  /\ doubted' = {}
  /\ cur' = None
  /\ local' = "PENDING"
  /\ base' = 0

\* _record_safety_heartbeat_guard: an iteration that finds the heartbeat of the
\* bucket does nothing; the others write one before they do their work.
PassGuard ==
  /\ at = "idle"
  /\ ~beat
  /\ beat' = TRUE
  /\ Goto("decide")
  /\ UNCHANGED <<dec, todo, doubted, cur, local, base, latest, claimed, status,
                 fills, event, baseline, failure, hidden, brokerVars, faults>>

\* Task 584: a new decision, or one that is no candidate.
Decide ==
  /\ at = "decide"
  /\ latest' \in {None} \cup (Decisions \ claimed)
  /\ Goto("read")
  /\ UNCHANGED <<dec, todo, doubted, cur, local, base, beat, claimed, status,
                 fills, event, baseline, failure, hidden, brokerVars, faults>>

\* run_task585 reads the latest decision.  A candidate whose symbol is blocked
\* ends the run here, without a refresh.
ReadDecision ==
  /\ at = "read"
  /\ \/ /\ latest # None /\ ~Free(latest)
        /\ End
     \/ /\ latest # None => Free(latest)
        /\ dec' = latest
        /\ Goto("list")
        /\ UNCHANGED <<todo, doubted, cur, local, base>>
  /\ UNCHANGED <<storeVars, brokerVars, faults>>

-----------------------------------------------------------------------------
(* _refresh_active_local_orders *)

ListOrders ==
  /\ at = "list"
  /\ todo' = ActiveOrders
  /\ doubted' = { d \in Decisions : status[d] = "UNKNOWN" }
  /\ Goto("refresh")
  /\ UNCHANGED <<dec, cur, local, base, storeVars, brokerVars, faults>>

\* The snapshot of one order.  An execution it shows is booked at once;
\* otherwise the position may be asked, if the order is old enough and was not
\* unknown already.
LookUp(d, a) ==
  /\ at = "refresh"
  /\ d \in todo
  /\ a \in Answers(d)
  /\ todo' = todo \ {d}
  /\ cur' = d
  /\ local' = RefreshedStatus(d, a)
  /\ fills' = [fills EXCEPT ![d] = @ \cup (IF a = "FILLED" THEN {"ORDER_STATUS"} ELSE {})]
  /\ IF /\ a # "FILLED" /\ age[d] = 2 /\ BaselineKnown(d)
        /\ ~(a = "NOT_FOUND" /\ d \in doubted)
     THEN Goto("position") ELSE Goto("write")
  /\ UNCHANGED <<dec, doubted, base, beat, latest, claimed, status, event, baseline,
                 failure, hidden, brokerVars, faults>>

\* Mutant: the position is taken for the change of the position.
PositionConfirmsHolding(d) == Held(symbol[d]) >= 1

PositionConfirms(d) == Held(symbol[d]) - baseline[d] >= 1

\* Mutant: the order keeps its status.
AskPositionOnly ==
  /\ at = "position"
  /\ \/ /\ PositionConfirms(cur)
        /\ fills' = [fills EXCEPT ![cur] = @ \cup {"POSITION_DELTA_FALLBACK"}]
     \/ ~PositionConfirms(cur) /\ UNCHANGED fills
  /\ Goto("write")
  /\ UNCHANGED <<dec, todo, doubted, cur, local, base, beat, latest, claimed, status,
                 event, baseline, failure, hidden, brokerVars, faults>>

\* The position has grown by the order's share: the order is taken to be
\* executed.  A failing lookup confirms nothing; if record_fill raises, the
\* status has been set already.
AskPosition ==
  /\ at = "position"
  /\ \/ /\ PositionConfirms(cur)
        /\ local' = "FILLED"
        /\ \/ fills' = [fills EXCEPT ![cur] = @ \cup {"POSITION_DELTA_FALLBACK"}]
           \/ "raise" \in faults /\ UNCHANGED fills
     \/ /\ ~PositionConfirms(cur) \/ "fetch" \in faults
        /\ UNCHANGED <<local, fills>>
  /\ Goto("write")
  /\ UNCHANGED <<dec, todo, doubted, cur, base, beat, latest, claimed, status, event,
                 baseline, failure, hidden, brokerVars, faults>>

WriteStatus ==
  /\ at = "write"
  /\ status' = [status EXCEPT ![cur] = local]
  /\ Goto("mirror")
  /\ UNCHANGED <<dec, todo, doubted, cur, local, base, beat, latest, claimed, fills,
                 event, baseline, failure, hidden, brokerVars, faults>>

\* _update_execution_event_status: every event that names the order.
MirrorStatus ==
  /\ at = "mirror"
  /\ LET d == cur IN
     /\ event' = [event EXCEPT ![d] = IF @ = "NONE" THEN @ ELSE local]
     /\ failure' = [failure EXCEPT ![d] = IF Named(d) THEN local ELSE @]
  /\ Goto("refresh")
  /\ UNCHANGED <<dec, todo, doubted, cur, local, base, beat, latest, claimed, status,
                 fills, baseline, hidden, brokerVars, faults>>

\* Only the order at hand is given up.
RefreshRaises ==
  /\ "raise" \in faults
  /\ \/ at \in {"write", "mirror"} /\ UNCHANGED todo
     \/ at = "refresh" /\ \E d \in todo : todo' = todo \ {d}
     \/ at = "list" /\ UNCHANGED todo
  /\ Goto("refresh")
  /\ UNCHANGED <<dec, doubted, cur, local, base, storeVars, brokerVars, faults>>

-----------------------------------------------------------------------------
(* The submission *)

\* The second check for active orders.
CheckActive ==
  /\ at = "refresh" /\ todo = {}
  /\ \/ /\ ~Free(dec)
        /\ End
     \/ /\ Free(dec)
        /\ Goto("claim")
        /\ doubted' = {}
        /\ cur' = None
        /\ local' = "PENDING"
        /\ UNCHANGED <<dec, todo, base>>
  /\ UNCHANGED <<storeVars, brokerVars, faults>>

\* The intent is moved past CREATED.
Claim ==
  /\ at = "claim"
  /\ claimed' = claimed \cup {dec}
  /\ Goto("baseline")
  /\ UNCHANGED <<dec, todo, doubted, cur, local, base, beat, latest, status, fills,
                 event, baseline, failure, hidden, brokerVars, faults>>

\* Without a baseline nothing is submitted.
ReadBaseline ==
  /\ at = "baseline"
  /\ \/ /\ base' = Held(symbol[dec])
        /\ Goto("submit")
     \/ "fetch" \in faults /\ Goto("fail") /\ UNCHANGED base
  /\ UNCHANGED <<dec, todo, doubted, cur, local, storeVars, brokerVars, faults>>

BrokerTakes(d) ==
  /\ bstate' = [bstate EXCEPT ![d] = "OPEN"]
  /\ day' = [day EXCEPT ![d] = today]
  /\ UNCHANGED <<symbol, age, today>>

SubmitOrder ==
  /\ at = "submit"
  /\ BrokerTakes(dec)
  /\ Goto("record")
  /\ UNCHANGED <<dec, todo, doubted, cur, local, base, storeVars, faults>>

SubmitReplyLost ==
  /\ "lostReply" \in faults
  /\ at = "submit"
  /\ BrokerTakes(dec)
  /\ Goto("fail")
  /\ UNCHANGED <<dec, todo, doubted, cur, local, base, storeVars, faults>>

SubmitRefused ==
  /\ at = "submit"
  /\ Goto("fail")
  /\ UNCHANGED <<dec, todo, doubted, cur, local, base, storeVars, brokerVars, faults>>

RecordOrder ==
  /\ at = "record"
  /\ status' = [status EXCEPT ![dec] = "SUBMITTED"]
  /\ Goto("snap")
  /\ UNCHANGED <<dec, todo, doubted, cur, local, base, beat, latest, claimed, fills,
                 event, baseline, failure, hidden, brokerVars, faults>>

\* The first snapshot.
FirstLook(a) ==
  /\ at = "snap"
  /\ a \in Answers(dec)
  /\ local' = FirstStatus(a)
  /\ Goto("save")
  /\ UNCHANGED <<dec, todo, doubted, cur, base, storeVars, brokerVars, faults>>

\* Mutant: a fill that is shown is not booked.
SaveStatusOnly ==
  /\ at = "save"
  /\ status' = [status EXCEPT ![dec] = local]
  /\ Goto("event")
  /\ UNCHANGED <<dec, todo, doubted, cur, local, base, beat, latest, claimed, fills,
                 event, baseline, failure, hidden, brokerVars, faults>>

\* FILLED is saved before its fill is booked.
SaveStatus ==
  /\ at = "save"
  /\ status' = [status EXCEPT ![dec] = local]
  /\ Goto(IF local = "FILLED" THEN "book" ELSE "event")
  /\ UNCHANGED <<dec, todo, doubted, cur, local, base, beat, latest, claimed, fills,
                 event, baseline, failure, hidden, brokerVars, faults>>

BookFill ==
  /\ at = "book"
  /\ fills' = [fills EXCEPT ![dec] = @ \cup {"ORDER_STATUS"}]
  /\ Goto(IF "ORDER_STATUS" \in fills[dec] THEN "event" ELSE "settle")
  /\ UNCHANGED <<dec, todo, doubted, cur, local, base, beat, latest, claimed, status,
                 event, baseline, failure, hidden, brokerVars, faults>>

SettleStatus ==
  /\ at = "settle"
  /\ status' = [status EXCEPT ![dec] = "FILLED"]
  /\ Goto("event")
  /\ UNCHANGED <<dec, todo, doubted, cur, local, base, beat, latest, claimed, fills,
                 event, baseline, failure, hidden, brokerVars, faults>>

\* _record_execution_event: the row without its baseline ...
RecordEvent ==
  /\ at = "event"
  /\ event' = [event EXCEPT ![dec] = local]
  /\ Goto("audit")
  /\ UNCHANGED <<dec, todo, doubted, cur, local, base, beat, latest, claimed, status,
                 fills, baseline, failure, hidden, brokerVars, faults>>

\* ... and _update_execution_position_audit, which adds it.
RecordBaseline ==
  /\ at = "audit"
  /\ baseline' = [baseline EXCEPT ![dec] = base]
  /\ End
  /\ UNCHANGED <<beat, latest, claimed, status, fills, event, failure, hidden,
                 brokerVars, faults>>

\* An exception after the submission.
TailRaises ==
  /\ "raise" \in faults
  /\ at \in TailPoints
  /\ Goto("unknown")
  /\ UNCHANGED <<dec, todo, doubted, cur, local, base, storeVars, brokerVars, faults>>

\* Mutant: an order that is not in the orders table counts as failed.
MarkUnknownIfRecorded ==
  /\ at = "unknown"
  /\ failure' = [failure EXCEPT ![dec] =
                   IF status[dec] = "ABSENT" THEN "FAILED" ELSE "UNKNOWN"]
  /\ End
  /\ UNCHANGED <<beat, latest, claimed, status, fills, event, baseline, hidden,
                 brokerVars, faults>>

\* The except clause, with an order id: the event keeps the symbol blocked.
MarkUnknown ==
  /\ at = "unknown"
  /\ failure' = [failure EXCEPT ![dec] = "UNKNOWN"]
  /\ End
  /\ UNCHANGED <<beat, latest, claimed, status, fills, event, baseline, hidden,
                 brokerVars, faults>>

\* The except clause, without one.  The event replaces one of the same decision.
MarkFailed ==
  /\ at = "fail"
  /\ failure' = [failure EXCEPT ![dec] = "FAILED"]
  /\ End
  /\ UNCHANGED <<beat, latest, claimed, status, fills, event, baseline, hidden,
                 brokerVars, faults>>

\* An exception outside run_task585's try blocks: caught in _iteration.
IterationRaises ==
  /\ "raise" \in faults
  /\ at \in {"decide", "read", "claim"} \/ (at = "refresh" /\ todo = {})
  /\ End
  /\ UNCHANGED <<storeVars, brokerVars, faults>>

Crash ==
  /\ "crash" \in faults
  /\ at # "idle"
  /\ End
  /\ UNCHANGED <<storeVars, brokerVars, faults>>

-----------------------------------------------------------------------------
(* The environment *)

\* Mutant: a bucket is a day.
NextBucketNever ==
  /\ beat
  /\ UNCHANGED vars

NextBucket ==
  /\ beat
  /\ beat' = FALSE
  /\ UNCHANGED <<runVars, latest, claimed, status, fills, event, baseline, failure,
                 hidden, brokerVars, faults>>

BrokerMoves(d, b) ==
  /\ bstate[d] = "OPEN"
  /\ b \in {"FILLED", "CLOSED", "FAILED"}
  /\ bstate' = [bstate EXCEPT ![d] = b]
  /\ UNCHANGED <<runVars, storeVars, symbol, day, age, today, faults>>

\* Minutes pass, the same number for every order.
GrowOlder ==
  /\ age' = [d \in Decisions |-> IF bstate[d] # "NONE" /\ age[d] < 2
                                 THEN age[d] + 1 ELSE age[d]]
  /\ age' # age
  /\ UNCHANGED <<runVars, storeVars, bstate, symbol, day, today, faults>>

\* Day orders expire and leave the client's view.
NewDay ==
  /\ "newDay" \in faults
  /\ today < Days
  /\ today' = today + 1
  /\ bstate' = [d \in Decisions |-> IF bstate[d] = "OPEN" THEN "EXPIRED" ELSE bstate[d]]
  /\ age' = [d \in Decisions |-> IF bstate[d] = "NONE" THEN age[d] ELSE 2]
  /\ UNCHANGED <<runVars, storeVars, symbol, day, faults>>

HideEvents(d) ==
  /\ "window" \in faults
  /\ d \notin hidden
  /\ event[d] # "NONE" \/ failure[d] # "NONE"
  /\ hidden' = hidden \cup {d}
  /\ UNCHANGED <<runVars, beat, latest, claimed, status, fills, event, baseline,
                 failure, brokerVars, faults>>

-----------------------------------------------------------------------------
Iterate ==
  \/ PassGuard
  \/ Decide
  \/ ReadDecision

Refresh ==
  \/ ListOrders
  \/ \E d \in Decisions, a \in SnapshotAnswers : LookUp(d, a)
  \/ AskPosition
  \/ WriteStatus
  \/ MirrorStatus
  \/ CheckActive

Submit ==
  \/ Claim
  \/ ReadBaseline
  \/ SubmitOrder
  \/ SubmitReplyLost
  \/ SubmitRefused
  \/ RecordOrder
  \/ \E a \in SnapshotAnswers : FirstLook(a)
  \/ SaveStatus
  \/ BookFill
  \/ SettleStatus
  \/ RecordEvent
  \/ RecordBaseline
  \/ MarkUnknown
  \/ MarkFailed

Program == Iterate \/ Refresh \/ Submit

Environment ==
  \/ NextBucket
  \/ GrowOlder
  \/ NewDay
  \/ \E d \in Decisions, b \in BrokerStates : BrokerMoves(d, b)
  \/ \E d \in Decisions : HideEvents(d)

Next ==
  \/ Program
  \/ IterationRaises \/ RefreshRaises \/ TailRaises \/ Crash
  \/ Environment

Spec == Init /\ [][Next]_vars

\* The supervisor starts iteration after iteration while the market is open,
\* buckets pass, an iteration runs to its end, and a broker that is asked again
\* and again about an executed order says so at last.
FairSpec ==
  /\ Spec
  /\ WF_vars(Program)
  /\ WF_vars(NextBucket)
  /\ \A d \in Decisions : SF_vars(LookUp(d, "FILLED"))

-----------------------------------------------------------------------------
(* Properties *)

\* Every submission is remembered: no run dies, no reply is lost, and the 200
\* events that are read hide none whose order was not recorded.
Remembering ==
  faults \cap {"crash", "lostReply"} = {} /\ ~({"raise", "window"} \subseteq faults)

\* No second live order for a symbol: also not while the first is not in the
\* orders table, is not shown by the broker, or only an event tells of it, nor
\* when its event is forgotten: an order that is recorded does not need it.
\* A crash or a lost reply after the submission, or 200 events after a failed
\* record break it.
OneLiveOrder ==
  Remembering =>
    \A d, e \in Decisions :
      (bstate[d] = "OPEN" /\ bstate[e] = "OPEN" /\ symbol[d] = symbol[e]) => d = e

\* A fill row stands for an execution of that order, although the position may
\* stand in for the broker's word: no other order moves it meanwhile, and
\* without its event, or with one that has no baseline, it is not asked.
FillIsReal ==
  Remembering => \A d \in Decisions : fills[d] # {} => bstate[d] = "FILLED"

\* An execution is booked by one of the two sources, not by both.  A run that
\* is cut off between the fill and the status books it twice.
BookedOnce ==
  faults \cap {"crash", "raise"} = {} =>
    \A d \in Decisions : Cardinality(fills[d]) <= 1

\* FILLED is written ahead of its fill row or after it: nobody refreshes a
\* FILLED order again.  A run that is not cut off leaves none without a fill
\* row; one that dies leaves one only between the two writes of the first look,
\* and then without an execution event.
FilledIsBooked ==
  /\ faults \cap {"crash", "raise"} = {} =>
       \A d \in Decisions :
         status[d] = "FILLED" => fills[d] # {} \/ (at = "book" /\ dec = d)
  /\ "raise" \notin faults =>
       \A d \in Decisions : status[d] = "FILLED" /\ event[d] # "NONE" => fills[d] # {}

\* An iteration that failed, was blocked or died has used up its bucket: a later
\* one does the work.
IterationsGoOn == []<>(at = "decide")

\* The run that submitted the order may yet be the one to write its status.
SubmitterAtWork(d) == dec = d /\ at \in TailPoints

\* An execution is booked as long as the broker shows it, whatever queries fail
\* before and however many iterations die, provided runs get as far as their
\* refresh again and again: a candidate for a blocked symbol ends them before.
\* Only the run that submitted the order, should it die, can take it from the
\* later ones.
ExecutionIsBooked ==
  (faults \cap {"raise", "newDay"} = {} /\ []<>(at = "refresh")) =>
    \A d \in Decisions :
      (/\ status[d] \in Active /\ bstate[d] = "FILLED"
       /\ "crash" \in faults => ~SubmitterAtWork(d)) ~> fills[d] # {}

-----------------------------------------------------------------------------
\* The report of Task 585: unfilled orders are not shown as fills.
UnfilledNotShownAsFilled ==
  \A d \in Decisions : status[d] = "FILLED" => bstate[d] = "FILLED"

=============================================================================
