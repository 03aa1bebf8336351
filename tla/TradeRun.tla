------------------------------ MODULE TradeRun ------------------------------
(***************************************************************************)
(* The paper-trade runner: app/run_trade_once.py `run` called again and    *)
(* again by app/run_trade_loop.py, the cancel loop it drives               *)
(* (execution/cancel_loop.py), the rows it writes with state/store.py, and *)
(* the broker as integration/kis_client.py shows it.                       *)
(*                                                                         *)
(* One step is one store transaction or one broker call: those are the     *)
(* points where the process can die, where a call can raise, and between   *)
(* which the broker moves on its own.                                      *)
(*                                                                         *)
(* Abstractions.  An order id is a model value.  The intent key is the     *)
(* record of what it hashes (symbol, side, price; quantity and strategy    *)
(* are constants of the program).  A fill row is the quantity in its       *)
(* dedupe key: the other parts of the key are fixed by the order.  The     *)
(* control_state checks, the candidate selection and the recent-intent     *)
(* window (off by default) only decide whether a run starts or submits     *)
(* nothing, which the model may do at any time.  Continuation capture and  *)
(* reconciliation audit rows never feed back into a decision here.         *)
(***************************************************************************)
EXTENDS Reconciliation, FiniteSetsExt, Functions

CONSTANTS
  OrderIds,     \* the ids the broker can hand out (bounds the submissions)
  Symbols, Sides, Prices,
  Qty,          \* shares per order: 1 in the code
  MaxPolls,     \* polls before the cancel loop: 10 in the code
  MaxAttempts,  \* cancel loop attempts: 30 in the code
  FaultSets,    \* the combinations of faults the environment may commit
  None          \* no order, no intent

FaultKinds == {"crash",      \* the process dies and is started again
               "raise",      \* any call inside run()'s try block raises
               "lostReply",  \* the broker acts on a request, the reply is lost
               "fetch",      \* an order endpoint fails; the client returns no rows
               "text",       \* a history row's status text is not in the map
               "newDay",     \* the history endpoint stops showing an order
               "lateFill"}   \* an execution comes in after the cancellation

Intents == [symbol : Symbols, side : Sides, price : Prices]

ASSUME ConstantsAssumption ==
  /\ Qty \in Nat \ {0}
  /\ MaxPolls \in Nat \ {0}
  /\ MaxAttempts \in Nat \ {0}
  /\ Sides \subseteq {"BUY", "SELL"}
  /\ FaultSets \subseteq SUBSET FaultKinds
  /\ None \notin OrderIds
  /\ None \notin Intents

Terminal == {"FILLED", "CANCELLED", "REJECTED", "EXPIRED"}

\* has_blocking_order_intent: the statuses that block a duplicate intent.
BlockingStatuses == LocalOpenStatuses \cup {"UNKNOWN"}

\* "ABSENT": the orders table has no row for the id.
OrderStatuses == BlockingStatuses \cup Terminal \cup {"FAILED", "ABSENT"}

BrokerStates == {"NONE", "OPEN", "FILLED", "CANCELLED", "REJECTED", "FAILED", "EXPIRED"}

RunResults == {"ORDER_SUBMITTED", "FILLED", "CANCELLED", "UNKNOWN", "FAILED",
               "SKIPPED_DUPLICATE", "SKIPPED_RECON_BLOCK"}

\* Program points of run(); TryPoints are those inside its try block.
TryPoints == {"recon", "price", "submit", "record", "poll", "filled", "fix",
              "position", "event", "settle", "announce", "cancel", "cancelTop",
              "cancelReq", "cancelSave", "audit"}
Points == TryPoints \cup {"idle", "handler", "finish"}

\* Where a fill correction returns to.
Callers == {"polled", "midCancel", "filledInCancel", "cancelled"}

VARIABLES
  \* the process
  pc,        \* program point
  cur,       \* order_id of this run
  want,      \* symbol, side and price of this run
  result,    \* run_result_status
  count,     \* polls done, then cancel attempts done
  caller,    \* who called the fill correction
  ret,       \* final_state of the cancel loop
  delta,     \* quantity of the correction in progress
  \* the store
  status,    \* orders.status
  intent,    \* orders.intent_key, and what the broker order was placed for
  fills,     \* fills rows of each order, a row being its quantity
  booked,    \* what the fills rows of each order add up to
  position,  \* positions.quantity of each symbol
  events,    \* position_events rows of each order
  runRow,    \* result_status of the latest trade_runs row, "OPEN" before finish
  \* the broker
  bstate, bfilled,
  btoday,    \* the history endpoint shows the order
  \* the environment
  faults     \* what may go wrong in this behaviour; chosen at the start

procVars   == <<pc, cur, want, result, count, caller, ret, delta>>
storeVars  == <<status, intent, fills, booked, position, events, runRow>>
brokerVars == <<bstate, bfilled, btoday>>
vars       == <<pc, cur, want, result, count, caller, ret, delta,
                status, intent, fills, booked, position, events, runRow,
                bstate, bfilled, btoday, faults>>

-----------------------------------------------------------------------------
(* The broker's order views, as the client returns them *)

\* One answer of the two order endpoints: whether each one answered, and the
\* history rows whose status text map_broker_status does not know.
Views ==
  [ unfilled : IF "fetch" \in faults THEN BOOLEAN ELSE {TRUE},
    history  : IF "fetch" \in faults THEN BOOLEAN ELSE {TRUE},
    unmapped : IF "text" \in faults THEN SUBSET OrderIds ELSE {{}} ]

InUnfilled(v) == IF v.unfilled THEN { o \in OrderIds : bstate[o] = "OPEN" } ELSE {}
InHistory(v)  == IF v.history THEN { o \in OrderIds : btoday[o] } ELSE {}

UnfilledRow(o) == [status |-> "PENDING", filled |-> bfilled[o]]

\* A complete fill is recognised by its quantity if its text is unknown; an
\* expired order has no entry in the status map.
HistoryRow(o, v) ==
  [ status |-> CASE bstate[o] = "FILLED" -> "FILLED"
                 [] bstate[o] = "EXPIRED" \/ o \in v.unmapped -> "UNKNOWN"
                 [] bstate[o] = "OPEN" -> "SUBMITTED"
                 [] OTHER -> bstate[o],
    filled |-> bfilled[o] ]

NotFound == [status |-> "UNKNOWN", filled |-> 0]

\* get_order_snapshot: the first row with the id, unfilled orders first.
Snapshot(o, v) ==
  IF o \in InUnfilled(v) THEN UnfilledRow(o)
  ELSE IF o \in InHistory(v) THEN HistoryRow(o, v)
  ELSE NotFound

\* _broker_order_snapshot: an open row with some of the quantity is PARTIAL.
SnapshotState(row) ==
  IF row.status \in {"SUBMITTED", "PENDING"} /\ 0 < row.filled /\ row.filled < Qty
  THEN "PARTIAL" ELSE row.status

\* The rows a reconciliation of symbol s sees, by id: the later list, the
\* history, replaces an unfilled row with the same id.
RowsById(s, v) ==
  [ o \in { x \in InUnfilled(v) \cup InHistory(v) : intent[x].symbol = s } |->
      IF o \in InHistory(v) THEN HistoryRow(o, v) ELSE UnfilledRow(o) ]

-----------------------------------------------------------------------------
(* What the program reads from its store *)

LocalOpen(s) ==
  [ o \in { x \in OrderIds : /\ status[x] \in LocalOpenStatuses
                             /\ intent[x].symbol = s } |-> status[o] ]

\* list_local_filled_order_ids(symbol)
BookedIds(s) == { o \in OrderIds : fills[o] # {} /\ intent[o].symbol = s }

Verdict(s, v) == Reconcile(LocalOpen(s), BookedIds(s), RowsById(s, v))

\* Mutant: only the order of the run is looked at.
HasUnknownOwn == cur # None /\ status[cur] = "UNKNOWN"

\* has_order_with_status(status="UNKNOWN"), over all symbols.
HasUnknown == \E o \in OrderIds : status[o] = "UNKNOWN"

\* Mutant: an order being cancelled no longer blocks its intent.
HasBlockingIntentNarrow(i) ==
  \E o \in OrderIds : intent[o] = i /\ status[o] \in {"SUBMITTED", "PENDING", "PARTIAL"}

HasBlockingIntent(i) ==
  \E o \in OrderIds : intent[o] = i /\ status[o] \in BlockingStatuses

\* Mutant: the broker's total is booked again and again.
MissingFillTotal(o, total) == total

\* What a correction books: the broker's total less the local fill rows.
MissingFill(o, total) == total - booked[o]

\* Mutant: the insert is taken to have succeeded.
DuplicateFillIgnored(o, q) == FALSE

\* record_fill ignores an insert whose dedupe key is there already.
DuplicateFill(o, q) == q \in fills[o]

\* Mutant: no floor.
ApplyFillUnfloored(old, side, q) == IF side = "BUY" THEN old + q ELSE old - q

\* Mutant: every fill adds.
ApplyFillAdding(old, side, q) == old + q

\* apply_fill_to_position, quantity only: long-only, a SELL stops at zero.
ApplyFill(old, side, q) ==
  IF side = "BUY" THEN old + q
  ELSE IF q > old THEN 0 ELSE old - q

\* update_order_status changes the row of the id, if there is one.
UpdateStatus(o, st) ==
  status' = [status EXCEPT ![o] = IF @ = "ABSENT" THEN @ ELSE st]

-----------------------------------------------------------------------------
TypeOK ==
  /\ pc \in Points
  /\ cur \in OrderIds \cup {None}
  /\ want \in Intents \cup {None}
  /\ result \in RunResults
  /\ count \in 0 .. MaxPolls + MaxAttempts
  /\ caller \in Callers
  /\ ret \in Terminal \cup {"UNKNOWN"}
  /\ delta \in 0 .. Qty
  /\ status \in [OrderIds -> OrderStatuses]
  /\ intent \in [OrderIds -> Intents \cup {None}]
  /\ fills \in [OrderIds -> SUBSET (1 .. Qty)]
  /\ booked \in [OrderIds -> 0 .. Qty]
  /\ position \in [Symbols -> Nat]
  /\ events \in [OrderIds -> SUBSET (1 .. Qty)]
  /\ runRow \in RunResults \cup {"NONE", "OPEN"}
  /\ bstate \in [OrderIds -> BrokerStates]
  /\ bfilled \in [OrderIds -> 0 .. Qty]
  /\ btoday \in [OrderIds -> BOOLEAN]
  /\ faults \in FaultSets

Init ==
  /\ pc = "idle" /\ cur = None /\ want = None
  /\ result = "FAILED" /\ count = 0 /\ caller = "polled" /\ ret = "UNKNOWN"
  /\ delta = 0
  /\ status = [o \in OrderIds |-> "ABSENT"]
  /\ intent = [o \in OrderIds |-> None]
  /\ fills = [o \in OrderIds |-> {}]
  /\ booked = [o \in OrderIds |-> 0]
  /\ position = [s \in Symbols |-> 0]
  /\ events = [o \in OrderIds |-> {}]
  /\ runRow = "NONE"
  /\ bstate = [o \in OrderIds |-> "NONE"]
  /\ bfilled = [o \in OrderIds |-> 0]
  /\ btoday = [o \in OrderIds |-> FALSE]
  /\ faults \in FaultSets

\* Leaving run(): nothing of the process's memory survives the run.
Forget ==
  /\ cur' = None /\ want' = None /\ result' = "FAILED" /\ count' = 0
  /\ caller' = "polled" /\ ret' = "UNKNOWN" /\ delta' = 0

-----------------------------------------------------------------------------
(* run(): before the submission *)

\* run() raises at once while any order is UNKNOWN.  The price of the run,
\* quoted after the reconciliation, is drawn here: nothing reads it before.
StartRun(i) ==
  /\ pc = "idle"
  /\ ~HasUnknown
  /\ pc' = "recon"
  /\ want' = i
  /\ runRow' = "OPEN"
  /\ UNCHANGED <<cur, result, count, caller, ret, delta,
                 status, intent, fills, booked, position, events, brokerVars, faults>>

\* _run_reconciliation_check and the gate on its outcome; when the broker call
\* or the read of the local state raises, the outcome is ERROR and blocks too.
CheckReconciliation(v) ==
  /\ pc = "recon"
  /\ \/ /\ Verdict(want.symbol, v).block_new_orders \/ "raise" \in faults
        /\ pc' = "finish" /\ result' = "SKIPPED_RECON_BLOCK"
     \/ /\ ~Verdict(want.symbol, v).block_new_orders
        /\ pc' = "price" /\ UNCHANGED result
  /\ UNCHANGED <<cur, want, count, caller, ret, delta, storeVars, brokerVars, faults>>

\* The quote, and the duplicate-intent gate.
CheckIntent ==
  /\ pc = "price"
  /\ IF HasBlockingIntent(want)
     THEN pc' = "finish" /\ result' = "SKIPPED_DUPLICATE"
     ELSE pc' = "submit" /\ UNCHANGED result
  /\ UNCHANGED <<cur, want, count, caller, ret, delta, storeVars, brokerVars, faults>>

\* The broker takes the order: from here on it can fill.
BrokerTakes(o) ==
  /\ bstate[o] = "NONE"
  /\ bstate' = [bstate EXCEPT ![o] = "OPEN"]
  /\ btoday' = [btoday EXCEPT ![o] = TRUE]
  /\ intent' = [intent EXCEPT ![o] = want]

SubmitOrder(o) ==
  /\ pc = "submit"
  /\ BrokerTakes(o)
  /\ cur' = o
  /\ pc' = "record"
  /\ UNCHANGED <<want, result, count, caller, ret, delta,
                 status, fills, booked, position, events, runRow, bfilled, faults>>

\* The request times out after the broker took the order: order_id is None.
SubmitReplyLost(o) ==
  /\ "lostReply" \in faults
  /\ pc = "submit"
  /\ BrokerTakes(o)
  /\ pc' = "handler"
  /\ UNCHANGED <<cur, want, result, count, caller, ret, delta,
                 status, fills, booked, position, events, runRow, bfilled, faults>>

\* The broker refuses the order, or the quote or the notice before it raises.
SubmitRefused ==
  /\ pc \in {"price", "submit"}
  /\ pc' = "handler"
  /\ UNCHANGED <<cur, want, result, count, caller, ret, delta,
                 storeVars, brokerVars, faults>>

RecordOrder ==
  /\ pc = "record"
  /\ status' = [status EXCEPT ![cur] = "SUBMITTED"]
  /\ result' = "ORDER_SUBMITTED"
  /\ count' = 0
  /\ pc' = "poll"
  /\ UNCHANGED <<cur, want, caller, ret, delta,
                 intent, fills, booked, position, events, runRow, brokerVars, faults>>

-----------------------------------------------------------------------------
(* run(): polling, and booking a fill *)

\* Only FILLED ends the polling early; any other answer is polled again.
Poll(v) ==
  /\ pc = "poll"
  /\ LET seen == SnapshotState(Snapshot(cur, v)) IN
     /\ IF seen = "PARTIAL" THEN UpdateStatus(cur, "PARTIAL") ELSE UNCHANGED status
     /\ IF seen = "FILLED"
        THEN pc' = "filled" /\ UNCHANGED count
        ELSE /\ count' = count + 1
             /\ pc' = IF count + 1 = MaxPolls THEN "cancel" ELSE "poll"
  /\ UNCHANGED <<cur, want, result, caller, ret, delta,
                 intent, fills, booked, position, events, runRow, brokerVars, faults>>

RecordFilled ==
  /\ pc = "filled"
  /\ UpdateStatus(cur, "FILLED")
  /\ caller' = "polled"
  /\ pc' = "fix"
  /\ UNCHANGED <<cur, want, result, count, ret, delta,
                 intent, fills, booked, position, events, runRow, brokerVars, faults>>

\* _apply_broker_fill_correction up to record_fill: position and event follow
\* only if the fill row is new.
CorrectFills(v) ==
  /\ pc = "fix"
  /\ LET total == Snapshot(cur, v).filled
         missing == MissingFill(cur, total)
     IN  \/ /\ missing <= 0
            /\ delta' = 0 /\ pc' = "settle" /\ UNCHANGED <<fills, booked>>
         \/ /\ missing > 0
            /\ delta' = missing
            /\ fills' = [fills EXCEPT ![cur] = @ \cup {missing}]
            /\ IF DuplicateFill(cur, missing)
               THEN pc' = "settle" /\ UNCHANGED booked
               ELSE pc' = "position" /\ booked' = [booked EXCEPT ![cur] = @ + missing]
  /\ UNCHANGED <<cur, want, result, count, caller, ret,
                 status, intent, position, events, runRow, brokerVars, faults>>

UpdatePosition ==
  /\ pc = "position"
  /\ position' = [position EXCEPT ![want.symbol] = ApplyFill(@, want.side, delta)]
  /\ pc' = "event"
  /\ UNCHANGED <<cur, want, result, count, caller, ret, delta,
                 status, intent, fills, booked, events, runRow, brokerVars, faults>>

RecordPositionEvent ==
  /\ pc = "event"
  /\ events' = [events EXCEPT ![cur] = @ \cup {delta}]
  /\ pc' = "settle"
  /\ UNCHANGED <<cur, want, result, count, caller, ret, delta,
                 status, intent, fills, booked, position, runRow, brokerVars, faults>>

\* Mutant: a cancelled order is reported CANCELLED, late fill or not.
SettleAsCancelled ==
  /\ pc = "settle"
  /\ pc' = IF caller = "midCancel" THEN "cancelSave" ELSE "announce"
  /\ result' = CASE caller = "filledInCancel" -> "FILLED"
                 [] caller = "cancelled" -> "CANCELLED"
                 [] OTHER -> result
  /\ delta' = 0
  /\ UNCHANGED <<cur, want, count, caller, ret, storeVars, brokerVars, faults>>

\* What the caller of the correction does with its return value, delta.
Settle ==
  /\ pc = "settle"
  /\ pc' = IF caller = "midCancel" THEN "cancelSave" ELSE "announce"
  /\ result' = CASE caller = "filledInCancel" -> "FILLED"
                 [] caller = "cancelled" -> IF delta > 0 THEN "FILLED" ELSE "CANCELLED"
                 [] OTHER -> result
  /\ delta' = 0
  /\ UNCHANGED <<cur, want, count, caller, ret, storeVars, brokerVars, faults>>

\* The notice to the operator.  After a polled fill the run is called FILLED
\* only once the notice is out.
Announce ==
  /\ pc = "announce"
  /\ result' = IF caller = "polled" THEN "FILLED" ELSE result
  /\ pc' = "finish"
  /\ UNCHANGED <<cur, want, count, caller, ret, delta, storeVars, brokerVars, faults>>

-----------------------------------------------------------------------------
(* cancel_until_terminal, and what run() does with its answer *)

RequestCancelLocally ==
  /\ pc = "cancel"
  /\ UpdateStatus(cur, "CANCEL_REQUESTED")
  /\ count' = 0
  /\ pc' = "cancelTop"
  /\ UNCHANGED <<cur, want, result, caller, ret, delta,
                 intent, fills, booked, position, events, runRow, brokerVars, faults>>

\* Attempts exhausted, or more than a minute gone: that can be at any turn.
CancelGivesUp ==
  /\ pc = "cancelTop"
  /\ ret' = "UNKNOWN"
  /\ pc' = "cancelSave"
  /\ UNCHANGED <<cur, want, result, count, caller, delta, storeVars, brokerVars, faults>>

CancelPoll(v) ==
  /\ pc = "cancelTop"
  /\ count < MaxAttempts
  /\ count' = count + 1
  /\ LET row  == Snapshot(cur, v)
         seen == SnapshotState(row)
     IN  \/ /\ seen = "CANCELLED" /\ row.filled > 0
            /\ ret' = seen
            /\ caller' = "midCancel" /\ pc' = "fix" /\ UNCHANGED status
         \/ /\ seen \in Terminal /\ ~(seen = "CANCELLED" /\ row.filled > 0)
            /\ ret' = seen
            /\ pc' = "cancelSave" /\ UNCHANGED <<status, caller>>
         \/ /\ seen \in LocalOpenStatuses \cup {"UNKNOWN"}
            /\ UpdateStatus(cur, "CANCEL_IN_PROGRESS")
            /\ pc' = "cancelReq" /\ UNCHANGED <<caller, ret>>
         \/ /\ seen = "FAILED"
            /\ ret' = "UNKNOWN"
            /\ pc' = "cancelSave" /\ UNCHANGED <<status, caller>>
  /\ UNCHANGED <<cur, want, result, delta,
                 intent, fills, booked, position, events, runRow, brokerVars, faults>>

\* cancel_order: a request the broker accepts is reported as CANCELLED,
\* whether or not the order is already off the book.
CancelAccepted ==
  /\ pc = "cancelReq"
  /\ bstate[cur] = "OPEN"
  /\ \/ bstate' = [bstate EXCEPT ![cur] = "CANCELLED"]
     \/ UNCHANGED bstate
  /\ ret' = "CANCELLED"
  /\ pc' = "cancelSave"
  /\ UNCHANGED <<cur, want, result, count, caller, delta,
                 storeVars, bfilled, btoday, faults>>

\* Mutant: a failed request starts the attempts over.
CancelFailsRestarting ==
  /\ pc = "cancelReq"
  /\ pc' = "cancelTop"
  /\ count' = 0
  /\ UNCHANGED <<cur, want, result, caller, ret, delta,
                 storeVars, brokerVars, faults>>

\* Refused or raised: the loop reconciles, sleeps and polls again.
CancelFails ==
  /\ pc = "cancelReq"
  /\ pc' = "cancelTop"
  /\ UNCHANGED <<cur, want, result, count, caller, ret, delta,
                 storeVars, brokerVars, faults>>

CancelReplyLost ==
  /\ "lostReply" \in faults
  /\ pc = "cancelReq"
  /\ bstate[cur] = "OPEN"
  /\ bstate' = [bstate EXCEPT ![cur] = "CANCELLED"]
  /\ pc' = "cancelTop"
  /\ UNCHANGED <<cur, want, result, count, caller, ret, delta,
                 storeVars, bfilled, btoday, faults>>

\* Mutant: only a fill is saved.
SaveCancelOutcomeOfFill ==
  /\ pc = "cancelSave"
  /\ IF ret = "FILLED" THEN UpdateStatus(cur, ret) ELSE UNCHANGED status
  /\ pc' = "audit"
  /\ UNCHANGED <<cur, want, result, count, caller, ret, delta,
                 intent, fills, booked, position, events, runRow, brokerVars, faults>>

SaveCancelOutcome ==
  /\ pc = "cancelSave"
  /\ UpdateStatus(cur, ret)
  /\ pc' = "audit"
  /\ UNCHANGED <<cur, want, result, count, caller, ret, delta,
                 intent, fills, booked, position, events, runRow, brokerVars, faults>>

\* Mutant: a cancelled order is taken for an unresolved one.
AfterCancelLoopFilledOnly ==
  /\ pc = "audit"
  /\ \/ /\ ret = "FILLED"
        /\ caller' = "filledInCancel" /\ pc' = "fix" /\ UNCHANGED result
     \/ /\ ret # "FILLED"
        /\ result' = "UNKNOWN" /\ pc' = "handler" /\ UNCHANGED caller
  /\ UNCHANGED <<cur, want, count, ret, delta, storeVars, brokerVars, faults>>

\* The reconciliation after it only writes audit rows; then run() acts on the
\* final state, and raises for any but FILLED and CANCELLED.
AfterCancelLoop ==
  /\ pc = "audit"
  /\ \/ /\ ret = "FILLED"
        /\ caller' = "filledInCancel" /\ pc' = "fix" /\ UNCHANGED result
     \/ /\ ret = "CANCELLED"
        /\ caller' = "cancelled" /\ pc' = "fix" /\ UNCHANGED result
     \/ /\ ret \notin {"FILLED", "CANCELLED"}
        /\ result' = "UNKNOWN" /\ pc' = "handler" /\ UNCHANGED caller
  /\ UNCHANGED <<cur, want, count, ret, delta, storeVars, brokerVars, faults>>

-----------------------------------------------------------------------------
(* The except and finally clauses; failures *)

\* Mutant: an unresolved order is failed like any other.
HandleExceptionFailing ==
  /\ pc = "handler"
  /\ \/ cur # None /\ result # "FILLED" /\ UpdateStatus(cur, "FAILED")
     \/ (cur = None \/ result = "FILLED") /\ UNCHANGED status
  /\ result' = IF result = "ORDER_SUBMITTED" THEN "FAILED" ELSE result
  /\ pc' = "finish"
  /\ UNCHANGED <<cur, want, count, caller, ret, delta,
                 intent, fills, booked, position, events, runRow, brokerVars, faults>>

\* An order not known to be filled is closed as FAILED, an unresolved one kept
\* UNKNOWN; a failure of this write is swallowed.
HandleException ==
  /\ pc = "handler"
  /\ \/ cur # None /\ result = "UNKNOWN" /\ UpdateStatus(cur, "UNKNOWN")
     \/ /\ cur # None /\ result \notin {"UNKNOWN", "FILLED"}
        /\ UpdateStatus(cur, "FAILED")
     \/ cur = None /\ UNCHANGED status
     \/ result = "FILLED" /\ UNCHANGED status
     \/ "raise" \in faults /\ UNCHANGED status
  /\ result' = IF result = "ORDER_SUBMITTED" THEN "FAILED" ELSE result
  /\ pc' = "finish"
  /\ UNCHANGED <<cur, want, count, caller, ret, delta,
                 intent, fills, booked, position, events, runRow, brokerVars, faults>>

FinishRun ==
  /\ pc = "finish"
  /\ runRow' = result
  /\ pc' = "idle"
  /\ Forget
  /\ UNCHANGED <<status, intent, fills, booked, position, events, brokerVars, faults>>

\* A store or notification call inside the try block raises.
CallRaises ==
  /\ "raise" \in faults
  /\ pc \in TryPoints
  /\ pc' = "handler"
  /\ UNCHANGED <<cur, want, result, count, caller, ret, delta,
                 storeVars, brokerVars, faults>>

\* The process dies and the loop is started again; the store survives.
Crash ==
  /\ "crash" \in faults
  /\ pc # "idle"
  /\ pc' = "idle"
  /\ Forget
  /\ UNCHANGED <<storeVars, brokerVars, faults>>

-----------------------------------------------------------------------------
(* The broker, on its own *)

\* What the account really holds.
Held(s) ==
  LET Of(side) == { o \in OrderIds : bstate[o] # "NONE" /\ intent[o].symbol = s
                                     /\ intent[o].side = side }
  IN  SumFunctionOnSet(bfilled, Of("BUY")) - SumFunctionOnSet(bfilled, Of("SELL"))

\* An execution, which may be shown after the cancellation it was faster than;
\* the account is not allowed to go short.
BrokerFills(o, q) ==
  /\ bstate[o] = "OPEN" \/ ("lateFill" \in faults /\ bstate[o] = "CANCELLED")
  /\ bfilled[o] + q <= Qty
  /\ intent[o].side = "SELL" => q <= Held(intent[o].symbol)
  /\ bfilled' = [bfilled EXCEPT ![o] = @ + q]
  /\ bstate' = [bstate EXCEPT ![o] = IF bfilled[o] + q = Qty THEN "FILLED" ELSE @]
  /\ UNCHANGED <<procVars, storeVars, btoday, faults>>

BrokerCloses(o, final) ==
  /\ bstate[o] = "OPEN"
  /\ final \in {"REJECTED", "FAILED"} => bfilled[o] = 0
  /\ bstate' = [bstate EXCEPT ![o] = final]
  /\ UNCHANGED <<procVars, storeVars, bfilled, btoday, faults>>

\* The dates the history endpoint is asked for pass: day orders expire and
\* all orders disappear from the client's view.
NewDay ==
  /\ "newDay" \in faults
  /\ \E o \in OrderIds : btoday[o]
  /\ btoday' = [o \in OrderIds |-> FALSE]
  /\ bstate' = [o \in OrderIds |-> IF bstate[o] = "OPEN" THEN "EXPIRED" ELSE bstate[o]]
  /\ UNCHANGED <<procVars, storeVars, bfilled, faults>>

-----------------------------------------------------------------------------
Submission ==
  \/ \E i \in Intents : StartRun(i)
  \/ \E v \in Views : CheckReconciliation(v)
  \/ CheckIntent
  \/ \E o \in OrderIds : SubmitOrder(o)
  \/ \E o \in OrderIds : SubmitReplyLost(o)
  \/ SubmitRefused
  \/ RecordOrder

Booking ==
  \/ \E v \in Views : Poll(v)
  \/ RecordFilled
  \/ \E v \in Views : CorrectFills(v)
  \/ UpdatePosition
  \/ RecordPositionEvent
  \/ Settle
  \/ Announce

CancelLoop ==
  \/ RequestCancelLocally
  \/ CancelGivesUp
  \/ \E v \in Views : CancelPoll(v)
  \/ CancelAccepted
  \/ CancelFails
  \/ CancelReplyLost
  \/ SaveCancelOutcome
  \/ AfterCancelLoop

Closing == HandleException \/ FinishRun

Broker ==
  \/ \E o \in OrderIds, q \in 1 .. Qty : BrokerFills(o, q)
  \/ \E o \in OrderIds, final \in {"CANCELLED", "REJECTED", "FAILED"} :
       BrokerCloses(o, final)
  \/ NewDay

Program == Submission \/ Booking \/ CancelLoop \/ Closing

Next == Program \/ CallRaises \/ Crash \/ Broker

Spec == Init /\ [][Next]_vars

\* The loop keeps taking steps while it runs; nothing is asked of the broker.
FairSpec == Spec /\ WF_vars(pc # "idle" /\ Program)

=============================================================================
