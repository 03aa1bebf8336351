------------------------- MODULE TradeRunProperties -------------------------
(***************************************************************************)
(* What TradeRun must satisfy, and what the repository's documents say of  *)
(* it.  The first part holds, each property in the behaviours without the  *)
(* faults its hypothesis names; the claims of the last part are refuted by *)
(* the code.                                                               *)
(***************************************************************************)
EXTENDS TradeRun

TodayOf(s) == { o \in OrderIds : btoday[o] /\ intent[o].symbol = s }

Submits(o) == bstate[o] = "NONE" /\ bstate'[o] # "NONE"

\* What the environment is spared in a behaviour.
CompleteViews  == faults \cap {"fetch", "text"} = {}
NothingRaises  == "raise" \notin faults
Undisturbed    == faults \subseteq {"lostReply", "lateFill"}

-----------------------------------------------------------------------------
(* Properties that hold *)

\* Open orders of one intent (symbol, side and price): in the store, on the market.
StoreIntentUnique ==
  \A o, p \in OrderIds :
    ({status[o], status[p]} \subseteq LocalOpenStatuses /\ intent[o] = intent[p]) => o = p

MarketIntentUnique ==
  \A o, p \in OrderIds :
    (bstate[o] = "OPEN" /\ bstate[p] = "OPEN" /\ intent[o] = intent[p]) => o = p

\* No intent is ordered twice.  The store never has two open orders of one,
\* also when an endpoint failed and the reconciliation let the run pass on half
\* a view: the duplicate-intent gate stands by itself.  With complete views the
\* market never has two either, whatever the process lost in crashes, exceptions
\* or lost replies: the two gates cover for each other.
LiveIntentUnique == StoreIntentUnique /\ (CompleteViews => MarketIntentUnique)

\* Each order of the day on the symbol is fully booked, or is still locally
\* open, when a further order goes out: executions of orders the process lost
\* track of block the submission.  Complete views, one share per order; a late
\* fill may come in after the check.
SubmitOnlyWhenAccounted ==
  [][ \A o \in OrderIds : (CompleteViews /\ "lateFill" \notin faults /\ Submits(o)) =>
        \A p \in TodayOf(intent'[o].symbol) :
          booked[p] = bfilled[p] \/ status[p] \in LocalOpenStatuses ]_vars

\* No submission reaches the broker while any order is UNKNOWN, although the
\* check is made several calls earlier.  All faults.
HaltedOnUnknown ==
  [][ (\E o \in OrderIds : Submits(o)) =>
        \A p \in OrderIds : status[p] # "UNKNOWN" ]_vars

\* The fill rows of an order never add up to more than the broker executed,
\* however often a correction is repeated, cut short or run on a bad view.
NoOverBooking == \A o \in OrderIds : booked[o] <= bfilled[o]

Ledger == INSTANCE FillLedger WITH
            Orders   <- OrderIds,
            Shares   <- Qty,
            placed   <- { o \in OrderIds : bstate[o] # "NONE" },
            executed <- bfilled,
            entered  <- booked

\* Whatever is lost, repeated or cut short, the store books executions as
\* FillLedger says: only of orders the broker took, never more than it executed,
\* and never back again.
BooksExecutions == Ledger!LedgerSpec

FillTotals  == [o \in OrderIds |-> SumSet(fills[o])]
EventTotals == [o \in OrderIds |-> SumSet(events[o])]

LedgerOf(s) ==
  LET Of(side) == { o \in OrderIds : fills[o] # {} /\ intent[o].symbol = s
                                     /\ intent[o].side = side }
  IN  SumFunctionOnSet(FillTotals, Of("BUY")) - SumFunctionOnSet(FillTotals, Of("SELL"))

\* The position is what the fill rows add up to, except inside the one step
\* between the two writes: the cancel loop, a late fill and the rerun all
\* book through the same correction.  A crash between the writes breaks it, and
\* so does a late fill that nobody booked: its shares are sold from zero.
PositionIsLedger ==
  (Undisturbed /\ "lateFill" \notin faults) =>
    \A s \in Symbols : pc # "position" => position[s] = LedgerOf(s)

\* The three records of an execution (fill, position, event) may be cut short
\* by a crash or an exception but never run ahead of each other.  Buys only.
LedgerBracket ==
  \A s \in Symbols :
    /\ SumFunctionOnSet(EventTotals, BookedIds(s)) <= position[s]
    /\ position[s] <= SumFunctionOnSet(FillTotals, BookedIds(s))

\* A run that reached the broker is reported FILLED exactly when it booked
\* the execution, also when the fill came in while it was cancelling.
\* One share per order; a view that loses sight of the fill breaks it.
ResultTellsBooking ==
  (Undisturbed /\ pc = "finish" /\ cur # None) =>
    (result = "FILLED" <=> fills[cur] # {})

\* A run never leaves its order open locally: it ends terminal, FAILED, or
\* UNKNOWN, which halts the loop.  Only a failing status write in the except
\* clause, which is swallowed, can leave it open.
FinishedRunClosesOrder ==
  (NothingRaises /\ pc = "finish" /\ cur # None) =>
    status[cur] \notin LocalOpenStatuses

\* FILLED and CANCELLED are final in the local store, through crashes, bad
\* views and lost replies, unless a call raises after the status is written.
TerminalIsFinal ==
  [][ NothingRaises =>
        \A o \in OrderIds :
          status[o] \in {"FILLED", "CANCELLED"} => status'[o] = status[o] ]_vars

\* An order found unresolved stays UNKNOWN until someone outside the runner
\* resolves it; it is never rewritten.  Crashes, but no exception.
UnknownPreserved ==
  [][ NothingRaises =>
        \A o \in OrderIds : status[o] = "UNKNOWN" => status'[o] = "UNKNOWN" ]_vars

\* Every run comes to an end, whatever the broker does or fails to do: the
\* polling and the cancel loop are bounded.
RunTerminates == pc # "idle" ~> pc = "idle"

-----------------------------------------------------------------------------
(* Strengthenings, for the proofs *)

\* The gates of a submission, with complete views.
LiveOrderVisible ==
  \A o \in OrderIds : bstate[o] = "OPEN" => intent[o] \in Intents /\ btoday[o]

GatePassed ==
  /\ pc \in {"price", "submit"} =>
       \A o \in OrderIds : (bstate[o] = "OPEN" /\ intent[o].symbol = want.symbol)
                             => status[o] \in LocalOpenStatuses
  /\ pc = "submit" => ~HasBlockingIntent(want)

GateInv == LiveOrderVisible /\ GatePassed /\ MarketIntentUnique

\* What the store's own gate has seen to: a run's order is the only open one of
\* its intent.  Under all faults.
StoreInv ==
  /\ \A o \in OrderIds : bstate[o] = "NONE" => status[o] = "ABSENT"
  /\ pc \in {"idle", "recon", "price", "submit"} => cur = None
  /\ pc = "submit" => ~HasBlockingIntent(want)
  /\ cur # None =>
       /\ bstate[cur] # "NONE"
       /\ \A o \in OrderIds \ {cur} :
            intent[o] = intent[cur] => status[o] \notin LocalOpenStatuses
  /\ StoreIntentUnique

\* The halt on UNKNOWN, until the submission.
HaltInv ==
  pc \in {"recon", "price", "submit"} => \A o \in OrderIds : status[o] # "UNKNOWN"

\* The stored status of the run's own order at each program point, as long as
\* no call raises.
BookingStatuses ==
  CASE caller = "midCancel" -> {"CANCEL_REQUESTED", "CANCEL_IN_PROGRESS"}
    [] caller = "cancelled" -> {"CANCELLED"}
    [] OTHER -> {"FILLED"}

OrderPhase ==
  /\ \A o \in OrderIds : bstate[o] = "NONE" => status[o] = "ABSENT"
  /\ pc \in {"idle", "recon", "price", "submit"} => cur = None
  /\ pc = "record" => status[cur] = "ABSENT" /\ bstate[cur] # "NONE"
  /\ pc \in {"poll", "filled", "cancel"} => status[cur] \in {"SUBMITTED", "PARTIAL"}
  /\ pc \in {"fix", "position", "event", "settle"} => status[cur] \in BookingStatuses
  /\ pc = "announce" => status[cur] \in {"FILLED", "CANCELLED"}
  /\ pc \in {"cancelTop", "cancelReq", "cancelSave"} =>
       status[cur] \in {"CANCEL_REQUESTED", "CANCEL_IN_PROGRESS"}
  /\ pc = "audit" => status[cur] = ret
  /\ (pc = "handler" /\ cur # None) =>
       result = "UNKNOWN" /\ status[cur] \in {"REJECTED", "EXPIRED", "UNKNOWN"}
  /\ (pc = "finish" /\ cur # None) =>
       status[cur] \in {"FILLED", "CANCELLED", "UNKNOWN"}

-----------------------------------------------------------------------------
(* A claim of the documents that the code does not keep *)

\* task_3431_3480: exception handling preserves UNKNOWN instead of rewriting
\* it to FAILED.
UnknownNotRewrittenFailed ==
  [][ \A o \in OrderIds : status[o] = "UNKNOWN" => status'[o] # "FAILED" ]_vars

=============================================================================
