--------------------------- MODULE Reconciliation ---------------------------
(***************************************************************************)
(* The pure comparison of local order state with the broker's order rows   *)
(* (src/app/reconciliation.py).  Every submission of the trade runner is   *)
(* gated by its outcome.                                                   *)
(*                                                                         *)
(*   local   the local open orders: a function from order id to status     *)
(*   booked  the ids of the orders that have at least one local fill row   *)
(*   rows    the broker's rows: a function from order id to a record       *)
(*           [status, filled]; one row per id, the last one of the list    *)
(*                                                                         *)
(* Event texts, symbols and reasons are left out: an event is its type,    *)
(* its severity and the order it is about.                                 *)
(***************************************************************************)
EXTENDS Naturals

LocalOpenStatuses ==
  {"SUBMITTED", "PENDING", "PARTIAL", "CANCEL_REQUESTED", "CANCEL_IN_PROGRESS"}

\* What map_broker_status can return, and PENDING, which only the unfilled
\* orders endpoint assigns.
BrokerStatuses ==
  {"SUBMITTED", "PENDING", "FILLED", "REJECTED", "FAILED", "CANCELLED", "UNKNOWN"}

Event(type, severity, ids) ==
  { [type |-> type, severity |-> severity, order |-> o] : o \in ids }

BrokerOpen(rows) == { o \in DOMAIN rows : rows[o].status \in {"SUBMITTED", "PENDING"} }

MissingBroker(local, rows) == DOMAIN local \ DOMAIN rows

MissingLocal(local, rows) == BrokerOpen(rows) \ DOMAIN local

StatusUnknown(local, rows) ==
  { o \in DOMAIN local \cap DOMAIN rows : rows[o].status = "UNKNOWN" }

\* The comparison skips LATE_FILL: it needs a local status CANCELLED, and no
\* caller passes a cancelled order as open.
StatusConflict(local, rows) ==
  { o \in DOMAIN local \cap DOMAIN rows :
      /\ local[o] \in LocalOpenStatuses
      /\ rows[o].status \in {"CANCELLED", "REJECTED", "FILLED"} }

\* Mutant: off by one.
FillMismatchAboveOne(booked, rows) ==
  { o \in DOMAIN rows : rows[o].filled > 1 } \ booked

\* Broker executions without any local fill row.
FillMismatch(booked, rows) ==
  { o \in DOMAIN rows : rows[o].filled > 0 } \ booked

ReconcileEvents(local, booked, rows) ==
  UNION { Event("MISSING_BROKER", "CRITICAL", MissingBroker(local, rows)),
          Event("MISSING_LOCAL", "CRITICAL", MissingLocal(local, rows)),
          Event("STATUS_MISMATCH", "WARN", StatusUnknown(local, rows)),
          Event("STATUS_MISMATCH", "CRITICAL", StatusConflict(local, rows)),
          Event("FILL_MISMATCH", "CRITICAL", FillMismatch(booked, rows)) }

\* ReconciliationOutcome: the verdict that gates a submission.
Reconcile(local, booked, rows) ==
  LET events   == ReconcileEvents(local, booked, rows)
      critical == \E e \in events : e.severity = "CRITICAL"
  IN  [ status           |-> IF events = {} THEN "CLEAN" ELSE "MISMATCH",
        severity         |-> IF events = {} THEN "INFO"
                             ELSE IF critical THEN "CRITICAL" ELSE "WARN",
        block_new_orders |-> critical,
        events           |-> events ]

=============================================================================
