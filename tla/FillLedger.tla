----------------------------- MODULE FillLedger -----------------------------
(***************************************************************************)
(* What the store promises of executions, without the runner: orders are   *)
(* placed, the market executes them, and the store books what was          *)
(* executed, some time after, in any portions, and never takes a booking   *)
(* back.  TradeRun implements this.                                        *)
(***************************************************************************)
EXTENDS Integers

CONSTANTS
  Orders,
  Shares    \* the shares of an order

VARIABLES
  placed,    \* orders the broker took
  executed,  \* shares of each order it executed
  entered    \* shares of each order the fill rows add up to

ledgerVars == <<placed, executed, entered>>

LedgerInit ==
  /\ placed = {}
  /\ executed = [o \in Orders |-> 0]
  /\ entered = [o \in Orders |-> 0]

Place(o) ==
  /\ o \notin placed
  /\ placed' = placed \cup {o}
  /\ UNCHANGED <<executed, entered>>

Execute(o, q) ==
  /\ o \in placed
  /\ executed[o] + q <= Shares
  /\ executed' = [executed EXCEPT ![o] = @ + q]
  /\ UNCHANGED <<placed, entered>>

\* record_fill: not more than what was executed and is not booked.
Book(o, q) ==
  /\ o \in placed
  /\ entered[o] + q <= executed[o]
  /\ entered' = [entered EXCEPT ![o] = @ + q]
  /\ UNCHANGED <<placed, executed>>

LedgerNext ==
  \/ \E o \in Orders : Place(o)
  \/ \E o \in Orders, q \in 1 .. Shares : Execute(o, q) \/ Book(o, q)

LedgerSpec == LedgerInit /\ [][LedgerNext]_ledgerVars

=============================================================================
