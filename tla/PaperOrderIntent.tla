-------------------------- MODULE PaperOrderIntent --------------------------
(***************************************************************************)
(* What the paper_order_intents table of src/state/store.py promises about *)
(* each row: the states it goes through, and the broker order it is tied   *)
(* to.  A row is named by its idempotency key; the columns that no         *)
(* condition reads are left out.                                           *)
(***************************************************************************)
EXTENDS Naturals

CONSTANTS
  Keys,       \* idempotency keys
  OrderIds,   \* ids the broker can hand out
  None        \* no order id

ASSUME IntentAssumption == None \notin OrderIds \cup Keys

IntentStates == {"CREATED", "SUBMITTING", "SUBMITTED_LOCAL_RECORDED", "UNKNOWN",
                 "BLOCKED", "RECONCILED"}

\* PAPER_ORDER_INTENT_TRANSITIONS
Transitions ==
  {<<"CREATED", "SUBMITTING">>, <<"CREATED", "BLOCKED">>,
   <<"SUBMITTING", "SUBMITTED_LOCAL_RECORDED">>,
   <<"SUBMITTING", "UNKNOWN">>, <<"SUBMITTING", "BLOCKED">>,
   <<"SUBMITTED_LOCAL_RECORDED", "RECONCILED">>,
   <<"SUBMITTED_LOCAL_RECORDED", "UNKNOWN">>, <<"SUBMITTED_LOCAL_RECORDED", "BLOCKED">>,
   <<"UNKNOWN", "RECONCILED">>, <<"UNKNOWN", "BLOCKED">>}

VARIABLES
  state,      \* "ABSENT": no row with the key
  orderId     \* broker_order_id

intentVars == <<state, orderId>>

IntentTypeOK ==
  /\ state \in [Keys -> IntentStates \cup {"ABSENT"}]
  /\ orderId \in [Keys -> OrderIds \cup {None}]

IntentInit ==
  /\ state = [k \in Keys |-> "ABSENT"]
  /\ orderId = [k \in Keys |-> None]

\* create_paper_order_intent: a row that is there already is left as it is.
Create(k) ==
  /\ state' = [state EXCEPT ![k] = IF @ = "ABSENT" THEN "CREATED" ELSE @]
  /\ UNCHANGED orderId

\* The UPDATE of transition_paper_order_intent, when it finds its row.
Transition(k, from, to, o) ==
  /\ <<from, to>> \in Transitions
  /\ state[k] = from
  /\ state' = [state EXCEPT ![k] = to]
  /\ orderId' = [orderId EXCEPT ![k] = IF o = None THEN @ ELSE o]

\* transition_paper_order_intent: nothing happens when the row is not in the
\* state the caller expects.
TryTransition(k, from, to, o) ==
  IF state[k] = from THEN Transition(k, from, to, o) ELSE UNCHANGED intentVars

\* A row is tied to a broker order once, when it leaves SUBMITTING.
IntentNext ==
  \E k \in Keys :
    \/ Create(k)
    \/ \E from, to \in IntentStates, o \in OrderIds \cup {None} :
         /\ o # None => from = "SUBMITTING" /\ orderId[k] = None
         /\ Transition(k, from, to, o)

IntentSpec == IntentInit /\ [][IntentNext]_intentVars

=============================================================================
