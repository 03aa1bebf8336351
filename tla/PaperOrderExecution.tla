------------------------ MODULE PaperOrderExecution ------------------------
(***************************************************************************)
(* Who moves the intents of PaperOrderIntent: several executors            *)
(* (app/task_585_kis_paper_order_execution.py run_task585, from the        *)
(* reading of the decision to the local record of its order), several      *)
(* broker-truth reconciliations (app/broker_truth_reconciliation.py),      *)
(* the creation of an intent on full evidence                              *)
(* (execution/paper_eligibility_path.py) and the broker.  A step is one    *)
(* transaction of the store or one call to the broker.                     *)
(*                                                                         *)
(* The decision an executor reads is its key: it may be any of them.  That *)
(* no decision is a candidate, the environment is not paper, or an active  *)
(* order blocks the symbol only keeps the executor from starting.  What    *)
(* run_task585 does with the order once it is recorded (the snapshot, the  *)
(* fill, the execution event, the refresh of older orders) does not touch  *)
(* the intent and is left out.                                             *)
(***************************************************************************)
EXTENDS PaperOrderIntent

CONSTANTS
  Executors, Reconcilers,
  Symbols,
  FaultSets   \* the combinations of faults the environment may commit

FaultKinds == {"crash",      \* an executor dies
               "lostReply",  \* the broker takes the order, the reply is lost
               "record",     \* record_order raises
               "mark",       \* a transition after the submission raises
               "fetch"}      \* the order endpoints fail and no row comes back

ASSUME ExecutionAssumption == FaultSets \subseteq SUBSET FaultKinds /\ None \notin Symbols

VARIABLES
  symbol,     \* of the decision behind each key
  at,         \* program point of each executor
  key,        \* the decision it works on
  sent,       \* submitted_order_id
  recorded,   \* ids in the orders table
  placed,     \* the key each broker order was submitted for
  bstate,     \* mapped_status the broker would show for it
  stage,      \* program point of each reconciliation
  truth,      \* its broker_orders, as a function of the id
  todo,       \* intents it still has to resolve
  read,       \* <<key, state>> as resolve_... read it
  faults      \* what may go wrong in this behaviour; chosen at the start

execVars  == <<at, key, sent>>
reconVars == <<stage, truth, todo, read>>
vars == <<state, orderId, symbol, at, key, sent, recorded, placed, bstate,
          stage, truth, todo, read, faults>>

Points == {"idle", "create", "claim", "submit", "record", "mark", "unknown", "block"}

\* "UNKNOWN": the history shows a text that is not mapped.
BrokerStates == {"PENDING", "FILLED", "CANCELLED", "REJECTED", "UNKNOWN"}

Idle == <<>>

Resolvable == {"UNKNOWN", "SUBMITTED_LOCAL_RECORDED"}

TypeOK ==
  /\ IntentTypeOK
  /\ symbol \in [Keys -> Symbols]
  /\ at \in [Executors -> Points]
  /\ key \in [Executors -> Keys \cup {None}]
  /\ sent \in [Executors -> OrderIds \cup {None}]
  /\ recorded \subseteq OrderIds
  /\ placed \in [OrderIds -> Keys \cup {None}]
  /\ bstate \in [OrderIds -> BrokerStates]
  /\ stage \in [Reconcilers -> {"idle", "list", "resolve"}]
  /\ todo \in [Reconcilers -> SUBSET Keys]
  /\ \A r \in Reconcilers :
       /\ \A o \in DOMAIN truth[r] : o \in OrderIds /\ truth[r][o] \in BrokerStates
       /\ read[r] \in {Idle} \cup (Keys \X Resolvable)
  /\ faults \in FaultSets

Init ==
  /\ IntentInit
  /\ symbol \in [Keys -> Symbols]
  /\ at = [w \in Executors |-> "idle"]
  /\ key = [w \in Executors |-> None]
  /\ sent = [w \in Executors |-> None]
  /\ recorded = {}
  /\ placed = [o \in OrderIds |-> None]
  /\ bstate = [o \in OrderIds |-> "PENDING"]
  /\ stage = [r \in Reconcilers |-> "idle"]
  /\ truth = [r \in Reconcilers |-> <<>>]
  /\ todo = [r \in Reconcilers |-> {}]
  /\ read = [r \in Reconcilers |-> Idle]
  /\ faults \in FaultSets

-----------------------------------------------------------------------------
(* An executor *)

Goto(w, point) == at' = [at EXCEPT ![w] = point]

\* The run leaves its submission part, by its end or by an exception.
End(w) ==
  /\ Goto(w, "idle")
  /\ key' = [key EXCEPT ![w] = None]
  /\ sent' = [sent EXCEPT ![w] = None]

\* The decision is read, and whether it has an intent: one that is past
\* CREATED is a duplicate, and the run submits nothing.
Begin(w, k) ==
  /\ at[w] = "idle"
  /\ state[k] \in {"ABSENT", "CREATED"}
  /\ key' = [key EXCEPT ![w] = k]
  /\ Goto(w, "create")
  /\ UNCHANGED <<intentVars, symbol, sent, recorded, placed, bstate, reconVars, faults>>

CreateIntent(w) ==
  /\ at[w] = "create"
  /\ Create(key[w])
  /\ Goto(w, "claim")
  /\ UNCHANGED <<symbol, key, sent, recorded, placed, bstate, reconVars, faults>>

\* Mutant: the result of the transition is not looked at.
ClaimIntentUnchecked(w) ==
  /\ at[w] = "claim"
  /\ TryTransition(key[w], "CREATED", "SUBMITTING", None)
  /\ Goto(w, "submit")
  /\ UNCHANGED <<symbol, key, sent, recorded, placed, bstate, reconVars, faults>>

\* CREATED -> SUBMITTING, which one executor wins; the others raise.
ClaimIntent(w) ==
  /\ at[w] = "claim"
  /\ TryTransition(key[w], "CREATED", "SUBMITTING", None)
  /\ \/ state[key[w]] = "CREATED" /\ Goto(w, "submit") /\ UNCHANGED <<key, sent>>
     \/ state[key[w]] # "CREATED" /\ End(w)
  /\ UNCHANGED <<symbol, recorded, placed, bstate, reconVars, faults>>

\* The client, the position baseline or the broker refuses.
SubmitRefused(w) ==
  /\ at[w] = "submit"
  /\ Goto(w, "block")
  /\ UNCHANGED <<intentVars, symbol, key, sent, recorded, placed, bstate, reconVars, faults>>

BrokerTakes(w, o) ==
  /\ at[w] = "submit"
  /\ placed[o] = None
  /\ placed' = [placed EXCEPT ![o] = key[w]]

SubmitOrder(w, o) ==
  /\ BrokerTakes(w, o)
  /\ sent' = [sent EXCEPT ![w] = o]
  /\ Goto(w, "record")
  /\ UNCHANGED <<intentVars, symbol, key, recorded, bstate, reconVars, faults>>

SubmitReplyLost(w, o) ==
  /\ "lostReply" \in faults
  /\ BrokerTakes(w, o)
  /\ Goto(w, "block")
  /\ UNCHANGED <<intentVars, symbol, key, sent, recorded, bstate, reconVars, faults>>

RecordOrder(w) ==
  /\ at[w] = "record"
  /\ recorded' = recorded \cup {sent[w]}
  /\ Goto(w, "mark")
  /\ UNCHANGED <<intentVars, symbol, key, sent, placed, bstate, reconVars, faults>>

RecordOrderRaises(w) ==
  /\ "record" \in faults
  /\ at[w] = "record"
  /\ Goto(w, "unknown")
  /\ UNCHANGED <<intentVars, symbol, key, sent, recorded, placed, bstate, reconVars, faults>>

\* SUBMITTING -> SUBMITTED_LOCAL_RECORDED; its result is not looked at.
MarkRecorded(w) ==
  /\ at[w] = "mark"
  /\ TryTransition(key[w], "SUBMITTING", "SUBMITTED_LOCAL_RECORDED", sent[w])
  /\ End(w)
  /\ UNCHANGED <<symbol, recorded, placed, bstate, reconVars, faults>>

\* Mutant: the broker order id is not handed on.
MarkUnknownWithoutId(w) ==
  /\ at[w] = "unknown"
  /\ TryTransition(key[w], "SUBMITTING", "UNKNOWN", None)
  /\ End(w)
  /\ UNCHANGED <<symbol, recorded, placed, bstate, reconVars, faults>>

\* The except clause, with an order id and no local record.
MarkUnknown(w) ==
  /\ at[w] = "unknown"
  /\ TryTransition(key[w], "SUBMITTING", "UNKNOWN", sent[w])
  /\ End(w)
  /\ UNCHANGED <<symbol, recorded, placed, bstate, reconVars, faults>>

\* The except clause, without an order id.
MarkBlocked(w) ==
  /\ at[w] = "block"
  /\ TryTransition(key[w], "SUBMITTING", "BLOCKED", None)
  /\ End(w)
  /\ UNCHANGED <<symbol, recorded, placed, bstate, reconVars, faults>>

\* The transition raises: with the order recorded, the except clause leaves
\* the intent alone; in the except clause itself the run ends.
MarkRaises(w) ==
  /\ "mark" \in faults
  /\ at[w] \in {"mark", "unknown", "block"}
  /\ End(w)
  /\ UNCHANGED <<intentVars, symbol, recorded, placed, bstate, reconVars, faults>>

Crash(w) ==
  /\ "crash" \in faults
  /\ at[w] # "idle"
  /\ End(w)
  /\ UNCHANGED <<intentVars, symbol, recorded, placed, bstate, reconVars, faults>>

\* create_paper_intent_from_latest_authority stops at the creation.
CreateAuthorized(k) ==
  /\ Create(k)
  /\ UNCHANGED <<symbol, execVars, recorded, placed, bstate, reconVars, faults>>

-----------------------------------------------------------------------------
(* A reconciliation with the broker's order rows *)

\* Orders of one symbol, or of all (None).
Visible(s) == { o \in OrderIds : /\ placed[o] # None
                                 /\ s \in {None, symbol[placed[o]]} }

\* The broker's rows are fetched first, the intents listed afterwards.  The
\* comparison of the order tables in between writes audit rows only.
FetchTruth(r, s) ==
  /\ stage[r] = "idle"
  /\ \/ truth' = [truth EXCEPT ![r] = [o \in Visible(s) |-> bstate[o]]]
     \/ "fetch" \in faults /\ truth' = [truth EXCEPT ![r] = <<>>]
  /\ stage' = [stage EXCEPT ![r] = "list"]
  /\ UNCHANGED <<intentVars, symbol, execVars, recorded, placed, bstate, todo, read, faults>>

\* The run is over once nothing is left to resolve.
Proceed(r, left) ==
  /\ todo' = [todo EXCEPT ![r] = left]
  /\ stage' = [stage EXCEPT ![r] = IF left = {} THEN "idle" ELSE "resolve"]
  /\ truth' = IF left = {} THEN [truth EXCEPT ![r] = <<>>] ELSE truth

ListIntents(r) ==
  /\ stage[r] = "list"
  /\ Proceed(r, { k \in Keys : state[k] \in Resolvable })
  /\ UNCHANGED <<intentVars, symbol, execVars, recorded, placed, bstate, read, faults>>

\* Mutant: the state that was read is not looked at.
ReadIntentUnchecked(r, k) ==
  /\ k \in todo[r] /\ read[r] = Idle
  /\ read' = [read EXCEPT ![r] = <<k, state[k]>>]
  /\ UNCHANGED <<intentVars, symbol, execVars, recorded, placed, bstate,
                 stage, truth, todo, faults>>

\* resolve_paper_order_intent_after_reconciliation reads the state, and raises
\* when somebody has resolved the intent meanwhile: the whole run ends.
ReadIntent(r, k) ==
  /\ k \in todo[r] /\ read[r] = Idle
  /\ \/ /\ state[k] \in Resolvable
        /\ read' = [read EXCEPT ![r] = <<k, state[k]>>]
        /\ UNCHANGED <<stage, truth, todo>>
     \/ /\ state[k] \notin Resolvable
        /\ Proceed(r, {})
        /\ UNCHANGED read
  /\ UNCHANGED <<intentVars, symbol, execVars, recorded, placed, bstate, faults>>

\* An intent is RECONCILED if the broker shows its order in a known state,
\* whatever that state is.
Resolution(r, k) ==
  IF orderId[k] \in DOMAIN truth[r] /\ truth[r][orderId[k]] # "UNKNOWN"
  THEN "RECONCILED" ELSE "BLOCKED"

\* Mutant: the update does not name the state it expects.
ResolveIntentUnguarded(r) ==
  /\ read[r] # Idle
  /\ LET k == read[r][1] IN
     /\ state' = [state EXCEPT ![k] = Resolution(r, k)]
     /\ Proceed(r, todo[r] \ {k})
  /\ read' = [read EXCEPT ![r] = Idle]
  /\ UNCHANGED <<orderId, symbol, execVars, recorded, placed, bstate, faults>>

\* The transition from the state that was read; whether the row was still in
\* it is not looked at.
ResolveIntent(r) ==
  /\ read[r] # Idle
  /\ LET k == read[r][1] IN
     /\ TryTransition(k, read[r][2], Resolution(r, k), None)
     /\ Proceed(r, todo[r] \ {k})
  /\ read' = [read EXCEPT ![r] = Idle]
  /\ UNCHANGED <<symbol, execVars, recorded, placed, bstate, faults>>

-----------------------------------------------------------------------------
\* The broker settles an order, or words its status in a way nobody mapped.
BrokerMoves(o, b) ==
  /\ placed[o] # None
  /\ bstate[o] = "PENDING" /\ b # "PENDING"
  /\ bstate' = [bstate EXCEPT ![o] = b]
  /\ UNCHANGED <<intentVars, symbol, execVars, recorded, placed, reconVars, faults>>

Execute(w) ==
  \/ \E k \in Keys : Begin(w, k)
  \/ CreateIntent(w)
  \/ ClaimIntent(w)
  \/ SubmitRefused(w)
  \/ \E o \in OrderIds : SubmitOrder(w, o)
  \/ \E o \in OrderIds : SubmitReplyLost(w, o)
  \/ RecordOrder(w)
  \/ RecordOrderRaises(w)
  \/ MarkRecorded(w)
  \/ MarkUnknown(w)
  \/ MarkBlocked(w)
  \/ MarkRaises(w)
  \/ Crash(w)

ReconcileTruth(r) ==
  \/ \E s \in Symbols \cup {None} : FetchTruth(r, s)
  \/ ListIntents(r)
  \/ \E k \in Keys : ReadIntent(r, k)
  \/ ResolveIntent(r)

Next ==
  \/ \E w \in Executors : Execute(w)
  \/ \E r \in Reconcilers : ReconcileTruth(r)
  \/ \E k \in Keys : CreateAuthorized(k)
  \/ \E o \in OrderIds, b \in BrokerStates : BrokerMoves(o, b)

Spec == Init /\ [][Next]_vars

-----------------------------------------------------------------------------
\* A decision is submitted to the broker at most once, by however many
\* executors, through crashes, lost replies and any reconciliation.  All faults.
OneSubmission ==
  \A o, p \in OrderIds : (placed[o] # None /\ placed[o] = placed[p]) => o = p

InFlight(o) == \E w \in Executors : sent[w] = o

\* An order the broker took can be found again from the store, by its row or by
\* its intent, as soon as its executor is done with it: also when the local
\* record failed.  A lost reply, a crash or a failing transition loses it.
TakenOrderTraceable ==
  faults \subseteq {"record", "fetch"} =>
    \A o \in OrderIds : (placed[o] # None /\ ~InFlight(o)) =>
       o \in recorded \/ orderId[placed[o]] = o

=============================================================================
