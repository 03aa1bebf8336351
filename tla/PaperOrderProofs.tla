-------------------------- MODULE PaperOrderProofs --------------------------
(***************************************************************************)
(* Proofs about PaperOrderExecution, for any number of executors,          *)
(* reconciliations, decisions and broker orders and under every fault.     *)
(***************************************************************************)
EXTENDS PaperOrderExecution, TLAPS

Assumptions == IntentAssumption /\ ExecutionAssumption

\* Past the claim of its intent.
Claimed == {"submit", "record", "mark", "unknown", "block"}

Types ==
  /\ state \in [Keys -> IntentStates \cup {"ABSENT"}]
  /\ orderId \in [Keys -> OrderIds \cup {None}]
  /\ at \in [Executors -> Points]
  /\ key \in [Executors -> Keys \cup {None}]
  /\ sent \in [Executors -> OrderIds \cup {None}]
  /\ placed \in [OrderIds -> Keys \cup {None}]
  /\ stage \in [Reconcilers -> {"idle", "list", "resolve"}]
  /\ todo \in [Reconcilers -> SUBSET Keys]
  /\ read \in [Reconcilers -> {Idle} \cup (Keys \X Resolvable)]

\* One executor owns a claimed intent, and the intent is SUBMITTING as long as
\* it does.
Ownership ==
  /\ \A w \in Executors : at[w] # "idle" => key[w] \in Keys
  /\ \A w \in Executors : at[w] \in Claimed => state[key[w]] = "SUBMITTING"
  /\ \A v, w \in Executors :
       (at[v] \in Claimed /\ at[w] \in Claimed /\ key[v] = key[w]) => v = w

\* An order belongs to a claimed intent, and there is none before its owner
\* has submitted it.
Placement ==
  /\ \A o \in OrderIds : placed[o] # None => state[placed[o]] \notin {"ABSENT", "CREATED"}
  /\ \A w \in Executors, o \in OrderIds : at[w] = "submit" => placed[o] # key[w]

\* No broker order id before the intent leaves SUBMITTING.
IdLater ==
  \A k \in Keys : state[k] \in {"ABSENT", "CREATED", "SUBMITTING"} => orderId[k] = None

ExecInv == Types /\ Ownership /\ Placement /\ IdLater /\ OneSubmission

-----------------------------------------------------------------------------
\* Initially nothing has been decided, claimed or submitted.
LEMMA ExecInit == Assumptions /\ Init => ExecInv
BY DEF Assumptions, IntentAssumption, ExecutionAssumption, Init, IntentInit, ExecInv, Types, Ownership, Placement,
  IdLater, OneSubmission, Points, Claimed, IntentStates, Idle

\* Every step keeps the invariant.
LEMMA ExecStep == Assumptions /\ ExecInv /\ [Next]_vars => ExecInv'
<1> SUFFICES ASSUME Assumptions, ExecInv, [Next]_vars PROVE ExecInv'
  OBVIOUS
<1> USE DEF ExecInv, Types, Ownership, Placement, IdLater, OneSubmission, Points, Claimed, IntentStates,
     intentVars, execVars, reconVars, Goto, Assumptions, IntentAssumption
<1>1. ASSUME NEW w \in Executors, NEW k \in Keys, Begin(w, k) PROVE ExecInv'
  BY <1>1 DEF Begin
<1>2. ASSUME NEW w \in Executors, CreateIntent(w) PROVE ExecInv'
  BY <1>2 DEF CreateIntent, Create
<1>3. ASSUME NEW w \in Executors, ClaimIntent(w) PROVE ExecInv'
  <2>1. CASE state[key[w]] = "CREATED"
    BY <1>3, <2>1 DEF ClaimIntent, TryTransition, Transition, End
  <2>2. CASE state[key[w]] # "CREATED"
    BY <1>3, <2>2 DEF ClaimIntent, TryTransition, End
  <2>3. QED
    BY <2>1, <2>2
<1>4. ASSUME NEW w \in Executors, SubmitRefused(w) PROVE ExecInv'
  BY <1>4 DEF SubmitRefused
<1>5. ASSUME NEW w \in Executors, NEW o \in OrderIds, SubmitOrder(w, o) PROVE ExecInv'
  BY <1>5 DEF SubmitOrder, BrokerTakes
<1>6. ASSUME NEW w \in Executors, NEW o \in OrderIds, SubmitReplyLost(w, o) PROVE ExecInv'
  BY <1>6 DEF SubmitReplyLost, BrokerTakes
<1>7. ASSUME NEW w \in Executors, RecordOrder(w) \/ RecordOrderRaises(w) PROVE ExecInv'
  BY <1>7 DEF RecordOrder, RecordOrderRaises
<1>8. ASSUME NEW w \in Executors, MarkRecorded(w) PROVE ExecInv'
  BY <1>8 DEF MarkRecorded, TryTransition, Transition, End
<1>9. ASSUME NEW w \in Executors, MarkUnknown(w) PROVE ExecInv'
  BY <1>9 DEF MarkUnknown, TryTransition, Transition, End
<1>10. ASSUME NEW w \in Executors, MarkBlocked(w) PROVE ExecInv'
  BY <1>10 DEF MarkBlocked, TryTransition, Transition, End
<1>11. ASSUME NEW w \in Executors, MarkRaises(w) \/ Crash(w) PROVE ExecInv'
  BY <1>11 DEF MarkRaises, Crash, End
<1>12. ASSUME NEW k \in Keys, CreateAuthorized(k) PROVE ExecInv'
  BY <1>12 DEF CreateAuthorized, Create
<1>13. ASSUME NEW r \in Reconcilers, NEW s \in Symbols \cup {None}, FetchTruth(r, s) PROVE ExecInv'
  BY <1>13 DEF FetchTruth
<1>14. ASSUME NEW r \in Reconcilers, ListIntents(r) PROVE ExecInv'
  BY <1>14 DEF ListIntents, Proceed
<1>15. ASSUME NEW r \in Reconcilers, NEW k \in Keys, ReadIntent(r, k) PROVE ExecInv'
  BY <1>15 DEF ReadIntent, Proceed, Resolvable
<1>16. ASSUME NEW r \in Reconcilers, ResolveIntent(r) PROVE ExecInv'
  <2> DEFINE k == read[r][1]
             to == Resolution(r, k)
  <2>1. k \in Keys /\ read[r][2] \in Resolvable /\ to \in {"RECONCILED", "BLOCKED"}
    BY <1>16 DEF ResolveIntent, Resolution
  <2>2. Types'
    BY <1>16, <2>1 DEF ResolveIntent, Proceed, TryTransition, Transition
  <2>3. \/ UNCHANGED intentVars
        \/ state[k] \in Resolvable /\ state' = [state EXCEPT ![k] = to] /\ UNCHANGED orderId
    BY <1>16, <2>1 DEF ResolveIntent, TryTransition, Transition
  <2>4. UNCHANGED <<at, key, sent, placed>>
    BY <1>16 DEF ResolveIntent
  <2>5. QED
    BY <2>1, <2>2, <2>3, <2>4 DEF Resolvable
<1>17. ASSUME NEW o \in OrderIds, NEW b \in BrokerStates, BrokerMoves(o, b) PROVE ExecInv'
  BY <1>17 DEF BrokerMoves
<1>18. CASE UNCHANGED vars
  BY <1>18 DEF vars
<1> HIDE DEF ExecInv
<1>19. QED
  BY <1>1, <1>2, <1>3, <1>4, <1>5, <1>6, <1>7, <1>8, <1>9, <1>10, <1>11, <1>12, <1>13, <1>14, <1>15, <1>16,
     <1>17, <1>18
  DEF Next, Execute, ReconcileTruth

\* A decision reaches the broker at most once, whatever executors and
\* reconciliations do at the same time (run_task585, transition_paper_order_intent).
THEOREM OneSubmissionCorrect == Spec => []OneSubmission
<1>1. Init => ExecInv
  BY ExecInit, IntentAssumption, ExecutionAssumption DEF Assumptions
<1>2. ExecInv /\ [Next]_vars => ExecInv'
  BY ExecStep, IntentAssumption, ExecutionAssumption DEF Assumptions
<1>3. ExecInv => OneSubmission
  BY DEF ExecInv
<1>4. QED
  BY <1>1, <1>2, <1>3, PTL DEF Spec

\* Every step takes an intent along the transition table, or leaves it alone.
LEMMA IntentStep == Assumptions /\ ExecInv /\ [Next]_vars => [IntentNext]_intentVars
<1> SUFFICES ASSUME Assumptions, ExecInv, [Next]_vars PROVE [IntentNext]_intentVars
  OBVIOUS
<1> USE DEF ExecInv, Types, Ownership, IdLater, Claimed, intentVars, Assumptions, IntentAssumption
<1>1. ASSUME NEW w \in Executors, CreateIntent(w) PROVE IntentNext
  BY <1>1 DEF CreateIntent, IntentNext
<1>2. ASSUME NEW k \in Keys, CreateAuthorized(k) PROVE IntentNext
  BY <1>2 DEF CreateAuthorized, IntentNext
<1>3. ASSUME NEW k \in Keys, NEW from \in IntentStates, NEW to \in IntentStates,
             NEW o \in OrderIds \cup {None}, o # None => from = "SUBMITTING",
             TryTransition(k, from, to, o)
      PROVE [IntentNext]_intentVars
  BY <1>3 DEF TryTransition, IntentNext, Transition
<1>4. ASSUME NEW w \in Executors, ClaimIntent(w) PROVE [IntentNext]_intentVars
  BY <1>4, <1>3 DEF ClaimIntent, IntentStates
<1>5. ASSUME NEW w \in Executors, MarkRecorded(w) PROVE [IntentNext]_intentVars
  BY <1>5, <1>3 DEF MarkRecorded, IntentStates
<1>6. ASSUME NEW w \in Executors, MarkUnknown(w) PROVE [IntentNext]_intentVars
  BY <1>6, <1>3 DEF MarkUnknown, IntentStates
<1>7. ASSUME NEW w \in Executors, MarkBlocked(w) PROVE [IntentNext]_intentVars
  BY <1>7, <1>3 DEF MarkBlocked, IntentStates
<1>8. ASSUME NEW r \in Reconcilers, ResolveIntent(r) PROVE [IntentNext]_intentVars
  BY <1>8, <1>3 DEF ResolveIntent, Resolution, Resolvable, IntentStates
<1>9. ASSUME NEW w \in Executors,
             \/ \E k \in Keys : Begin(w, k)
             \/ SubmitRefused(w)
             \/ \E o \in OrderIds : SubmitOrder(w, o)
             \/ \E o \in OrderIds : SubmitReplyLost(w, o)
             \/ RecordOrder(w) \/ RecordOrderRaises(w) \/ MarkRaises(w) \/ Crash(w)
      PROVE UNCHANGED intentVars
  BY <1>9 DEF Begin, SubmitRefused, SubmitOrder, SubmitReplyLost, RecordOrder, RecordOrderRaises,
    MarkRaises, Crash
<1>10. ASSUME NEW r \in Reconcilers,
              \/ \E s \in Symbols \cup {None} : FetchTruth(r, s)
              \/ ListIntents(r)
              \/ \E k \in Keys : ReadIntent(r, k)
       PROVE UNCHANGED intentVars
  BY <1>10 DEF FetchTruth, ListIntents, ReadIntent
<1>11. ASSUME NEW o \in OrderIds, NEW b \in BrokerStates, BrokerMoves(o, b) PROVE UNCHANGED intentVars
  BY <1>11 DEF BrokerMoves
<1>12. CASE UNCHANGED vars
  BY <1>12 DEF vars
<1> HIDE DEF ExecInv, intentVars
<1>13. QED
  BY <1>1, <1>2, <1>4, <1>5, <1>6, <1>7, <1>8, <1>9, <1>10, <1>11, <1>12
  DEF Next, Execute, ReconcileTruth

\* Executors, reconciliations and the authority path together keep the promise
\* of the paper_order_intents table.
THEOREM ExecutionImplementsIntent == Spec => IntentSpec
<1>1. Init => ExecInv /\ IntentInit
  BY ExecInit, IntentAssumption, ExecutionAssumption DEF Assumptions, Init
<1>2. ExecInv /\ [Next]_vars => ExecInv' /\ [IntentNext]_intentVars
  BY ExecStep, IntentStep, IntentAssumption, ExecutionAssumption DEF Assumptions
<1>3. QED
  BY <1>1, <1>2, PTL DEF Spec, IntentSpec

-----------------------------------------------------------------------------
\* What an executor holds is its order, from the broker's reply on.
Sending ==
  \A w \in Executors :
    /\ at[w] \in {"record", "mark", "unknown"} =>
         sent[w] \in OrderIds /\ placed[sent[w]] = key[w]
    /\ at[w] = "mark" => sent[w] \in recorded
    /\ at[w] \in {"idle", "create", "claim", "submit", "block"} => sent[w] = None

\* The part of the type invariant that Types leaves out.
OtherTypes ==
  /\ symbol \in [Keys -> Symbols]
  /\ recorded \subseteq OrderIds
  /\ bstate \in [OrderIds -> BrokerStates]
  /\ \A r \in Reconcilers :
       \A o \in DOMAIN truth[r] : o \in OrderIds /\ truth[r][o] \in BrokerStates
  /\ truth = [r \in Reconcilers |-> truth[r]]
  /\ faults \in FaultSets

TraceInv == Sending /\ OtherTypes /\ TakenOrderTraceable

\* Initially nothing has been taken.
LEMMA TraceInit == Assumptions /\ Init => TraceInv
BY DEF Assumptions, IntentAssumption, Init, IntentInit, TraceInv, Sending, OtherTypes,
  TakenOrderTraceable, BrokerStates

\* Neither the reconciliations nor the broker touch what an order is found by.
LEMMA LookStep ==
  ASSUME Assumptions, ExecInv, TraceInv, UNCHANGED <<at, key, sent, recorded, placed, orderId, faults>>,
         OtherTypes'
  PROVE  TraceInv'
BY DEF TraceInv, Sending, TakenOrderTraceable, InFlight

\* A step of an executor keeps every order it took within reach.
LEMMA TraceStep == Assumptions /\ ExecInv /\ TraceInv /\ [Next]_vars => TraceInv'
<1> SUFFICES ASSUME Assumptions, ExecInv, TraceInv, [Next]_vars PROVE TraceInv'
  OBVIOUS
<1>0. None \notin OrderIds /\ None \notin Keys
  BY DEF Assumptions, IntentAssumption
<1> USE DEF TraceInv, Sending, OtherTypes, TakenOrderTraceable, InFlight, Goto, reconVars, intentVars
<1>1. ASSUME NEW w \in Executors, NEW k \in Keys, Begin(w, k) PROVE TraceInv'
  BY <1>0, <1>1 DEF Begin, ExecInv, Types, Points
<1>2. ASSUME NEW w \in Executors, CreateIntent(w) PROVE TraceInv'
  BY <1>0, <1>2 DEF CreateIntent, Create, ExecInv, Types, Points
<1>3. ASSUME NEW w \in Executors, ClaimIntent(w) PROVE TraceInv'
  <2>1. UNCHANGED orderId
    BY <1>3 DEF ClaimIntent, TryTransition, Transition, ExecInv, Types
  <2>2. /\ \/ at' = [at EXCEPT ![w] = "submit"] /\ UNCHANGED <<key, sent>>
           \/ End(w)
        /\ at[w] = "claim"
        /\ UNCHANGED <<symbol, recorded, placed, bstate, truth, faults>>
    BY <1>3 DEF ClaimIntent
  <2>3. QED
    BY <1>0, <2>1, <2>2 DEF End, ExecInv, Types, Points
<1>4. ASSUME NEW w \in Executors, SubmitRefused(w) PROVE TraceInv'
  BY <1>0, <1>4 DEF SubmitRefused, ExecInv, Types, Points
<1>5. ASSUME NEW w \in Executors, NEW o \in OrderIds, SubmitOrder(w, o) PROVE TraceInv'
  <2>1. /\ at[w] = "submit" /\ placed[o] = None /\ placed' = [placed EXCEPT ![o] = key[w]]
        /\ sent' = [sent EXCEPT ![w] = o] /\ at' = [at EXCEPT ![w] = "record"]
        /\ UNCHANGED <<orderId, symbol, key, recorded, bstate, truth, faults>>
    BY <1>5 DEF SubmitOrder, BrokerTakes
  <2>2. sent[w] = None
    BY <2>1
  <2>3. Sending'
    <3>1. \A v \in Executors : at[v] \in {"record", "mark", "unknown"} => sent[v] # o
      BY <1>0, <2>1 DEF ExecInv, Ownership, Claimed
    <3>2. QED
      BY <2>1, <3>1 DEF ExecInv, Types
  <2>4. TakenOrderTraceable'
    <3>1. InFlight(o)'
      BY <2>1 DEF ExecInv, Types
    <3>2. \A p \in OrderIds \ {o} : placed'[p] = placed[p] /\ (InFlight(p) => InFlight(p)')
      BY <1>0, <2>1, <2>2 DEF ExecInv, Types
    <3>3. QED
      BY <2>1, <3>1, <3>2
  <2>5. QED
    BY <2>1, <2>3, <2>4
<1>6. ASSUME NEW w \in Executors, NEW o \in OrderIds, SubmitReplyLost(w, o) PROVE TraceInv'
  <2>1. ~(faults \subseteq {"record", "fetch"}) /\ UNCHANGED faults
    BY <1>6 DEF SubmitReplyLost
  <2>2. Sending'
    <3>1. \A v \in Executors : at[v] \in {"record", "mark", "unknown"} => sent[v] # o
      BY <1>0, <1>6 DEF SubmitReplyLost, BrokerTakes, ExecInv, Ownership, Claimed
    <3>2. QED
      BY <1>6, <3>1 DEF SubmitReplyLost, BrokerTakes, ExecInv, Types
  <2>3. QED
    BY <1>6, <2>1, <2>2 DEF SubmitReplyLost
<1>7. ASSUME NEW w \in Executors, RecordOrder(w) PROVE TraceInv'
  BY <1>0, <1>7 DEF RecordOrder, ExecInv, Types
<1>8. ASSUME NEW w \in Executors, RecordOrderRaises(w) PROVE TraceInv'
  BY <1>0, <1>8 DEF RecordOrderRaises, ExecInv, Types
<1>9. ASSUME NEW w \in Executors, MarkRecorded(w) \/ MarkUnknown(w) PROVE TraceInv'
  <2>1. /\ at' = [at EXCEPT ![w] = "idle"] /\ sent' = [sent EXCEPT ![w] = None]
        /\ key' = [key EXCEPT ![w] = None]
        /\ UNCHANGED <<symbol, recorded, placed, bstate, truth, faults>>
        /\ at[w] \in {"mark", "unknown"}
    BY <1>9 DEF MarkRecorded, MarkUnknown, End
  <2>2. /\ key[w] \in Keys /\ state[key[w]] = "SUBMITTING" /\ orderId[key[w]] = None
        /\ sent[w] \in OrderIds /\ placed[sent[w]] = key[w]
    BY <2>1 DEF ExecInv, Ownership, Claimed, IdLater
  <2>3. orderId' = [orderId EXCEPT ![key[w]] = sent[w]]
    BY <1>0, <1>9, <2>2 DEF MarkRecorded, MarkUnknown, TryTransition, Transition
  <2>4. Sending'
    BY <2>1 DEF ExecInv, Types
  <2>5. TakenOrderTraceable'
    <3>1. SUFFICES ASSUME faults \subseteq {"record", "fetch"}, NEW o \in OrderIds,
                          placed[o] # None, ~InFlight(o)'
                   PROVE  o \in recorded \/ orderId'[placed[o]] = o
      BY <2>1
    <3>2. CASE o = sent[w]
      BY <2>2, <2>3, <3>2 DEF ExecInv, Types
    <3>3. CASE o # sent[w]
      <4>1. ~InFlight(o)
        BY <2>1, <3>1, <3>3 DEF ExecInv, Types
      <4>2. placed[o] # key[w]
        BY <2>2, <3>1, <3>3 DEF ExecInv, OneSubmission
      <4>3. QED
        BY <2>3, <3>1, <4>1, <4>2 DEF ExecInv, Types
    <3>4. QED
      BY <3>2, <3>3
  <2>6. QED
    BY <2>1, <2>4, <2>5
<1>10. ASSUME NEW w \in Executors, MarkBlocked(w) PROVE TraceInv'
  <2>1. UNCHANGED orderId
    BY <1>10 DEF MarkBlocked, TryTransition, Transition, ExecInv, Types
  <2>2. QED
    BY <1>0, <1>10, <2>1 DEF MarkBlocked, End, ExecInv, Types, Points
<1>11. ASSUME NEW w \in Executors, MarkRaises(w) \/ Crash(w) PROVE TraceInv'
  <2>1. ~(faults \subseteq {"record", "fetch"}) /\ UNCHANGED faults
    BY <1>11 DEF MarkRaises, Crash
  <2>2. QED
    BY <1>0, <1>11, <2>1 DEF MarkRaises, Crash, End, ExecInv, Types
<1>12. ASSUME NEW k \in Keys, CreateAuthorized(k) PROVE TraceInv'
  BY <1>12, LookStep DEF CreateAuthorized, Create, execVars
<1>13. ASSUME NEW r \in Reconcilers, NEW s \in Symbols \cup {None}, FetchTruth(r, s)
       PROVE  TraceInv'
  <2>1. OtherTypes'
    <3>1. Visible(s) \subseteq OrderIds
      BY DEF Visible
    <3>2. PICK f : /\ truth' = [truth EXCEPT ![r] = f]
                   /\ \A o \in DOMAIN f : o \in OrderIds /\ f[o] \in BrokerStates
      BY <1>13, <3>1 DEF FetchTruth
    <3>3. QED
      BY <1>13, <3>2 DEF FetchTruth
  <2>2. QED
    BY <1>13, <2>1, LookStep DEF FetchTruth, execVars
<1>14. ASSUME NEW r \in Reconcilers, truth' \in {truth, [truth EXCEPT ![r] = <<>>]},
              UNCHANGED <<symbol, recorded, bstate, faults>>
       PROVE  OtherTypes'
  BY <1>14
<1>15. ASSUME NEW r \in Reconcilers, ListIntents(r) PROVE TraceInv'
  BY <1>14, <1>15, LookStep DEF ListIntents, Proceed, execVars
<1>16. ASSUME NEW r \in Reconcilers, NEW k \in Keys, ReadIntent(r, k) PROVE TraceInv'
  BY <1>14, <1>16, LookStep DEF ReadIntent, Proceed, execVars
<1>17. ASSUME NEW r \in Reconcilers, ResolveIntent(r) PROVE TraceInv'
  <2>1. UNCHANGED orderId
    BY <1>17 DEF ResolveIntent, TryTransition, Transition, ExecInv, Types
  <2>2. QED
    BY <1>14, <1>17, <2>1, LookStep DEF ResolveIntent, Proceed, execVars
<1>18. ASSUME NEW o \in OrderIds, NEW b \in BrokerStates, BrokerMoves(o, b) PROVE TraceInv'
  BY <1>18, LookStep DEF BrokerMoves, execVars
<1>19. CASE UNCHANGED vars
  BY <1>19, LookStep DEF vars
<1> HIDE DEF TraceInv
<1>20. QED
  BY <1>1, <1>2, <1>3, <1>4, <1>5, <1>6, <1>7, <1>8, <1>9, <1>10, <1>11, <1>12, <1>13, <1>15, <1>16,
     <1>17, <1>18, <1>19
  DEF Next, Execute, ReconcileTruth

\* The types, under every fault.
THEOREM ExecutionTypesCorrect == Spec => []TypeOK
<1>1. Init => ExecInv /\ TraceInv
  BY ExecInit, TraceInit, IntentAssumption, ExecutionAssumption DEF Assumptions
<1>2. ExecInv /\ TraceInv /\ [Next]_vars => ExecInv' /\ TraceInv'
  BY ExecStep, TraceStep, IntentAssumption, ExecutionAssumption DEF Assumptions
<1>3. ExecInv /\ TraceInv => TypeOK
  BY DEF ExecInv, Types, TraceInv, OtherTypes, TypeOK, IntentTypeOK
<1>4. QED
  BY <1>1, <1>2, <1>3, PTL DEF Spec

\* An order the broker took is found again by its row or by its intent
\* (run_task585, record_order, transition_paper_order_intent), although the
\* record or a fetch may fail.
THEOREM TakenOrderTraceableCorrect == Spec => []TakenOrderTraceable
<1>1. Init => ExecInv /\ TraceInv
  BY ExecInit, TraceInit, IntentAssumption, ExecutionAssumption DEF Assumptions
<1>2. ExecInv /\ TraceInv /\ [Next]_vars => ExecInv' /\ TraceInv'
  BY ExecStep, TraceStep, IntentAssumption, ExecutionAssumption DEF Assumptions
<1>3. TraceInv => TakenOrderTraceable
  BY DEF TraceInv
<1>4. QED
  BY <1>1, <1>2, <1>3, PTL DEF Spec

=============================================================================
