--------------------------- MODULE SchedulerProofs ---------------------------
(***************************************************************************)
(* Proofs about the scheduler lease and about the diagnostic scheduler     *)
(* that works under it, for every number of owners and every ttl.          *)
(***************************************************************************)
EXTENDS DiagnosticScheduler, TLAPS

\* Tokens are fresh and personal, and a believer's expiry is the row's.
TokensDistinct ==
  /\ \A w \in Owners : token[w] <= issued
  /\ row.token <= issued
  /\ \A v, w \in Owners : (token[v] # 0 /\ token[v] = token[w]) => v = w

BelieverExpiry ==
  \A w \in Owners : Believes(w) => row.token = token[w] /\ row.status = "ACTIVE"
                                   /\ until[w] = row.expires

LeaseInv == LeaseTypeOK /\ TokensDistinct /\ BelieverExpiry

\* Initially nobody holds anything.
LEMMA LeaseInitInv == LeaseInit => LeaseInv
BY LeaseAssumption DEF LeaseInit, LeaseInv, LeaseTypeOK, TokensDistinct, BelieverExpiry, Believes, Rows,
   LeaseAssumption

\* Every operation of the lease keeps the invariant.
LEMMA LeaseStep == LeaseInv /\ [LeaseNext]_leaseVars => LeaseInv'
<1> SUFFICES ASSUME LeaseInv, [LeaseNext]_leaseVars PROVE LeaseInv'
  OBVIOUS
<1> USE LeaseAssumption
    DEF LeaseInv, LeaseTypeOK, TokensDistinct, BelieverExpiry, Believes, Rows, LeaseAssumption
<1>1. CASE Tick
  BY <1>1 DEF Tick
<1>2. ASSUME NEW w \in Owners, NEW now \in 0 .. clock, Acquire(w, now) PROVE LeaseInv'
  <2>1. \A v \in Owners : ~Believes(v)
    BY <1>2 DEF Acquire, Active
  <2>2. \A v \in Owners : token[v] # issued + 1
    OBVIOUS
  <2>3. row' = [token |-> issued + 1, expires |-> now + Ttl, status |-> "ACTIVE"]
        /\ issued' = issued + 1 /\ issued + 1 <= MaxToken /\ UNCHANGED clock
    BY <1>2 DEF Acquire
  <2>4. \A v \in Owners : IF v = w THEN token'[v] = issued + 1 /\ until'[v] = now + Ttl
                          ELSE token'[v] = token[v] /\ until'[v] = until[v]
    BY <1>2 DEF Acquire
  <2>5. LeaseTypeOK'
    BY <1>2 DEF Acquire
  <2>6. TokensDistinct'
    BY <2>2, <2>3, <2>4
  <2>7. BelieverExpiry'
    BY <2>1, <2>3, <2>4
  <2>8. QED
    BY <2>5, <2>6, <2>7
<1>3. ASSUME NEW w \in Owners, NEW now \in 0 .. clock, Renew(w, now) PROVE LeaseInv'
  BY <1>3 DEF Renew, Validates, Active
<1>4. ASSUME NEW w \in Owners, Release(w) PROVE LeaseInv'
  BY <1>4 DEF Release, Forget
<1>5. ASSUME NEW w \in Owners, Lose(w) PROVE LeaseInv'
  BY <1>5 DEF Lose, Forget
<1>6. CASE UNCHANGED leaseVars
  BY <1>6 DEF leaseVars
<1>7. QED
  BY <1>1, <1>2, <1>3, <1>4, <1>5, <1>6 DEF LeaseNext

\* Two believers would both own the token of the row.
LEMMA LeaseInvMutex == LeaseInv => LeaseMutex /\ BelieverHoldsRow
BY DEF LeaseInv, TokensDistinct, BelieverExpiry, LeaseMutex, BelieverHoldsRow, Believes

\* At most one owner believes in its lease (acquire_scheduler_lease,
\* heartbeat_scheduler_lease, release_scheduler_lease), for any clients.
THEOREM LeaseMutexCorrect == LeaseSpec => []LeaseMutex
<1>1. LeaseInv => LeaseMutex
  BY LeaseInvMutex
<1>2. QED
  BY LeaseInitInv, LeaseStep, <1>1, PTL DEF LeaseSpec

\* Whoever still believes in its lease holds the row.
THEOREM BelieverHoldsRowCorrect == LeaseSpec => []BelieverHoldsRow
<1>1. LeaseInv => BelieverHoldsRow
  BY LeaseInvMutex
<1>2. QED
  BY LeaseInitInv, LeaseStep, <1>1, PTL DEF LeaseSpec

-----------------------------------------------------------------------------
\* The time of a run lies in the past.
StartedInPast == /\ clock \in Nat /\ started \in [Owners -> Nat]
                 /\ \A w \in Owners : started[w] <= clock

\* Time only goes forward, and a run starts now.
LEMMA StartedStep == StartedInPast /\ [Next]_vars => StartedInPast'
<1> SUFFICES ASSUME StartedInPast, [Next]_vars PROVE StartedInPast'
  OBVIOUS
<1> USE DEF StartedInPast, End, leaseVars
<1>1. CASE TimePasses
  BY <1>1 DEF TimePasses, Tick, runVars
<1>2. ASSUME NEW w \in Owners, Run(w) PROVE StartedInPast'
  <2>1. \/ UNCHANGED <<clock, started>>
        \/ UNCHANGED clock /\ started' = [started EXCEPT ![w] = clock]
        \/ UNCHANGED clock /\ started' = [started EXCEPT ![w] = 0]
    BY <1>2 DEF Run, Start, MakeDecision, AcquireLease, Acquire, LeaseHeld, NoteSkip, ValidateToken,
         TokenLost, Lose, RecordRun, ReleaseLease, Release, Die
  <2>2. QED
    BY <2>1
<1>3. CASE UNCHANGED vars
  BY <1>3 DEF vars
<1>4. QED
  BY <1>1, <1>2, <1>3 DEF Next

\* Every step of the scheduler is one of the lease, or leaves it alone.
LEMMA SchedulerStep == StartedInPast /\ [Next]_vars => [LeaseNext]_leaseVars
<1> SUFFICES ASSUME StartedInPast, [Next]_vars PROVE [LeaseNext]_leaseVars
  OBVIOUS
<1>1. CASE TimePasses
  BY <1>1 DEF TimePasses, LeaseNext
<1>2. ASSUME NEW w \in Owners, AcquireLease(w) PROVE LeaseNext
  <2>1. started[w] \in 0 .. clock
    BY DEF StartedInPast
  <2>2. QED
    BY <1>2, <2>1 DEF AcquireLease, LeaseNext
<1>3. ASSUME NEW w \in Owners, ReleaseLease(w) PROVE LeaseNext
  BY <1>3 DEF ReleaseLease, LeaseNext
<1>4. ASSUME NEW w \in Owners, TokenLost(w) \/ Die(w) PROVE LeaseNext
  BY <1>4 DEF TokenLost, Die, LeaseNext
<1>5. ASSUME NEW w \in Owners,
             \/ \E h \in Hashes : Start(w, h)
             \/ \E p \in Hashes \cup {Nothing}, paper \in Paper : MakeDecision(w, p, paper)
             \/ LeaseHeld(w) \/ NoteSkip(w) \/ ValidateToken(w) \/ RecordRun(w)
      PROVE  UNCHANGED leaseVars
  BY <1>5 DEF Start, MakeDecision, LeaseHeld, NoteSkip, ValidateToken, RecordRun
<1>6. CASE UNCHANGED vars
  BY <1>6 DEF vars, leaseVars
<1>7. QED
  BY <1>1, <1>2, <1>3, <1>4, <1>5, <1>6 DEF Next, Run

\* The diagnostic scheduler uses its lease as the lease promises: every
\* behaviour of it is a behaviour of SchedulerLease, at any speed of its runs.
THEOREM SchedulerImplementsLease == Spec => LeaseSpec
<1>1. Init => LeaseInit /\ StartedInPast
  BY DEF Init, LeaseInit, StartedInPast
<1>2. QED
  BY <1>1, StartedStep, SchedulerStep, PTL DEF Spec, LeaseSpec

\* A run past the acquisition has a token in memory.
HoldsToken ==
  /\ at \in [Owners -> Points]
  /\ token \in [Owners -> Nat] /\ issued \in Nat
  /\ \A w \in Owners : at[w] \in {"validate", "record"} => token[w] # 0

\* The token is kept from the acquisition to the release.
LEMMA HoldsTokenStep == HoldsToken /\ [Next]_vars => HoldsToken'
<1> SUFFICES ASSUME HoldsToken, [Next]_vars PROVE HoldsToken'
  OBVIOUS
<1> USE DEF HoldsToken, Points, Goto, End, leaseVars
<1>1. CASE TimePasses
  BY <1>1 DEF TimePasses, Tick, runVars
<1>2. ASSUME NEW w \in Owners, AcquireLease(w) PROVE HoldsToken'
  BY <1>2 DEF AcquireLease, Acquire
<1>3. ASSUME NEW w \in Owners, ReleaseLease(w) PROVE HoldsToken'
  BY <1>3 DEF ReleaseLease, Release, Forget
<1>4. ASSUME NEW w \in Owners, TokenLost(w) \/ Die(w) PROVE HoldsToken'
  BY <1>4 DEF TokenLost, Die, Lose, Forget
<1>5. ASSUME NEW w \in Owners,
             \/ \E h \in Hashes : Start(w, h)
             \/ \E p \in Hashes \cup {Nothing}, paper \in Paper : MakeDecision(w, p, paper)
             \/ LeaseHeld(w) \/ NoteSkip(w) \/ RecordRun(w)
      PROVE  HoldsToken'
  <2>1. UNCHANGED <<token, issued>>
    BY <1>5 DEF Start, MakeDecision, LeaseHeld, NoteSkip, RecordRun
  <2>2. \E point \in Points \ {"validate", "record"} : at' = [at EXCEPT ![w] = point]
    BY <1>5 DEF Start, MakeDecision, LeaseHeld, NoteSkip, RecordRun
  <2>3. QED
    BY <2>1, <2>2
<1>6. ASSUME NEW w \in Owners, ValidateToken(w) PROVE HoldsToken'
  BY <1>6 DEF ValidateToken
<1>7. CASE UNCHANGED vars
  BY <1>7 DEF vars
<1>8. QED
  BY <1>1, <1>2, <1>3, <1>4, <1>5, <1>6, <1>7 DEF Next, Run

\* A run records its heartbeat under its own lease, or after that lease ran
\* out (run_diagnostic_scheduler_once, from the acquisition to the release).
THEOREM FencedRunCorrect == Spec => FencedRun
<1> DEFINE Fenced == \A w \in Owners : RecordRun(w) =>
                       (row.token = token[w] /\ row.status = "ACTIVE") \/ clock >= until[w]
<1>1. Init => LeaseInv /\ StartedInPast /\ HoldsToken
  BY LeaseInitInv DEF Init, LeaseInit, StartedInPast, HoldsToken, Points
<1>2. LeaseInv /\ StartedInPast /\ [Next]_vars => LeaseInv'
  BY LeaseStep, SchedulerStep
<1>3. LeaseInv /\ HoldsToken => Fenced
  BY LeaseAssumption
  DEF LeaseInv, LeaseTypeOK, HoldsToken, BelieverExpiry, Believes, RecordRun, LeaseAssumption
<1>4. LeaseInv /\ HoldsToken /\ [Next]_vars => [Fenced]_vars
  BY <1>3
<1>5. QED
  BY <1>1, <1>2, <1>4, StartedStep, HoldsTokenStep, PTL DEF Spec, FencedRun

-----------------------------------------------------------------------------
\* The part of the type invariant that is not the lease's.
RunTypes ==
  /\ at \in [Owners -> Points]
  /\ started \in [Owners -> 0 .. MaxClock]
  /\ hash \in [Owners -> Hashes \cup {Nothing}]
  /\ status \in [Owners -> Statuses]
  /\ heartbeats \in [Hashes -> [status : Statuses, executes : BOOLEAN, created : 0 .. MaxClock]
                                 \cup {Nothing}]

\* Every step of a run keeps the types of the runs and of the heartbeats.
LEMMA RunTypesStep ==
  LeaseTypeOK /\ RunTypes /\ [Next]_vars => RunTypes'
<1> SUFFICES ASSUME LeaseTypeOK, RunTypes, [Next]_vars PROVE RunTypes'
  OBVIOUS
<1> USE LeaseAssumption DEF LeaseAssumption, LeaseTypeOK, RunTypes, Goto, runVars
<1>1. ASSUME NEW w \in Owners, End(w) PROVE
        /\ at' \in [Owners -> Points] /\ started' \in [Owners -> 0 .. MaxClock]
        /\ hash' \in [Owners -> Hashes \cup {Nothing}] /\ status' \in [Owners -> Statuses]
  BY <1>1 DEF End, Points, Statuses, Decisions
<1>2. ASSUME NEW w \in Owners, NEW b \in BOOLEAN, InsertHeartbeat(w, b)
      PROVE  heartbeats' \in [Hashes -> [status : Statuses, executes : BOOLEAN, created : 0 .. MaxClock]
                                         \cup {Nothing}]
  <2> DEFINE new == [status |-> status[w], executes |-> b, created |-> started[w]]
             Row == [status : Statuses, executes : BOOLEAN, created : 0 .. MaxClock]
  <2>1. new \in Row
    OBVIOUS
  <2>2. \/ UNCHANGED heartbeats
        \/ heartbeats' = [heartbeats EXCEPT ![hash[w]] = new]
    BY <1>2 DEF InsertHeartbeat
  <2> HIDE DEF new, Row
  <2>3. heartbeats \in [Hashes -> Row \cup {Nothing}]
    BY DEF Row
  <2>4. heartbeats' \in [Hashes -> Row \cup {Nothing}]
    BY <2>1, <2>2, <2>3
  <2>5. QED
    BY <2>4 DEF Row
<1>3. CASE TimePasses
  BY <1>3 DEF TimePasses
<1>4. ASSUME NEW w \in Owners, NEW h \in Hashes, Start(w, h) PROVE RunTypes'
  BY <1>4 DEF Start, Points
<1>5. ASSUME NEW w \in Owners, NEW p \in Hashes \cup {Nothing}, NEW paper \in Paper,
             MakeDecision(w, p, paper)
      PROVE  RunTypes'
  BY <1>5 DEF MakeDecision, Decide, Points, Statuses, Decisions
<1>6. ASSUME NEW w \in Owners, AcquireLease(w) \/ LeaseHeld(w) \/ ValidateToken(w) PROVE RunTypes'
  BY <1>6 DEF AcquireLease, LeaseHeld, ValidateToken, Points, Statuses
<1>7. ASSUME NEW w \in Owners, NoteSkip(w) PROVE RunTypes'
  BY <1>1, <1>2, <1>7 DEF NoteSkip
<1>8. ASSUME NEW w \in Owners, RecordRun(w) PROVE RunTypes'
  BY <1>2, <1>8 DEF RecordRun, Points
<1>9. ASSUME NEW w \in Owners, TokenLost(w) \/ ReleaseLease(w) \/ Die(w) PROVE RunTypes'
  BY <1>1, <1>9 DEF TokenLost, ReleaseLease, Die
<1>10. CASE UNCHANGED vars
  BY <1>10 DEF vars
<1> HIDE DEF RunTypes
<1>11. QED
  BY <1>3, <1>4, <1>5, <1>6, <1>7, <1>8, <1>9, <1>10 DEF Next, Run

\* The types of the lease row, the runs and the heartbeats.
THEOREM SchedulerTypesCorrect == Spec => []TypeOK
<1> DEFINE Inv == LeaseInv /\ StartedInPast /\ RunTypes
<1>1. Init => Inv
  <2>1. Init => RunTypes /\ StartedInPast
    BY LeaseAssumption DEF Init, LeaseInit, RunTypes, StartedInPast, Points, Statuses, Decisions,
      LeaseAssumption
  <2>2. QED
    BY <2>1, LeaseInitInv DEF Init
<1>2. Inv /\ [Next]_vars => Inv'
  <2>1. LeaseInv => LeaseTypeOK
    BY DEF LeaseInv
  <2>2. QED
    BY <2>1, StartedStep, SchedulerStep, LeaseStep, RunTypesStep
<1>3. Inv => TypeOK
  BY DEF LeaseInv, RunTypes, TypeOK
<1>4. QED
  BY <1>1, <1>2, <1>3, PTL DEF Spec

=============================================================================
