------------------------ MODULE DiagnosticScheduler ------------------------
(***************************************************************************)
(* app/diagnostic_scheduler.py `run_diagnostic_scheduler_once`, called by  *)
(* several supervisors on one store for one cadence and bucket, so that    *)
(* they compete for one lease key.  The lease row and the tokens are those *)
(* of SchedulerLease; a step is one transaction of the store.              *)
(*                                                                         *)
(* A runtime state is its hash.  A run takes `now` once, when it starts,   *)
(* and passes it to every call: it is as old as the run.                   *)
(***************************************************************************)
EXTENDS SchedulerLease

CONSTANTS
  Hashes,     \* runtime states a tick can be asked to look at
  Unchanged,  \* those of the brain cadence without changed candidates
  Paper,      \* whether the KIS environment of a run may be paper, may be another
  Nothing     \* no row, no hash

ASSUME SchedulerAssumption ==
  Unchanged \subseteq Hashes /\ Nothing \notin Hashes /\ Paper \subseteq BOOLEAN

Decisions == {"DIAGNOSTIC_RUN_REQUIRED", "DUPLICATE_STATE_SKIPPED",
              "NO_CHANGED_CANDIDATES_SKIPPED"}

Statuses == Decisions \cup {"BLOCKED_NON_PAPER_ENV", "LEASE_HELD_SKIPPED"}

VARIABLES
  at,          \* program point of each run
  started,     \* its `now`
  hash,        \* the state it looks at
  status,      \* the status it will record and return
  heartbeats   \* the rows of the bucket: the idempotency key is the hash

runVars == <<at, started, hash, status>>
vars == <<clock, row, issued, token, until, at, started, hash, status, heartbeats>>

Points == {"idle", "decide", "acquire", "note", "validate", "record", "release"}

TypeOK ==
  /\ LeaseTypeOK
  /\ at \in [Owners -> Points]
  /\ started \in [Owners -> 0 .. MaxClock]
  /\ hash \in [Owners -> Hashes \cup {Nothing}]
  /\ status \in [Owners -> Statuses]
  /\ heartbeats \in [Hashes -> [status : Statuses, executes : BOOLEAN, created : 0 .. MaxClock]
                                 \cup {Nothing}]

Init ==
  /\ LeaseInit
  /\ at = [w \in Owners |-> "idle"]
  /\ started = [w \in Owners |-> 0]
  /\ hash = [w \in Owners |-> Nothing]
  /\ status = [w \in Owners |-> "DIAGNOSTIC_RUN_REQUIRED"]
  /\ heartbeats = [h \in Hashes |-> Nothing]

Recorded == { h \in Hashes : heartbeats[h] # Nothing }

\* get_latest_diagnostic_state_hash: rows of the same second come in any order.
Latest ==
  IF Recorded = {} THEN {Nothing}
  ELSE { h \in Recorded : \A g \in Recorded : heartbeats[g].created <= heartbeats[h].created }

\* build_diagnostic_orchestration_decision
Decide(h, previous) ==
  IF previous = h THEN "DUPLICATE_STATE_SKIPPED"
  ELSE IF h \in Unchanged THEN "NO_CHANGED_CANDIDATES_SKIPPED"
  ELSE "DIAGNOSTIC_RUN_REQUIRED"

Goto(w, point) == at' = [at EXCEPT ![w] = point]

\* The call returns or raises.
End(w) ==
  /\ Goto(w, "idle")
  /\ started' = [started EXCEPT ![w] = 0]
  /\ hash' = [hash EXCEPT ![w] = Nothing]
  /\ status' = [status EXCEPT ![w] = "DIAGNOSTIC_RUN_REQUIRED"]

\* record_diagnostic_runtime_heartbeat: INSERT OR IGNORE.
InsertHeartbeat(w, executes) ==
  LET h == hash[w]
      new == [status |-> status[w], executes |-> executes, created |-> started[w]]
  IN  heartbeats' = IF heartbeats[h] = Nothing
                    THEN [heartbeats EXCEPT ![h] = new] ELSE heartbeats

-----------------------------------------------------------------------------
\* Mutant: the time is rounded up.
StartAhead(w, h) ==
  /\ at[w] = "idle"
  /\ Goto(w, "decide")
  /\ started' = [started EXCEPT ![w] = clock + 1]
  /\ hash' = [hash EXCEPT ![w] = h]
  /\ UNCHANGED <<status, heartbeats, leaseVars>>

Start(w, h) ==
  /\ at[w] = "idle"
  /\ Goto(w, "decide")
  /\ started' = [started EXCEPT ![w] = clock]
  /\ hash' = [hash EXCEPT ![w] = h]
  /\ UNCHANGED <<status, heartbeats, leaseVars>>

\* The read of the previous hash, and the three ways on from the decision.
MakeDecision(w, previous, paper) ==
  /\ at[w] = "decide"
  /\ previous \in Latest
  /\ LET decision == Decide(hash[w], previous) IN
     \/ /\ ~paper
        /\ status' = [status EXCEPT ![w] = "BLOCKED_NON_PAPER_ENV"]
        /\ Goto(w, "note")
     \/ /\ paper /\ decision # "DIAGNOSTIC_RUN_REQUIRED"
        /\ status' = [status EXCEPT ![w] = decision]
        /\ Goto(w, "note")
     \/ /\ paper /\ decision = "DIAGNOSTIC_RUN_REQUIRED"
        /\ status' = [status EXCEPT ![w] = decision]
        /\ Goto(w, "acquire")
  /\ UNCHANGED <<started, hash, heartbeats, leaseVars>>

AcquireLease(w) ==
  /\ at[w] = "acquire"
  /\ Acquire(w, started[w])
  /\ Goto(w, "validate")
  /\ UNCHANGED <<started, hash, status, heartbeats>>

\* Mutant: the holder's token, which the refusal returns, is used.
LeaseHeldAdopting(w) ==
  /\ at[w] = "acquire"
  /\ Active(started[w])
  /\ token' = [token EXCEPT ![w] = row.token]
  /\ until' = [until EXCEPT ![w] = row.expires]
  /\ Goto(w, "validate")
  /\ UNCHANGED <<started, hash, status, heartbeats, clock, row, issued>>

LeaseHeld(w) ==
  /\ at[w] = "acquire"
  /\ Active(started[w])
  /\ status' = [status EXCEPT ![w] = "LEASE_HELD_SKIPPED"]
  /\ Goto(w, "note")
  /\ UNCHANGED <<started, hash, heartbeats, leaseVars>>

\* The heartbeat of a run that does not execute, and its return.
NoteSkip(w) ==
  /\ at[w] = "note"
  /\ InsertHeartbeat(w, FALSE)
  /\ End(w)
  /\ UNCHANGED leaseVars

ValidateToken(w) ==
  /\ at[w] = "validate"
  /\ Validates(w, started[w])
  /\ Goto(w, "record")
  /\ UNCHANGED <<started, hash, status, heartbeats, leaseVars>>

\* The RuntimeError of a lost token; the supervisor notes CADENCE_FAILED.
TokenLost(w) ==
  /\ at[w] = "validate"
  /\ ~Validates(w, started[w])
  /\ Lose(w)
  /\ End(w)
  /\ UNCHANGED heartbeats

RecordRun(w) ==
  /\ at[w] = "record"
  /\ InsertHeartbeat(w, TRUE)
  /\ Goto(w, "release")
  /\ UNCHANGED <<started, hash, status, leaseVars>>

ReleaseLease(w) ==
  /\ at[w] = "release"
  /\ Release(w)
  /\ End(w)
  /\ UNCHANGED heartbeats

\* The process dies, or the store raises: the lease is left behind.
Die(w) ==
  /\ at[w] # "idle"
  /\ Lose(w)
  /\ End(w)
  /\ UNCHANGED heartbeats

TimePasses == Tick /\ UNCHANGED <<runVars, heartbeats>>

Run(w) ==
  \/ \E h \in Hashes : Start(w, h)
  \/ \E p \in Hashes \cup {Nothing}, paper \in Paper : MakeDecision(w, p, paper)
  \/ AcquireLease(w)
  \/ LeaseHeld(w)
  \/ NoteSkip(w)
  \/ ValidateToken(w)
  \/ TokenLost(w)
  \/ RecordRun(w)
  \/ ReleaseLease(w)
  \/ Die(w)

Next == TimePasses \/ \E w \in Owners : Run(w)

Spec == Init /\ [][Next]_vars

-----------------------------------------------------------------------------
\* A run that executes writes its heartbeat under a lease nobody else has
\* taken, unless its own lease ran out while it worked.
FencedRun ==
  [][ \A w \in Owners : RecordRun(w) =>
        (row.token = token[w] /\ row.status = "ACTIVE") \/ clock >= until[w] ]_vars

\* task_3501_3529: a tick that took the lease records its heartbeat evidence;
\* a run that reports that it executed finds a heartbeat that says so.
RunLeavesEvidence ==
  \A w \in Owners : at[w] = "release" => heartbeats[hash[w]].executes

=============================================================================
