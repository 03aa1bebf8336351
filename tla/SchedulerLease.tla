--------------------------- MODULE SchedulerLease ---------------------------
(***************************************************************************)
(* One row of the scheduler_leases table (src/state/store.py) and the      *)
(* owners that acquire, renew and release it.  Every operation is one      *)
(* SQLite transaction and takes the time from its caller: a caller may be  *)
(* slow, so its `now` is any time up to the present.  The identifier       *)
(* columns that no condition reads (cadence, bucket, hash) are left out.   *)
(***************************************************************************)
EXTENDS Naturals

CONSTANTS
  Owners,
  Ttl,        \* ttl_seconds
  MaxClock,   \* bounds the time
  MaxToken    \* bounds the number of tokens handed out

ASSUME LeaseAssumption ==
  /\ Ttl \in Nat \ {0}
  /\ MaxClock \in Nat
  /\ MaxToken \in Nat

VARIABLES
  clock,
  row,        \* the row; token 0: there is none yet
  issued,     \* tokens handed out so far: each is fresh, as a uuid is
  token,      \* the token each owner holds in memory, 0 for none
  until       \* expires_at as the owner was last told

leaseVars == <<clock, row, issued, token, until>>

Rows == [token : 0 .. MaxToken, expires : 0 .. MaxClock + Ttl, status : {"ACTIVE", "RELEASED"}]

LeaseTypeOK ==
  /\ clock \in 0 .. MaxClock
  /\ row \in Rows
  /\ issued \in 0 .. MaxToken
  /\ token \in [Owners -> 0 .. MaxToken]
  /\ until \in [Owners -> 0 .. MaxClock + Ttl]

LeaseInit ==
  /\ clock = 0
  /\ row = [token |-> 0, expires |-> 0, status |-> "RELEASED"]
  /\ issued = 0
  /\ token = [w \in Owners |-> 0]
  /\ until = [w \in Owners |-> 0]

\* Mutant: an expired lease is given to its next owner one tick early.
ActiveEarly(now) == row.status = "ACTIVE" /\ row.expires > now + 1

\* released_at and status are only ever set together.
Active(now) == row.status = "ACTIVE" /\ row.expires > now

\* validate_scheduler_lease_token
Validates(w, now) == row.token = token[w] /\ Active(now)

Acquire(w, now) ==
  /\ now <= clock
  /\ ~Active(now)
  /\ issued < MaxToken
  /\ issued' = issued + 1
  /\ row' = [token |-> issued + 1, expires |-> now + Ttl, status |-> "ACTIVE"]
  /\ token' = [token EXCEPT ![w] = issued + 1]
  /\ until' = [until EXCEPT ![w] = now + Ttl]
  /\ UNCHANGED clock

\* heartbeat_scheduler_lease
Renew(w, now) ==
  /\ now <= clock
  /\ token[w] # 0
  /\ Validates(w, now)
  /\ row' = [row EXCEPT !.expires = now + Ttl]
  /\ until' = [until EXCEPT ![w] = now + Ttl]
  /\ UNCHANGED <<clock, issued, token>>

Forget(w) ==
  /\ token' = [token EXCEPT ![w] = 0]
  /\ until' = [until EXCEPT ![w] = 0]

\* Mutant: the token is not compared.
ReleaseAny(w) ==
  /\ token[w] # 0
  /\ row' = IF row.status = "ACTIVE" THEN [row EXCEPT !.status = "RELEASED"] ELSE row
  /\ Forget(w)
  /\ UNCHANGED <<clock, issued>>

\* Only the row with the caller's token is released, expired or not.
Release(w) ==
  /\ token[w] # 0
  /\ row' = IF row.token = token[w] /\ row.status = "ACTIVE"
            THEN [row EXCEPT !.status = "RELEASED"] ELSE row
  /\ Forget(w)
  /\ UNCHANGED <<clock, issued>>

\* The owner dies: the row stays ACTIVE until it expires.
Lose(w) ==
  /\ Forget(w)
  /\ UNCHANGED <<clock, row, issued>>

Tick ==
  /\ clock < MaxClock
  /\ clock' = clock + 1
  /\ UNCHANGED <<row, issued, token, until>>

LeaseNext ==
  \/ Tick
  \/ \E w \in Owners :
       \/ \E now \in 0 .. clock : Acquire(w, now) \/ Renew(w, now)
       \/ Release(w)
       \/ Lose(w)

LeaseSpec == LeaseInit /\ [][LeaseNext]_leaseVars

-----------------------------------------------------------------------------
\* An owner believes in its lease as long as it holds a token and its own
\* expires_at lies ahead.
Believes(w) == token[w] # 0 /\ until[w] > clock

\* At most one owner believes in its lease at any time, with callers whose
\* clocks lag, owners that die holding it, and stale renewals and releases.
LeaseMutex ==
  \A v, w \in Owners : (Believes(v) /\ Believes(w)) => v = w

\* A lease is not taken from an owner that believes in it: whoever still
\* believes holds the row.
BelieverHoldsRow ==
  \A w \in Owners : Believes(w) => row.token = token[w] /\ row.status = "ACTIVE"

=============================================================================
