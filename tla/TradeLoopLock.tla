--------------------------- MODULE TradeLoopLock ---------------------------
(***************************************************************************)
(* The lock file that keeps one trade loop running                         *)
(* (app/run_trade_loop.py): TradeRun takes it for granted that there is    *)
(* one.  A step is one call to the file system or to the process table.    *)
(* A process is its pid; a pid is used once.                               *)
(***************************************************************************)
CONSTANTS
  Processes,
  None        \* no lock file

Locks == [by : Processes, written : BOOLEAN]

ASSUME LockAssumption == None \notin Processes \cup Locks

VARIABLES
  at,         \* program point of each process
  lock,       \* who created the file that is there, and whether it holds a pid
  seen,       \* the pid each process has read from it
  overlap     \* whether a loop may be started while another one is starting

vars == <<at, lock, seen, overlap>>

Starting == {"look", "read", "probe", "unlink", "open", "write"}

Running == {"run", "release", "remove", "leaving"}

Points == {"new", "refused", "gone"} \cup Starting \cup Running

TypeOK ==
  /\ at \in [Processes -> Points]
  /\ lock \in {None} \cup Locks
  /\ seen \in [Processes -> Processes \cup {None}]
  /\ \A p \in Processes : at[p] = "probe" => seen[p] # None
  /\ overlap \in BOOLEAN

Init ==
  /\ at = [p \in Processes |-> "new"]
  /\ lock = None
  /\ seen = [p \in Processes |-> None]
  /\ overlap \in BOOLEAN

Goto(p, point) == at' = [at EXCEPT ![p] = point]

\* Mutant: every lock that names a pid is stale.
AliveNever(p) == FALSE

\* _pid_is_running
Alive(p) == at[p] \in Starting \cup Running

Start(p) ==
  /\ at[p] = "new"
  /\ overlap \/ \A q \in Processes : at[q] \notin Starting
  /\ Goto(p, "look")
  /\ UNCHANGED <<lock, seen, overlap>>

-----------------------------------------------------------------------------
(* _acquire_lock *)

Look(p) ==
  /\ at[p] = "look"
  /\ Goto(p, IF lock = None THEN "open" ELSE "read")
  /\ UNCHANGED <<lock, seen, overlap>>

NamesOwner == lock # None /\ lock.written

\* Mutant: a lock without a pid is handed on as one.
ReadLockUnchecked(p) ==
  /\ at[p] = "read"
  /\ seen' = [seen EXCEPT ![p] = IF NamesOwner THEN lock.by ELSE None]
  /\ Goto(p, "probe")
  /\ UNCHANGED <<lock, overlap>>

\* A file that is gone or holds no pid yet does not count as stale.
ReadLock(p) ==
  /\ at[p] = "read"
  /\ \/ /\ NamesOwner
        /\ seen' = [seen EXCEPT ![p] = lock.by]
        /\ Goto(p, "probe")
     \/ /\ ~NamesOwner
        /\ Goto(p, "refused")
        /\ UNCHANGED seen
  /\ UNCHANGED <<lock, overlap>>

ProbeOwner(p) ==
  /\ at[p] = "probe"
  /\ Goto(p, IF Alive(seen[p]) THEN "refused" ELSE "unlink")
  /\ UNCHANGED <<lock, seen, overlap>>

\* Whatever file is there by now.
UnlinkStale(p) ==
  /\ at[p] = "unlink"
  /\ lock' = None
  /\ Goto(p, "open")
  /\ UNCHANGED <<seen, overlap>>

\* Mutant: without O_EXCL.
CreateLockShared(p) ==
  /\ at[p] = "open"
  /\ lock' = [by |-> p, written |-> FALSE]
  /\ Goto(p, "write")
  /\ UNCHANGED <<seen, overlap>>

\* O_CREAT | O_EXCL
CreateLock(p) ==
  /\ at[p] = "open"
  /\ \/ lock = None /\ lock' = [by |-> p, written |-> FALSE] /\ Goto(p, "write")
     \/ lock # None /\ UNCHANGED lock /\ Goto(p, "refused")
  /\ UNCHANGED <<seen, overlap>>

\* The pid goes to the file that was opened, which may be unlinked already.
WritePid(p) ==
  /\ at[p] = "write"
  /\ lock' = IF lock # None /\ lock.by = p THEN [lock EXCEPT !.written = TRUE] ELSE lock
  /\ Goto(p, "run")
  /\ UNCHANGED <<seen, overlap>>

-----------------------------------------------------------------------------
\* max_runs, the kill switch or an interrupt.
StopLoop(p) ==
  /\ at[p] = "run"
  /\ Goto(p, "release")
  /\ UNCHANGED <<lock, seen, overlap>>

\* _release_lock: the file is looked for, then unlinked, whoever's it is.
FindLock(p) ==
  /\ at[p] = "release"
  /\ Goto(p, IF lock = None THEN "leaving" ELSE "remove")
  /\ UNCHANGED <<lock, seen, overlap>>

RemoveLock(p) ==
  /\ at[p] = "remove"
  /\ lock' = None
  /\ Goto(p, "leaving")
  /\ UNCHANGED <<seen, overlap>>

\* The process ends; before that point it is killed, or the machine goes down.
Die(p) ==
  /\ Alive(p)
  /\ Goto(p, "gone")
  /\ UNCHANGED <<lock, seen, overlap>>

Next ==
  \E p \in Processes :
    \/ Start(p)
    \/ Look(p) \/ ReadLock(p) \/ ProbeOwner(p) \/ UnlinkStale(p)
    \/ CreateLock(p) \/ WritePid(p)
    \/ StopLoop(p) \/ FindLock(p) \/ RemoveLock(p)
    \/ Die(p)

Spec == Init /\ [][Next]_vars

-----------------------------------------------------------------------------
Looping(p) == at[p] = "run"

\* task-032: the lock keeps the trade loop a single process.
SingleProcess == \A p, q \in Processes : (Looping(p) /\ Looping(q)) => p = q

\* That is so as long as loops are started one after the other, also after
\* loops that were killed at any point.
SingleLoop == ~overlap => SingleProcess

\* Overlapping starts alone do no harm: until a process that got as far as the
\* lock file is gone or leaving, the exclusive creation keeps the others out.
SingleLoopUntilFirstExit ==
  (\A p \in Processes : at[p] \notin {"gone", "leaving"}) => SingleProcess

=============================================================================
