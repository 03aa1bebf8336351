------------------------ MODULE TradeLoopLockProofs ------------------------
(***************************************************************************)
(* Proofs that the lock file keeps one trade loop running as long as loops *)
(* are started one after the other, or as long as none has gone, for any   *)
(* number of processes.                                                    *)
(***************************************************************************)
EXTENDS TradeLoopLock, TLAPS

LockOf(p, named) == [by |-> p, written |-> named]

\* From the first turn of the loop to the removal of its lock.
Owning == {"run", "release", "remove"}

\* At most one process is starting; the one that owns the loop has its pid in
\* the file; and a starter about to unlink a file has seen its owner dead.
Serialised ==
  /\ \A p, q \in Processes : (at[p] \in Starting /\ at[q] \in Starting) => p = q
  /\ \A p \in Processes :
       /\ at[p] \in Owning => lock = LockOf(p, TRUE)
       /\ at[p] = "write" => lock = LockOf(p, FALSE)
       /\ at[p] = "probe" =>
            seen[p] \in Processes /\ lock \in {None, LockOf(seen[p], TRUE)}
       /\ at[p] = "unlink" => \A q \in Processes : at[q] \notin Owning

LockInv == TypeOK /\ (~overlap => Serialised)

\* The content of the file tells who created it, and whether it names its owner.
LEMMA LockRecords ==
  ASSUME LockAssumption, NEW p \in Processes, NEW q \in Processes,
         NEW b \in BOOLEAN, NEW c \in BOOLEAN
  PROVE  /\ LockOf(p, b) \in Locks
         /\ LockOf(p, b) # None
         /\ LockOf(p, b) = LockOf(q, c) => p = q /\ b = c
<1>1. LockOf(p, b) \in Locks /\ LockOf(p, b).by = p /\ LockOf(p, b).written = b
  BY DEF LockOf, Locks
<1>2. LockOf(q, c).by = q /\ LockOf(q, c).written = c
  BY DEF LockOf
<1>3. QED
  BY <1>1, <1>2 DEF LockAssumption

\* Every step keeps the types.
LEMMA TypeStep == LockAssumption /\ TypeOK /\ [Next]_vars => TypeOK'
<1> SUFFICES ASSUME LockAssumption, TypeOK, [Next]_vars PROVE TypeOK'
  OBVIOUS
<1>0. None \notin Processes
  BY DEF LockAssumption
<1> USE DEF TypeOK, Starting, Running, Points, Goto
<1>1. ASSUME NEW p \in Processes, Start(p) \/ Look(p) PROVE TypeOK'
  BY <1>1 DEF Start, Look
<1>2. ASSUME NEW p \in Processes, ReadLock(p) PROVE TypeOK'
  <2>1. CASE NamesOwner
    <3>1. lock.by \in Processes
      BY <2>1 DEF NamesOwner, Locks
    <3>2. QED
      BY <1>0, <1>2, <2>1, <3>1 DEF ReadLock
  <2>2. CASE ~NamesOwner
    BY <1>2, <2>2 DEF ReadLock
  <2>3. QED
    BY <2>1, <2>2
<1>3. ASSUME NEW p \in Processes, ProbeOwner(p) \/ UnlinkStale(p) PROVE TypeOK'
  BY <1>3 DEF ProbeOwner, UnlinkStale
<1>4. ASSUME NEW p \in Processes, CreateLock(p) PROVE TypeOK'
  <2>1. [by |-> p, written |-> FALSE] \in Locks
    BY DEF Locks
  <2>2. QED
    BY <1>4, <2>1 DEF CreateLock
<1>5. ASSUME NEW p \in Processes, WritePid(p) PROVE TypeOK'
  <2>1. lock # None => [lock EXCEPT !.written = TRUE] \in Locks
    BY DEF Locks
  <2>2. QED
    BY <1>5, <2>1 DEF WritePid
<1>6. ASSUME NEW p \in Processes, StopLoop(p) \/ FindLock(p) PROVE TypeOK'
  BY <1>6 DEF StopLoop, FindLock
<1>7. ASSUME NEW p \in Processes, RemoveLock(p) \/ Die(p) PROVE TypeOK'
  BY <1>7 DEF RemoveLock, Die
<1>8. CASE UNCHANGED vars
  BY <1>8 DEF vars
<1> HIDE DEF TypeOK
<1>9. QED
  BY <1>1, <1>2, <1>3, <1>4, <1>5, <1>6, <1>7, <1>8 DEF Next

\* With serialised starts every step keeps the claims about the file.
LEMMA SerialStep ==
  LockAssumption /\ TypeOK /\ ~overlap /\ Serialised /\ [Next]_vars => Serialised'
<1> SUFFICES ASSUME LockAssumption, TypeOK, ~overlap, Serialised, [Next]_vars
             PROVE Serialised'
  OBVIOUS
<1>0. \A p, q \in Processes, b, c \in BOOLEAN :
        /\ LockOf(p, b) \in Locks
        /\ LockOf(p, b) # None
        /\ LockOf(p, b) = LockOf(q, c) => p = q /\ b = c
  BY LockRecords
<1> USE DEF Serialised, TypeOK, Owning, Starting, Running, Points, Goto
<1>1. ASSUME NEW p \in Processes, Start(p) PROVE Serialised'
  BY <1>1 DEF Start
<1>2. ASSUME NEW p \in Processes, Look(p) PROVE Serialised'
  BY <1>2 DEF Look
<1>3. ASSUME NEW p \in Processes, ReadLock(p) PROVE Serialised'
  <2>1. NamesOwner => lock = LockOf(lock.by, TRUE) /\ lock.by \in Processes
    BY DEF NamesOwner, LockOf, Locks
  <2>2. None \notin Processes
    BY DEF LockAssumption
  <2>3. CASE NamesOwner
    <3>1. /\ at[p] = "read" /\ at' = [at EXCEPT ![p] = "probe"]
          /\ seen' = [seen EXCEPT ![p] = lock.by] /\ UNCHANGED lock
      BY <1>3, <2>3 DEF ReadLock
    <3>2. QED
      BY <2>1, <2>2, <2>3, <3>1
  <2>4. CASE ~NamesOwner
    BY <1>3, <2>4 DEF ReadLock
  <2>5. QED
    BY <2>3, <2>4
<1>4. ASSUME NEW p \in Processes, ProbeOwner(p) PROVE Serialised'
  <2>1. seen[p] \in Processes /\ lock \in {None, LockOf(seen[p], TRUE)}
    BY <1>4 DEF ProbeOwner
  <2>2. \A q \in Processes : at[q] \in Owning => q = seen[p]
    <3>1. SUFFICES ASSUME NEW q \in Processes, at[q] \in Owning PROVE q = seen[p]
      OBVIOUS
    <3>2. lock = LockOf(q, TRUE)
      BY <3>1
    <3>3. lock # None
      BY <1>0, <3>2
    <3>4. QED
      BY <1>0, <2>1, <3>2, <3>3
  <2>3. QED
    BY <1>4, <2>1, <2>2 DEF ProbeOwner, Alive
<1>5. ASSUME NEW p \in Processes, UnlinkStale(p) PROVE Serialised'
  BY <1>5 DEF UnlinkStale
<1>6. ASSUME NEW p \in Processes, CreateLock(p) PROVE Serialised'
  <2>1. CASE lock = None
    <3>1. \A q \in Processes : at[q] \notin Owning
      BY <1>0, <2>1
    <3>2. lock' = LockOf(p, FALSE) /\ lock' \in Locks
      <4>1. lock' = LockOf(p, FALSE)
        BY <1>6, <2>1 DEF CreateLock, LockOf
      <4>2. QED
        BY <1>0, <4>1
    <3>3. at' = [at EXCEPT ![p] = "write"] /\ UNCHANGED seen /\ at[p] = "open"
      BY <1>6, <2>1 DEF CreateLock
    <3>4. QED
      BY <3>1, <3>2, <3>3
  <2>2. CASE lock # None
    BY <1>6, <2>2 DEF CreateLock
  <2>3. QED
    BY <2>1, <2>2
<1>7. ASSUME NEW p \in Processes, WritePid(p) PROVE Serialised'
  <2>1. lock = LockOf(p, FALSE) /\ at[p] = "write"
    BY <1>7 DEF WritePid
  <2>2. lock' = LockOf(p, TRUE) /\ lock' \in Locks
    <3>1. lock # None /\ lock.by = p
      BY <1>0, <2>1 DEF LockOf
    <3>2. lock' = [lock EXCEPT !.written = TRUE]
      BY <1>7, <3>1 DEF WritePid
    <3>3. lock' = LockOf(p, TRUE)
      BY <3>2, <2>1 DEF LockOf
    <3>4. QED
      BY <1>0, <3>3
  <2>3. \A q \in Processes : at[q] \notin Owning
    BY <1>0, <2>1
  <2>4. at' = [at EXCEPT ![p] = "run"] /\ UNCHANGED seen
    BY <1>7 DEF WritePid
  <2>5. QED
    BY <2>1, <2>2, <2>3, <2>4
<1>8. ASSUME NEW p \in Processes, StopLoop(p) \/ FindLock(p) PROVE Serialised'
  <2>1. CASE StopLoop(p)
    BY <2>1 DEF StopLoop
  <2>2. CASE FindLock(p)
    BY <2>2 DEF FindLock
  <2>3. QED
    BY <1>8, <2>1, <2>2
<1>9. ASSUME NEW p \in Processes, RemoveLock(p) PROVE Serialised'
  <2>1. at[p] = "remove" /\ lock = LockOf(p, TRUE)
    BY <1>9 DEF RemoveLock
  <2>2. \A q \in Processes : at[q] # "write" /\ (at[q] \in Owning => q = p)
    BY <1>0, <2>1
  <2>3. QED
    BY <1>9, <2>1, <2>2 DEF RemoveLock
<1>10. ASSUME NEW p \in Processes, Die(p) PROVE Serialised'
  BY <1>10 DEF Die, Alive
<1>11. CASE UNCHANGED vars
  BY <1>11 DEF vars
<1> HIDE DEF Serialised
<1>12. QED
  BY <1>1, <1>2, <1>3, <1>4, <1>5, <1>6, <1>7, <1>8, <1>9, <1>10, <1>11 DEF Next

\* Whether starts may overlap is settled once.
LEMMA OverlapFixed == [Next]_vars => overlap' = overlap
  BY DEF Next, Start, Look, ReadLock, ProbeOwner, UnlinkStale, CreateLock, WritePid,
         StopLoop, FindLock, RemoveLock, Die, vars

\* One loop at a time (run_loop, _acquire_lock, _release_lock), if no loop is
\* started while another one is starting.
THEOREM SingleLoopCorrect == Spec => []SingleLoop
<1>1. Init => LockInv
  BY LockAssumption DEF Init, LockInv, Serialised, TypeOK, Owning, Starting, Running, Points
<1>2. LockInv /\ [Next]_vars => LockInv'
  BY TypeStep, SerialStep, OverlapFixed, LockAssumption DEF LockInv
<1>3. LockInv => SingleLoop
  <2>1. SUFFICES ASSUME ~overlap, TypeOK, Serialised PROVE SingleProcess
    BY DEF LockInv, SingleLoop
  <2>2. QED
    BY <2>1, LockRecords, LockAssumption DEF Serialised, SingleProcess, Looping, Owning
<1>4. QED
  BY <1>1, <1>2, <1>3, PTL DEF Spec

\* The types, through any overlap of starts and any kill.
THEOREM LockTypesCorrect == Spec => []TypeOK
<1>1. Init => TypeOK
  BY LockAssumption DEF Init, TypeOK, Points, Starting
<1>2. TypeOK /\ [Next]_vars => TypeOK'
  BY TypeStep, LockAssumption
<1>3. QED
  BY <1>1, <1>2, PTL DEF Spec

-----------------------------------------------------------------------------
\* From the creation of the file to its removal.
Holding == {"write", "run", "release", "remove"}

AllPresent == \A p \in Processes : at[p] \notin {"gone", "leaving"}

\* As long as nobody has gone, the file is its creator's, who is alive: so
\* nobody ever unlinks it.
FirstOwner ==
  /\ \A p \in Processes :
       /\ at[p] # "unlink"
       /\ at[p] \in Holding => lock # None /\ lock.by = p
       /\ at[p] = "probe" => seen[p] \in Processes /\ at[seen[p]] \in Holding
  /\ lock # None => at[lock.by] \in Holding

\* Nobody who has gone comes back.
LEMMA GoneStaysGone == TypeOK /\ [Next]_vars /\ AllPresent' => AllPresent
  BY DEF Next, Start, Look, ReadLock, ProbeOwner, UnlinkStale, CreateLock, WritePid,
         StopLoop, FindLock, RemoveLock, Die, vars, AllPresent, TypeOK, Points, Goto,
         Starting, Running, Alive

\* Every step that leaves all processes there keeps the file its creator's.
LEMMA OwnerStep ==
  LockAssumption /\ TypeOK /\ FirstOwner /\ [Next]_vars /\ AllPresent' => FirstOwner'
<1> SUFFICES ASSUME LockAssumption, TypeOK, FirstOwner, [Next]_vars, AllPresent'
             PROVE FirstOwner'
  OBVIOUS
<1>0. None \notin Processes
  BY DEF LockAssumption
<1> USE DEF FirstOwner, TypeOK, Holding, Starting, Running, Points, Goto
<1>1. ASSUME NEW p \in Processes, Start(p) \/ Look(p) PROVE FirstOwner'
  BY <1>1 DEF Start, Look, Locks
<1>2. ASSUME NEW p \in Processes, ReadLock(p) PROVE FirstOwner'
  <2>1. CASE NamesOwner
    <3>1. lock.by \in Processes /\ lock # None
      BY <2>1 DEF NamesOwner, Locks
    <3>2. /\ at[p] = "read" /\ at' = [at EXCEPT ![p] = "probe"]
          /\ seen' = [seen EXCEPT ![p] = lock.by] /\ UNCHANGED lock
      BY <1>0, <1>2, <2>1 DEF ReadLock
    <3>3. QED
      BY <3>1, <3>2
  <2>2. CASE ~NamesOwner
    BY <1>2, <2>2 DEF ReadLock, Locks
  <2>3. QED
    BY <2>1, <2>2
<1>3. ASSUME NEW p \in Processes, ProbeOwner(p) PROVE FirstOwner'
  BY <1>3 DEF ProbeOwner, Alive, Locks
<1>4. ASSUME NEW p \in Processes, UnlinkStale(p) PROVE FirstOwner'
  BY <1>4 DEF UnlinkStale
<1>5. ASSUME NEW p \in Processes, CreateLock(p) PROVE FirstOwner'
  <2>1. CASE lock = None
    <3>1. lock' = [by |-> p, written |-> FALSE] /\ lock' \in Locks /\ lock'.by = p
      <4>1. lock' = [by |-> p, written |-> FALSE]
        BY <1>5, <2>1 DEF CreateLock
      <4>2. QED
        BY <4>1 DEF Locks
    <3>2. lock' # None /\ at' = [at EXCEPT ![p] = "write"] /\ UNCHANGED seen /\ at[p] = "open"
      BY <1>5, <2>1, <3>1 DEF CreateLock, LockAssumption
    <3>3. QED
      BY <2>1, <3>1, <3>2
  <2>2. CASE lock # None
    BY <1>5, <2>2 DEF CreateLock, Locks
  <2>3. QED
    BY <2>1, <2>2
<1>6. ASSUME NEW p \in Processes, WritePid(p) PROVE FirstOwner'
  <2>1. at[p] = "write" /\ at' = [at EXCEPT ![p] = "run"] /\ UNCHANGED seen
    BY <1>6 DEF WritePid
  <2>2. lock \in Locks /\ lock.by = p /\ lock' = [lock EXCEPT !.written = TRUE]
    BY <1>6, <2>1 DEF WritePid
  <2>3. lock' \in Locks /\ lock'.by = p /\ lock' # None
    BY <2>2 DEF Locks, LockAssumption
  <2>4. QED
    BY <2>1, <2>2, <2>3
<1>7. ASSUME NEW p \in Processes, StopLoop(p) \/ FindLock(p) PROVE FirstOwner'
  BY <1>7 DEF StopLoop, FindLock, Locks, AllPresent
<1>8. ASSUME NEW p \in Processes, RemoveLock(p) \/ Die(p) PROVE FirstOwner'
  BY <1>8 DEF RemoveLock, Die, AllPresent
<1>9. CASE UNCHANGED vars
  BY <1>9 DEF vars
<1> HIDE DEF FirstOwner
<1>10. QED
  BY <1>1, <1>2, <1>3, <1>4, <1>5, <1>6, <1>7, <1>8, <1>9 DEF Next

\* Starts that overlap do no harm before a loop has gone (_acquire_lock opens
\* the file with O_EXCL): the harm they do takes a stale file, too.
THEOREM UntilFirstExitCorrect == Spec => []SingleLoopUntilFirstExit
<1> DEFINE Inv == TypeOK /\ (AllPresent => FirstOwner)
<1>1. Init => Inv
  BY LockAssumption DEF Init, TypeOK, Points, Starting, FirstOwner, Holding
<1>2. Inv /\ [Next]_vars => Inv'
  BY TypeStep, OwnerStep, GoneStaysGone, LockAssumption
<1>3. Inv => SingleLoopUntilFirstExit
  BY DEF AllPresent, FirstOwner, Holding, SingleLoopUntilFirstExit, SingleProcess, Looping
<1>4. QED
  BY <1>1, <1>2, <1>3, PTL DEF Spec

=============================================================================
