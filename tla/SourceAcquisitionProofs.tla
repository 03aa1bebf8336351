----------------------- MODULE SourceAcquisitionProofs -----------------------
(***************************************************************************)
(* Proofs about the acquisition runs of one source family, for any number  *)
(* of processes, buckets and contents of the provider.                     *)
(***************************************************************************)
EXTENDS SourceAcquisition, TLAPS

\* A run whose commit writes evidence, or may come to that.
Succeeds(p) ==
  pc[p] = "upsert" \/ (pc[p] \in {"release", "commit"} /\ draftStatus = "SUCCESS")

\* The write lock is held from the insert of the lease to the commit.
OneWriter == \A p \in Processes : pc[p] \in Inside => writer = p

\* What a run knows of its input while it holds the lock: the content is not
\* older than the table, and the file it wrote is the one on the disk.
Knows(p) ==
  /\ pc[p] \in {"check", "raw"} \/ Succeeds(p) =>
       frame[p] \in Contents /\ table <= frame[p] /\ frame[p] <= latest
  /\ pc[p] = "raw" => Input(p) \notin prints
  /\ Succeeds(p) => sha[p] # 0 /\ sha[p] = files[Input(p)]
  /\ pc[p] = "commit" => draftLease = "RELEASED"

RunKnows == \A p \in Processes : Knows(p)

RunInv ==
  /\ TypeOK /\ OneWriter /\ RunKnows
  /\ ReceiptMatchesFile /\ EvidenceComplete /\ LeaseNeverLeftHeld
  /\ table <= latest

\* The assumptions in the form the steps need.
LEMMA AcquisitionFacts ==
  /\ LastBucket \in Nat \ {0} /\ LastContent \in Nat \ {0} /\ CaptureCount \in Nat \ {0, 1}
  /\ None \notin Processes /\ Others \notin Processes /\ Others # None
BY AcquisitionAssumption DEF AcquisitionAssumption

\* Initially no run has begun, and nothing was received.
LEMMA RunInit == Init => RunInv
BY AcquisitionFacts DEF Init, RunInv, TypeOK, OneWriter, RunKnows, Knows, ReceiptMatchesFile,
  EvidenceComplete, LeaseNeverLeftHeld, Succeeds, Points, Inside, Buckets, Contents, Captures

\* A run that ends without a commit leaves everything but the lock.
LEMMA AbandonStep ==
  ASSUME RunInv, NEW p \in Processes, NEW point \in {"idle", "failed"}, Leave(p, point),
         (writer = p /\ Unlock) \/ (pc[p] \notin Inside /\ UNCHANGED txVars),
         UNCHANGED <<dbVars, files, now, latest>>
  PROVE  RunInv'
<1> USE AcquisitionFacts DEF RunInv, TypeOK, Leave, Goto, txVars, dbVars, Unlock
<1>1. TypeOK'
  BY DEF Points, Buckets, Captures
<1>2. \A q \in Processes \ {p} : /\ pc'[q] = pc[q] /\ frame'[q] = frame[q]
                                 /\ sha'[q] = sha[q] /\ bucket'[q] = bucket[q]
  OBVIOUS
<1>3. pc'[p] = point
  OBVIOUS
<1>4. OneWriter'
  BY <1>2, <1>3 DEF OneWriter, Inside
<1>5. RunKnows'
  <2>1. CASE writer = p
    <3>1. \A q \in Processes \ {p} : pc'[q] \notin Inside
      BY <1>2, <2>1 DEF OneWriter
    <3>2. QED
      BY <1>3, <3>1 DEF RunKnows, Knows, Inside, Succeeds
  <2>2. CASE UNCHANGED txVars
    BY <1>2, <1>3, <2>2 DEF RunKnows, Knows, Succeeds, Input
  <2>3. QED
    BY <2>1, <2>2
<1>6. QED
  BY <1>1, <1>4, <1>5 DEF ReceiptMatchesFile, EvidenceComplete, LeaseNeverLeftHeld

\* A step of the writer up to its commit.
LEMMA WriterStep ==
  ASSUME RunInv, NEW p \in Processes,
         Fetch(p) \/ FetchNothing(p) \/ CheckInput(p) \/ Upsert(p) \/ UpsertNothing(p)
           \/ ReleaseLease(p)
  PROVE  RunInv'
<1> USE AcquisitionFacts DEF RunInv, TypeOK, Goto, txVars, dbVars
<1>1. pc[p] \in Inside /\ writer = p
  BY DEF Fetch, FetchNothing, CheckInput, Upsert, UpsertNothing, ReleaseLease, Inside, OneWriter
<1>2. \A q \in Processes \ {p} : pc[q] \notin Inside
  BY <1>1 DEF OneWriter
<1>3. /\ UNCHANGED <<bucket, sha, writer, lease, prints, receipts, fresh, table, ledger,
                     files, now, latest>>
      /\ \A q \in Processes \ {p} : pc'[q] = pc[q]
      /\ pc'[p] \in Inside
  BY DEF Fetch, FetchNothing, CheckInput, Upsert, UpsertNothing, ReleaseLease, Inside
<1>4. TypeOK'
  BY DEF Fetch, FetchNothing, CheckInput, Upsert, UpsertNothing, ReleaseLease, Points
<1>5. OneWriter'
  BY <1>1, <1>2, <1>3 DEF OneWriter
<1>6. RunKnows'
  <2>1. SUFFICES Knows(p)'
    BY <1>2, <1>3 DEF RunKnows, Knows, Inside, Succeeds
  <2>2. CASE Fetch(p)
    <3>1. frame'[p] = latest /\ latest' = latest /\ table' = table /\ pc'[p] = "check"
      BY <2>2 DEF Fetch
    <3>2. latest <= latest
      BY DEF Contents
    <3>3. QED
      BY <3>1, <3>2 DEF Knows, Succeeds
  <2>3. CASE FetchNothing(p) \/ UpsertNothing(p)
    BY <2>1, <2>3 DEF FetchNothing, UpsertNothing, RunKnows, Knows, Succeeds
  <2>4. CASE CheckInput(p)
    BY <2>1, <2>4 DEF CheckInput, RunKnows, Knows, Succeeds, Input
  <2>5. CASE Upsert(p)
    BY <2>1, <2>5 DEF Upsert, RunKnows, Knows, Succeeds, Input
  <2>6. CASE ReleaseLease(p)
    BY <2>1, <2>6 DEF ReleaseLease, RunKnows, Knows, Succeeds, Input
  <2>7. QED
    BY <2>2, <2>3, <2>4, <2>5, <2>6
<1>7. QED
  BY <1>3, <1>4, <1>5, <1>6 DEF ReceiptMatchesFile, EvidenceComplete, LeaseNeverLeftHeld

\* The raw file is written for an input without a receipt.
LEMMA RawStep == ASSUME RunInv, NEW p \in Processes, WriteRaw(p) PROVE RunInv'
<1> USE AcquisitionFacts DEF RunInv, TypeOK, Goto, txVars, dbVars
<1>1. pc[p] = "raw" /\ writer = p
  BY DEF WriteRaw, Inside, OneWriter
<1>2. \A q \in Processes \ {p} : pc[q] \notin Inside
  BY <1>1 DEF OneWriter
<1>3. /\ frame[p] \in Contents /\ table <= frame[p] /\ frame[p] <= latest
      /\ Input(p) \in Inputs /\ receipts[Input(p)] = 0
  BY <1>1 DEF RunKnows, Knows, EvidenceComplete, Inputs, Input
<1>4. PICK s \in Captures : /\ files' = [files EXCEPT ![Input(p)] = s]
                            /\ sha' = [sha EXCEPT ![p] = s]
  BY DEF WriteRaw
<1>5. s # 0
  BY DEF Captures
<1>6. pc' = [pc EXCEPT ![p] = "upsert"]
      /\ UNCHANGED <<bucket, frame, writer, draftLease, draftStatus, lease, prints, receipts,
                     fresh, table, ledger, now, latest>>
  BY DEF WriteRaw
<1>7. TypeOK'
  BY <1>3, <1>4, <1>6 DEF Points
<1>8. OneWriter'
  BY <1>1, <1>6 DEF OneWriter, Inside
<1>9. RunKnows'
  <2>1. sha'[p] = s /\ files'[Input(p)] = s /\ Input(p)' = Input(p)
    BY <1>3, <1>4, <1>6 DEF Input
  <2>2. \A q \in Processes \ {p} : pc'[q] \notin Inside
    BY <1>2, <1>6
  <2>3. QED
    BY <1>3, <1>5, <1>6, <2>1, <2>2 DEF RunKnows, Knows, Succeeds, Inside
<1>10. ReceiptMatchesFile'
  BY <1>3, <1>4, <1>6 DEF ReceiptMatchesFile
<1>11. QED
  BY <1>6, <1>7, <1>8, <1>9, <1>10 DEF EvidenceComplete, LeaseNeverLeftHeld

\* The commit shows the rows, the evidence and the freshness at once.
LEMMA CommitStep ==
  ASSUME RunInv, NEW p \in Processes, Commit(p) PROVE RunInv' /\ table' >= table
<1> USE AcquisitionFacts DEF RunInv, TypeOK
<1>1. pc[p] = "commit" /\ writer = p /\ draftLease = "RELEASED"
  BY DEF Commit, Inside, OneWriter, RunKnows, Knows
<1>2. \A q \in Processes \ {p} : pc[q] \notin Inside
  BY <1>1 DEF OneWriter
<1>3. /\ pc' = [pc EXCEPT ![p] = "idle"]
      /\ bucket' = [bucket EXCEPT ![p] = 1]
      /\ frame' = [frame EXCEPT ![p] = 0]
      /\ sha' = [sha EXCEPT ![p] = 0]
      /\ writer' = None /\ draftLease' = "NONE" /\ draftStatus' = "NONE"
      /\ lease' = [lease EXCEPT ![bucket[p]] = "RELEASED"]
      /\ UNCHANGED <<files, now, latest>>
  BY <1>1 DEF Commit, Unlock, Leave, Goto
<1>4. OneWriter' /\ RunKnows'
  <2>1. \A q \in Processes : pc'[q] \notin Inside
    BY <1>2, <1>3 DEF Inside
  <2>2. QED
    BY <2>1 DEF OneWriter, RunKnows, Knows, Succeeds, Inside
<1>5. LeaseNeverLeftHeld'
  BY <1>3 DEF LeaseNeverLeftHeld
<1>6. CASE draftStatus = "SUCCESS"
  <2>1. /\ frame[p] \in Contents /\ table <= frame[p]
        /\ sha[p] # 0 /\ sha[p] = files[Input(p)] /\ Input(p) \in Inputs
    BY <1>1, <1>6 DEF RunKnows, Knows, Succeeds, Inputs, Input
  <2>2. /\ prints' = prints \cup {Input(p)}
        /\ receipts' = [receipts EXCEPT ![Input(p)] = sha[p]]
        /\ fresh' = Input(p)
        /\ table' = frame[p]
        /\ ledger' = ledger \cup {bucket[p]}
    BY <1>6 DEF Commit
  <2>3. TypeOK'
    <3>1. sha[p] \in Captures \cup {0} /\ bucket[p] \in Buckets /\ 1 \in Buckets
      BY DEF Buckets
    <3>2. prints' \subseteq Inputs /\ receipts' \in [Inputs -> Captures \cup {0}]
      BY <2>1, <2>2, <3>1
    <3>3. /\ fresh' \in Inputs \cup {<<0, 0>>} /\ table' \in Contents \cup {0}
          /\ ledger' \subseteq Buckets
      BY <2>1, <2>2, <3>1
    <3>4. QED
      BY <1>3, <3>1, <3>2, <3>3 DEF Points
  <2>4. ReceiptMatchesFile'
    BY <1>3, <2>1, <2>2 DEF ReceiptMatchesFile
  <2>5. Input(p)[1] = bucket[p] /\ Input(p)[2] = frame[p]
    BY DEF Input
  <2>6. EvidenceComplete'
    BY <2>1, <2>2, <2>5 DEF EvidenceComplete
  <2>7. table' <= latest'
    <3>1. frame[p] <= latest
      BY <1>1, <1>6 DEF RunKnows, Knows, Succeeds
    <3>2. QED
      BY <1>3, <2>2, <3>1
  <2>8. QED
    BY <1>4, <1>5, <2>1, <2>2, <2>3, <2>4, <2>6, <2>7 DEF Contents
<1>7. CASE draftStatus # "SUCCESS"
  <2>1. UNCHANGED <<prints, receipts, fresh, table, ledger>>
    BY <1>7 DEF Commit
  <2>2. TypeOK'
    BY <1>3, <2>1 DEF Points, Buckets, Captures
  <2>3. QED
    BY <1>3, <1>4, <1>5, <2>1, <2>2 DEF ReceiptMatchesFile, EvidenceComplete, Contents
<1>8. QED
  BY <1>6, <1>7

\* Every step keeps the invariant, and never puts older data in the table.
LEMMA RunStep == RunInv /\ [Next]_vars => RunInv' /\ table' >= table
<1> SUFFICES ASSUME RunInv, [Next]_vars PROVE RunInv' /\ table' >= table
  OBVIOUS
<1>0. table \in Int
  BY AcquisitionFacts DEF RunInv, TypeOK, Contents
<1> USE AcquisitionFacts
<1>1. ASSUME NEW p \in Processes, Start(p) \/ ReadLease(p) PROVE RunInv' /\ table' >= table
  BY <1>0, <1>1 DEF Start, ReadLease, Goto, RunInv, TypeOK, OneWriter, RunKnows, Knows, Succeeds, Input,
    ReceiptMatchesFile, EvidenceComplete, LeaseNeverLeftHeld, Points, Inside, txVars, dbVars
<1>2. ASSUME NEW p \in Processes, TakeLease(p) PROVE RunInv' /\ table' >= table
  BY <1>0, <1>2 DEF TakeLease, Goto, RunInv, TypeOK, OneWriter, RunKnows, Knows, Succeeds, Input,
    ReceiptMatchesFile, EvidenceComplete, LeaseNeverLeftHeld, Points, Inside, dbVars
<1>3. ASSUME NEW p \in Processes,
             Fetch(p) \/ FetchNothing(p) \/ CheckInput(p) \/ Upsert(p) \/ UpsertNothing(p)
               \/ ReleaseLease(p)
      PROVE  RunInv' /\ table' >= table
  <2>1. table' = table
    BY <1>3 DEF Fetch, FetchNothing, CheckInput, Upsert, UpsertNothing, ReleaseLease, dbVars
  <2>2. QED
    BY <1>0, <1>3, <2>1, WriterStep
<1>4. ASSUME NEW p \in Processes, WriteRaw(p) PROVE RunInv' /\ table' >= table
  <2>1. table' = table
    BY <1>4 DEF WriteRaw, dbVars
  <2>2. QED
    BY <1>0, <1>4, <2>1, RawStep
<1>5. ASSUME NEW p \in Processes, Commit(p) PROVE RunInv' /\ table' >= table
  BY <1>5, CommitStep
<1>6. ASSUME NEW p \in Processes, Fail(p) PROVE RunInv' /\ table' >= table
  <2>1. table' = table
    BY <1>6 DEF Fail, Raise, LockTimeout, WriteFailure, FailureTimeout, Crash, dbVars
  <2>3. CASE Raise(p)
    <3>1. writer = p
      BY <2>3 DEF Raise, RunInv, OneWriter
    <3>2. QED
      BY <1>0, <2>1, <2>3, <3>1, AbandonStep DEF Raise
  <2>4. CASE LockTimeout(p) \/ WriteFailure(p) \/ FailureTimeout(p)
    <3>1. pc[p] \notin Inside
      BY <2>4 DEF LockTimeout, WriteFailure, FailureTimeout, Inside
    <3>2. QED
      BY <1>0, <2>1, <2>4, <3>1, AbandonStep DEF LockTimeout, WriteFailure, FailureTimeout
  <2>5. CASE Crash(p)
    <3>1. (writer = p /\ Unlock) \/ (pc[p] \notin Inside /\ UNCHANGED txVars)
      BY <2>5 DEF Crash, RunInv, OneWriter
    <3>2. QED
      BY <1>0, <2>1, <2>5, <3>1, AbandonStep DEF Crash
  <2>6. QED
    BY <1>6, <2>3, <2>4, <2>5 DEF Fail
<1>7. CASE Environment
  BY <1>0, <1>7 DEF Environment, NextBucket, ProviderMoves, OthersLock, OthersUnlock, RunInv, TypeOK,
    OneWriter, RunKnows, Knows, Succeeds, Input, ReceiptMatchesFile, EvidenceComplete, LeaseNeverLeftHeld,
    Inside, Contents, runVars, txVars, dbVars
<1>8. CASE UNCHANGED vars
  BY <1>0, <1>8 DEF vars, RunInv, TypeOK, OneWriter, RunKnows, Knows, Succeeds, Input,
    ReceiptMatchesFile, EvidenceComplete, LeaseNeverLeftHeld
<1>9. QED
  BY <1>1, <1>2, <1>3, <1>4, <1>5, <1>6, <1>7, <1>8 DEF Next, Run

-----------------------------------------------------------------------------
\* The types of the runs, the database and the disk.
THEOREM AcquisitionTypesCorrect == Spec => []TypeOK
<1>1. RunInv => TypeOK
  BY DEF RunInv
<1>2. QED
  BY RunInit, RunStep, <1>1, PTL DEF Spec

\* A receipt has the hash of the file it names (_write_raw, _write_evidence),
\* whoever rewrites the file and whatever is rolled back.
THEOREM ReceiptMatchesFileCorrect == Spec => []ReceiptMatchesFile
<1>1. RunInv => ReceiptMatchesFile
  BY DEF RunInv
<1>2. QED
  BY RunInit, RunStep, <1>1, PTL DEF Spec

\* The table and the freshness never show what no receipt tells of.
THEOREM EvidenceCompleteCorrect == Spec => []EvidenceComplete
<1>1. RunInv => EvidenceComplete
  BY DEF RunInv
<1>2. QED
  BY RunInit, RunStep, <1>1, PTL DEF Spec

\* The lease is released in the transaction that took it, so that a committed
\* lease is never held and the LEASE_HELD branch is dead.
THEOREM LeaseNeverLeftHeldCorrect == Spec => []LeaseNeverLeftHeld
<1>1. RunInv => LeaseNeverLeftHeld
  BY DEF RunInv
<1>2. QED
  BY RunInit, RunStep, <1>1, PTL DEF Spec

\* The fetch lies inside the transaction: no run commits what is older than the
\* content of the table.
THEOREM TableNeverGoesBackCorrect == Spec => TableNeverGoesBack
<1>1. RunInv /\ [Next]_vars => RunInv' /\ [table' >= table]_vars
  BY RunStep
<1>2. QED
  BY RunInit, <1>1, PTL DEF Spec, TableNeverGoesBack

-----------------------------------------------------------------------------
(* What is dropped is in the table *)

\* No fingerprint is of newer content than the table.
PrintsInTable == \A i \in prints : i[2] <= table

\* An input that a run drops because it was seen (_input_fingerprint_seen) is
\* what the source table holds.
SeenInputIsInTable ==
  \A p \in Processes : pc[p] = "check" /\ Input(p) \in prints => table = frame[p]

\* Only a commit writes a fingerprint, and with it the content.
LEMMA PrintsStep == RunInv /\ PrintsInTable /\ [Next]_vars => PrintsInTable'
<1> SUFFICES ASSUME RunInv, PrintsInTable, [Next]_vars PROVE PrintsInTable'
  OBVIOUS
<1>1. ASSUME NEW p \in Processes, Commit(p), draftStatus = "SUCCESS" PROVE PrintsInTable'
  <2>1. prints' = prints \cup {Input(p)} /\ table' = frame[p] /\ Input(p)[2] = frame[p]
    BY <1>1 DEF Commit, Input
  <2>2. frame[p] \in Contents /\ table <= frame[p]
    BY <1>1 DEF Commit, RunInv, RunKnows, Knows, Succeeds
  <2>3. \A i \in prints : i[2] \in Int
    BY AcquisitionFacts DEF RunInv, TypeOK, Inputs, Contents
  <2>4. table \in Int /\ frame[p] \in Int
    BY <2>2, AcquisitionFacts DEF RunInv, TypeOK, Contents
  <2>5. QED
    BY <2>1, <2>2, <2>3, <2>4 DEF PrintsInTable
<1>2. UNCHANGED <<prints, table>>
        \/ \E p \in Processes : Commit(p) /\ draftStatus = "SUCCESS"
  BY DEF Next, Run, Fail, Environment, Start, ReadLease, TakeLease, Fetch, FetchNothing, CheckInput,
    WriteRaw, Upsert, UpsertNothing, ReleaseLease, Commit, Raise, LockTimeout, WriteFailure,
    FailureTimeout, Crash, NextBucket, ProviderMoves, OthersLock, OthersUnlock, dbVars, vars
<1>3. QED
  BY <1>1, <1>2 DEF PrintsInTable

\* What LatestArrives needs of the states: no fingerprint keeps content out of
\* the table, whatever runs failed, were killed or committed in between.
THEOREM SeenInputIsInTableCorrect == Spec => []SeenInputIsInTable
<1>1. Init => PrintsInTable
  BY DEF Init, PrintsInTable
<1>2. RunInv /\ PrintsInTable => SeenInputIsInTable
  <2> SUFFICES ASSUME RunInv, PrintsInTable, NEW p \in Processes,
                      pc[p] = "check", Input(p) \in prints
               PROVE  table = frame[p]
    BY DEF SeenInputIsInTable
  <2>1. table <= frame[p] /\ frame[p] <= table
    BY DEF RunInv, RunKnows, Knows, PrintsInTable, Input
  <2>2. table \in Int /\ frame[p] \in Int
    BY AcquisitionFacts DEF RunInv, TypeOK, Contents
  <2>3. QED
    BY <2>1, <2>2
<1>3. QED
  BY RunInit, RunStep, PrintsStep, <1>1, <1>2, PTL DEF Spec

=============================================================================
