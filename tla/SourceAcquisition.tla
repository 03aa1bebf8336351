------------------------- MODULE SourceAcquisition -------------------------
(***************************************************************************)
(* tools/db/run_source_acquisition_once.py: run_once for one source        *)
(* family, by several processes, on one trading.db.  A run takes the lease *)
(* of its 5-minute bucket, fetches, drops an input it has seen in that     *)
(* bucket, writes the raw file, and then the rows of the source table, the *)
(* receipt, the freshness, the ledger and the fingerprint.                 *)
(*                                                                         *)
(* The lease, the fetch and all writes to the database are one             *)
(* transaction: it begins with the insert of the lease and holds the write *)
(* lock of the database; before it commits, nobody else sees any of it.    *)
(* The raw file is written in the midst of it, and stays if it is rolled   *)
(* back.  The provider is a number that grows: the latest content it has.  *)
(***************************************************************************)
EXTENDS Integers

CONSTANTS
  Processes,
  LastBucket,   \* the last 5-minute bucket (bounds the clock)
  LastContent,  \* the last content of the provider (bounds it)
  CaptureCount, \* how many captures of a file are told apart
  None,         \* nobody
  Others        \* the rest of the system, which writes to trading.db too

Buckets  == 1 .. LastBucket
Contents == 1 .. LastContent
Captures == 1 .. CaptureCount

ASSUME AcquisitionAssumption ==
  /\ LastBucket \in Nat \ {0} /\ LastContent \in Nat \ {0}
  /\ CaptureCount \in Nat \ {0, 1}
  /\ None \notin Processes \cup {Others}
  /\ Others \notin Processes

VARIABLES
  \* the processes
  pc,
  bucket,      \* of the run
  frame,       \* the content it fetched, 0 for none
  sha,         \* raw_sha256 of the file it wrote
  \* the transaction of the writer
  writer,      \* who holds the write lock
  draftLease,  \* the status of its lease
  draftStatus, \* of its ledger row, "NONE" before it is written
  \* the committed database
  lease,       \* source_scheduler_leases.status
  prints,      \* fingerprints with status SUCCESS: <<bucket, content>>
  receipts,    \* raw_sha256 of the receipt of <<bucket, content>>, 0 for none
  fresh,       \* source_freshness.evidence_ref: its <<bucket, content>>
  table,       \* the content the source table holds
  ledger,      \* buckets with a SUCCESS row in scheduler_run_ledger; others left out
  \* the rest
  files,       \* sha256 of the raw file of <<bucket, content>>
  now,         \* the present bucket
  latest       \* the content the provider has

txVars   == <<writer, draftLease, draftStatus>>
dbVars   == <<lease, prints, receipts, fresh, table, ledger>>
runVars  == <<pc, bucket, frame, sha>>
vars == <<pc, bucket, frame, sha, writer, draftLease, draftStatus,
          lease, prints, receipts, fresh, table, ledger, files, now, latest>>

Inputs == Buckets \X Contents

Points == {"idle", "select", "lease", "fetch", "check", "raw", "upsert", "release",
           "commit", "failed"}

\* Those that hold the write lock.
Inside == {"fetch", "check", "raw", "upsert", "release", "commit"}

TypeOK ==
  /\ pc \in [Processes -> Points]
  /\ bucket \in [Processes -> Buckets]
  /\ frame \in [Processes -> Contents \cup {0}]
  /\ sha \in [Processes -> Captures \cup {0}]
  /\ writer \in Processes \cup {None, Others}
  /\ draftLease \in {"NONE", "HELD", "RELEASED"}
  /\ draftStatus \in {"NONE", "SUCCESS", "SKIPPED"}
  /\ lease \in [Buckets -> {"NONE", "HELD", "RELEASED"}]
  /\ prints \subseteq Inputs
  /\ receipts \in [Inputs -> Captures \cup {0}]
  /\ fresh \in Inputs \cup {<<0, 0>>}
  /\ table \in Contents \cup {0}
  /\ ledger \subseteq Buckets
  /\ files \in [Inputs -> Captures \cup {0}]
  /\ now \in Buckets
  /\ latest \in Contents

Init ==
  /\ pc = [p \in Processes |-> "idle"]
  /\ bucket = [p \in Processes |-> 1]
  /\ frame = [p \in Processes |-> 0]
  /\ sha = [p \in Processes |-> 0]
  /\ writer = None /\ draftLease = "NONE" /\ draftStatus = "NONE"
  /\ lease = [b \in Buckets |-> "NONE"]
  /\ prints = {}
  /\ receipts = [i \in Inputs |-> 0]
  /\ fresh = <<0, 0>>
  /\ table = 0
  /\ ledger = {}
  /\ files = [i \in Inputs |-> 0]
  /\ now = 1
  /\ latest = 1

-----------------------------------------------------------------------------
Goto(p, point) == pc' = [pc EXCEPT ![p] = point]

\* The bucket and the content of a run: its fingerprint, receipt and file.
Input(p) == <<bucket[p], frame[p]>>

\* The process goes on to `point` with nothing in its memory.
Leave(p, point) ==
  /\ Goto(p, point)
  /\ bucket' = [bucket EXCEPT ![p] = 1]
  /\ frame' = [frame EXCEPT ![p] = 0]
  /\ sha' = [sha EXCEPT ![p] = 0]

\* The write lock is given back; what is not committed is gone.
Unlock == writer' = None /\ draftLease' = "NONE" /\ draftStatus' = "NONE"

\* run_once, called with the bucket of the hour.
Start(p) ==
  /\ pc[p] = "idle"
  /\ bucket' = [bucket EXCEPT ![p] = now]
  /\ Goto(p, "select")
  /\ UNCHANGED <<frame, sha, txVars, dbVars, files, now, latest>>

\* _acquire_source_lease, the SELECT, outside the transaction.  Its LEASE_HELD
\* branch is left out: LeaseNeverLeftHeld shows that it is dead.
ReadLease(p) ==
  /\ pc[p] = "select"
  /\ lease[bucket[p]] # "HELD"
  /\ Goto(p, "lease")
  /\ UNCHANGED <<bucket, frame, sha, txVars, dbVars, files, now, latest>>

\* Mutant: the lease is committed at once, and the write lock given back.
TakeLeaseAlone(p) ==
  /\ pc[p] = "lease"
  /\ writer = None
  /\ draftLease' = "HELD"
  /\ Goto(p, "fetch")
  /\ UNCHANGED <<bucket, frame, sha, writer, draftStatus, dbVars, files, now, latest>>

\* The INSERT that begins the transaction.
TakeLease(p) ==
  /\ pc[p] = "lease"
  /\ writer = None
  /\ writer' = p
  /\ draftLease' = "HELD"
  /\ draftStatus' = "NONE"
  /\ Goto(p, "fetch")
  /\ UNCHANGED <<bucket, frame, sha, dbVars, files, now, latest>>

\* The provider answers.
Fetch(p) ==
  /\ pc[p] = "fetch"
  /\ frame' = [frame EXCEPT ![p] = latest]
  /\ Goto(p, "check")
  /\ UNCHANGED <<bucket, sha, txVars, dbVars, files, now, latest>>

\* Mutant: the reason is written where the status belongs.
FetchNothingReason(p) ==
  /\ pc[p] = "fetch"
  /\ draftStatus' = "NO_PROVIDER_ROWS"
  /\ Goto(p, "release")
  /\ UNCHANGED <<bucket, frame, sha, writer, draftLease, dbVars, files, now, latest>>

\* NO_PROVIDER_ROWS, a cooldown, no network.
FetchNothing(p) ==
  /\ pc[p] = "fetch"
  /\ draftStatus' = "SKIPPED"
  /\ Goto(p, "release")
  /\ UNCHANGED <<bucket, frame, sha, writer, draftLease, dbVars, files, now, latest>>

\* Mutant: every input is taken for new.
CheckInputNever(p) ==
  /\ pc[p] = "check"
  /\ Goto(p, "raw")
  /\ UNCHANGED <<bucket, frame, sha, txVars, dbVars, files, now, latest>>

\* Mutant: one input a bucket.
CheckInputOfBucket(p) ==
  /\ pc[p] = "check"
  /\ IF \E i \in prints : i[1] = bucket[p]
     THEN /\ draftStatus' = "SKIPPED"
          /\ Goto(p, "release")
     ELSE /\ Goto(p, "raw")
          /\ UNCHANGED draftStatus
  /\ UNCHANGED <<bucket, frame, sha, writer, draftLease, dbVars, files, now, latest>>

\* _input_fingerprint_seen
CheckInput(p) ==
  /\ pc[p] = "check"
  /\ IF Input(p) \in prints
     THEN /\ draftStatus' = "SKIPPED"
          /\ Goto(p, "release")
     ELSE /\ Goto(p, "raw")
          /\ UNCHANGED draftStatus
  /\ UNCHANGED <<bucket, frame, sha, writer, draftLease, dbVars, files, now, latest>>

\* _write_raw: the metadata hold the time of the capture, so that a file
\* written again has another hash.
WriteRaw(p) ==
  /\ pc[p] = "raw"
  /\ \E s \in Captures \ {files[Input(p)]} :
       /\ files' = [files EXCEPT ![Input(p)] = s]
       /\ sha' = [sha EXCEPT ![p] = s]
  /\ Goto(p, "upsert")
  /\ UNCHANGED <<bucket, frame, txVars, dbVars, now, latest>>

\* The rows, then _write_evidence (receipt, ref and edge), the ledger and the
\* fingerprint.  Between these writes nothing is visible to anybody else, since
\* the transaction TakeLease began is open: Commit shows them, all at once.
Upsert(p) ==
  /\ pc[p] = "upsert"
  /\ draftStatus' = "SUCCESS"
  /\ Goto(p, "release")
  /\ UNCHANGED <<bucket, frame, sha, writer, draftLease, dbVars, files, now, latest>>

\* NORMALIZED_ZERO_ROWS: the raw file is there, a receipt is not.
UpsertNothing(p) ==
  /\ pc[p] = "upsert"
  /\ draftStatus' = "SKIPPED"
  /\ Goto(p, "release")
  /\ UNCHANGED <<bucket, frame, sha, writer, draftLease, dbVars, files, now, latest>>

\* Mutant: only a run that succeeds gives its lease back.
ReleaseLeaseOfSuccess(p) ==
  /\ pc[p] = "release"
  /\ draftLease' = IF draftStatus = "SUCCESS" THEN "RELEASED" ELSE draftLease
  /\ Goto(p, "commit")
  /\ UNCHANGED <<bucket, frame, sha, writer, draftStatus, dbVars, files, now, latest>>

\* _release_source_lease
ReleaseLease(p) ==
  /\ pc[p] = "release"
  /\ draftLease' = "RELEASED"
  /\ Goto(p, "commit")
  /\ UNCHANGED <<bucket, frame, sha, writer, draftStatus, dbVars, files, now, latest>>

\* `with con` of run_once commits what the run wrote.
Commit(p) ==
  /\ pc[p] = "commit"
  /\ lease' = [lease EXCEPT ![bucket[p]] = draftLease]
  /\ IF draftStatus = "SUCCESS"
     THEN /\ prints' = prints \cup {Input(p)}
          /\ receipts' = [receipts EXCEPT ![Input(p)] = sha[p]]
          /\ fresh' = Input(p)
          /\ table' = frame[p]
          /\ ledger' = ledger \cup {bucket[p]}
     ELSE UNCHANGED <<prints, receipts, fresh, table, ledger>>
  /\ Unlock
  /\ Leave(p, "idle")
  /\ UNCHANGED <<files, now, latest>>

-----------------------------------------------------------------------------
(* Failures *)

\* Mutant: the source table is kept.
RaiseKeepsTable(p) ==
  /\ pc[p] \in Inside
  /\ Unlock
  /\ Leave(p, "failed")
  /\ table' = IF draftStatus = "SUCCESS" THEN frame[p] ELSE table
  /\ UNCHANGED <<lease, prints, receipts, fresh, ledger, files,
                 now, latest>>

\* An exception: `with con` rolls back.
Raise(p) ==
  /\ pc[p] \in Inside
  /\ Unlock
  /\ Leave(p, "failed")
  /\ UNCHANGED <<dbVars, files, now, latest>>

\* "database is locked": busy_timeout has passed.
LockTimeout(p) ==
  /\ pc[p] = "lease"
  /\ writer # None
  /\ Leave(p, "failed")
  /\ UNCHANGED <<txVars, dbVars, files, now, latest>>

\* _write_failure_scheduler_ledger, a transaction of its own.
WriteFailure(p) ==
  /\ pc[p] = "failed"
  /\ writer = None
  /\ Leave(p, "idle")
  /\ UNCHANGED <<txVars, dbVars, files, now, latest>>

\* It is locked again: run_once raises, and no row tells of the run.
FailureTimeout(p) ==
  /\ pc[p] = "failed"
  /\ writer # None
  /\ Leave(p, "idle")
  /\ UNCHANGED <<txVars, dbVars, files, now, latest>>

Crash(p) ==
  /\ pc[p] # "idle"
  /\ IF writer = p THEN Unlock ELSE UNCHANGED txVars
  /\ Leave(p, "idle")
  /\ UNCHANGED <<dbVars, files, now, latest>>

-----------------------------------------------------------------------------
(* The environment *)

NextBucket ==
  /\ now + 1 \in Buckets
  /\ now' = now + 1
  /\ UNCHANGED <<runVars, txVars, dbVars, files, latest>>

ProviderMoves ==
  /\ latest + 1 \in Contents
  /\ latest' = latest + 1
  /\ UNCHANGED <<runVars, txVars, dbVars, files, now>>

\* The runtimes that write to the same database.
OthersLock ==
  /\ writer = None
  /\ writer' = Others
  /\ UNCHANGED <<runVars, draftLease, draftStatus, dbVars, files, now, latest>>

OthersUnlock ==
  /\ writer = Others
  /\ writer' = None
  /\ UNCHANGED <<runVars, draftLease, draftStatus, dbVars, files, now, latest>>

-----------------------------------------------------------------------------
Run(p) ==
  \/ Start(p) \/ ReadLease(p) \/ TakeLease(p)
  \/ Fetch(p) \/ FetchNothing(p) \/ CheckInput(p)
  \/ WriteRaw(p) \/ Upsert(p) \/ UpsertNothing(p)
  \/ ReleaseLease(p) \/ Commit(p)

Fail(p) == Raise(p) \/ LockTimeout(p) \/ WriteFailure(p) \/ FailureTimeout(p) \/ Crash(p)

Environment == NextBucket \/ ProviderMoves \/ OthersLock \/ OthersUnlock

Next == (\E p \in Processes : Run(p) \/ Fail(p)) \/ Environment

Spec == Init /\ [][Next]_vars

\* The scheduler starts run after run, and a run goes on until it ends; the
\* others do not keep the lock, and do not starve the runs of it.
FairSpec ==
  /\ Spec
  /\ \A p \in Processes :
       WF_vars(Run(p)) /\ WF_vars(WriteFailure(p) \/ FailureTimeout(p))
  /\ SF_vars(\E p \in Processes : TakeLease(p))
  /\ WF_vars(OthersUnlock)

-----------------------------------------------------------------------------
(* Properties *)

\* A receipt has the hash of the file it names, also while another run of the
\* bucket is at work, and after one that wrote its file and was rolled back.
ReceiptMatchesFile ==
  \A i \in Inputs : receipts[i] # 0 => receipts[i] = files[i]

\* Whatever fails, what the source table and source_freshness hold was received:
\* fingerprint, receipt and ledger row are there.
EvidenceComplete ==
  /\ \A i \in Inputs : (i \in prints <=> receipts[i] # 0)
                    /\ (i \in prints => i[1] \in ledger)
  /\ table # 0 => fresh \in prints /\ fresh[2] = table

\* No run leaves a lease that the next one finds held.
LeaseNeverLeftHeld == \A b \in Buckets : lease[b] # "HELD"

\* A run never puts older data in the place of newer ones: what it fetched is the
\* latest at its commit but for what the provider published since.
TableNeverGoesBack == [][table' >= table]_vars

\* A run that brings nothing.  (A crash at the commit of a skip changes what the
\* commit does.)
BringsNothing(p) ==
  FetchNothing(p) \/ UpsertNothing(p) \/ (Fail(p) /\ ~Commit(p))

\* What the provider publishes arrives once runs no longer fail: no lease and no
\* fingerprint that an earlier run left keeps it out.
LatestArrives ==
  <>[][~\E p \in Processes : BringsNothing(p)]_vars =>
    \A c \in Contents : latest = c ~> table >= c

=============================================================================
