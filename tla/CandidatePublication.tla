------------------------- MODULE CandidatePublication -------------------------
(* Candidate runs of one paper: publish_candidate_run and promote_candidate_pdf  *)
(* of src/papertrans/pdf_translation_worker.py.  A publisher makes the missing   *)
(* directories, claims the run id by creating a lock file, builds the run in a   *)
(* staging directory and renames it to its final name.  The lock file is not a   *)
(* flock: it stays when its creator dies.                                        *)
EXTENDS Naturals, FiniteSets

CONSTANTS
  Publishers, \* calls of publish_candidate_run, each with its own candidate
  Promoters,  \* calls of promote_candidate_pdf
  Runs,       \* run ids
  RunOf,      \* the run id of each publisher
  Eligible,   \* candidates whose run.json, QA and qpdf check allow promotion
  Faults,     \* "io": writes may fail, "mkdtemp": the staging directory may not
              \* be created, "crash": publishers may be killed
  NoOne

ASSUME RunAssumption == RunOf \in [Publishers -> Runs]
ASSUME EligibleAssumption == Eligible \subseteq Publishers
ASSUME FaultAssumption == Faults \subseteq {"io", "mkdtemp", "crash"}
ASSUME NoOneAssumption == NoOne \notin Publishers /\ Publishers \cap Promoters = {}

VARIABLES
  existing,    \* how many of output/, output/<slug>/ and pdf-runs/ exist
  seen,        \* how many of them each publisher has found or made
  lock,        \* the creator of .<run>.publish.lock, NoOne when there is no file
  staging,     \* what is in each publisher's staging directory
  destination, \* whose candidate is in pdf-runs/<run>
  translated,  \* whose candidate papertrans-job.json names as translated PDF
  pc,          \* where each caller is
  result,      \* how the call ends after its clean-up
  loaded       \* the candidate a promoter has read

directories == <<existing, seen>>
vars == <<directories, lock, staging, destination, translated, pc, result, loaded>>

Actors == Publishers \cup Promoters

Goto(p, label) == pc' = [pc EXCEPT ![p] = label]

Init ==
  /\ existing \in 0 .. 3
  /\ seen = [p \in Publishers |-> 0]
  /\ lock = [r \in Runs |-> NoOne]
  /\ staging = [p \in Publishers |-> "none"]
  /\ destination = [r \in Runs |-> NoOne]
  /\ translated = NoOne
  /\ pc = [a \in Actors |-> IF a \in Publishers THEN "directories" ELSE "idle"]
  /\ result = [p \in Publishers |-> "none"]
  /\ loaded = [q \in Promoters |-> NoOne]

\* The call raises or returns once its finally block is done.
Finish(p, how) ==
  /\ result' = [result EXCEPT ![p] = how]
  /\ Goto(p, "unlock")

-------------------------------------------------------------------------------
\* The candidate is valid.  Each directory is looked for and then made.
FindDirectory(p) ==
  /\ pc[p] = "directories"
  /\ existing > seen[p]
  /\ seen' = [seen EXCEPT ![p] = seen[p] + 1]
  /\ Goto(p, IF seen[p] = 2 THEN "check" ELSE "directories")
  /\ UNCHANGED <<existing, lock, staging, destination, translated, result, loaded>>

MissDirectory(p) ==
  /\ pc[p] = "directories"
  /\ existing = seen[p]
  /\ Goto(p, "mkdir")
  /\ UNCHANGED <<directories, lock, staging, destination, translated, result, loaded>>

MakeDirectory(p) ==
  /\ pc[p] = "mkdir"
  /\ existing = seen[p]
  /\ existing' = existing + 1
  /\ seen' = [seen EXCEPT ![p] = seen[p] + 1]
  /\ Goto(p, IF seen[p] = 2 THEN "check" ELSE "directories")
  /\ UNCHANGED <<lock, staging, destination, translated, result, loaded>>

\* Another publisher made it in between: FileExistsError.
MakeExistingDirectory(p) ==
  /\ pc[p] = "mkdir"
  /\ existing > seen[p]
  /\ Goto(p, "failed")
  /\ UNCHANGED <<directories, lock, staging, destination, translated, result, loaded>>

CheckDestination(p) ==
  /\ pc[p] = "check"
  /\ Goto(p, IF destination[RunOf[p]] = NoOne THEN "lock" ELSE "exists")
  /\ UNCHANGED <<directories, lock, staging, destination, translated, result, loaded>>

\* os.open with O_CREAT and O_EXCL.
TakeLock(p) ==
  /\ pc[p] = "lock"
  /\ lock[RunOf[p]] = NoOne
  /\ lock' = [lock EXCEPT ![RunOf[p]] = p]
  /\ Goto(p, "mkdtemp")
  /\ UNCHANGED <<directories, staging, destination, translated, result, loaded>>

\* run_exists: "is already being published".
MeetLock(p) ==
  /\ pc[p] = "lock"
  /\ lock[RunOf[p]] # NoOne
  /\ Goto(p, "publishing")
  /\ UNCHANGED <<directories, lock, staging, destination, translated, result, loaded>>

MakeStaging(p) ==
  /\ pc[p] = "mkdtemp"
  /\ staging' = [staging EXCEPT ![p] = "empty"]
  /\ Goto(p, "recheck")
  /\ UNCHANGED <<directories, lock, destination, translated, result, loaded>>

\* mkdtemp raises before the block that removes the lock file.
MissStaging(p) ==
  /\ "mkdtemp" \in Faults
  /\ pc[p] = "mkdtemp"
  /\ Goto(p, "unstaged")
  /\ UNCHANGED <<directories, lock, staging, destination, translated, result, loaded>>

-------------------------------------------------------------------------------

\* Another publisher may have finished since the first check.
Recheck(p) ==
  /\ pc[p] = "recheck"
  /\ IF destination[RunOf[p]] = NoOne
     THEN Goto(p, "copy") /\ UNCHANGED result
     ELSE Finish(p, "exists")
  /\ UNCHANGED <<directories, lock, staging, destination, translated, loaded>>

\* Mutant: the run is renamed before the host's own documents are in it.
CopyAndRename(p) ==
  /\ pc[p] = "copy"
  /\ staging' = [staging EXCEPT ![p] = "partial"]
  /\ Goto(p, "rename")
  /\ UNCHANGED <<directories, lock, destination, translated, result, loaded>>

\* The artifacts, compared with the digests they were validated with.
Copy(p) ==
  /\ pc[p] = "copy"
  /\ staging' = [staging EXCEPT ![p] = "partial"]
  /\ Goto(p, "write")
  /\ UNCHANGED <<directories, lock, destination, translated, result, loaded>>

\* The documents of the host, run.json among them; everything is synced.
Write(p) ==
  /\ pc[p] = "write"
  /\ staging' = [staging EXCEPT ![p] = "whole"]
  /\ Goto(p, "rename")
  /\ UNCHANGED <<directories, lock, destination, translated, result, loaded>>

\* os.rename would raise for a run that is there; RenameIsFree: there is none.
Rename(p) ==
  /\ pc[p] = "rename"
  /\ destination' = [destination EXCEPT ![RunOf[p]] = p]
  /\ Goto(p, "sync")
  /\ UNCHANGED <<directories, lock, staging, translated, result, loaded>>

Sync(p) ==
  /\ pc[p] = "sync"
  /\ Finish(p, "published")
  /\ UNCHANGED <<directories, lock, staging, destination, translated, loaded>>

\* A read, a write, an fsync or the rename raises.
Fail(p) ==
  /\ "io" \in Faults
  /\ pc[p] \in {"copy", "write", "rename", "sync"}
  /\ Finish(p, "failed")
  /\ UNCHANGED <<directories, lock, staging, destination, translated, loaded>>

Unlock(p) ==
  /\ pc[p] = "unlock"
  /\ lock' = [lock EXCEPT ![RunOf[p]] = NoOne]
  /\ Goto(p, "sweep")
  /\ UNCHANGED <<directories, staging, destination, translated, result, loaded>>

Renamed(p) == destination[RunOf[p]] = p

\* Mutant: only a failed call removes its staging directory.
SweepFailed(p) ==
  /\ pc[p] = "sweep"
  /\ staging' = [staging EXCEPT ![p] = IF result[p] = "failed" /\ ~Renamed(p) THEN "none" ELSE @]
  /\ Goto(p, result[p])
  /\ UNCHANGED <<directories, lock, destination, translated, result, loaded>>

\* A staging directory that was not renamed is removed.
Sweep(p) ==
  /\ pc[p] = "sweep"
  /\ staging' = [staging EXCEPT ![p] = IF Renamed(p) THEN @ ELSE "none"]
  /\ Goto(p, result[p])
  /\ UNCHANGED <<directories, lock, destination, translated, result, loaded>>

Ended == {"published", "exists", "publishing", "failed", "unstaged", "dead"}

Crash(p) ==
  /\ "crash" \in Faults
  /\ pc[p] \notin Ended
  /\ Goto(p, "dead")
  /\ UNCHANGED <<directories, lock, staging, destination, translated, result, loaded>>

-------------------------------------------------------------------------------
\* Mutant: the QA of a layout run does not stop its promotion.
ReadAnyRun(q) ==
  /\ pc[q] = "idle"
  /\ \E r \in Runs : destination[r] # NoOne /\ loaded' = [loaded EXCEPT ![q] = destination[r]]
  /\ Goto(q, "promote")
  /\ UNCHANGED <<directories, lock, staging, destination, translated, result>>

\* run.json, the index, the QA report and the artifact of a run that may be
\* promoted are read and compared with each other's digests.
ReadRun(q) ==
  /\ pc[q] = "idle"
  /\ \E r \in Runs : destination[r] \in Eligible /\ loaded' = [loaded EXCEPT ![q] = destination[r]]
  /\ Goto(q, "promote")
  /\ UNCHANGED <<directories, lock, staging, destination, translated, result>>

\* _promote_into_manifest, whose flock TranslationJob models.
Promote(q) ==
  /\ pc[q] = "promote"
  /\ translated' = loaded[q]
  /\ Goto(q, "idle")
  /\ loaded' = [loaded EXCEPT ![q] = NoOne]
  /\ UNCHANGED <<directories, lock, staging, destination, result>>

Prepare(p) ==
  \/ FindDirectory(p) \/ MissDirectory(p) \/ MakeDirectory(p) \/ MakeExistingDirectory(p)
  \/ CheckDestination(p) \/ TakeLock(p) \/ MeetLock(p) \/ MakeStaging(p) \/ MissStaging(p)

Build(p) ==
  Recheck(p) \/ Copy(p) \/ Write(p) \/ Rename(p) \/ Sync(p) \/ Fail(p) \/ Unlock(p) \/ Sweep(p)

Publish(p) == Prepare(p) \/ Build(p)

Promotion(q) == ReadRun(q) \/ Promote(q)

Next ==
  \/ \E p \in Publishers : Publish(p) \/ Crash(p)
  \/ \E q \in Promoters : Promotion(q)

Spec == Init /\ [][Next]_vars

-------------------------------------------------------------------------------
Inside == {"mkdtemp", "recheck", "copy", "write", "rename", "sync", "unlock"}
Labels == {"directories", "mkdir", "check", "lock", "sweep", "idle", "promote"} \cup Inside \cup Ended

TypeOK ==
  /\ existing \in 0 .. 3
  /\ seen \in [Publishers -> 0 .. 3]
  /\ lock \in [Runs -> Publishers \cup {NoOne}]
  /\ staging \in [Publishers -> {"none", "empty", "partial", "whole"}]
  /\ destination \in [Runs -> Publishers \cup {NoOne}]
  /\ translated \in Publishers \cup {NoOne}
  /\ pc \in [Actors -> Labels]
  /\ result \in [Publishers -> {"none", "published", "exists", "publishing", "failed"}]
  /\ loaded \in [Promoters -> Publishers \cup {NoOne}]

\* The first check, the lock and the second check together make sure that the
\* rename never meets a run, however publishers of one id interleave and die.
RenameIsFree == \A p \in Publishers : pc[p] = "rename" => destination[RunOf[p]] = NoOne

\* A lock file is removed by the publisher that created it and by nobody else.
LockKept ==
  [][\A r \in Runs : lock[r] \notin {NoOne, lock'[r]} => pc[lock[r]] = "unlock"]_vars

\* What is visible under a run id is a whole run, from the rename on.
PublishedIsWhole == \A r \in Runs : destination[r] # NoOne => staging[destination[r]] = "whole"

\* A call that has ended leaves neither lock nor staging directory, unless it was
\* killed or mkdtemp raised between the lock file and the finally block.
CleanedUp ==
  \A p \in Publishers : pc[p] \in Ended \ {"unstaged", "dead"} =>
    /\ lock[RunOf[p]] # p
    /\ staging[p] # "none" => Renamed(p)

\* A run is refused as "already being published" only while somebody publishes it.
\* It needs Faults without "crash" and "mkdtemp": the lock file of a publisher that
\* was killed or got no staging directory stays for ever.
RefusalIsTruthful ==
  [][\A p \in Publishers : pc[p] = "lock" /\ pc'[p] = "publishing" =>
       \E v \in Publishers : RunOf[v] = RunOf[p] /\ pc[v] \in Inside]_vars

\* Publishers of different runs do not disturb each other: without faults no call
\* fails.  The code does not keep this where MakeExistingDirectory can happen.
ConcurrentRunsPublish == \A p \in Publishers : pc[p] # "failed"

\* Runs are given once and for all, and only published, reviewed ones are promoted.
Registry == INSTANCE RunRegistry WITH registry <- destination, selected <- translated
ImplementsRunRegistry == Registry!Spec

=============================================================================
