---------------------- MODULE CandidatePublication_proofs ----------------------
(* CandidatePublication for any publishers, promoters and runs.                 *)
EXTENDS CandidatePublication, TLAPS

USE RunAssumption, EligibleAssumption, FaultAssumption, NoOneAssumption

Outcomes == {"published", "exists", "publishing", "failed"}

\* Directories are counted to three, who cleans up knows how the call ends; promoters take no part in publication.
Typed ==
  /\ TypeOK
  /\ \A p \in Publishers : pc[p] \in {"directories", "mkdir"} => seen[p] \in 0 .. 2
  /\ \A p \in Publishers : pc[p] \in {"unlock", "sweep"} => result[p] \in Outcomes
  /\ \A p \in Publishers : pc[p] \notin {"idle", "promote"}
  /\ \A q \in Promoters : pc[q] \in {"idle", "promote"}

LEMMA TypedInit == Init => Typed
BY DEF Init, Typed, TypeOK, Labels, Inside, Ended, Actors

LEMMA TypedPrepare ==
  ASSUME Typed, NEW p \in Publishers, Prepare(p)
  PROVE  Typed'
<1> USE DEF Typed, TypeOK, Goto, Labels, Inside, Ended, Actors, directories, Outcomes
<1>1. CASE FindDirectory(p)
  BY <1>1 DEF FindDirectory
<1>2. CASE MissDirectory(p) \/ MakeExistingDirectory(p)
  BY <1>2 DEF MissDirectory, MakeExistingDirectory
<1>3. CASE MakeDirectory(p)
  <2>1. existing \in 0 .. 2 /\ existing + 1 \in 0 .. 3
    BY <1>3 DEF MakeDirectory
  <2> QED
    BY <1>3, <2>1 DEF MakeDirectory
<1>4. CASE CheckDestination(p) \/ TakeLock(p) \/ MeetLock(p)
  BY <1>4 DEF CheckDestination, TakeLock, MeetLock
<1>5. CASE MakeStaging(p) \/ MissStaging(p)
  BY <1>5 DEF MakeStaging, MissStaging
<1> QED
  BY <1>1, <1>2, <1>3, <1>4, <1>5 DEF Prepare

LEMMA TypedBuild ==
  ASSUME Typed, NEW p \in Publishers, Build(p)
  PROVE  Typed'
<1> USE DEF Typed, TypeOK, Goto, Labels, Inside, Ended, Actors, directories, Outcomes, Finish
<1>1. CASE Recheck(p)
  BY <1>1 DEF Recheck
<1>2. CASE Copy(p) \/ Write(p)
  BY <1>2 DEF Copy, Write
<1>3. CASE Rename(p)
  BY <1>3 DEF Rename
<1>4. CASE Sync(p) \/ Fail(p)
  BY <1>4 DEF Sync, Fail
<1>5. CASE Unlock(p)
  BY <1>5 DEF Unlock
<1>6. CASE Sweep(p)
  BY <1>6 DEF Sweep
<1> QED
  BY <1>1, <1>2, <1>3, <1>4, <1>5, <1>6 DEF Build

LEMMA TypedStep == Typed /\ [Next]_vars => Typed'
<1> SUFFICES ASSUME Typed, [Next]_vars PROVE Typed'
  OBVIOUS
<1> USE DEF Typed, TypeOK, Goto, Labels, Inside, Ended, Actors, directories
<1>1. CASE UNCHANGED vars
  BY <1>1 DEF vars
<1>2. ASSUME NEW p \in Publishers, Publish(p) PROVE Typed'
  BY <1>2, TypedPrepare, TypedBuild DEF Publish
<1>3. ASSUME NEW p \in Publishers, Crash(p) PROVE Typed'
  BY <1>3 DEF Crash
<1>4. ASSUME NEW q \in Promoters, ReadRun(q) PROVE Typed'
  BY <1>4 DEF ReadRun
<1>5. ASSUME NEW q \in Promoters, Promote(q) PROVE Typed'
  BY <1>5 DEF Promote
<1> QED
  BY <1>1, <1>2, <1>3, <1>4, <1>5 DEF Next, Promotion

\* Directories, lock files, staging directories, runs and locals hold the values
\* the code gives them, for any publishers, promoters, runs and faults.
THEOREM TypeCorrect == Spec => []TypeOK
<1>1. Typed => TypeOK
  BY DEF Typed
<1> QED
  BY <1>1, TypedInit, TypedStep, PTL DEF Spec

-------------------------------------------------------------------------------
(* The invariant: the lock is held from its creation to its removal, the run id  *)
(* is free from the second check to the rename, and what was renamed stays.      *)

Before == {"directories", "mkdir", "check", "lock", "mkdtemp", "recheck", "copy", "write", "rename"}

LockHeld(p) == pc[p] \in Inside => lock[RunOf[p]] = p

Building(p) ==
  /\ pc[p] \in {"copy", "write", "rename"} => destination[RunOf[p]] = NoOne
  /\ pc[p] = "rename" => staging[p] = "whole"

RunsInv ==
  \A r \in Runs : destination[r] # NoOne =>
    /\ RunOf[destination[r]] = r
    /\ staging[destination[r]] = "whole"
    /\ pc[destination[r]] \notin Before

Chosen(q) == pc[q] = "promote" => loaded[q] \in Eligible /\ \E r \in Runs : destination[r] = loaded[q]

PublicationInv ==
  /\ Typed
  /\ \A p \in Publishers : LockHeld(p) /\ Building(p)
  /\ RunsInv
  /\ \A q \in Promoters : Chosen(q)

LEMMA PublicationInit == Init => PublicationInv
BY TypedInit DEF Init, PublicationInv, LockHeld, Building, RunsInv, Chosen, Inside, Actors

LEMMA PrepareInv ==
  ASSUME PublicationInv, Typed', NEW p \in Publishers, Prepare(p)
  PROVE  PublicationInv'
<1> USE DEF PublicationInv, Typed, TypeOK, LockHeld, Building, RunsInv, Chosen, Inside, Before,
            Goto, Actors, directories
<1>1. CASE FindDirectory(p) \/ MissDirectory(p) \/ MakeDirectory(p) \/ MakeExistingDirectory(p)
  BY <1>1 DEF FindDirectory, MissDirectory, MakeDirectory, MakeExistingDirectory
<1>2. CASE CheckDestination(p) \/ MeetLock(p) \/ MissStaging(p)
  BY <1>2 DEF CheckDestination, MeetLock, MissStaging
<1>3. CASE TakeLock(p)
  BY <1>3 DEF TakeLock
<1>4. CASE MakeStaging(p)
  BY <1>4 DEF MakeStaging
<1> QED
  BY <1>1, <1>2, <1>3, <1>4 DEF Prepare

\* Two publishers of one run id are never inside together.
LEMMA Exclusive ==
  ASSUME PublicationInv, NEW p \in Publishers, NEW v \in Publishers,
         pc[p] \in Inside, pc[v] \in Inside, RunOf[p] = RunOf[v]
  PROVE  p = v
BY DEF PublicationInv, LockHeld

LEMMA BuildInv ==
  ASSUME PublicationInv, Typed', NEW p \in Publishers, Build(p)
  PROVE  PublicationInv'
<1> USE DEF PublicationInv, Typed, TypeOK, LockHeld, Building, RunsInv, Chosen, Inside, Before,
            Goto, Actors, directories, Finish
<1>1. CASE Recheck(p)
  BY <1>1 DEF Recheck
<1>2. CASE Copy(p) \/ Write(p)
  BY <1>2 DEF Copy, Write
<1>3. CASE Rename(p)
  <2>1. \A v \in Publishers \ {p} : pc[v] \in Inside => RunOf[v] # RunOf[p]
    BY <1>3, Exclusive DEF Rename
  <2>2. destination[RunOf[p]] = NoOne /\ staging[p] = "whole"
    BY <1>3 DEF Rename
  <2> QED
    BY <1>3, <2>1, <2>2 DEF Rename
<1>4. CASE Sync(p) \/ Fail(p)
  BY <1>4 DEF Sync, Fail
<1>5. CASE Unlock(p)
  <2>1. \A v \in Publishers \ {p} : pc[v] \in Inside => RunOf[v] # RunOf[p]
    BY <1>5, Exclusive DEF Unlock
  <2> QED
    BY <1>5, <2>1 DEF Unlock
<1>6. CASE Sweep(p)
  BY <1>6 DEF Sweep, Renamed, Outcomes
<1> QED
  BY <1>1, <1>2, <1>3, <1>4, <1>5, <1>6 DEF Build

LEMMA PublicationStep == PublicationInv /\ [Next]_vars => PublicationInv'
<1> SUFFICES ASSUME PublicationInv, [Next]_vars PROVE PublicationInv'
  OBVIOUS
<1>0. Typed'
  BY TypedStep DEF PublicationInv
<1> USE DEF PublicationInv, Typed, TypeOK, LockHeld, Building, RunsInv, Chosen, Inside, Before,
            Goto, Actors, directories
<1>1. CASE UNCHANGED vars
  BY <1>0, <1>1 DEF vars
<1>2. ASSUME NEW p \in Publishers, Publish(p) PROVE PublicationInv'
  BY <1>0, <1>2, PrepareInv, BuildInv DEF Publish
<1>3. ASSUME NEW p \in Publishers, Crash(p) PROVE PublicationInv'
  BY <1>0, <1>3 DEF Crash
<1>4. ASSUME NEW q \in Promoters, ReadRun(q) PROVE PublicationInv'
  BY <1>0, <1>4 DEF ReadRun
<1>5. ASSUME NEW q \in Promoters, Promote(q) PROVE PublicationInv'
  BY <1>0, <1>5 DEF Promote
<1> QED
  BY <1>1, <1>2, <1>3, <1>4, <1>5 DEF Next, Promotion

LEMMA PublicationInvariant == Spec => []PublicationInv
BY PublicationInit, PublicationStep, PTL DEF Spec

\* First check, lock and second check: the rename never meets a run.
THEOREM RenameFree == Spec => []RenameIsFree
<1>1. PublicationInv => RenameIsFree
  BY DEF PublicationInv, Building, RenameIsFree
<1> QED
  BY <1>1, PublicationInvariant, PTL

\* What is visible under a run id is a whole run.
THEOREM PublishedWhole == Spec => []PublishedIsWhole
<1>1. PublicationInv => PublishedIsWhole
  BY DEF PublicationInv, RunsInv, PublishedIsWhole
<1> QED
  BY <1>1, PublicationInvariant, PTL

\* A lock file is removed by the publisher that created it, under every fault.
THEOREM LocksKept == Spec => LockKept
<1> DEFINE A == \A r \in Runs : lock[r] \notin {NoOne, lock'[r]} => pc[lock[r]] = "unlock"
<1>1. PublicationInv /\ [Next]_vars => [A]_vars
  <2> SUFFICES ASSUME PublicationInv, [Next]_vars, NEW r \in Runs, lock[r] \notin {NoOne, lock'[r]}
               PROVE  pc[lock[r]] = "unlock"
    BY Zenon
  <2>1. ASSUME NEW p \in Publishers, Prepare(p) PROVE pc[lock[r]] = "unlock"
    BY <2>1 DEF Prepare, FindDirectory, MissDirectory, MakeDirectory, MakeExistingDirectory,
                CheckDestination, TakeLock, MeetLock, MakeStaging, MissStaging, PublicationInv, Typed, TypeOK
  <2>2. ASSUME NEW p \in Publishers, Unlock(p) PROVE pc[lock[r]] = "unlock"
    BY <2>2 DEF Unlock, PublicationInv, LockHeld, Inside, Typed, TypeOK
  <2>3. ASSUME NEW p \in Publishers, Build(p), ~Unlock(p) PROVE lock' = lock
    BY <2>3 DEF Build, Recheck, Copy, Write, Rename, Sync, Fail, Sweep
  <2> QED
    BY <2>1, <2>2, <2>3 DEF Next, Publish, Crash, Promotion, ReadRun, Promote, vars
<1> QED
  BY <1>1, PublicationInvariant, PTL DEF Spec, LockKept

\* The directories, lock files and renames implement RunRegistry: a run id is
\* given once, for good, and only published reviewed runs are promoted.
THEOREM Refinement == Spec => ImplementsRunRegistry
<1>1. Init => Registry!Init
  BY DEF Init, Registry!Init
<1>2. PublicationInv /\ [Next]_vars => [Registry!Next]_(Registry!vars)
  <2> SUFFICES ASSUME PublicationInv, [Next]_vars PROVE [Registry!Next]_(Registry!vars)
    OBVIOUS
  <2>1. ASSUME NEW p \in Publishers, Rename(p) PROVE Registry!Next
    <3>1. destination[RunOf[p]] = NoOne
      BY <2>1 DEF Rename, PublicationInv, Building
    <3>2. Registry!Publish(p)
      BY <2>1, <3>1 DEF Rename, Registry!Publish
    <3> QED
      BY <3>2 DEF Registry!Next
  <2>2. ASSUME NEW q \in Promoters, Promote(q) PROVE Registry!Next
    <3>1. PICK r \in Runs : destination[r] = loaded[q]
      BY <2>2 DEF Promote, PublicationInv, Chosen
    <3>2. Registry!Promote(r)
      BY <2>2, <3>1 DEF Promote, Registry!Promote, PublicationInv, Chosen
    <3> QED
      BY <3>2 DEF Registry!Next
  <2>3. ASSUME NEW p \in Publishers, Prepare(p) PROVE UNCHANGED Registry!vars
    BY <2>3 DEF Prepare, FindDirectory, MissDirectory, MakeDirectory, MakeExistingDirectory,
                CheckDestination, TakeLock, MeetLock, MakeStaging, MissStaging, Registry!vars
  <2>4. ASSUME NEW p \in Publishers, Build(p), ~Rename(p) PROVE UNCHANGED Registry!vars
    BY <2>4 DEF Build, Recheck, Copy, Write, Sync, Fail, Unlock, Sweep, Registry!vars
  <2>5. ASSUME NEW p \in Publishers, Crash(p) PROVE UNCHANGED Registry!vars
    BY <2>5 DEF Crash, Registry!vars
  <2>6. ASSUME NEW q \in Promoters, ReadRun(q) PROVE UNCHANGED Registry!vars
    BY <2>6 DEF ReadRun, Registry!vars
  <2>7. CASE UNCHANGED vars
    BY <2>7 DEF vars, Registry!vars
  <2> QED
    BY <2>1, <2>2, <2>3, <2>4, <2>5, <2>6, <2>7 DEF Next, Publish, Promotion
<1> QED
  BY <1>1, <1>2, PublicationInvariant, PTL DEF Spec, ImplementsRunRegistry, Registry!Spec

-------------------------------------------------------------------------------
(* Clean-up, and refusals when no lock file is left behind.                      *)

\* A lock file belongs to a publisher inside or to one that never reached its finally
\* block, a staging directory that was not renamed to one that has yet to remove it.
OwnerKnown ==
  /\ \A r \in Runs : lock[r] # NoOne => RunOf[lock[r]] = r /\ pc[lock[r]] \in Inside \cup {"unstaged", "dead"}
  /\ \A p \in Publishers : staging[p] # "none" /\ ~Renamed(p) =>
       pc[p] \in {"recheck", "copy", "write", "rename", "unlock", "sweep", "dead"}

LEMMA OwnerStep == PublicationInv /\ OwnerKnown /\ [Next]_vars => OwnerKnown'
<1> SUFFICES ASSUME PublicationInv, OwnerKnown, [Next]_vars PROVE OwnerKnown'
  OBVIOUS
<1> USE DEF PublicationInv, Typed, TypeOK, OwnerKnown, Renamed, Inside, Goto, Actors, directories, Finish
<1>1. CASE UNCHANGED vars
  BY <1>1 DEF vars
<1>2. ASSUME NEW p \in Publishers, Prepare(p) PROVE OwnerKnown'
  <2>1. CASE FindDirectory(p) \/ MissDirectory(p) \/ MakeDirectory(p) \/ MakeExistingDirectory(p)
    BY <2>1 DEF FindDirectory, MissDirectory, MakeDirectory, MakeExistingDirectory
  <2>2. CASE CheckDestination(p) \/ MeetLock(p) \/ TakeLock(p)
    BY <2>2 DEF CheckDestination, MeetLock, TakeLock
  <2>3. CASE MakeStaging(p) \/ MissStaging(p)
    BY <2>3 DEF MakeStaging, MissStaging
  <2> QED
    BY <1>2, <2>1, <2>2, <2>3 DEF Prepare
<1>3. ASSUME NEW p \in Publishers, Build(p) PROVE OwnerKnown'
  <2>1. CASE Recheck(p) \/ Copy(p) \/ Write(p)
    BY <2>1 DEF Recheck, Copy, Write
  <2>2. CASE Rename(p)
    <3>1. destination[RunOf[p]] = NoOne
      BY <2>2 DEF Rename, Building
    <3> QED
      BY <2>2, <3>1 DEF Rename
  <2>3. CASE Sync(p)
    <3>1. destination' = destination /\ staging' = staging /\ lock' = lock /\ pc' = [pc EXCEPT ![p] = "unlock"]
      BY <2>3 DEF Sync
    <3> QED
      BY <3>1
  <2>4. CASE Fail(p) \/ Unlock(p)
    BY <2>4 DEF Fail, Unlock
  <2>5. CASE Sweep(p)
    BY <2>5 DEF Sweep, Outcomes
  <2> QED
    BY <1>3, <2>1, <2>2, <2>3, <2>4, <2>5 DEF Build
<1>4. ASSUME NEW p \in Publishers, Crash(p) PROVE OwnerKnown'
  BY <1>4 DEF Crash
<1>5. ASSUME NEW q \in Promoters, Promotion(q) PROVE OwnerKnown'
  BY <1>5 DEF Promotion, ReadRun, Promote
<1> QED
  BY <1>1, <1>2, <1>3, <1>4, <1>5 DEF Next, Publish

LEMMA OwnerInvariant == Spec => [](PublicationInv /\ OwnerKnown)
<1>1. Init => OwnerKnown
  BY DEF Init, OwnerKnown
<1> QED
  BY <1>1, PublicationInit, PublicationStep, OwnerStep, PTL DEF Spec

\* Under every fault, a call that is neither killed nor denied its staging directory
\* leaves neither a lock file nor a staging directory.
THEOREM CallsCleanUp == Spec => []CleanedUp
<1>1. PublicationInv /\ OwnerKnown => CleanedUp
  BY DEF PublicationInv, Typed, TypeOK, OwnerKnown, CleanedUp, Ended, Inside
<1> QED
  BY <1>1, OwnerInvariant, PTL

\* If mkdtemp never fails and nobody is killed, a run is refused as being published
\* only while somebody publishes it.
THEOREM RefusalsTruthful == "mkdtemp" \notin Faults /\ "crash" \notin Faults => (Spec => RefusalIsTruthful)
<1> SUFFICES ASSUME "mkdtemp" \notin Faults, "crash" \notin Faults PROVE Spec => RefusalIsTruthful
  OBVIOUS
<1> DEFINE Alive == \A p \in Publishers : pc[p] \notin {"unstaged", "dead"}
           A == \A p \in Publishers : pc[p] = "lock" /\ pc'[p] = "publishing" =>
                  \E v \in Publishers : RunOf[v] = RunOf[p] /\ pc[v] \in Inside
<1>1. Init => Alive
  BY DEF Init, Actors
<1>2. PublicationInv /\ Alive /\ [Next]_vars => Alive'
  <2> SUFFICES ASSUME PublicationInv, Alive, [Next]_vars PROVE Alive'
    OBVIOUS
  <2> USE DEF PublicationInv, Typed, TypeOK, Goto, Actors, Finish
  <2>1. ASSUME NEW p \in Publishers, Prepare(p) PROVE Alive'
    BY <2>1 DEF Prepare, FindDirectory, MissDirectory, MakeDirectory, MakeExistingDirectory,
                CheckDestination, TakeLock, MeetLock, MakeStaging, MissStaging
  <2>2. ASSUME NEW p \in Publishers, Build(p) PROVE Alive'
    BY <2>2 DEF Build, Recheck, Copy, Write, Rename, Sync, Fail, Unlock, Sweep, Outcomes
  <2>3. ASSUME NEW q \in Promoters, Promotion(q) PROVE Alive'
    BY <2>3 DEF Promotion, ReadRun, Promote
  <2> QED
    BY <2>1, <2>2, <2>3 DEF Next, Publish, Crash, vars
<1>3. PublicationInv /\ OwnerKnown /\ Alive /\ [Next]_vars => [A]_vars
  <2> SUFFICES ASSUME PublicationInv, OwnerKnown, Alive, [Next]_vars, NEW p \in Publishers,
                      pc[p] = "lock", pc'[p] = "publishing"
               PROVE  \E v \in Publishers : RunOf[v] = RunOf[p] /\ pc[v] \in Inside
    BY Zenon
  <2>1. lock[RunOf[p]] # NoOne
    <3> USE DEF PublicationInv, Typed, TypeOK, Goto, Actors, Finish
    <3>1. ASSUME NEW v \in Publishers, Prepare(v) PROVE lock[RunOf[p]] # NoOne
      BY <3>1 DEF Prepare, FindDirectory, MissDirectory, MakeDirectory, MakeExistingDirectory,
                  CheckDestination, TakeLock, MeetLock, MakeStaging, MissStaging
    <3>2. ASSUME NEW v \in Publishers, Build(v) PROVE FALSE
      BY <3>2 DEF Build, Recheck, Copy, Write, Rename, Sync, Fail, Unlock, Sweep
    <3>3. ASSUME NEW q \in Promoters, Promotion(q) PROVE FALSE
      BY <3>3 DEF Promotion, ReadRun, Promote
    <3> QED
      BY <3>1, <3>2, <3>3 DEF Next, Publish, Crash, vars
  <2>2. /\ RunOf[p] \in Runs /\ lock[RunOf[p]] \in Publishers
        /\ RunOf[lock[RunOf[p]]] = RunOf[p] /\ pc[lock[RunOf[p]]] \in Inside
    BY <2>1 DEF OwnerKnown, PublicationInv, Typed, TypeOK
  <2> QED
    BY <2>2
<1> QED
  BY <1>1, <1>2, <1>3, OwnerInvariant, PTL DEF Spec, RefusalIsTruthful

=============================================================================
