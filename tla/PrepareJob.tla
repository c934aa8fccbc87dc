------------------------------ MODULE PrepareJob ------------------------------
(* MCPTranslationStore.prepare of src/papertrans/chatgpt_worker.py: how a job    *)
(* directory comes to be.  Calls for one job id are serialised by its flock; the *)
(* job is built in a staging directory and renamed over a directory that is      *)
(* absent or empty.  Other software, the PDF pipeline for one, uses the output   *)
(* directory without the flock.                                                  *)
EXTENDS FiniteSets

CONSTANTS
  Callers, \* calls of prepare for one job id
  PaperOf, \* the arXiv id each of them asks for
  Foreign, \* TRUE: other software may create the job's directory and fill it
  Fails,   \* TRUE: the paper may fail to arrive
  Crashes, \* TRUE: calls may be killed
  Nobody

ASSUME NobodyAssumption == Nobody \notin Callers \cup {"absent", "empty", "foreign"}
ASSUME CallerAssumption == Callers \cap {"absent", "empty", "foreign"} = {}
ASSUME SwitchAssumption == {Foreign, Fails, Crashes} \subseteq BOOLEAN

VARIABLES
  root,    \* the job's directory: "absent", "empty", "foreign", or whose job it holds
  staging, \* what is in each call's staging directory
  flock,   \* holder of the job's flock
  point,   \* where each call is
  result   \* how the call ends after its clean-up

prepareVars == <<root, staging, flock, point, result>>

GoTo(c, label) == point' = [point EXCEPT ![c] = label]

\* Under the flock the call leaves through its finally block.
Finish(c, how) == result' = [result EXCEPT ![c] = how] /\ GoTo(c, "clean")

IsJob == root \in Callers

\* _job_root_is_occupied, for a directory without a manifest.
Occupied == root \notin {"absent", "empty"}

PrepareInit ==
  /\ root = "absent"
  /\ staging = [c \in Callers |-> "none"]
  /\ flock = Nobody
  /\ point = [c \in Callers |-> "idle"]
  /\ result = [c \in Callers |-> "none"]

\* Mutant: the flock is not taken.
PrepareUnlocked(c) ==
  /\ point[c] = "idle"
  /\ flock' = c
  /\ GoTo(c, "look")
  /\ UNCHANGED <<root, staging, result>>

EnterPrepare(c) ==
  /\ point[c] = "idle"
  /\ flock = Nobody
  /\ flock' = c
  /\ GoTo(c, "look")
  /\ UNCHANGED <<root, staging, result>>

\* The job is there: its summary, unless it belongs to another paper.
FindJob(c) ==
  /\ point[c] = "look"
  /\ IsJob
  /\ Finish(c, IF PaperOf[root] = PaperOf[c] THEN "answered" ELSE "refused")
  /\ UNCHANGED <<root, staging, flock>>

FindForeign(c) ==
  /\ point[c] = "look"
  /\ ~IsJob
  /\ Occupied
  /\ Finish(c, "refused")
  /\ UNCHANGED <<root, staging, flock>>

\* mkdtemp in the output directory.
MakeStaging(c) ==
  /\ point[c] = "look"
  /\ ~Occupied
  /\ staging' = [staging EXCEPT ![c] = "partial"]
  /\ GoTo(c, "acquire")
  /\ UNCHANGED <<root, flock, result>>

\* Paper, document, chunks and manifest are written to the staging directory.
Acquire(c) ==
  /\ point[c] = "acquire"
  /\ staging' = [staging EXCEPT ![c] = "whole"]
  /\ GoTo(c, "recheck")
  /\ UNCHANGED <<root, flock, result>>

AcquireFails(c) ==
  /\ Fails
  /\ point[c] = "acquire"
  /\ Finish(c, "unacquired")
  /\ UNCHANGED <<root, staging, flock>>

\* Just before publication the directory is looked at again.
Recheck(c) ==
  /\ point[c] = "recheck"
  /\ IF Occupied THEN Finish(c, "refused") ELSE GoTo(c, "rmdir") /\ UNCHANGED result
  /\ UNCHANGED <<root, staging, flock>>

\* Mutant: whatever is there is removed.
RemoveAll(c) ==
  /\ point[c] = "rmdir"
  /\ root' = "absent"
  /\ GoTo(c, "replace")
  /\ UNCHANGED <<staging, flock, result>>

\* rmdir removes an empty directory and raises for one that got data meanwhile.
RemoveEmpty(c) ==
  /\ point[c] = "rmdir"
  /\ IF Occupied
     THEN Finish(c, "failed") /\ UNCHANGED root
     ELSE root' = "absent" /\ GoTo(c, "replace") /\ UNCHANGED result
  /\ UNCHANGED <<staging, flock>>

\* A rename replaces an empty directory and raises for one with data.
Replace(c) ==
  /\ point[c] = "replace"
  /\ IF Occupied
     THEN Finish(c, "failed") /\ UNCHANGED root
     ELSE root' = c /\ Finish(c, "answered")
  /\ UNCHANGED <<staging, flock>>

Clean(c) ==
  /\ point[c] = "clean"
  /\ staging' = [staging EXCEPT ![c] = IF root = c THEN @ ELSE "none"]
  /\ flock' = Nobody
  /\ GoTo(c, result[c])
  /\ UNCHANGED <<root, result>>

Ended == {"answered", "unacquired", "refused", "failed", "dead"}

\* The kernel drops the flock; the staging directory stays.
Crash(c) ==
  /\ Crashes
  /\ point[c] \notin {"idle"} \cup Ended
  /\ flock' = IF flock = c THEN Nobody ELSE flock
  /\ GoTo(c, "dead")
  /\ UNCHANGED <<root, staging, result>>

\* Other software makes the directory, or writes into an empty one.
UseDirectory ==
  /\ Foreign
  /\ ~Occupied
  /\ root' \in {"empty", "foreign"} \ {root}
  /\ UNCHANGED <<staging, flock, point, result>>

Prepare(c) ==
  \/ EnterPrepare(c) \/ FindJob(c) \/ FindForeign(c) \/ MakeStaging(c) \/ Acquire(c) \/ AcquireFails(c)
  \/ Recheck(c) \/ RemoveEmpty(c) \/ Replace(c) \/ Clean(c)

PrepareNext == (\E c \in Callers : Prepare(c) \/ Crash(c)) \/ UseDirectory

PrepareSpec == PrepareInit /\ [][PrepareNext]_prepareVars

-------------------------------------------------------------------------------
PrepareTypeOK ==
  /\ root \in {"absent", "empty", "foreign"} \cup Callers
  /\ staging \in [Callers -> {"none", "partial", "whole"}]
  /\ flock \in Callers \cup {Nobody}
  /\ point \in [Callers -> {"idle", "look", "acquire", "recheck", "rmdir", "replace", "clean"} \cup Ended]
  /\ result \in [Callers -> {"none"} \cup (Ended \ {"dead"})]

\* A directory that contains data is never deleted or replaced, whoever made it
\* and whenever it appeared (the comment before the second check).
DataKept == [][Occupied => root' = root]_prepareVars

\* A published job is complete, and a call is answered only with a job for the
\* paper it asked for.
AnsweredIsPrepared ==
  /\ \A c \in Callers : root = c => staging[c] = "whole"
  /\ \A c \in Callers : point[c] = "answered" => IsJob /\ PaperOf[root] = PaperOf[c]

\* A call that ends by itself leaves no staging directory.
StagingRemoved == \A c \in Callers : point[c] \in Ended \ {"dead"} => staging[c] = "none" \/ root = c

\* Calls for one paper do not make each other fail, also when some were killed: a
\* call is turned away only by foreign data or by a job for another paper.
PrepareIsShared ==
  \A c \in Callers : point[c] \in {"refused", "failed"} =>
    root = "foreign" \/ (IsJob /\ PaperOf[root] # PaperOf[c])

===============================================================================
