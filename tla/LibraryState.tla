----------------------------- MODULE LibraryState -----------------------------
(***************************************************************************)
(* lib/library-state.ts: Web processes that share a data root change       *)
(* library.json one after the other under the directory .library.lock.     *)
(*                                                                         *)
(* An element of Update is one call of savePaperLibraryStateAt; it draws   *)
(* its own UUID, so its owner record has a name nobody else uses.  The     *)
(* name alone identifies the owner and its process (a record of which      *)
(* nothing was written counts), so a directory is the set of its records.  *)
(* Every file-system call is one step.  The liveness of the recorded       *)
(* process is taken at the read: an owner that exits between the read and  *)
(* the test is met by the next read.                                       *)
(***************************************************************************)
EXTENDS LibraryTags, FiniteSets

CONSTANTS
  Web,      \* Web processes over one data root (each may restart)
  Update,   \* calls of savePaperLibraryStateAt
  Paper,    \* slugs
  PaperOf,  \* the paper an update is for
  PatchOf,  \* the patch it applies
  Corrupt,  \* a library.json that loadMetadata refuses
  None,     \* no process, no owner
  Faults    \* what may go wrong in a run

(***************************************************************************)
(* torn       a process exits while its call has left the directory empty  *)
(* slow       a call pauses inside a pass of the claim loop, or before it  *)
(*            removes the directory, for over LIBRARY_LOCK_STALE_MS         *)
(* pid_reuse  the pid of a dead owner is taken by a process whose start    *)
(*            cannot be read                                               *)
(* io_error   a read, a write or the rename fails, or library.json has     *)
(*            grown over its 8 MiB                                          *)
(***************************************************************************)
FaultKinds == {"torn", "slow", "pid_reuse", "io_error"}

ASSUME UpdateAssumption ==
  /\ DOMAIN PaperOf = Update /\ \A u \in Update : PaperOf[u] \in Paper
  /\ DOMAIN PatchOf = Update
ASSUME NoneAssumption   == None \notin Web /\ None \notin Update
ASSUME FaultsAssumption == Faults \subseteq FaultKinds

VARIABLES
  papers,   \* library.json: a state for every paper, or Corrupt
  tmp,      \* updates whose .library-*.tmp exists
  lock,     \* .library.lock exists
  records,  \* owner records in it
  aged,     \* its mtime is over 30 seconds old
  home,     \* the process that runs an update
  pc,       \* its next step
  late,     \* its 5 second deadline has passed
  seen,     \* the dead owner whose record it is about to remove
  loaded,   \* the library it has read
  outcome,  \* what it returned or threw
  crashed   \* updates whose process has exited

fileVars == <<papers, tmp>>
lockVars == <<lock, records, aged>>
callVars == <<home, late, seen, loaded, outcome>>
vars == <<fileVars, lockVars, callVars, pc, crashed>>

(* The labels of a call, in the order of the code. *)
Claiming == {"mkdir", "open", "read", "stat", "rmdirStale", "unlinkDead", "rmdirDead", "wait"}
Updating == {"load", "save", "rename", "dropTmp", "release"}
PC == {"idle", "abandon", "rmdirOwn", "end"} \cup Claiming \cup Updating

(* A call at one of these has made or emptied the directory itself.         *)
Emptied == {"open", "rmdirDead", "rmdirOwn"}
(* ... and at one of these it is inside a pass of the loop or removes it.   *)
InPass == Emptied \cup {"read", "stat", "rmdirStale", "unlinkDead", "abandon"}

(* The call answers for a directory that names no owner. *)
EmptyHanded(u) == pc[u] \in Emptied \/ (pc[u] = "abandon" /\ u \notin records)

Live(u) == home[u] # None /\ u \notin crashed

Init ==
  /\ papers \in {[p \in Paper |-> EmptyState], Corrupt}
  /\ tmp = {}
  /\ lock = FALSE
  /\ records = {}
  /\ aged = FALSE
  /\ home = [u \in Update |-> None]
  /\ pc = [u \in Update |-> "idle"]
  /\ late = [u \in Update |-> FALSE]
  /\ seen = [u \in Update |-> None]
  /\ loaded = [u \in Update |-> Corrupt]
  /\ outcome = [u \in Update |-> "none"]
  /\ crashed = {}

Goto(u, label) == pc' = [pc EXCEPT ![u] = label]
Return(u, result) == outcome' = [outcome EXCEPT ![u] = result]

-----------------------------------------------------------------------------
(* claimLibraryLock.                                                        *)

Start(w, u) ==
  /\ home[u] = None
  /\ home' = [home EXCEPT ![u] = w]
  /\ Goto(u, "mkdir")
  /\ UNCHANGED <<fileVars, lockVars, late, seen, loaded, outcome, crashed>>

Mkdir(u) ==
  /\ pc[u] = "mkdir"
  /\ IF lock
     THEN /\ Goto(u, "read")
          /\ UNCHANGED <<lock, aged>>
     ELSE /\ lock' = TRUE
          /\ aged' = FALSE
          /\ Goto(u, "open")
  /\ UNCHANGED <<fileVars, records, callVars, crashed>>

(* open "wx", write, sync: the record is complete, or the call throws with  *)
(* the record made (the write failed) or not (ENOENT, or the open failed).  *)
OpenRecord(u) ==
  /\ pc[u] = "open"
  /\ \/ /\ lock
        /\ records' = records \cup {u}
        /\ aged' = FALSE
        /\ \/ Goto(u, "load") /\ UNCHANGED outcome
           \/ "io_error" \in Faults /\ Goto(u, "abandon") /\ Return(u, "failed")
     \/ /\ ~lock \/ "io_error" \in Faults
        /\ Goto(u, "abandon")
        /\ Return(u, "failed")
        /\ UNCHANGED <<records, aged>>
  /\ UNCHANGED <<fileVars, lock, home, late, seen, loaded, crashed>>

(* The catch around the record: unlink it if it is there, then rmdir.       *)
Abandon(u) ==
  /\ pc[u] = "abandon"
  /\ records' = records \ {u}
  /\ aged' = (aged /\ u \notin records)
  /\ Goto(u, "rmdirOwn")
  /\ UNCHANGED <<fileVars, lock, callVars, crashed>>

(* recordedProcessStillOwnsLock. Mutant: a dead pid is never noticed.        *)
StillOwnsAlways(u, o, answer) == answer = TRUE
StillOwns(u, o, answer) ==
  \/ answer = (o \notin crashed)
  \/ answer = TRUE /\ "pid_reuse" \in Faults

(* readLockRecord: an empty or missing directory, one record, or an error.   *)
ReadRecord(u) ==
  /\ pc[u] = "read"
  /\ \/ /\ records = {}
        /\ Goto(u, "stat")
        /\ UNCHANGED <<seen, outcome>>
     \/ \E o \in records, answer \in BOOLEAN :
        /\ records = {o}
        /\ StillOwns(u, o, answer)
        /\ IF answer
           THEN Goto(u, "wait") /\ UNCHANGED seen
           ELSE Goto(u, "unlinkDead") /\ seen' = [seen EXCEPT ![u] = o]
        /\ UNCHANGED outcome
     \/ /\ \E a, b \in records : a # b
        /\ Goto(u, "end")
        /\ Return(u, "failed")
        /\ UNCHANGED seen
  /\ UNCHANGED <<fileVars, lockVars, home, late, loaded, crashed>>

StatEmpty(u) ==
  /\ pc[u] = "stat"
  /\ Goto(u, IF lock /\ aged THEN "rmdirStale" ELSE "wait")
  /\ UNCHANGED <<fileVars, lockVars, callVars, crashed>>

(* rmdir of the path, whatever directory is there by now: it goes if empty. *)
Rmdir == lock' = (lock /\ records # {})

RmdirStale(u) ==
  /\ pc[u] = "rmdirStale"
  /\ Rmdir
  /\ Goto(u, IF lock /\ records = {} THEN "mkdir" ELSE "wait")
  /\ UNCHANGED <<fileVars, records, aged, callVars, crashed>>

(* removeOwnedLock: the record of the dead owner by its name, then rmdir.   *)
UnlinkDead(u) ==
  /\ pc[u] = "unlinkDead"
  /\ records' = records \ {seen[u]}
  /\ aged' = (aged /\ seen[u] \notin records)
  /\ Goto(u, IF seen[u] \in records THEN "rmdirDead" ELSE "wait")
  /\ UNCHANGED <<fileVars, lock, callVars, crashed>>

RmdirDead(u) ==
  /\ pc[u] = "rmdirDead"
  /\ Rmdir
  /\ Goto(u, IF lock /\ records = {} THEN "mkdir" ELSE "wait")
  /\ UNCHANGED <<fileVars, records, aged, callVars, crashed>>

(* The deadline, or 20 milliseconds and the next pass.                      *)
(* Mutant: waits for as long as it takes. *)
WaitForever(u) ==
  /\ pc[u] = "wait"
  /\ Goto(u, "mkdir")
  /\ UNCHANGED <<fileVars, lockVars, callVars, crashed>>
Wait(u) ==
  /\ pc[u] = "wait"
  /\ IF late[u]
     THEN Goto(u, "end") /\ Return(u, "busy")
     ELSE Goto(u, "mkdir") /\ UNCHANGED outcome
  /\ UNCHANGED <<fileVars, lockVars, home, late, seen, loaded, crashed>>

-----------------------------------------------------------------------------
(* savePaperLibraryStateAt under the lock.                                  *)

(* What the update makes of the library it has read. *)
Target(u) == Patched(loaded[u][PaperOf[u]], PatchOf[u])

(* loadMetadata, then the patch; both may throw.                            *)
(* Mutant: uses the library an earlier update of the process has read.      *)
LoadOnce(u) ==
  LET earlier == {v \in Update \ {u} : home[v] = home[u] /\ loaded[v] # Corrupt}
      value == IF earlier = {} THEN papers ELSE loaded[CHOOSE v \in earlier : TRUE]
  IN
  /\ pc[u] = "load"
  /\ loaded' = [loaded EXCEPT ![u] = value]
  /\ IF value = Corrupt \/ Patched(value[PaperOf[u]], PatchOf[u]) = Invalid
     THEN Goto(u, "dropTmp") /\ Return(u, "rejected")
     ELSE Goto(u, "save") /\ UNCHANGED outcome
  /\ UNCHANGED <<fileVars, lockVars, home, late, seen, crashed>>
Load(u) ==
  /\ pc[u] = "load"
  /\ loaded' = [loaded EXCEPT ![u] = papers]
  /\ IF papers = Corrupt
     THEN Goto(u, "dropTmp") /\ Return(u, "rejected")
     ELSE IF Patched(papers[PaperOf[u]], PatchOf[u]) = Invalid
     THEN Goto(u, "dropTmp") /\ Return(u, "rejected")
     ELSE Goto(u, "save") /\ UNCHANGED outcome
  /\ UNCHANGED <<fileVars, lockVars, home, late, seen, crashed>>

SaveTemporary(u) ==
  /\ pc[u] = "save"
  /\ tmp' = tmp \cup {u}
  /\ \/ Goto(u, "rename") /\ UNCHANGED outcome
     \/ "io_error" \in Faults /\ Goto(u, "dropTmp") /\ Return(u, "failed")
  /\ UNCHANGED <<papers, lockVars, home, late, seen, loaded, crashed>>

Rename(u) ==
  /\ pc[u] = "rename"
  /\ papers' = [loaded[u] EXCEPT ![PaperOf[u]] = Target(u)]
  /\ tmp' = tmp \ {u}
  /\ Goto(u, "dropTmp")
  /\ Return(u, "saved")
  /\ UNCHANGED <<lockVars, home, late, seen, loaded, crashed>>

(* loadMetadata refuses a file it cannot read or that is over its bound, or *)
(* the rename fails.                                                        *)
UpdateFails(u) ==
  /\ "io_error" \in Faults
  /\ pc[u] \in {"load", "rename"}
  /\ Goto(u, "dropTmp")
  /\ Return(u, "failed")
  /\ UNCHANGED <<fileVars, lockVars, home, late, seen, loaded, crashed>>

(* The finally block: the temporary file, then releaseLibraryLock.          *)
DropTemporary(u) ==
  /\ pc[u] = "dropTmp"
  /\ tmp' = tmp \ {u}
  /\ Goto(u, "release")
  /\ UNCHANGED <<papers, lockVars, callVars, crashed>>

Release(u) ==
  /\ pc[u] = "release"
  /\ records' = records \ {u}
  /\ aged' = (aged /\ u \notin records)
  /\ Goto(u, IF u \in records THEN "rmdirOwn" ELSE "end")
  /\ UNCHANGED <<fileVars, lock, callVars, crashed>>

RmdirOwn(u) ==
  /\ pc[u] = "rmdirOwn"
  /\ Rmdir
  /\ Goto(u, "end")
  /\ UNCHANGED <<fileVars, records, aged, callVars, crashed>>

-----------------------------------------------------------------------------
(* Time and crashes.                                                        *)

DeadlinePasses(u) ==
  /\ Live(u)
  /\ pc[u] \in Claiming
  /\ ~late[u]
  /\ late' = [late EXCEPT ![u] = TRUE]
  /\ UNCHANGED <<fileVars, lockVars, home, seen, loaded, outcome, pc, crashed>>

(* Over 30 seconds pass since the directory last changed.                   *)
DirectoryAges ==
  /\ lock
  /\ ~aged
  /\ "slow" \in Faults \/ \A u \in Update : Live(u) => pc[u] \notin InPass
  /\ aged' = TRUE
  /\ UNCHANGED <<fileVars, lock, records, callVars, pc, crashed>>

(* A process exits with every update it runs, and may be started again.     *)
Crash(w) ==
  LET lost == {u \in Update : home[u] = w /\ Live(u) /\ pc[u] # "end"} IN
  /\ lost # {}
  /\ "torn" \in Faults \/ \A u \in lost : ~EmptyHanded(u)
  /\ crashed' = crashed \cup lost
  /\ UNCHANGED <<fileVars, lockVars, callVars, pc>>

ClaimStep(u) ==
  \/ Mkdir(u) \/ OpenRecord(u) \/ Abandon(u) \/ ReadRecord(u) \/ StatEmpty(u)
  \/ RmdirStale(u) \/ UnlinkDead(u) \/ RmdirDead(u) \/ Wait(u)

UpdateStep(u) ==
  \/ Load(u) \/ SaveTemporary(u) \/ Rename(u) \/ UpdateFails(u) \/ DropTemporary(u)
  \/ Release(u) \/ RmdirOwn(u)

Step(u) == Live(u) /\ (ClaimStep(u) \/ UpdateStep(u))

Next ==
  \/ \E w \in Web, u \in Update : Start(w, u)
  \/ \E u \in Update : Step(u)
  \/ \E u \in Update : DeadlinePasses(u)
  \/ DirectoryAges
  \/ \E w \in Web : Crash(w)

Spec == Init /\ [][Next]_vars

(* The event loop of a live process gets to every pending call, and its     *)
(* clock runs.  Crashes, and clients that start updates, are not fair.      *)
FairSpec == Spec /\ \A u \in Update : WF_vars(Step(u)) /\ WF_vars(DeadlinePasses(u))

-----------------------------------------------------------------------------
(* Properties.                                                              *)

Readable(library) == library = Corrupt \/ DOMAIN library = Paper

(* Every variable holds the values the code gives it: a library is one that *)
(* loadMetadata refuses or has a state for every paper, and a record        *)
(* belongs to an update that was started.                                   *)
TypeOK ==
  /\ Readable(papers)
  /\ tmp \subseteq Update
  /\ lock \in BOOLEAN /\ aged \in BOOLEAN
  /\ records \subseteq Update
  /\ home \in [Update -> Web \cup {None}]
  /\ pc \in [Update -> PC]
  /\ late \in [Update -> BOOLEAN]
  /\ seen \in [Update -> Update \cup {None}]
  /\ DOMAIN loaded = Update /\ \A u \in Update : Readable(loaded[u])
  /\ outcome \in [Update -> {"none", "saved", "rejected", "busy", "failed"}]
  /\ crashed \subseteq Update
  /\ \A u \in records : home[u] # None

(* Two live updates are never between claimLibraryLock and the end of       *)
(* releaseLibraryLock together, whatever died or was reclaimed before.      *)
Inside(u) == Live(u) /\ pc[u] \in Updating
OneUpdateAtATime == \A u, v \in Update : Inside(u) /\ Inside(v) => u = v

(* No update is lost, applied to an old library or applied twice: the       *)
(* protocol implements LibraryUpdates.                                      *)
Library == INSTANCE LibraryUpdates WITH saved <- {u \in Update : outcome[u] = "saved"}
ImplementsLibraryUpdates == Library!Spec

(* The claim never trips over another one: without a fault that justifies   *)
(* it, no update throws (a directory that vanished beneath it, two records). *)
NoSpuriousFailure == \A u \in Update : outcome[u] # "failed"

(* A record leaves the directory only by its owner or after its owner died: *)
(* a live owner is never robbed, also when the directory was.               *)
LiveRecordKept ==
  [][\A o \in records \ records' : o \in crashed \/ pc[o] \in {"release", "abandon"}]_vars

(* An update of a live process ends, in success or by its deadline.         *)
UpdateEnds == \A u \in Update : (home[u] # None) ~> (pc[u] = "end" \/ u \in crashed)

(* The record a dead owner left does not outlive a live claim.              *)
DeadOwnerReplaced ==
  \A o \in Update : \A u \in Update \ {o} :
    (o \in records \cap crashed /\ Live(u) /\ pc[u] = "mkdir")
      ~> (o \notin records \/ u \in crashed)
=============================================================================
