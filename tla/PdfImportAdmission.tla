-------------------------- MODULE PdfImportAdmission --------------------------
(***************************************************************************)
(* The admission of PDF imports: lib/pdf-import/admission.ts, the POST     *)
(* handler of app/api/papers/import/route.ts that takes and returns it and *)
(* lib/pdf-import/process-supervision.ts, which owns it while the detached *)
(* worker runs.                                                            *)
(*                                                                         *)
(* One Web process admits one import with a module-level symbol (mem).     *)
(* Web processes that share an output root exclude each other with two     *)
(* directories: "lock" (.papertrans-pdf-import.lock), held for a whole     *)
(* import, and "guard" (its .migration-guard), held while a claim inspects *)
(* and replaces "lock".  A directory holds one <uuid>.json record of its   *)
(* owner, and while the pid is recorded a <uuid>.tmp.  One element of      *)
(* Owner stands for one POST: the UUIDs of its guard and of its admission  *)
(* are drawn by that request alone.  Every file-system call is one step.   *)
(***************************************************************************)
EXTENDS Naturals, FiniteSets

CONSTANTS
  Web,     \* Web server processes over one output root (each may restart)
  Owner,   \* import requests
  None,    \* no owner
  Faults   \* the slow steps and badly placed crashes a run admits

(***************************************************************************)
(* slow_setup    a request holds a setup record, or pauses inside a        *)
(*               directory operation, for over PDF_IMPORT_LOCK_SETUP_STALE *)
(* slow_record   recording the pid takes over the termination grace        *)
(* crash_spawn   the Web process dies between spawn and the pid record     *)
(* torn_guard    ... while the guard directory has no complete record      *)
(* torn_lock     ... while the lock directory has no complete record       *)
(***************************************************************************)
FaultKinds == {"slow_setup", "slow_record", "crash_spawn", "torn_guard", "torn_lock"}

ASSUME NoneAssumption   == None \notin Owner /\ None \notin Web
ASSUME FaultsAssumption == Faults \subseteq FaultKinds

VARIABLES
  mem,      \* activePdfImportAdmission of each Web process
  home,     \* the Web process that serves a request
  pc,       \* the next step of a request
  stage,    \* the directory that step works on
  tries,    \* passes of the claim loop over that directory
  seen,     \* owner of the record judged stale, None when it was unreadable
  granted,  \* the claim under the guard returned an admission
  kind,     \* what is at the path of each directory
  aged,     \* directories whose mtime is older than two minutes
  json,     \* owner records of each directory
  tmp,      \* owners with a temporary record in "lock"
  expired,  \* requests whose createdAt is older than two minutes
  crashed,  \* requests whose Web process has exited
  group,    \* process group of the worker a request spawned
  killed,   \* worker groups sent SIGKILL
  sup,      \* supervision closure of the worker
  rel       \* releasePersistentPdfImportAdmission in progress

claimVars == <<home, stage, tries, seen, granted>>
dirVars   == <<kind, aged, json, tmp>>
workVars  == <<group, killed, sup>>
timeVars  == <<expired, crashed>>
vars == <<mem, pc, rel, claimVars, dirVars, workVars, timeVars>>

Place == {"guard", "lock"}
MaxTries == 3  \* attempts of both claim loops

PC == {"idle", "mkdir", "open", "write", "abort", "read", "unlink", "untmp",
       "rmdir", "unguard", "unguardRmdir", "setup", "tmp", "check", "rename",
       "dropTmp", "kill", "transfer", "end"}

(* An owner record: absent, created but not yet written, holding pid null,  *)
(* holding the pid of the worker (in "guard": of the Web process).          *)
Record == {"none", "torn", "setup", "pid"}

Supervision == [transferred : BOOLEAN, settled : BOOLEAN, released : BOOLEAN,
                deadline : BOOLEAN, forceKill : BOOLEAN, poll : BOOLEAN]
NoSupervision == [transferred |-> FALSE, settled |-> FALSE, released |-> FALSE,
                  deadline |-> FALSE, forceKill |-> FALSE, poll |-> FALSE]

Alive(o) == group[o] \in {"running", "leaderless"}
Live(o)  == home[o] # None /\ o \notin crashed

Init ==
  /\ mem = [w \in Web |-> None]
  /\ home = [o \in Owner |-> None]
  /\ pc = [o \in Owner |-> "idle"]
  /\ stage = [o \in Owner |-> "guard"]
  /\ tries = [o \in Owner |-> 0]
  /\ seen = [o \in Owner |-> None]
  /\ granted = [o \in Owner |-> FALSE]
  /\ kind \in {[p \in Place |-> "absent"], [p \in Place |-> IF p = "lock" THEN "file" ELSE "absent"]}
  /\ aged = {}
  /\ json = [p \in Place |-> [o \in Owner |-> "none"]]
  /\ tmp = {}
  /\ expired = {}
  /\ crashed = {}
  /\ group = [o \in Owner |-> "none"]
  /\ killed = {}
  /\ sup = [o \in Owner |-> NoSupervision]
  /\ rel = [o \in Owner |-> "no"]

-----------------------------------------------------------------------------
(* What a directory holds.                                                  *)

Recorded(p) == {o \in Owner : json[p][o] # "none"}
Entries(p)  == Recorded(p) \cup (IF p = "lock" THEN tmp ELSE {})

(* readPdfImportLock: the owner of the only record, None when there is no   *)
(* record, more than one, or one that does not parse.                       *)
ReadLock(p) ==
  IF kind[p] = "dir" /\ \E o \in Owner : Recorded(p) = {o} /\ json[p][o] # "torn"
  THEN CHOOSE o \in Owner : Recorded(p) = {o}
  ELSE None

(* The record still excludes others.  The guard names the Web process, the  *)
(* lock the worker's process group or, before its pid is known, a deadline. *)
RecordIsActive(p, o) ==
  \/ p = "guard" /\ o \notin crashed
  \/ p = "lock" /\ json[p][o] = "setup" /\ o \notin expired
  \/ p = "lock" /\ json[p][o] # "setup" /\ Alive(o)

(* A claimant gives up (another import is active) or may remove what it saw. *)
(* Mutant: an unreadable record is never removed.                            *)
ExcludedUnknownForever(p) ==
  kind[p] # "dir" \/ ReadLock(p) = None \/ RecordIsActive(p, ReadLock(p))
Excluded(p) ==
  \/ kind[p] # "dir"
  \/ ReadLock(p) = None /\ p \notin aged
  \/ ReadLock(p) # None /\ RecordIsActive(p, ReadLock(p))

Goto(o, label) == pc' = [pc EXCEPT ![o] = label]

(* Leaving a claim: without the guard the handler's finally block frees the *)
(* in-process symbol; with it, the guard is removed first.                  *)
LeaveClaim(o) ==
  IF stage[o] = "guard"
  THEN /\ Goto(o, "end")
       /\ mem' = [mem EXCEPT ![home[o]] = None]
  ELSE /\ Goto(o, "unguard")
       /\ UNCHANGED mem

PutRecord(p, o, r) ==
  /\ json' = [json EXCEPT ![p][o] = r]
  /\ aged' = aged \ {p}

-----------------------------------------------------------------------------
(* The claim: POST, claimPdfImportAdmission, claimPersistentPdfImportAdmission. *)

ClaimMemory(w, o) ==
  /\ mem[w] = None
  /\ home[o] = None
  /\ mem' = [mem EXCEPT ![w] = o]
  /\ home' = [home EXCEPT ![o] = w]
  /\ Goto(o, "mkdir")
  /\ UNCHANGED <<rel, stage, tries, seen, granted, dirVars, workVars, timeVars>>

(* The worker's runtime is not ready, before anything was claimed on disk.   *)
NotReady(o) ==
  /\ pc[o] = "mkdir" /\ stage[o] = "guard" /\ tries[o] = 0
  /\ LeaveClaim(o)
  /\ UNCHANGED <<rel, claimVars, dirVars, workVars, timeVars>>

(* mkdir of the directory, or EEXIST. *)
Mkdir(o) ==
  LET p == stage[o] IN
  /\ pc[o] = "mkdir"
  /\ IF kind[p] = "absent"
     THEN /\ kind' = [kind EXCEPT ![p] = "dir"]
          /\ aged' = aged \ {p}
          /\ Goto(o, "open")
     ELSE /\ Goto(o, "read")
          /\ UNCHANGED <<kind, aged>>
  /\ UNCHANGED <<mem, rel, claimVars, json, tmp, workVars, timeVars>>

(* writeFile with flag wx creates the record, then fills it.  ENOENT means  *)
(* that the directory was removed in between.                               *)
OpenRecord(o) ==
  LET p == stage[o] IN
  /\ pc[o] = "open"
  /\ IF kind[p] = "dir"
     THEN /\ PutRecord(p, o, "torn")
          /\ Goto(o, "write")
     ELSE /\ Goto(o, "abort")
          /\ UNCHANGED <<json, aged>>
  /\ UNCHANGED <<mem, rel, claimVars, kind, tmp, workVars, timeVars>>

(* The bytes go to the open file: to no directory entry if it was unlinked. *)
WriteRecord(o) ==
  LET p == stage[o] IN
  /\ pc[o] = "write"
  /\ json' = [json EXCEPT ![p][o] =
               IF @ = "none" THEN "none" ELSE IF p = "guard" THEN "pid" ELSE "setup"]
  /\ IF p = "guard"
     THEN /\ Goto(o, "mkdir")
          /\ stage' = [stage EXCEPT ![o] = "lock"]
          /\ tries' = [tries EXCEPT ![o] = 0]
          /\ UNCHANGED granted
     ELSE /\ Goto(o, "unguard")
          /\ granted' = [granted EXCEPT ![o] = TRUE]
          /\ UNCHANGED <<stage, tries>>
  /\ UNCHANGED <<mem, rel, home, seen, kind, aged, tmp, workVars, timeVars>>

(* The catch of createPdfImportLock: rmdir of whatever empty directory is   *)
(* at the path now, and the claim fails.                                    *)
AbortClaim(o) ==
  LET p == stage[o] IN
  /\ pc[o] = "abort"
  /\ kind' = [kind EXCEPT ![p] = IF @ = "dir" /\ Entries(p) = {} THEN "absent" ELSE @]
  /\ LeaveClaim(o)
  /\ UNCHANGED <<rel, claimVars, aged, json, tmp, workVars, timeVars>>

(* After EEXIST: give up, or remember the stale record to be removed.       *)
ReadExisting(o) ==
  LET p == stage[o] IN
  /\ pc[o] = "read"
  /\ IF Excluded(p)
     THEN /\ LeaveClaim(o)
          /\ UNCHANGED seen
     ELSE /\ seen' = [seen EXCEPT ![o] = ReadLock(p)]
          /\ Goto(o, "unlink")
          /\ UNCHANGED mem
  /\ UNCHANGED <<rel, home, stage, tries, granted, dirVars, workVars, timeVars>>

(* removeUnknownPdfImportLockDirectory lists what is there now: remnants of  *)
(* one owner, which it goes on to remove by name, or nothing.               *)
ListRemnants(o) ==
  LET p == stage[o] IN
  /\ pc[o] = "unlink" /\ seen[o] = None
  /\ \/ /\ kind[p] = "dir" /\ Entries(p) = {}
        /\ Goto(o, "rmdir")
        /\ UNCHANGED <<mem, seen>>
     \/ \E a \in Owner :
          /\ kind[p] = "dir" /\ Entries(p) = {a}
          /\ seen' = [seen EXCEPT ![o] = a]
          /\ Goto(o, IF a \in Recorded(p) THEN "unlink" ELSE "untmp")
          /\ UNCHANGED mem
     \/ /\ kind[p] # "dir" \/ \E a, b \in Entries(p) : a # b
        /\ LeaveClaim(o)
        /\ UNCHANGED seen
  /\ UNCHANGED <<rel, home, stage, tries, granted, dirVars, workVars, timeVars>>

(* The record of the owner that was read or listed.                         *)
UnlinkStale(o) ==
  LET p == stage[o] IN
  /\ pc[o] = "unlink" /\ seen[o] # None
  /\ IF json[p][seen[o]] # "none"
     THEN /\ PutRecord(p, seen[o], "none")
          /\ Goto(o, "untmp")
          /\ UNCHANGED mem
     ELSE LeaveClaim(o) /\ UNCHANGED <<json, aged>>
  /\ UNCHANGED <<rel, claimVars, kind, tmp, workVars, timeVars>>

UnlinkStaleTmp(o) ==
  /\ pc[o] = "untmp"
  /\ IF stage[o] = "lock" /\ seen[o] \in tmp
     THEN /\ tmp' = tmp \ {seen[o]}
          /\ aged' = aged \ {"lock"}
     ELSE UNCHANGED <<tmp, aged>>
  /\ Goto(o, "rmdir")
  /\ UNCHANGED <<mem, rel, claimVars, kind, json, workVars, timeVars>>

(* rmdir, then the next pass of the loop; ENOTEMPTY and ENOENT give up.     *)
RemoveStale(o) ==
  LET p == stage[o] IN
  /\ pc[o] = "rmdir"
  /\ tries' = [tries EXCEPT ![o] = @ + 1]
  /\ IF kind[p] = "dir" /\ Entries(p) = {}
     THEN /\ kind' = [kind EXCEPT ![p] = "absent"]
          /\ IF tries[o] + 1 < MaxTries
             THEN Goto(o, "mkdir") /\ UNCHANGED mem
             ELSE LeaveClaim(o)
     ELSE /\ LeaveClaim(o)
          /\ UNCHANGED kind
  /\ UNCHANGED <<rel, home, stage, seen, granted, aged, json, tmp, workVars, timeVars>>

(* The finally of claimPersistentPdfImportAdmission removes the guard.      *)
UnlinkGuard(o) ==
  /\ pc[o] = "unguard"
  /\ IF json["guard"][o] # "none"
     THEN /\ PutRecord("guard", o, "none")
          /\ Goto(o, "unguardRmdir")
          /\ UNCHANGED mem
     ELSE /\ Goto(o, IF granted[o] THEN "setup" ELSE "end")
          /\ mem' = IF granted[o] THEN mem ELSE [mem EXCEPT ![home[o]] = None]
          /\ UNCHANGED <<json, aged>>
  /\ UNCHANGED <<rel, claimVars, kind, tmp, workVars, timeVars>>

RemoveGuard(o) ==
  /\ pc[o] = "unguardRmdir"
  /\ kind' = [kind EXCEPT !["guard"] =
               IF @ = "dir" /\ Entries("guard") = {} THEN "absent" ELSE @]
  /\ Goto(o, IF granted[o] THEN "setup" ELSE "end")
  /\ mem' = IF granted[o] THEN mem ELSE [mem EXCEPT ![home[o]] = None]
  /\ UNCHANGED <<rel, claimVars, aged, json, tmp, workVars, timeVars>>

-----------------------------------------------------------------------------
(* runPdfImport under an admission.                                         *)

(* A rejected upload, a duplicate, a failed reservation or a failed spawn:  *)
(* the finally block of POST releases both admissions.                      *)
RejectImport(o) ==
  /\ pc[o] = "setup"
  /\ Goto(o, "end")
  /\ mem' = [mem EXCEPT ![home[o]] = None]
  /\ rel' = [rel EXCEPT ![o] = "unlink"]
  /\ UNCHANGED <<claimVars, dirVars, workVars, timeVars>>

(* Mutant: the record is released as soon as the worker has been spawned. *)
SpawnWorkerAndRelease(o) ==
  /\ pc[o] = "setup"
  /\ group' = [group EXCEPT ![o] = "running"]
  /\ Goto(o, "end")
  /\ rel' = [rel EXCEPT ![o] = "unlink"]
  /\ mem' = [mem EXCEPT ![home[o]] = None]
  /\ UNCHANGED <<claimVars, dirVars, killed, sup, timeVars>>

SpawnWorker(o) ==
  /\ pc[o] = "setup"
  /\ group' = [group EXCEPT ![o] = "running"]
  /\ Goto(o, "tmp")
  /\ UNCHANGED <<mem, rel, claimVars, dirVars, killed, sup, timeVars>>

(* writePdfImportLock: temporary record, ownership check, rename.           *)
WriteTmp(o) ==
  /\ pc[o] = "tmp"
  /\ IF kind["lock"] = "dir"
     THEN /\ tmp' = tmp \cup {o}
          /\ aged' = aged \ {"lock"}
          /\ Goto(o, "check")
     ELSE /\ Goto(o, "kill")
          /\ UNCHANGED <<tmp, aged>>
  /\ UNCHANGED <<mem, rel, claimVars, kind, json, workVars, timeVars>>

CheckOwner(o) ==
  /\ pc[o] = "check"
  /\ Goto(o, IF ReadLock("lock") = o THEN "rename" ELSE "dropTmp")
  /\ UNCHANGED <<mem, rel, claimVars, dirVars, workVars, timeVars>>

RenameTmp(o) ==
  /\ pc[o] = "rename"
  /\ IF o \in tmp
     THEN /\ tmp' = tmp \ {o}
          /\ PutRecord("lock", o, "pid")
          /\ Goto(o, "transfer")
     ELSE /\ Goto(o, "kill")
          /\ UNCHANGED <<tmp, json, aged>>
  /\ UNCHANGED <<mem, rel, claimVars, kind, workVars, timeVars>>

DropTmp(o) ==
  /\ pc[o] = "dropTmp"
  /\ IF o \in tmp
     THEN tmp' = tmp \ {o} /\ aged' = aged \ {"lock"}
     ELSE UNCHANGED <<tmp, aged>>
  /\ Goto(o, "kill")
  /\ UNCHANGED <<mem, rel, claimVars, kind, json, workVars, timeVars>>

-----------------------------------------------------------------------------
(* preparePdfImportChildSupervision.                                        *)

(* releaseAll: the symbol now, the lock directory in the background.        *)
ReleaseAll(o, s) ==
  IF s.transferred /\ ~s.released
  THEN /\ sup' = [sup EXCEPT ![o] = [s EXCEPT !.released = TRUE]]
       /\ mem' = [mem EXCEPT ![home[o]] = IF @ = o THEN None ELSE @]
       /\ rel' = [rel EXCEPT ![o] = "unlink"]
  ELSE /\ sup' = [sup EXCEPT ![o] = s]
       /\ UNCHANGED <<mem, rel>>

(* Mutant: no outer deadline is armed. *)
TransferNoDeadline(o) ==
  /\ pc[o] \in {"transfer", "kill"}
  /\ Goto(o, "end")
  /\ killed' = IF pc[o] = "kill" THEN killed \cup {o} ELSE killed
  /\ LET s == [sup[o] EXCEPT !.transferred = TRUE] IN
     IF s.settled /\ ~s.forceKill
     THEN ReleaseAll(o, s)
     ELSE sup' = [sup EXCEPT ![o] = s] /\ UNCHANGED <<mem, rel>>
  /\ UNCHANGED <<claimVars, dirVars, group, timeVars>>

(* The function it returns.  A failure after spawn sends SIGKILL first.     *)
Transfer(o) ==
  /\ pc[o] \in {"transfer", "kill"}
  /\ Goto(o, "end")
  /\ killed' = IF pc[o] = "kill" THEN killed \cup {o} ELSE killed
  /\ LET s == [sup[o] EXCEPT !.transferred = TRUE, !.deadline = ~sup[o].settled] IN
     IF s.settled /\ ~s.forceKill
     THEN ReleaseAll(o, s)
     ELSE /\ sup' = [sup EXCEPT ![o] = s]
          /\ UNCHANGED <<mem, rel>>
  /\ UNCHANGED <<claimVars, dirVars, group, timeVars>>

(* Mutant: the exit of the leader releases, whatever it leaves behind. *)
SettleLeaderOnly(o) ==
  /\ group[o] \in {"leaderless", "gone"} /\ Live(o) /\ ~sup[o].settled
  /\ LET s == [sup[o] EXCEPT !.settled = TRUE, !.deadline = FALSE] IN
     IF s.forceKill \/ s.poll
     THEN sup' = [sup EXCEPT ![o] = s] /\ UNCHANGED <<mem, rel>>
     ELSE ReleaseAll(o, s)
  /\ UNCHANGED <<pc, claimVars, dirVars, group, killed, timeVars>>

(* The exit event of the group leader. *)
Settle(o) ==
  /\ group[o] \in {"leaderless", "gone"}
  /\ Live(o)
  /\ ~sup[o].settled
  /\ LET s == [sup[o] EXCEPT !.settled = TRUE, !.deadline = FALSE] IN
     IF s.forceKill \/ s.poll
     THEN sup' = [sup EXCEPT ![o] = s] /\ UNCHANGED <<mem, rel>>
     ELSE IF Alive(o)
     THEN sup' = [sup EXCEPT ![o] = [s EXCEPT !.forceKill = TRUE]] /\ UNCHANGED <<mem, rel>>
     ELSE ReleaseAll(o, s)
  /\ UNCHANGED <<pc, claimVars, dirVars, group, killed, timeVars>>

(* PDF_IMPORT_OUTER_DEADLINE_MS: SIGTERM, and SIGKILL after the grace.      *)
DeadlineFires(o) ==
  /\ Live(o)
  /\ sup[o].deadline
  /\ sup' = [sup EXCEPT ![o] = [@ EXCEPT !.deadline = FALSE, !.forceKill = TRUE]]
  /\ UNCHANGED <<mem, pc, rel, claimVars, dirVars, group, killed, timeVars>>

(* Mutant: SIGKILL is trusted to have emptied the group. *)
ForceKillReleases(o) ==
  /\ Live(o) /\ sup[o].forceKill
  /\ pc[o] = "end" \/ "slow_record" \in Faults
  /\ killed' = killed \cup {o}
  /\ ReleaseAll(o, [sup[o] EXCEPT !.forceKill = FALSE])
  /\ UNCHANGED <<pc, claimVars, dirVars, group, timeVars>>

ForceKillFires(o) ==
  /\ Live(o)
  /\ sup[o].forceKill
  /\ pc[o] = "end" \/ "slow_record" \in Faults
  /\ killed' = killed \cup {o}
  /\ LET s == [sup[o] EXCEPT !.forceKill = FALSE] IN
     IF Alive(o)
     THEN sup' = [sup EXCEPT ![o] = [s EXCEPT !.poll = TRUE]] /\ UNCHANGED <<mem, rel>>
     ELSE ReleaseAll(o, s)
  /\ UNCHANGED <<pc, claimVars, dirVars, group, timeVars>>

PollFires(o) ==
  /\ Live(o)
  /\ sup[o].poll
  /\ ~Alive(o)
  /\ ReleaseAll(o, [sup[o] EXCEPT !.poll = FALSE])
  /\ UNCHANGED <<pc, claimVars, dirVars, group, killed, timeVars>>

(* releasePersistentPdfImportAdmission, one file-system call at a time.     *)
ReleaseUnlink(o) ==
  /\ rel[o] = "unlink"
  /\ IF json["lock"][o] # "none"
     THEN PutRecord("lock", o, "none") /\ rel' = [rel EXCEPT ![o] = "untmp"]
     ELSE rel' = [rel EXCEPT ![o] = "done"] /\ UNCHANGED <<json, aged>>
  /\ UNCHANGED <<mem, pc, claimVars, kind, tmp, workVars, timeVars>>

ReleaseTmp(o) ==
  /\ rel[o] = "untmp"
  /\ IF o \in tmp
     THEN tmp' = tmp \ {o} /\ aged' = aged \ {"lock"}
     ELSE UNCHANGED <<tmp, aged>>
  /\ rel' = [rel EXCEPT ![o] = "rmdir"]
  /\ UNCHANGED <<mem, pc, claimVars, kind, json, workVars, timeVars>>

ReleaseRmdir(o) ==
  /\ rel[o] = "rmdir"
  /\ kind' = [kind EXCEPT !["lock"] =
               IF @ = "dir" /\ Entries("lock") = {} THEN "absent" ELSE @]
  /\ rel' = [rel EXCEPT ![o] = "done"]
  /\ UNCHANGED <<mem, pc, claimVars, aged, json, tmp, workVars, timeVars>>

-----------------------------------------------------------------------------
(* The environment: workers, crashes of the Web process, and time.          *)

(* The group leader exits, with or without descendants left behind. *)
LeaderExits(o) ==
  /\ group[o] = "running"
  /\ \E g \in {"leaderless", "gone"} : group' = [group EXCEPT ![o] = g]
  /\ UNCHANGED <<mem, pc, rel, claimVars, dirVars, killed, sup, timeVars>>

DescendantsExit(o) ==
  /\ group[o] = "leaderless"
  /\ group' = [group EXCEPT ![o] = "gone"]
  /\ UNCHANGED <<mem, pc, rel, claimVars, dirVars, killed, sup, timeVars>>

(* The steps of a request that leave a directory without a complete record. *)
Working(o, p) ==
  \/ stage[o] = p /\ pc[o] \in {"open", "write", "abort", "untmp", "rmdir"}
  \/ p = "guard" /\ pc[o] = "unguardRmdir"
  \/ p = "lock" /\ (rel[o] \in {"untmp", "rmdir"} \/ pc[o] \in {"check", "rename", "dropTmp"})

Spawned(o) == pc[o] \in {"tmp", "check", "rename", "dropTmp", "kill"}

(* The Web process exits and may be restarted: its memory, its timers and   *)
(* its pending calls are gone; detached workers and directories stay.       *)
CrashWeb(w) ==
  LET lost == {o \in Owner : home[o] = w /\ Live(o)} IN
  /\ lost # {}
  /\ \A o \in lost : /\ Working(o, "guard") => "torn_guard" \in Faults
                     /\ Working(o, "lock") => "torn_lock" \in Faults
                     /\ Spawned(o) => "crash_spawn" \in Faults
  /\ crashed' = crashed \cup lost
  /\ mem' = [mem EXCEPT ![w] = None]
  /\ pc' = [o \in Owner |-> IF o \in lost THEN "end" ELSE pc[o]]
  /\ rel' = [o \in Owner |-> IF o \in lost THEN "done" ELSE rel[o]]
  /\ sup' = [o \in Owner |-> IF o \in lost THEN NoSupervision ELSE sup[o]]
  /\ UNCHANGED <<claimVars, dirVars, group, killed, expired>>

(* Two minutes after createdAt. *)
SetupExpires(o) ==
  /\ home[o] # None
  /\ o \notin expired
  /\ o \in crashed \/ "slow_setup" \in Faults
  /\ expired' = expired \cup {o}
  /\ UNCHANGED <<mem, pc, rel, claimVars, dirVars, workVars, crashed>>

(* Two minutes after the last change of a directory. *)
DirectoryAges(p) ==
  /\ kind[p] = "dir"
  /\ p \notin aged
  /\ "slow_setup" \in Faults \/ \A o \in Owner : ~Working(o, p)
  /\ aged' = aged \cup {p}
  /\ UNCHANGED <<mem, pc, rel, claimVars, kind, json, tmp, workVars, timeVars>>

-----------------------------------------------------------------------------
ClaimStep(o) ==
  \/ NotReady(o) \/ Mkdir(o) \/ OpenRecord(o) \/ WriteRecord(o) \/ AbortClaim(o)
  \/ ReadExisting(o) \/ ListRemnants(o) \/ UnlinkStale(o) \/ UnlinkStaleTmp(o)
  \/ RemoveStale(o) \/ UnlinkGuard(o) \/ RemoveGuard(o)

ImportStep(o) ==
  \/ RejectImport(o) \/ SpawnWorker(o) \/ WriteTmp(o) \/ CheckOwner(o)
  \/ RenameTmp(o) \/ DropTmp(o) \/ Transfer(o)

TimerStep(o)   == Settle(o) \/ DeadlineFires(o) \/ ForceKillFires(o) \/ PollFires(o)
ReleaseStep(o) == ReleaseUnlink(o) \/ ReleaseTmp(o) \/ ReleaseRmdir(o)
WorkerStep(o)  == LeaderExits(o) \/ DescendantsExit(o)

Next ==
  \/ \E w \in Web, o \in Owner : ClaimMemory(w, o)
  \/ \E o \in Owner : ClaimStep(o) \/ ImportStep(o) \/ TimerStep(o)
                        \/ ReleaseStep(o) \/ WorkerStep(o) \/ SetupExpires(o)
  \/ \E w \in Web : CrashWeb(w)
  \/ \E p \in Place : DirectoryAges(p)

Spec == Init /\ [][Next]_vars

(* Requests, timers and background calls of a running Web process get their *)
(* turn, a group dies of SIGKILL, and time passes.  Nothing forces a worker *)
(* to finish by itself, or a crashed Web process to come back.              *)
Fairness ==
  /\ \A o \in Owner :
       /\ WF_vars(ClaimStep(o)) /\ WF_vars(ImportStep(o)) /\ WF_vars(ReleaseStep(o))
       /\ WF_vars(Settle(o)) /\ WF_vars(DeadlineFires(o))
       /\ WF_vars(ForceKillFires(o)) /\ WF_vars(PollFires(o))
       /\ WF_vars(o \in killed /\ WorkerStep(o))
       /\ WF_vars(SetupExpires(o))
  /\ \A p \in Place : WF_vars(DirectoryAges(p))

FairSpec == Spec /\ Fairness

-----------------------------------------------------------------------------
(* Properties.                                                              *)

(* Every variable has its type. *)
TypeOK ==
  /\ mem \in [Web -> Owner \cup {None}]
  /\ home \in [Owner -> Web \cup {None}]
  /\ pc \in [Owner -> PC]
  /\ stage \in [Owner -> Place]
  /\ tries \in [Owner -> Nat]
  /\ seen \in [Owner -> Owner \cup {None}]
  /\ granted \in [Owner -> BOOLEAN]
  /\ kind \in [Place -> {"absent", "dir", "file"}]
  /\ aged \subseteq Place
  /\ json \in [Place -> [Owner -> Record]]
  /\ tmp \subseteq Owner
  /\ expired \subseteq Owner
  /\ crashed \subseteq Owner
  /\ group \in [Owner -> {"none", "running", "leaderless", "gone"}]
  /\ killed \subseteq Owner
  /\ sup \in [Owner -> Supervision]
  /\ rel \in [Owner -> {"no", "unlink", "untmp", "rmdir", "done"}]

(* docs/pdf-pipeline.md: the route "admits one PDF import at a time through  *)
(* a process-persistent lock": two imports never have live process groups.   *)
OneImportAtATime == \A a, b \in Owner : Alive(a) /\ Alive(b) => a = b

(* route.ts, the catch after spawn: admission is not released before every   *)
(* process of the detached import group has exited.                          *)
ReleaseAfterGroupExit ==
  [][\A o \in Owner : rel[o] = "no" /\ rel'[o] = "unlink" => ~Alive(o)]_rel

(* An admission stays recorded from its grant to its own release, whatever   *)
(* the other Web processes reclaim meanwhile, unless its worker is gone.     *)
AdmissionKept ==
  \A o \in Owner : granted[o] /\ o \notin crashed /\ rel[o] = "no" /\ group[o] # "gone"
                    => kind["lock"] = "dir" /\ json["lock"][o] # "none"

(* The guard serializes claims: one live request inspects the lock.          *)
InLockClaim(o) ==
  Live(o) /\ stage[o] = "lock"
  /\ pc[o] \in {"mkdir", "open", "write", "abort", "read", "unlink", "untmp", "rmdir", "unguard"}
GuardExclusive == \A a, b \in Owner : InLockClaim(a) /\ InLockClaim(b) => a = b

(* inspect_pdf_import of pdf_import_status.py, and what `papertrans status`  *)
(* concludes from it.                                                        *)
ImportState ==
  LET o == ReadLock("lock") IN
  CASE kind["lock"] = "absent"                      -> "idle"
    [] kind["lock"] = "file"                        -> "stale"
    [] kind["lock"] = "dir" /\ o = None             -> IF "lock" \in aged THEN "stale" ELSE "unknown"
    [] kind["lock"] = "dir" /\ o # None /\ json["lock"][o] = "setup"
                                                    -> IF o \in expired THEN "stale" ELSE "starting"
    [] OTHER                                        -> IF Alive(o) THEN "running" ELSE "stale"

(* docs/local-data-lifecycle.md: `stale` means the worker has exited (and so *)
(* does `idle`): artifacts are only called safe when no worker is alive.     *)
StatusIsTruthful == ImportState \in {"idle", "stale"} => \A o \in Owner : ~Alive(o)

(* Every admission ends: a rejected request, a worker that exits, one that   *)
(* wedges past the deadline and one whose pid could not be recorded all lead *)
(* to the removal of the record and of the in-process symbol.                *)
AdmissionEnds ==
  \A o \in Owner : granted[o] ~> \/ o \in crashed
                                  \/ /\ json["lock"][o] = "none"
                                     /\ \A w \in Web : mem[w] # o

(* No live Web process leaves a worker of its own to run unbounded: once the *)
(* request is over a timer is armed for as long as the group lives, even if  *)
(* the admission was reclaimed by another process meanwhile.                 *)
WorkerSupervised ==
  \A o \in Owner : Alive(o) /\ Live(o) /\ pc[o] = "end"
                    => sup[o].deadline \/ sup[o].forceKill \/ sup[o].poll

(* What a crash leaves behind does not block imports for ever: once nobody   *)
(* uses the directory it becomes removable by the next claim.                *)
Abandoned(p) ==
  /\ kind[p] = "dir"
  /\ \A o \in Owner : ~Alive(o) /\ (Live(o) => pc[o] = "end" /\ rel[o] \in {"no", "done"})
LeftoverReclaimable ==
  \A p \in Place : Abandoned(p) ~> (~Excluded(p) \/ ~Abandoned(p))

(* admission.ts: "UUID-named remnants cannot select a record belonging to a  *)
(* replacement owner": what a claim removes excludes nobody any more.  The    *)
(* code does not keep this with "torn_guard" among the Faults.               *)
RemnantRemovalHarmless ==
  [][\A o \in Owner : pc[o] = "unlink" /\ pc'[o] = "untmp" =>
       \A p \in Place, a \in Owner :
          json[p][a] \in {"setup", "pid"} /\ RecordIsActive(p, a)
            => json'[p][a] = json[p][a]]_<<pc, json>>

(* The promise of SingleImport, with the complete record in "lock" as the    *)
(* holder and the live process group as the worker.                          *)
OneOf(S) == IF S = {} THEN None ELSE CHOOSE o \in S : TRUE
Single == INSTANCE SingleImport WITH
  holder   <- OneOf({o \in Owner : json["lock"][o] \in {"setup", "pid"}}),
  worker   <- OneOf({o \in Owner : Alive(o)}),
  admitted <- {o \in Owner : granted[o]},
  started  <- {o \in Owner : group[o] # "none"}

(* The two directories, the symbol and the supervision closures together     *)
(* implement the single-import promise.                                      *)
ImplementsSingleImport == Single!ASpec
=============================================================================
